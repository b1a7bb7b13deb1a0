----------------------------- MODULE InputCalls ----------------------------
(***************************************************************************)
(* One call after another of the functions that look at a request alone:   *)
(* the gray-scale switch, the decryption and the batch queries.  They keep *)
(* no state, so the state is the call being answered, or none.             *)
(***************************************************************************)
EXTENDS GrayScale, Decryption, BatchQuery, SequencesExt

CONSTANTS
    Config,         \* gray-scale configurations
    Code,           \* code points of tracking numbers
    MaxCodes,       \* bound: code points of a number
    Channel,        \* channels
    Payload,        \* encrypted payloads: base64, size, plain
    KeyLen,         \* lengths of the configured key
    Number,         \* numbers asked for in a batch
    MaxAsked        \* bound: numbers in a batch

ASSUME ConfigAssumption == Code \subseteq Nat /\ \A c \in Config : c.Percentage \in Int

ASSUME PayloadAssumption ==
    \A p \in Payload : /\ p.base64 \in BOOLEAN /\ p.size \in Nat
                       /\ p.plain \in Seq(Byte)
                       /\ p.size >= BlockSize => Len(p.plain) = p.size - BlockSize

VARIABLE call

NoCall == [fn |-> "none"]

Init == call = NoCall

\* config.ShouldProcessByGo, as a caller would use it.
Switch(c, n, ch) ==
    /\ call = NoCall
    /\ call' = [fn |-> "ShouldProcessByGo", config |-> c, number |-> n, channel |-> ch,
                answer |-> ShouldProcessByGo(c, n, ch)]

Decrypt(p, k) ==
    /\ call = NoCall
    /\ call' = [fn |-> "DecryptPayload", payload |-> p, keyLen |-> k,
                answer |-> DecryptPayload(p, k)]

\* AdminBatchQueryHandler with a body that httpx.Parse accepts.
AdminBatchQueryHandler(asked, spare, limit) ==
    /\ call = NoCall
    /\ call' = [fn |-> "AdminBatchQuery", asked |-> asked, limit |-> limit,
                answer |-> AdminBatchQuery(asked, spare, limit)]

\* PublicBatchQueryHandler with a body that httpx.Parse accepts.
PublicBatchQueryHandler(asked) ==
    /\ call = NoCall
    /\ call' = [fn |-> "PublicBatchQuery", asked |-> asked, answer |-> PublicBatchQuery(asked)]

\* The caller has its answer.
Return == call # NoCall /\ call' = NoCall

Next ==
    \/ Return
    \/ \E c \in Config, n \in BoundedSeq(Code, MaxCodes), ch \in Channel : Switch(c, n, ch)
    \/ \E p \in Payload, k \in KeyLen : Decrypt(p, k)
    \/ \E asked \in BoundedSeq(Number, MaxAsked) :
          \/ \E spare \in 0..Len(asked), limit \in -1 .. AdminMax + 1 :
                AdminBatchQueryHandler(asked, spare, limit)
          \/ PublicBatchQueryHandler(asked)

Spec == Init /\ [][Next]_call

-----------------------------------------------------------------------------
\* Widening the configuration never takes a waybill away from Go: one that
\* 10% send to Go stays there at 30, 50 and 100%.
RolloutIsMonotone ==
    call.fn = "ShouldProcessByGo" /\ call.answer =>
        \A d \in Config : Widens(call.config, d) => ShouldProcessByGo(d, call.number, call.channel)

\* The percentage is the share it promises: whatever a number begins with, as
\* many of a hundred consecutive endings go to Go, none at 0 or below and all
\* at 100 or above.
RolloutShare ==
    call.fn = "ShouldProcessByGo"
    /\ call.config.Enabled
    /\ call.channel \notin call.config.EnabledChannels
    /\ call.config.EnabledTrackingNumbers = {}
    => Cardinality(GoEndings(call.config, call.number, call.channel)) =
       EffectivePercentage(call.config)

\* A payload that reaches the cipher opens as text exactly when its plaintext
\* is that text with its PKCS7 padding: what was padded opens, and nothing
\* else does.
OpensWhatWasPadded ==
    call.fn = "DecryptPayload" =>
        \A n \in 0 .. Len(call.payload.plain) :
            LET text == SubSeq(call.payload.plain, 1, n)
            IN  call.answer = [error |-> "none", text |-> text]
                <=> /\ Readable(call.payload, call.keyLen)
                    /\ call.payload.plain = pkcs7Pad(text, BlockSize)

\* An answered batch begins with the numbers asked for, in their order; what
\* the admin query adds behind them is blank, and the public query adds nothing.
\* The admin query answers at most as many as the caller's limit, if that is
\* positive, and at most AdminMax, and leaves numbers out only because of these.
BatchInOrder ==
    call.fn \in {"AdminBatchQuery", "PublicBatchQuery"} /\ call.answer.code = 200 =>
        LET answered == call.answer.numbers
        IN  /\ \A i \in DOMAIN answered :
                  answered[i] = IF i <= Len(call.asked) THEN call.asked[i] ELSE Blank
            /\ call.fn = "AdminBatchQuery" =>
                  /\ Len(answered) <= AdminMax
                  /\ call.limit > 0 => Len(answered) <= call.limit
                  /\ Len(answered) < Len(call.asked) =>
                        \/ Len(answered) = AdminMax
                        \/ call.limit > 0 /\ Len(answered) = call.limit
            /\ call.fn = "PublicBatchQuery" => Len(answered) = Len(call.asked)

\* limit bounds how many numbers are returned: a batch is answered with the
\* first of its numbers, as many as there are up to the limit.
AdminBatchAnswersAsked ==
    call.fn = "AdminBatchQuery" /\ call.asked # <<>> =>
        LET n == IF AdminLimit(call.limit) < Len(call.asked)
                 THEN AdminLimit(call.limit) ELSE Len(call.asked)
        IN  call.answer = [code |-> 200, numbers |-> SubSeq(call.asked, 1, n)]
=============================================================================
