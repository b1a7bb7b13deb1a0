------------------------- MODULE InputCallsProofs --------------------------
(***************************************************************************)
(* Decryption for payloads of every length: the removal of the padding is  *)
(* the exact inverse of adding it.  The rollout for numbers of every       *)
(* length: the hash of a number is the last one of a sequence that each    *)
(* further code point permutes.  The batches for any limits.               *)
(***************************************************************************)
EXTENDS InputCalls, FiniteSetTheorems, SequenceTheorems, WellFoundedInduction, TLAPS

\* A remainder, and how much padding completes whole blocks.
LEMMA RemainderRange ==
    ASSUME NEW n \in Nat
    PROVE  n % 16 \in 0..15 /\ 16 - (n % 16) \in 1..16
BY SMT

\* Taking q bytes of padding off whole blocks leaves a text that needs q again.
LEMMA PaddingIsUnique ==
    ASSUME NEW m \in Nat, m % 16 = 0, NEW q \in 1..16, q <= m
    PROVE  16 - ((m - q) % 16) = q
BY SMT

\* Whole blocks are none, or at least one.
LEMMA WholeBlocks ==
    ASSUME NEW m \in Nat, m % 16 = 0, m # 0
    PROVE  m >= 16
BY SMT

\* A sequence of bytes and its prefixes.
LEMMA PrefixFacts ==
    ASSUME NEW data \in Seq(Byte), NEW n \in 0 .. Len(data)
    PROVE  /\ Len(data) \in Nat /\ n \in Nat
           /\ SubSeq(data, 1, n) \in Seq(Byte)
           /\ Len(SubSeq(data, 1, n)) = n
           /\ \A i \in 1..n : SubSeq(data, 1, n)[i] = data[i]
BY SMT

\* A sequence is the function of its elements.
LEMMA SeqFacts ==
    ASSUME NEW data \in Seq(Byte)
    PROVE  /\ data = [i \in 1 .. Len(data) |-> data[i]]
           /\ data # <<>> => Len(data) # 0 /\ data[Len(data)] \in 0..255
<1>1. data = [i \in 1 .. Len(data) |-> data[i]]
  BY SMT
<1>2. data # <<>> => Len(data) # 0 /\ data[Len(data)] \in Byte
  BY SMT
<1>3. QED
  BY <1>1, <1>2 DEF Byte

\* Padding opens to the text it was added to.
LEMMA PaddedOpens ==
    ASSUME NEW data \in Seq(Byte), NEW n \in 0 .. Len(data),
           data = pkcs7Pad(SubSeq(data, 1, n), 16)
    PROVE  pkcs7Unpad(data, 16) = [error |-> "none", text |-> SubSeq(data, 1, n)]
<1>1. /\ n \in Nat /\ Len(data) \in Nat
      /\ Len(SubSeq(data, 1, n)) = n
  BY PrefixFacts
<1>2. PICK p \in 1..16 : p = 16 - (n % 16)
  BY <1>1, RemainderRange
<1>3. data = [i \in 1 .. n + p |-> IF i <= n THEN SubSeq(data, 1, n)[i] ELSE p]
  BY <1>1, <1>2 DEF pkcs7Pad
<1>4. Len(data) = n + p /\ data # <<>> /\ \A i \in n + 1 .. n + p : data[i] = p
  <2>1. ASSUME NEW t, data = [i \in 1 .. n + p |-> IF i <= n THEN t[i] ELSE p]
        PROVE  Len(data) = n + p /\ data # <<>> /\ \A i \in n + 1 .. n + p : data[i] = p
    BY <1>1, <2>1, SMT
  <2>2. QED
    BY <1>3, <2>1
<1>5. n + p \in n + 1 .. n + p /\ (n + p) - p = n
  BY <1>1, SMT
<1>6. data[Len(data)] = p /\ Len(data) - data[Len(data)] = n
  BY <1>4, <1>5
<1>7. ~\E i \in Len(data) - data[Len(data)] + 1 .. Len(data) : data[i] # data[Len(data)]
  BY <1>4, <1>6
<1>8. ~(data[Len(data)] <= 0 \/ data[Len(data)] > 16)
  <2>1. ~(p <= 0 \/ p > 16)
    BY SMT
  <2>2. QED
    BY <1>6, <2>1
<1>9. QED
  BY <1>4, <1>6, <1>7, <1>8 DEF pkcs7Unpad

\* What opens was padded: whole blocks admit only one number of padding bytes.
LEMMA OpenedWasPadded ==
    ASSUME NEW data \in Seq(Byte), Len(data) % 16 = 0, NEW n \in 0 .. Len(data),
           pkcs7Unpad(data, 16) = [error |-> "none", text |-> SubSeq(data, 1, n)]
    PROVE  data = pkcs7Pad(SubSeq(data, 1, n), 16)
<1>1. /\ n \in Nat /\ Len(data) \in Nat
      /\ Len(SubSeq(data, 1, n)) = n
      /\ \A i \in 1..n : SubSeq(data, 1, n)[i] = data[i]
  BY PrefixFacts
<1>2. pkcs7Unpad(data, 16).error = "none" /\ \A why : Failed(why).error = why
  BY DEF Failed
<1>3. /\ data # <<>> /\ ~(data[Len(data)] <= 0 \/ data[Len(data)] > 16)
      /\ ~\E i \in Len(data) - data[Len(data)] + 1 .. Len(data) : data[i] # data[Len(data)]
  BY <1>2 DEF pkcs7Unpad
<1>4. SubSeq(data, 1, n) = SubSeq(data, 1, Len(data) - data[Len(data)])
  <2>1. pkcs7Unpad(data, 16) =
           [error |-> "none", text |-> SubSeq(data, 1, Len(data) - data[Len(data)])]
    BY <1>3 DEF pkcs7Unpad
  <2>2. pkcs7Unpad(data, 16).text = SubSeq(data, 1, Len(data) - data[Len(data)])
    BY <2>1
  <2>3. pkcs7Unpad(data, 16).text = SubSeq(data, 1, n)
    OBVIOUS
  <2>4. QED
    BY <2>2, <2>3
<1>5. PICK q \in 1..16 : q = data[Len(data)]
  <2>1. data[Len(data)] \in 0..255
    BY <1>3, SeqFacts
  <2>2. \A b \in 0..255 : ~(b <= 0 \/ b > 16) => b \in 1..16
    BY SMT
  <2>3. QED
    BY <1>3, <2>1, <2>2
<1>6. q <= Len(data) /\ Len(data) - q \in 0 .. Len(data)
  <2>1. Len(data) >= 16
    BY <1>3, SeqFacts, WholeBlocks
  <2>2. QED
    BY <1>1, <2>1, SMT
<1>7. n = Len(data) - q
  BY <1>1, <1>4, <1>5, <1>6, PrefixFacts
<1>8. 16 - (n % 16) = q
  BY <1>1, <1>6, <1>7, PaddingIsUnique
<1>9. n + q = Len(data)
  BY <1>1, <1>7, SMT
<1>10. pkcs7Pad(SubSeq(data, 1, n), 16) =
          [i \in 1 .. Len(data) |-> IF i <= n THEN SubSeq(data, 1, n)[i] ELSE q]
  BY <1>1, <1>8, <1>9 DEF pkcs7Pad
<1>11. ASSUME NEW i \in 1 .. Len(data)
       PROVE  data[i] = IF i <= n THEN SubSeq(data, 1, n)[i] ELSE q
  <2>1. (i <= n => i \in 1..n) /\ (~(i <= n) => i \in Len(data) - q + 1 .. Len(data))
    BY <1>1, <1>7, SMT
  <2>2. QED
    BY <1>1, <1>3, <1>5, <2>1
<1>12. data = [i \in 1 .. Len(data) |-> data[i]]
  BY SeqFacts
<1>13. QED
  BY <1>10, <1>11, <1>12

\* A call being answered carries what DecryptPayload returned for it.
DecryptAnswered ==
    call.fn = "DecryptPayload" =>
        /\ call.payload \in Payload
        /\ call.answer = DecryptPayload(call.payload, call.keyLen)

\* The answer of DecryptPayload is the text exactly when the plaintext is its padding.
LEMMA DecryptOpens ==
    ASSUME DecryptAnswered
    PROVE  OpensWhatWasPadded
<1> SUFFICES ASSUME call.fn = "DecryptPayload", NEW n \in 0 .. Len(call.payload.plain)
             PROVE  call.answer = [error |-> "none", text |-> SubSeq(call.payload.plain, 1, n)]
                    <=> /\ Readable(call.payload, call.keyLen)
                        /\ call.payload.plain = pkcs7Pad(SubSeq(call.payload.plain, 1, n), BlockSize)
  BY DEF OpensWhatWasPadded
<1> DEFINE data == call.payload.plain
           text == SubSeq(data, 1, n)
<1>1. /\ call.payload.base64 \in BOOLEAN /\ call.payload.size \in Nat
      /\ data \in Seq(Byte)
      /\ call.payload.size >= BlockSize => Len(data) = call.payload.size - BlockSize
      /\ call.answer = DecryptPayload(call.payload, call.keyLen)
  BY PayloadAssumption DEF DecryptAnswered
<1>2. CASE ~Readable(call.payload, call.keyLen)
  <2>1. \E why \in {"key", "base64", "short", "blocks"} : call.answer = Failed(why)
    BY <1>1, <1>2, SMT DEF DecryptPayload, Readable, BlockSize
  <2>2. call.answer.error # "none"
    BY <2>1 DEF Failed
  <2>3. QED
    BY <1>2, <2>2
<1>3. CASE Readable(call.payload, call.keyLen)
  <2>1. call.answer = pkcs7Unpad(data, 16)
    BY <1>1, <1>3, SMT DEF DecryptPayload, Readable, BlockSize
  <2>2. Len(data) % 16 = 0
    <3>1. Len(data) = call.payload.size - 16 /\ (call.payload.size - 16) % 16 = 0
      BY <1>1, <1>3 DEF Readable, BlockSize
    <3>2. QED
      BY <3>1
  <2>3. call.answer = [error |-> "none", text |-> text] => data = pkcs7Pad(text, 16)
    BY <1>1, <2>1, <2>2, OpenedWasPadded
  <2>4. data = pkcs7Pad(text, 16) => call.answer = [error |-> "none", text |-> text]
    BY <1>1, <2>1, PaddedOpens
  <2>5. QED
    BY <1>3, <2>3, <2>4 DEF BlockSize
<1>4. QED
  BY <1>2, <1>3

\* Every padded text opens as itself, whatever its length and its bytes, and no
\* payload with any other padding opens.
THEOREM OpensWhatWasPaddedCorrect == Spec => []OpensWhatWasPadded
<1>1. Init => DecryptAnswered
  BY DEF Init, NoCall, DecryptAnswered
<1>2. DecryptAnswered /\ [Next]_call => DecryptAnswered'
  BY DEF DecryptAnswered, Next, Switch, Decrypt, AdminBatchQueryHandler,
     PublicBatchQueryHandler, Return, NoCall
<1>3. DecryptAnswered => OpensWhatWasPadded
  BY DecryptOpens
<1>4. QED
  BY <1>1, <1>2, <1>3, PTL DEF Spec

(***************************************************************************)
(* The rollout                                                             *)
(***************************************************************************)

\* A set of lengths that holds 0 and with each length the next one holds all
\* up to n: without it there is a least length missing, as the intervals up
\* to the missing ones are well-founded by inclusion.
LEMMA LengthInduction ==
    ASSUME NEW n \in Nat, NEW I, 0 \in I, \A i \in 0 .. n - 1 : i \in I => i + 1 \in I
    PROVE  \A i \in 0 .. n : i \in I
<1> SUFFICES ASSUME NEW j \in 0 .. n, j \notin I
             PROVE  FALSE
  OBVIOUS
<1> DEFINE Missing == {i \in 0 .. n : i \notin I}
           T == {0 .. i : i \in Missing}
<1>1. IsWellFoundedOn(StrictSubsetOrdering(0 .. n), SUBSET (0 .. n))
  <2>1. IsFiniteSet(0 .. n)
    BY FS_Interval
  <2>2. QED
    BY <2>1, FS_StrictSubsetOrderingWellFounded, FS_FiniteSubsetsOfFinite
<1>2. T \subseteq SUBSET (0 .. n) /\ T # {}
  OBVIOUS
<1>3. PICK U \in T : \A V \in T : <<V, U>> \notin StrictSubsetOrdering(0 .. n)
  <2> HIDE DEF T
  <2>1. QED
    BY <1>1, <1>2, WFMin
<1>4. PICK f \in Missing : U = 0 .. f
  OBVIOUS
<1>5. f \in 0 .. n /\ f \notin I /\ f # 0
  OBVIOUS
<1>6. f - 1 \in 0 .. n - 1 /\ f - 1 \in 0 .. n /\ (f - 1) + 1 = f
  BY <1>5
<1>7. f - 1 \in Missing
  BY <1>5, <1>6
<1>8. 0 .. (f - 1) \subseteq 0 .. f /\ f \in 0 .. f /\ f \notin 0 .. (f - 1)
  BY <1>5, <1>6
<1>9. 0 .. (f - 1) \in T /\ 0 .. (f - 1) \in SUBSET (0 .. n) /\ 0 .. f \in SUBSET (0 .. n)
  BY <1>5, <1>6, <1>7
<1>10. <<0 .. (f - 1), 0 .. f>> \in StrictSubsetOrdering(0 .. n)
  BY <1>8, <1>9 DEF StrictSubsetOrdering
<1>11. QED
  BY <1>3, <1>4, <1>9, <1>10

\* hash[i] is the hash of the first i code points of the number.
Hashes(hash, number, n) ==
    /\ hash \in [0 .. n -> 0 .. 99]
    /\ hash = [i \in 0 .. n |-> IF i = 0 THEN 0 ELSE (hash[i - 1] * 31 + number[i]) % 100]

\* The remainder of the next step is a hash again.
LEMMA HashRange ==
    ASSUME NEW h \in 0 .. 99, NEW c \in Nat
    PROVE  (h * 31 + c) % 100 \in 0 .. 99
BY SMT

\* The loop has a hash for every prefix.
LEMMA HashesExist ==
    ASSUME NEW number \in Seq(Nat)
    PROVE  \E hash : Hashes(hash, number, Len(number))
<1> DEFINE I == {n \in 0 .. Len(number) : \E hash : Hashes(hash, number, n)}
<1>1. 0 \in I
  <2> DEFINE hash == [i \in 0 .. 0 |-> 0]
  <2>1. Hashes(hash, number, 0)
    BY DEF Hashes
  <2> HIDE DEF hash
  <2>2. QED
    BY <2>1
<1>2. ASSUME NEW n \in 0 .. Len(number) - 1, n \in I
      PROVE  n + 1 \in I
  <2>1. PICK hash : Hashes(hash, number, n)
    BY <1>2
  <2>2. n + 1 \in 1 .. Len(number) /\ number[n + 1] \in Nat
    OBVIOUS
  <2> DEFINE next == (hash[n] * 31 + number[n + 1]) % 100
             longer == [i \in 0 .. n + 1 |-> IF i = n + 1 THEN next ELSE hash[i]]
  <2>3. next \in 0 .. 99
    <3>1. hash[n] \in 0 .. 99
      BY <2>1 DEF Hashes
    <3>2. QED
      BY <2>2, <3>1, HashRange
  <2>4. ASSUME NEW i \in 0 .. n + 1
        PROVE  longer[i] = IF i = 0 THEN 0 ELSE (longer[i - 1] * 31 + number[i]) % 100
    <3>1. CASE i = n + 1
      BY <3>1
    <3>2. CASE i \in 0 .. n
      <4>1. hash[i] = IF i = 0 THEN 0 ELSE (hash[i - 1] * 31 + number[i]) % 100
        BY <2>1, <3>2 DEF Hashes
      <4>2. longer[i] = hash[i] /\ (i # 0 => longer[i - 1] = hash[i - 1])
        BY <3>2
      <4>3. QED
        BY <4>1, <4>2
    <3>3. QED
      BY <3>1, <3>2
  <2>5. longer \in [0 .. n + 1 -> 0 .. 99]
    <3> HIDE DEF next
    <3>1. \A i \in 0 .. n : hash[i] \in 0 .. 99
      BY <2>1 DEF Hashes
    <3>2. QED
      BY <2>3, <3>1
  <2>6. longer = [i \in 0 .. n + 1 |-> longer[i]]
    OBVIOUS
  <2> HIDE DEF longer
  <2>7. Hashes(longer, number, n + 1)
    BY <2>4, <2>5, <2>6 DEF Hashes
  <2>8. QED
    BY <2>2, <2>7
<1>3. Len(number) \in Nat /\ Len(number) \in 0 .. Len(number)
  OBVIOUS
<1> HIDE DEF I
<1>4. \A n \in 0 .. Len(number) : n \in I
  BY <1>1, <1>2, <1>3, LengthInduction
<1>5. QED
  BY <1>3, <1>4 DEF I

SamePrefix(number, longer, n) == \A i \in 1 .. n : number[i] = longer[i]

\* The hash of a prefix depends on that prefix only.
LEMMA HashesAgree ==
    ASSUME NEW number, NEW longer, NEW m \in Nat, NEW n \in Nat, n <= m,
           SamePrefix(number, longer, n),
           NEW g, Hashes(g, number, n), NEW h, Hashes(h, longer, m)
    PROVE  g[n] = h[n]
<1> DEFINE I == {i \in 0 .. n : g[i] = h[i]}
<1>0. /\ \A i \in 0 .. n : g[i] = IF i = 0 THEN 0 ELSE (g[i - 1] * 31 + number[i]) % 100
      /\ \A i \in 0 .. n : h[i] = IF i = 0 THEN 0 ELSE (h[i - 1] * 31 + longer[i]) % 100
  <2>1. 0 .. n \subseteq 0 .. m
    OBVIOUS
  <2>2. QED
    BY <2>1 DEF Hashes
<1>1. 0 \in I
  BY <1>0
<1>2. ASSUME NEW i \in 0 .. n - 1, i \in I
      PROVE  i + 1 \in I
  <2>1. i + 1 \in 1 .. n /\ i + 1 \in 0 .. n /\ i + 1 # 0 /\ (i + 1) - 1 = i
    OBVIOUS
  <2>2. number[i + 1] = longer[i + 1]
    BY <2>1 DEF SamePrefix
  <2>3. g[i + 1] = (g[i] * 31 + number[i + 1]) % 100 /\ h[i + 1] = (h[i] * 31 + longer[i + 1]) % 100
    BY <1>0, <2>1
  <2>4. g[i] = h[i]
    BY <1>2
  <2>5. QED
    BY <2>1, <2>2, <2>3, <2>4
<1> HIDE DEF I
<1>3. \A i \in 0 .. n : i \in I
  BY <1>1, <1>2, LengthInduction
<1>4. QED
  BY <1>3 DEF I

\* hashTrackingNumber is the last of the hashes.
LEMMA HashIsLast ==
    ASSUME NEW number \in Seq(Nat)
    PROVE  \E hash : /\ Hashes(hash, number, Len(number))
                     /\ hashTrackingNumber(number) = hash[Len(number)]
<1> DEFINE Loop(h) == [i \in 0 .. Len(number) |->
                         IF i = 0 THEN 0 ELSE (h[i - 1] * 31 + number[i]) % 100]
           chosen == CHOOSE h : h = Loop(h)
<1>1. PICK g : Hashes(g, number, Len(number))
  BY HashesExist
<1>2. g = Loop(g)
  BY <1>1 DEF Hashes
<1>3. hashTrackingNumber(number) = chosen[Len(number)]
  BY DEF hashTrackingNumber
<1>4. chosen = Loop(chosen)
  <2> HIDE DEF Loop
  <2>1. QED
    BY <1>2
<1>5. Hashes(chosen, number, Len(number))
  <2>1. \A i \in 0 .. Len(number) :
           chosen[i] = IF i = 0 THEN 0 ELSE (chosen[i - 1] * 31 + number[i]) % 100
    <3> HIDE DEF chosen
    <3>1. QED
      BY <1>4
  <2> DEFINE I == {i \in 0 .. Len(number) : chosen[i] \in 0 .. 99}
  <2> HIDE DEF chosen
  <2>2. 0 \in I
    <3>1. 0 \in 0 .. Len(number)
      OBVIOUS
    <3>2. chosen[0] = 0
      BY <2>1, <3>1
    <3>3. QED
      BY <3>1, <3>2
  <2>3. ASSUME NEW i \in 0 .. Len(number) - 1, i \in I
        PROVE  i + 1 \in I
    <3>1. /\ i + 1 \in 0 .. Len(number) /\ i + 1 # 0 /\ (i + 1) - 1 = i
          /\ number[i + 1] \in Nat
      OBVIOUS
    <3>2. chosen[i] \in 0 .. 99
      BY <2>3
    <3>3. chosen[i + 1] = (chosen[i] * 31 + number[i + 1]) % 100
      BY <2>1, <3>1
    <3>4. chosen[i + 1] \in 0 .. 99
      BY <3>1, <3>2, <3>3, HashRange
    <3>5. QED
      BY <3>1, <3>4
  <2> HIDE DEF I
  <2>4. Len(number) \in Nat
    OBVIOUS
  <2>5. \A i \in 0 .. Len(number) : i \in I
    BY <2>2, <2>3, <2>4, LengthInduction
  <2>6. QED
    BY <1>4, <2>5 DEF I, Hashes
<1>6. QED
  BY <1>3, <1>5

\* A further code point c takes the hash h of a number to (31h + c) % 100.
LEMMA HashOfLonger ==
    ASSUME NEW number \in Seq(Nat), NEW c \in Nat
    PROVE  /\ hashTrackingNumber(number) \in 0 .. 99
           /\ hashTrackingNumber(Append(number, c)) = (hashTrackingNumber(number) * 31 + c) % 100
<1> DEFINE n == Len(number)
           longer == Append(number, c)
<1>1. /\ n \in Nat /\ longer \in Seq(Nat) /\ Len(longer) = n + 1
      /\ longer[n + 1] = c /\ \A i \in 1 .. n : number[i] = longer[i]
  OBVIOUS
<1>2. PICK g : Hashes(g, number, n) /\ hashTrackingNumber(number) = g[n]
  BY HashIsLast
<1>3. PICK h : Hashes(h, longer, n + 1) /\ hashTrackingNumber(longer) = h[n + 1]
  <2> HIDE DEF longer, n
  <2>1. QED
    BY <1>1, HashIsLast
<1> HIDE DEF longer, n
<1>4. n + 1 \in Nat /\ n <= n + 1 /\ n \in 0 .. n
  BY <1>1
<1>5. g[n] = h[n] /\ g[n] \in 0 .. 99
  <2>1. g[n] = h[n]
    <3>1. SamePrefix(number, longer, n)
      BY <1>1 DEF SamePrefix
    <3>2. Hashes(g, number, n) /\ Hashes(h, longer, n + 1)
      BY <1>2, <1>3
    <3>3. n \in Nat /\ n + 1 \in Nat /\ n <= n + 1
      BY <1>1, <1>4
    <3>4. QED
      BY ONLY <3>1, <3>2, <3>3, HashesAgree
  <2>2. g \in [0 .. n -> 0 .. 99]
    BY <1>2 DEF Hashes
  <2>3. QED
    BY <1>4, <2>1, <2>2
<1>6. h[n + 1] = (h[n] * 31 + longer[n + 1]) % 100
  <2>1. n + 1 \in 0 .. n + 1 /\ n + 1 # 0 /\ (n + 1) - 1 = n
    BY <1>1
  <2>2. QED
    BY <1>3, <2>1 DEF Hashes
<1>7. QED
  BY <1>1, <1>2, <1>3, <1>5, <1>6 DEF longer

\* Adding a constant permutes the remainders.
LEMMA ShiftInjective ==
    ASSUME NEW a \in Nat, NEW c \in 0 .. 99, NEW d \in 0 .. 99, (a + c) % 100 = (a + d) % 100
    PROVE  c = d
BY SMT

LEMMA ShiftSurjective ==
    ASSUME NEW a \in Nat, NEW t \in 0 .. 99
    PROVE  \E c \in 0 .. 99 : (a + c) % 100 = t
<1>1. PICK r \in 0 .. 99 : r = a % 100
  BY SMT
<1>2. CASE t >= r
  <2>1. t - r \in 0 .. 99 /\ (a + (t - r)) % 100 = t
    BY <1>1, <1>2, SMT
  <2>2. QED
    BY <2>1
<1>3. CASE t < r
  <2>1. t - r + 100 \in 0 .. 99 /\ (a + (t - r + 100)) % 100 = t
    BY <1>1, <1>3, SMT
  <2>2. QED
    BY <2>1
<1>4. QED
  BY <1>1, <1>2, <1>3, SMT

LEMMA HashStep ==
    /\ \A r \in 0 .. 99 : r % 100 = r /\ r * 31 \in Nat
    /\ \A a \in Nat : a % 100 \in 0 .. 99
BY SMT

LEMMA BelowIsIndex ==
    ASSUME NEW q \in 0 .. 100, NEW r \in 0 .. 99, r < q
    PROVE  r \in 0 .. q - 1
BY SMT

\* What is in force is a share of a hundred.
LEMMA EffectiveShare ==
    ASSUME NEW config, config.Percentage \in Int
    PROVE  /\ EffectivePercentage(config) \in 0 .. 100
           /\ \A r \in 0 .. 99 :
                 config.Percentage > 0 /\ r < config.Percentage <=> r < EffectivePercentage(config)
<1>1. PICK p \in Int : p = config.Percentage
  OBVIOUS
<1>2. EffectivePercentage(config) = IF p < 0 THEN 0 ELSE IF p > 100 THEN 100 ELSE p
  BY <1>1 DEF EffectivePercentage
<1>3. QED
  BY ONLY <1>1, <1>2

\* Of a hundred endings, as many go to Go as the percentage says.
LEMMA EndingsShare ==
    ASSUME NEW config, config.Percentage \in Int, config.Enabled,
           config.EnabledTrackingNumbers = {},
           NEW channel, channel \notin config.EnabledChannels,
           NEW prefix \in Seq(Nat)
    PROVE  Cardinality(GoEndings(config, prefix, channel)) = EffectivePercentage(config)
<1> DEFINE a == hashTrackingNumber(prefix) * 31
           p == config.Percentage
           q == EffectivePercentage(config)
           E == GoEndings(config, prefix, channel)
           f == [c \in E |-> (a + c) % 100]
<1>1. a \in Nat
  <2>1. hashTrackingNumber(prefix) \in 0 .. 99
    BY HashOfLonger, 0 \in Nat
  <2>2. QED
    BY <2>1, HashStep
<1>2. /\ q \in 0 .. 100
      /\ \A r \in 0 .. 99 : p > 0 /\ r < p <=> r < q
  BY EffectiveShare
<1>3. ASSUME NEW c \in 0 .. 99
      PROVE  (a + c) % 100 \in 0 .. 99 /\ (c \in E <=> (a + c) % 100 < q)
  <2>1. hashTrackingNumber(Append(prefix, c)) = (a + c) % 100
    BY HashOfLonger
  <2>2. (a + c) % 100 \in 0 .. 99
    <3> HIDE DEF a
    <3>1. a + c \in Nat
      BY <1>1
    <3>2. QED
      BY <3>1, HashStep
  <2>3. hashTrackingNumber(Append(prefix, c)) % 100 = (a + c) % 100
    BY <2>1, <2>2, HashStep
  <2>4. ShouldProcessByGo(config, Append(prefix, c), channel) <=> p > 0 /\ (a + c) % 100 < p
    BY <2>3 DEF ShouldProcessByGo
  <2>5. QED
    BY <1>2, <2>2, <2>4 DEF GoEndings
<1>4. E \subseteq 0 .. 99
  BY DEF GoEndings
<1> HIDE DEF a, q, E
<1>5. f \in Bijection(E, 0 .. q - 1)
  <2>1. f \in [E -> 0 .. q - 1]
    <3>1. ASSUME NEW c \in E
          PROVE  (a + c) % 100 \in 0 .. q - 1
      <4>1. (a + c) % 100 \in 0 .. 99 /\ (a + c) % 100 < q
        BY <1>3, <1>4
      <4>2. QED
        BY <1>2, <4>1, BelowIsIndex
    <3>2. QED
      BY <3>1
  <2>2. ASSUME NEW c \in E, NEW d \in E, f[c] = f[d]
        PROVE  c = d
    BY <1>1, <1>4, <2>2, ShiftInjective
  <2>3. ASSUME NEW t \in 0 .. q - 1
        PROVE  \E c \in E : f[c] = t
    <3>1. t \in 0 .. 99 /\ t < q
      BY <1>2
    <3>2. PICK c \in 0 .. 99 : (a + c) % 100 = t
      BY <1>1, <3>1, ShiftSurjective
    <3>3. c \in E
      BY <1>3, <3>1, <3>2
    <3>4. QED
      BY <3>2, <3>3
  <2> HIDE DEF f
  <2>4. QED
    BY <2>1, <2>2, <2>3 DEF Bijection, Injection, IsInjective, Surjection
<1>6. Cardinality(E) = Cardinality(0 .. q - 1)
  <2>1. IsFiniteSet(E)
    <3>1. IsFiniteSet(0 .. 99)
      BY FS_Interval, 0 \in Int, 99 \in Int
    <3>2. QED
      BY <1>4, <3>1, FS_Subset
  <2>2. ExistsBijection(E, 0 .. q - 1)
    <3> HIDE DEF f
    <3>1. QED
      BY <1>5 DEF ExistsBijection
  <2>3. QED
    BY <2>1, <2>2, FS_Bijection
<1>7. Cardinality(0 .. q - 1) = q
  <2>1. q - 1 \in Int /\ (0 > q - 1 => q = 0) /\ q - 1 - 0 + 1 = q
    BY <1>2
  <2>2. QED
    BY <2>1, FS_Interval
<1>8. QED
  BY <1>6, <1>7 DEF q, E

\* A call of the switch or of a batch query carries its arguments and the
\* answer to them.
SwitchAnswered ==
    call.fn = "ShouldProcessByGo" =>
        /\ call.config \in Config
        /\ call.number \in Seq(Nat)
        /\ call.answer = ShouldProcessByGo(call.config, call.number, call.channel)

LEMMA SwitchIsAnswered == Spec => []SwitchAnswered
<1>1. Init => SwitchAnswered
  BY DEF Init, NoCall, SwitchAnswered
<1>2. SwitchAnswered /\ [Next]_call => SwitchAnswered'
  <2>1. ASSUME NEW n \in BoundedSeq(Code, MaxCodes)
        PROVE  n \in Seq(Nat)
    <3>1. PICK m \in 0 .. MaxCodes : n \in [1 .. m -> Code]
      BY DEF BoundedSeq, SeqOf
    <3>2. m \in Nat
      OBVIOUS
    <3>3. n \in Seq(Code)
      BY <3>1, <3>2
    <3>4. Seq(Code) \subseteq Seq(Nat)
      BY ConfigAssumption, SeqMonotonic
    <3>5. QED
      BY <3>3, <3>4
  <2>2. QED
    BY <2>1 DEF SwitchAnswered, Next, Switch, Decrypt, AdminBatchQueryHandler,
       PublicBatchQueryHandler, Return, NoCall
<1>3. QED
  BY <1>1, <1>2, PTL DEF Spec

\* Whoever goes to Go keeps going there when the configuration is widened,
\* whatever the percentages, the lists and the number.
THEOREM RolloutIsMonotoneCorrect == Spec => []RolloutIsMonotone
<1>1. SwitchAnswered => RolloutIsMonotone
  <2> SUFFICES ASSUME SwitchAnswered, call.fn = "ShouldProcessByGo", call.answer,
                      NEW d \in Config, Widens(call.config, d)
               PROVE  ShouldProcessByGo(d, call.number, call.channel)
    BY DEF RolloutIsMonotone
  <2> DEFINE c == call.config
             h == hashTrackingNumber(call.number)
  <2>1. /\ c \in Config /\ call.number \in Seq(Nat)
        /\ ShouldProcessByGo(c, call.number, call.channel)
    BY DEF SwitchAnswered
  <2>2. c.Percentage \in Int /\ d.Percentage \in Int
    BY <2>1, ConfigAssumption
  <2>3. h % 100 \in Int
    <3>1. h \in 0 .. 99
      BY <2>1, HashOfLonger, 0 \in Nat
    <3>2. QED
      BY <3>1, HashStep
  <2> HIDE DEF c, h
  <2>4. c.Percentage > 0 /\ h % 100 < c.Percentage /\ c.Percentage <= d.Percentage
        => d.Percentage > 0 /\ h % 100 < d.Percentage
    BY <2>2, <2>3
  <2>5. QED
    BY <2>1, <2>4 DEF ShouldProcessByGo, Widens, c, h
<1>2. QED
  BY <1>1, SwitchIsAnswered, PTL

\* The percentage is the share of the endings that go to Go, after any prefix
\* of any length and for every percentage.
THEOREM RolloutShareCorrect == Spec => []RolloutShare
<1>1. SwitchAnswered => RolloutShare
  <2> SUFFICES ASSUME SwitchAnswered, call.fn = "ShouldProcessByGo", call.config.Enabled,
                      call.channel \notin call.config.EnabledChannels,
                      call.config.EnabledTrackingNumbers = {}
               PROVE  Cardinality(GoEndings(call.config, call.number, call.channel)) =
                      EffectivePercentage(call.config)
    BY DEF RolloutShare
  <2>1. call.config.Percentage \in Int /\ call.number \in Seq(Nat)
    BY ConfigAssumption DEF SwitchAnswered
  <2>2. QED
    BY <2>1, EndingsShare
<1>2. QED
  BY <1>1, SwitchIsAnswered, PTL

(***************************************************************************)
(* The batches                                                             *)
(***************************************************************************)

BatchAnswered ==
    /\ call.fn = "AdminBatchQuery" =>
          /\ call.asked \in Seq(Number) /\ call.limit \in Int
          /\ \E spare \in Nat : call.answer = AdminBatchQuery(call.asked, spare, call.limit)
    /\ call.fn = "PublicBatchQuery" =>
          /\ call.asked \in Seq(Number)
          /\ call.answer = PublicBatchQuery(call.asked)

LEMMA BatchIsAnswered == Spec => []BatchAnswered
<1>1. Init => BatchAnswered
  BY DEF Init, NoCall, BatchAnswered
<1>2. BatchAnswered /\ [Next]_call => BatchAnswered'
  <2>1. \A asked \in BoundedSeq(Number, MaxAsked) : asked \in Seq(Number) /\ Len(asked) \in Nat
    BY DEF BoundedSeq, SeqOf
  <2>2. AdminMax \in Int
    BY LimitAssumption
  <2> SUFFICES ASSUME BatchAnswered, [Next]_call
               PROVE  BatchAnswered'
    OBVIOUS
  <2>3. ASSUME NEW asked \in BoundedSeq(Number, MaxAsked), NEW spare \in 0 .. Len(asked),
               NEW limit \in -1 .. AdminMax + 1, AdminBatchQueryHandler(asked, spare, limit)
        PROVE  BatchAnswered'
    <3>1. spare \in Nat /\ limit \in Int
      BY <2>1, <2>2
    <3>2. QED
      BY <2>1, <2>3, <3>1 DEF AdminBatchQueryHandler, BatchAnswered
  <2>4. ASSUME NEW asked \in BoundedSeq(Number, MaxAsked), PublicBatchQueryHandler(asked)
        PROVE  BatchAnswered'
    BY <2>1, <2>4 DEF PublicBatchQueryHandler, BatchAnswered
  <2>5. QED
    BY <2>3, <2>4 DEF BatchAnswered, Next, Switch, Decrypt, Return, NoCall
<1>3. QED
  BY <1>1, <1>2, PTL DEF Spec

\* Both batch queries answer the numbers asked for, in their order: the public
\* one all of them; the admin one as many as the caller's limit and AdminMax
\* allow and no others, with blank ones behind them where the limit is larger.
THEOREM BatchInOrderCorrect == Spec => []BatchInOrder
<1>1. ASSUME BatchAnswered, call.answer.code = 200, call.fn = "PublicBatchQuery"
      PROVE  /\ \A i \in DOMAIN call.answer.numbers : call.answer.numbers[i] =
                   IF i <= Len(call.asked) THEN call.asked[i] ELSE Blank
             /\ Len(call.answer.numbers) = Len(call.asked)
  <2>1. call.answer.numbers = call.asked /\ call.asked \in Seq(Number)
    BY <1>1 DEF BatchAnswered, PublicBatchQuery, Refused
  <2>2. QED
    BY <2>1
<1>2. ASSUME BatchAnswered, call.answer.code = 200, call.fn = "AdminBatchQuery"
      PROVE  /\ \A i \in DOMAIN call.answer.numbers : call.answer.numbers[i] =
                   IF i <= Len(call.asked) THEN call.asked[i] ELSE Blank
             /\ Len(call.answer.numbers) <= AdminMax
             /\ call.limit > 0 => Len(call.answer.numbers) <= call.limit
             /\ Len(call.answer.numbers) < Len(call.asked) =>
                   \/ Len(call.answer.numbers) = AdminMax
                   \/ call.limit > 0 /\ Len(call.answer.numbers) = call.limit
  <2>1. /\ call.asked \in Seq(Number) /\ call.limit \in Int
        /\ call.answer.numbers = Reslice(call.asked, AdminLimit(call.limit))
    BY <1>2 DEF BatchAnswered, AdminBatchQuery, Refused
  <2>2. /\ AdminLimit(call.limit) \in Nat /\ AdminLimit(call.limit) <= AdminMax
        /\ call.limit > 0 => AdminLimit(call.limit) <= call.limit
        /\ \/ AdminLimit(call.limit) = AdminMax
           \/ call.limit > 0 /\ AdminLimit(call.limit) = call.limit
    BY <2>1, LimitAssumption DEF AdminLimit
  <2>3. /\ Len(call.answer.numbers) = AdminLimit(call.limit)
        /\ \A i \in DOMAIN call.answer.numbers : call.answer.numbers[i] =
              IF i <= Len(call.asked) THEN call.asked[i] ELSE Blank
    BY <2>1, <2>2 DEF Reslice
  <2>4. QED
    BY <2>2, <2>3
<1>3. BatchAnswered => BatchInOrder
  <2> SUFFICES ASSUME BatchAnswered PROVE BatchInOrder
    OBVIOUS
  <2>1. "AdminBatchQuery" # "PublicBatchQuery"
    OBVIOUS
  <2>2. CASE call.fn = "PublicBatchQuery"
    BY <1>1, <2>1, <2>2 DEF BatchInOrder
  <2>3. CASE call.fn = "AdminBatchQuery"
    BY <1>2, <2>1, <2>3 DEF BatchInOrder
  <2>4. QED
    BY <2>2, <2>3 DEF BatchInOrder
<1>4. QED
  BY <1>3, BatchIsAnswered, PTL
=============================================================================
