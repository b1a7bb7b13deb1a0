------------------------ MODULE TrackingStoreProofs ------------------------
(***************************************************************************)
(* The safety properties of TrackingStore hold for any sets of processes,  *)
(* numbers and bodies, and the store implements TrackingRegister.          *)
(*                                                                         *)
(* IInv is kept by each step: what concerns the requests of other          *)
(* processes is RequestKept, once for all actions; what a step does to the *)
(* stores is one lemma per kind of step (an upsert, a body shown, a log    *)
(* row written); the lemma of an action only puts them together.           *)
(***************************************************************************)
EXTENDS TrackingStore, TLAPS

\* track_status is one of the four values the log column knows.
LEMMA TrackStatusType ==
    ASSUME NEW s, NEW known \in BOOLEAN, NEW failed \in BOOLEAN
    PROVE  MapTrackStatus(s, known, failed) \in 0..3
BY SMT DEF MapTrackStatus

\* Whatever the overseas query answers, failed or not, MapTrackStatus yields
\* a status the body allows.
LEMMA AnyAnswerPossible ==
    ASSUME NEW b, NEW known \in BOOLEAN, NEW failed \in BOOLEAN
    PROVE  PossibleStatus(MapTrackStatus(b.status, known, failed), b, known)
BY SMT DEF MapTrackStatus, PossibleStatus

\* A number that becomes an overseas package loses no possible status.
LEMMA PossibleGrows ==
    ASSUME NEW t, NEW b, NEW k \in BOOLEAN, NEW l \in BOOLEAN, k => l,
           PossibleStatus(t, b, k)
    PROVE  PossibleStatus(t, b, l)
<1>1. CASE k
  BY <1>1
<1>2. CASE ~k
  <2>1. k = FALSE
    BY <1>2
  <2>2. t = MapTrackStatus(b.status, FALSE, FALSE)
    BY <2>1 DEF PossibleStatus
  <2>3. QED
    BY <2>2 DEF PossibleStatus
<1>3. QED
  BY <1>1, <1>2

\* A synced row stays the image of a push while more pushes run and the number
\* becomes an overseas package.
LEMMA LogImageGrows ==
    ASSUME NEW row, NEW S, NEW T, NEW k \in BOOLEAN, NEW l \in BOOLEAN,
           S \subseteq T, k => l, LogImage(row, S, k)
    PROVE  LogImage(row, T, l)
BY PossibleGrows DEF LogImage

\* The step leaves request q as it is.
SameRequest(q) ==
    /\ pc'[q] = pc[q] /\ kind'[q] = kind[q] /\ num'[q] = num[q]
    /\ held'[q] = held[q] /\ ts'[q] = ts[q]

\* The step forgets no executed body and no overseas package.
Grows == \A n \in Number : /\ executed[n] \subseteq executed'[n]
                           /\ overseas'[n] \in BOOLEAN
                           /\ overseas[n] => overseas'[n]

\* What a request relies on survives the steps of the others.
LEMMA RequestKept ==
    ASSUME TypeOK, Grows, NEW q \in Proc, RequestOK(q), SameRequest(q)
    PROVE  RequestOK(q)'
<1>1. /\ num[q] \in Number
      /\ overseas[num[q]] \in BOOLEAN
  BY DEF TypeOK, RequestType, StoreType
<1>2. executed[num[q]] \subseteq executed'[num'[q]]
  BY <1>1 DEF Grows, SameRequest
<1>3. pc'[q] = "sync" => PossibleStatus(ts'[q], held'[q], overseas'[num'[q]])
  BY <1>1, PossibleGrows DEF Grows, SameRequest, RequestOK
<1>4. QED
  BY <1>2, <1>3, SMT DEF SameRequest, RequestOK

\* What Begin, Goto and Reply do to the process and to the others.
LEMMA BeginFacts ==
    ASSUME TypeOK, NEW p \in Proc, NEW k, NEW n, NEW b, NEW label, Begin(p, k, n, b, label)
    PROVE  /\ pc'[p] = label /\ kind'[p] = k /\ num'[p] = n /\ held'[p] = b
           /\ \A q \in Proc \ {p} : SameRequest(q)
BY SMT DEF TypeOK, RequestType, Begin, SameRequest

\* What going on with the next call changes: the program counter of p only.
LEMMA GotoFacts ==
    ASSUME TypeOK, NEW p \in Proc, NEW label, Goto(p, label)
    PROVE  /\ pc'[p] = label /\ kind'[p] = kind[p] /\ num'[p] = num[p]
           /\ held'[p] = held[p] /\ ts'[p] = ts[p]
           /\ \A q \in Proc \ {p} : SameRequest(q)
BY SMT DEF TypeOK, RequestType, Goto, SameRequest

\* What answering changes: p is idle and holds nothing.
LEMMA ReplyFacts ==
    ASSUME TypeOK, NEW p \in Proc, NEW c \in {200, 400, 401, 404, 500, 50003}, Reply(p, c)
    PROVE  /\ RequestType'
           /\ RequestOK(p)'
           /\ \A q \in Proc \ {p} : SameRequest(q)
<1>1. RequestType'
  BY SMT DEF TypeOK, RequestType, Reply
<1>2. pc'[p] = "idle" /\ \A q \in Proc \ {p} : SameRequest(q)
  BY SMT DEF TypeOK, RequestType, Reply, SameRequest
<1>3. QED
  BY <1>1, <1>2, SMT DEF RequestOK

\* A step of p that leaves p in order leaves every request in order.
LEMMA OthersKept ==
    ASSUME TypeOK, RequestInv, Grows, NEW p \in Proc, RequestOK(p)',
           \A q \in Proc \ {p} : SameRequest(q)
    PROVE  RequestInv'
<1>1. SUFFICES ASSUME NEW q \in Proc PROVE RequestOK(q)'
  BY DEF RequestInv
<1>2. CASE q = p
  BY <1>2
<1>3. CASE q # p
  BY <1>3, RequestKept DEF RequestInv
<1>4. QED
  BY <1>2, <1>3

\* The part of the invariant that speaks of the stores.
StoreInv ==
    /\ StoreType /\ RowInv
    /\ ShownWasExecuted /\ LogIsOnePush /\ EmptyNumberStaysInside

\* Steps that leave the stores alone keep that part.
LEMMA StoreKept ==
    ASSUME IInv, UNCHANGED <<store, cache, log, overseas, history>>
    PROVE  StoreInv' /\ Grows
<1>1. StoreType'
  BY DEF IInv, TypeOK, StoreType, store, history
<1>2. RowInv'
  BY DEF IInv, RowInv, store, history
<1>3. ShownWasExecuted'
  BY DEF IInv, ShownWasExecuted, Shown, history
<1>4. LogIsOnePush'
  BY DEF IInv, LogIsOnePush, LogImage, PossibleStatus, history
<1>5. EmptyNumberStaysInside'
  BY DEF IInv, EmptyNumberStaysInside, history
<1>6. Grows
  BY DEF IInv, Grows, TypeOK, StoreType, history
<1>7. QED
  BY <1>1, <1>2, <1>3, <1>4, <1>5, <1>6 DEF StoreInv

\* A step that only moves a request on.
LEMMA RequestOnly ==
    ASSUME IInv, NEW p \in Proc, UNCHANGED <<store, cache, log, overseas, history>>,
           RequestType', RequestOK(p)', \A q \in Proc \ {p} : SameRequest(q)
    PROVE  IInv'
<1>1. StoreInv' /\ Grows
  BY StoreKept
<1>2. RequestInv'
  BY <1>1, OthersKept DEF IInv
<1>3. QED
  BY <1>1, <1>2 DEF IInv, TypeOK, StoreInv

\* The types after Begin and Goto.
LEMMA BeginType ==
    ASSUME TypeOK, NEW p \in Proc, NEW k \in {"webhook", "tis", "query"},
           NEW n \in Number, NEW b \in Body \cup {NoBody},
           NEW label \in {"upsert", "find"}, Begin(p, k, n, b, label)
    PROVE  RequestType'
BY SMT DEF TypeOK, RequestType, Begin

\* Going on keeps the types of the requests.
LEMMA GotoType ==
    ASSUME TypeOK, NEW p \in Proc, NEW label \in {"cache", "map", "sync", "fill"},
           Goto(p, label)
    PROVE  RequestType'
BY SMT DEF TypeOK, RequestType, Goto

\* The steps of the arrival handlers.
LEMMA WebhookStep ==
    ASSUME IInv, NEW p \in Proc, NEW n \in Number, NEW b \in WebhookBody, Webhook(p, n, b)
    PROVE  IInv'
<1>1. b \in Body
  BY DEF Body
<1>2. Begin(p, "webhook", n, b, "upsert")
  BY DEF Webhook
<1>3. RequestType'
  BY <1>1, <1>2, BeginType DEF IInv
<1>4. pc'[p] = "upsert" /\ kind'[p] = "webhook" /\ held'[p] = b
  BY <1>2, BeginFacts DEF IInv
<1>5. \A q \in Proc \ {p} : SameRequest(q)
  BY <1>2, BeginFacts DEF IInv
<1>6. RequestOK(p)'
  BY <1>1, <1>4 DEF RequestOK
<1>7. UNCHANGED <<store, cache, log, overseas, history>>
  BY DEF Webhook
<1>8. QED
  BY <1>3, <1>5, <1>6, <1>7, RequestOnly

\* A TIS push that arrives holds a TIS body and has written nothing yet.
LEMMA TisPushStep ==
    ASSUME IInv, NEW p \in Proc, NEW n \in Number, NEW b \in TisBody, TisPush(p, n, b)
    PROVE  IInv'
<1>1. b \in Body
  BY DEF Body
<1>2. Begin(p, "tis", n, b, "upsert")
  BY DEF TisPush
<1>3. RequestType'
  BY <1>1, <1>2, BeginType DEF IInv
<1>4. pc'[p] = "upsert" /\ held'[p] = b
  BY <1>2, BeginFacts DEF IInv
<1>5. \A q \in Proc \ {p} : SameRequest(q)
  BY <1>2, BeginFacts DEF IInv
<1>6. RequestOK(p)'
  BY <1>1, <1>4 DEF RequestOK
<1>7. UNCHANGED <<store, cache, log, overseas, history>>
  BY DEF TisPush
<1>8. QED
  BY <1>3, <1>5, <1>6, <1>7, RequestOnly

\* An answer that stores nothing.
LEMMA ReplyStep ==
    ASSUME IInv, NEW p \in Proc, NEW c \in {200, 400, 401, 404, 500, 50003},
           Reply(p, c), UNCHANGED <<store, cache, log, overseas, history>>
    PROVE  IInv'
<1>1. RequestType' /\ RequestOK(p)' /\ \A q \in Proc \ {p} : SameRequest(q)
  BY ReplyFacts DEF IInv
<1>2. QED
  BY <1>1, RequestOnly

\* Between the mapping and the UPDATE the computed status stays possible.
LEMMA MapStatusStep ==
    ASSUME IInv, NEW p \in Proc, MapStatus(p)
    PROVE  IInv'
<1>1. PICK failed \in BOOLEAN :
        ts' = [ts EXCEPT ![p] = MapTrackStatus(held[p].status, overseas[num[p]], failed)]
  BY DEF MapStatus
<1>2. /\ num[p] \in Number
      /\ overseas[num[p]] \in BOOLEAN
  BY DEF IInv, TypeOK, RequestType, StoreType
<1> DEFINE t == MapTrackStatus(held[p].status, overseas[num[p]], failed)
<1>3. t \in 0..3
  BY <1>2, TrackStatusType
<1>4. PossibleStatus(t, held[p], overseas[num[p]])
  BY <1>2, AnyAnswerPossible
<1>5. /\ ts' = [ts EXCEPT ![p] = t]
      /\ pc[p] = "map"
      /\ pc' = [pc EXCEPT ![p] = "sync"]
      /\ answer' = 0
      /\ UNCHANGED <<store, cache, log, overseas, kind, num, held, history>>
  BY <1>1 DEF MapStatus
<1> HIDE DEF t
<1>6. RequestType'
  BY <1>3, <1>5, SMT DEF IInv, TypeOK, RequestType
<1>7. /\ pc'[p] = "sync"
      /\ ts'[p] = t
      /\ \A q \in Proc \ {p} : SameRequest(q)
  BY <1>5, SMT DEF IInv, TypeOK, RequestType, SameRequest
<1>8. held[p] \in TisBody /\ held[p] \in executed[num[p]]
  BY <1>5 DEF IInv, RequestInv, RequestOK
<1>9. overseas' = overseas /\ num' = num /\ held' = held /\ executed' = executed
  BY <1>5 DEF history
<1>10. PossibleStatus(ts'[p], held'[p], overseas'[num'[p]])
  BY <1>4, <1>7, <1>9
<1>11. RequestOK(p)'
  BY <1>7, <1>8, <1>9, <1>10, SMT DEF RequestOK, Body
<1>12. QED
  BY <1>5, <1>6, <1>7, <1>11, RequestOnly

\* A reader goes on with the row it found, which an upsert wrote.
LEMMA FindRowStep ==
    ASSUME IInv, NEW p \in Proc, FindRow(p)
    PROVE  IInv'
<1>1. UNCHANGED <<store, cache, log, overseas, history>>
  BY DEF FindRow
<1>2. CASE Reply(p, 404)
  BY <1>1, <1>2, ReplyStep
<1>3. CASE /\ detail[num[p]] # NoBody
           /\ held' = [held EXCEPT ![p] = detail[num[p]]]
           /\ pc' = [pc EXCEPT ![p] = "fill"]
           /\ answer' = 0
           /\ UNCHANGED <<kind, num, ts>>
  <2>1. num[p] \in Number /\ detail[num[p]] \in Body \cup {NoBody}
    BY DEF IInv, TypeOK, RequestType, StoreType
  <2>2. RequestType'
    BY <1>3, <2>1, SMT DEF IInv, TypeOK, RequestType
  <2>3. /\ pc'[p] = "fill" /\ held'[p] = detail[num[p]] /\ num'[p] = num[p]
        /\ \A q \in Proc \ {p} : SameRequest(q)
    BY <1>3, SMT DEF IInv, TypeOK, RequestType, SameRequest
  <2>4. detail[num[p]] \in executed'[num[p]] /\ num[p] # EmptyNumber
    BY <1>1, <1>3, <2>1 DEF IInv, RowInv, RequestInv, RequestOK, FindRow, history
  <2>5. RequestOK(p)'
    BY <2>3, <2>4 DEF RequestOK
  <2>6. QED
    BY <1>1, <2>2, <2>3, <2>5, RequestOnly
<1>4. QED
  BY <1>2, <1>3 DEF FindRow

\* A step of one process, put together from its stores and its request.
LEMMA Assemble ==
    ASSUME IInv, NEW p \in Proc, StoreInv', Grows,
           RequestType', RequestOK(p)', \A q \in Proc \ {p} : SameRequest(q)
    PROVE  IInv'
<1>1. RequestInv'
  BY OthersKept DEF IInv
<1>2. QED
  BY <1>1 DEF IInv, TypeOK, StoreInv

\* The facts every statement that publishes a body has in common.
LEMMA ExecutedGrows ==
    ASSUME IInv, NEW n \in Number, NEW b \in Body, executed' = Note(executed, n, b),
           UNCHANGED <<cache, log, overseas, served>>
    PROVE  /\ executed' \in [Number -> SUBSET Body]
           /\ b \in executed'[n]
           /\ \A m \in Number : executed'[m] = IF m = n THEN executed[m] \cup {b} ELSE executed[m]
           /\ Grows
           /\ ShownWasExecuted'
           /\ LogIsOnePush'
           /\ EmptyNumberStaysInside'
<1>1. /\ executed \in [Number -> SUBSET Body]
      /\ overseas \in [Number -> BOOLEAN]
  BY DEF IInv, TypeOK, StoreType
<1>2. /\ executed' \in [Number -> SUBSET Body]
      /\ \A m \in Number : executed'[m] = IF m = n THEN executed[m] \cup {b} ELSE executed[m]
  BY <1>1, SMT DEF Note
<1>3. Grows
  BY <1>1, <1>2 DEF Grows
<1>4. ShownWasExecuted'
  BY <1>3 DEF IInv, ShownWasExecuted, Shown, Grows
<1>5. LogIsOnePush'
  <2>1. SUFFICES ASSUME NEW m \in Number, log'[m] # NoLog, log'[m].synced
                 PROVE  LogImage(log'[m], executed'[m], overseas'[m])
    BY DEF LogIsOnePush
  <2>2. LogImage(log[m], executed[m], overseas[m])
    BY <2>1 DEF IInv, LogIsOnePush
  <2>3. QED
    BY <1>1, <1>3, <2>2, LogImageGrows DEF Grows
<1>6. EmptyNumberStaysInside'
  BY DEF IInv, EmptyNumberStaysInside
<1>7. QED
  BY <1>2, <1>3, <1>4, <1>5, <1>6

\* The upsert statement, whether the row takes the body or not.
LEMMA ApplyUpsertStep ==
    ASSUME IInv, NEW n \in Number, NEW b \in Body, ApplyUpsert(n, b),
           UNCHANGED <<cache, log, overseas, served>>
    PROVE  StoreInv' /\ Grows /\ b \in executed'[n]
<1>1. executed' = Note(executed, n, b)
  BY DEF ApplyUpsert
<1>2. /\ executed' \in [Number -> SUBSET Body] /\ b \in executed'[n] /\ Grows
      /\ ShownWasExecuted' /\ LogIsOnePush' /\ EmptyNumberStaysInside'
  BY <1>1, ExecutedGrows
<1>4. \A m \in Number : executed'[m] = IF m = n THEN executed[m] \cup {b} ELSE executed[m]
  BY <1>1, ExecutedGrows
<1>3. /\ detail \in [Number -> Body \cup {NoBody}]
      /\ last_detail \in [Number -> Body \cup {NoBody}]
      /\ auto_delivered \in [Number -> BOOLEAN]
      /\ accepted \in [Number -> SUBSET Body]
      /\ executed \in [Number -> SUBSET Body]
  BY DEF IInv, TypeOK, StoreType
<1>5. /\ detail' \in [Number -> Body \cup {NoBody}]
      /\ last_detail' \in [Number -> Body \cup {NoBody}]
      /\ auto_delivered' \in [Number -> BOOLEAN]
      /\ accepted' \in [Number -> SUBSET Body]
      /\ RowInv'
  <2>1. CASE auto_delivered[n]
    <3>1. UNCHANGED <<detail, last_detail, auto_delivered, accepted>>
      BY <2>1 DEF ApplyUpsert, store
    <3>2. RowInv'
      BY <1>2, <1>4, <2>1, <3>1 DEF IInv, RowInv, Grows
    <3>3. QED
      BY <1>3, <3>1, <3>2
  <2>2. CASE ~auto_delivered[n]
    <3>1. /\ last_detail' = [last_detail EXCEPT ![n] = detail[n]]
          /\ detail' = [detail EXCEPT ![n] = b]
          /\ accepted' = Note(accepted, n, b)
          /\ auto_delivered' = auto_delivered
      BY <2>2 DEF ApplyUpsert
    <3>2. /\ accepted' \in [Number -> SUBSET Body]
          /\ \A m \in Number : accepted'[m] = IF m = n THEN accepted[m] \cup {b} ELSE accepted[m]
      <4>1. accepted \in [Number -> SUBSET Body]
        BY <1>3
      <4>2. accepted' = Note(accepted, n, b)
        BY <3>1
      <4>3. QED
        BY <4>1, <4>2, SMT DEF Note
    <3>3. /\ detail' \in [Number -> Body \cup {NoBody}]
          /\ last_detail' \in [Number -> Body \cup {NoBody}]
          /\ \A m \in Number : detail'[m] = IF m = n THEN b ELSE detail[m]
      BY <1>3, <3>1, SMT
    <3>4. ASSUME NEW m \in Number
          PROVE  /\ detail'[m] \in executed'[m] \cup {NoBody}
                 /\ ~auto_delivered'[m] => executed'[m] \subseteq accepted'[m]
      <4>1. /\ detail[m] \in executed[m] \cup {NoBody}
            /\ ~auto_delivered[m] => executed[m] \subseteq accepted[m]
        BY DEF IInv, RowInv
      <4>2. CASE m = n
        BY <1>4, <2>2, <3>1, <3>2, <3>3, <4>1, <4>2
      <4>3. CASE m # n
        BY <1>4, <3>1, <3>2, <3>3, <4>1, <4>3
      <4>4. QED
        BY <4>2, <4>3
    <3>5. QED
      BY <1>3, <3>1, <3>2, <3>3, <3>4 DEF RowInv
  <2>3. QED
    BY <2>1, <2>2
<1>6. StoreType'
  BY <1>2, <1>5 DEF IInv, TypeOK, StoreType
<1>7. QED
  BY <1>2, <1>5, <1>6 DEF StoreInv

\* Redis or a reader is given a body an upsert ran with.
LEMMA ShownStep ==
    ASSUME IInv, NEW n \in Number, NEW b \in executed[n],
           cache' = cache \/ cache' = [cache EXCEPT ![n] = b],
           served' = served \/ (n # EmptyNumber /\ served' = Note(served, n, b)),
           UNCHANGED <<store, log, overseas, accepted, executed>>
    PROVE  StoreInv' /\ Grows
<1>1. /\ cache \in [Number -> Body \cup {NoBody}]
      /\ served \in [Number -> SUBSET Body]
      /\ b \in Body
  BY DEF IInv, TypeOK, StoreType
<1>2. /\ cache' \in [Number -> Body \cup {NoBody}]
      /\ \A m \in Number : cache'[m] = cache[m] \/ (m = n /\ cache'[m] = b)
  BY <1>1, SMT
<1>3. /\ served' \in [Number -> SUBSET Body]
      /\ \A m \in Number :
            \/ served'[m] = served[m]
            \/ m = n /\ n # EmptyNumber /\ served'[m] = served[m] \cup {b}
  <2>1. CASE served' = served
    BY <1>1, <2>1
  <2>2. CASE n # EmptyNumber /\ served' = Note(served, n, b)
    BY <1>1, <2>2, SMT DEF Note
  <2>3. QED
    BY <2>1, <2>2
<1>4. StoreType'
  BY <1>2, <1>3 DEF IInv, TypeOK, StoreType, store
<1>5. RowInv'
  BY DEF IInv, RowInv, store
<1>6. ShownWasExecuted'
  BY <1>2, <1>3 DEF IInv, ShownWasExecuted, Shown
<1>7. LogIsOnePush'
  BY DEF IInv, LogIsOnePush, LogImage, PossibleStatus
<1>8. Grows
  BY DEF IInv, Grows, TypeOK, StoreType
<1>9. EmptyNumberStaysInside'
  BY <1>3 DEF IInv, EmptyNumberStaysInside
<1>10. QED
  BY <1>4, <1>5, <1>6, <1>7, <1>8, <1>9 DEF StoreInv

\* A tracking_logs row is created or synced.
LEMMA LogStep ==
    ASSUME IInv, NEW n \in Number, NEW row \in LogRow,
           row.synced => n # EmptyNumber /\ LogImage(row, executed[n], overseas[n]),
           log' = [log EXCEPT ![n] = row],
           UNCHANGED <<store, cache, overseas, history>>
    PROVE  StoreInv' /\ Grows
<1>1. log \in [Number -> LogRow \cup {NoLog}]
  BY DEF IInv, TypeOK, StoreType
<1>2. /\ log' \in [Number -> LogRow \cup {NoLog}]
      /\ \A m \in Number : log'[m] = IF m = n THEN row ELSE log[m]
  BY <1>1, SMT
<1>3. StoreType'
  BY <1>2 DEF IInv, TypeOK, StoreType, store, history
<1>4. RowInv' /\ ShownWasExecuted'
  BY DEF IInv, RowInv, ShownWasExecuted, Shown, store, history
<1>5. LogIsOnePush'
  <2>1. SUFFICES ASSUME NEW m \in Number, log'[m] # NoLog, log'[m].synced
                 PROVE  LogImage(log'[m], executed[m], overseas[m])
    BY DEF LogIsOnePush, LogImage, PossibleStatus, history
  <2>2. CASE m = n
    BY <1>2, <2>1, <2>2
  <2>3. CASE m # n
    BY <1>2, <2>1, <2>3 DEF IInv, LogIsOnePush
  <2>4. QED
    BY <2>2, <2>3
<1>6. Grows
  BY DEF IInv, Grows, TypeOK, StoreType, history
<1>7. EmptyNumberStaysInside'
  BY <1>2 DEF IInv, EmptyNumberStaysInside, history
<1>8. QED
  BY <1>3, <1>4, <1>5, <1>6, <1>7 DEF StoreInv

\* The steps of Save and of the TIS push.
LEMMA UpsertStep ==
    ASSUME IInv, NEW p \in Proc, Upsert(p)
    PROVE  IInv'
<1>1. num[p] \in Number /\ held[p] \in Body
  BY DEF IInv, TypeOK, RequestType, RequestInv, RequestOK, Upsert
<1>2. StoreInv' /\ Grows /\ held[p] \in executed'[num[p]]
  BY <1>1, ApplyUpsertStep DEF Upsert
<1>3. Goto(p, "cache") /\ pc[p] = "upsert"
  BY DEF Upsert
<1>4. RequestType'
  BY <1>3, GotoType DEF IInv
<1>5. /\ pc'[p] = "cache" /\ kind'[p] = kind[p] /\ num'[p] = num[p] /\ held'[p] = held[p]
      /\ \A q \in Proc \ {p} : SameRequest(q)
  BY <1>3, GotoFacts DEF IInv
<1>6. RequestOK(p)'
  BY <1>1, <1>2, <1>3, <1>5 DEF IInv, RequestInv, RequestOK
<1>7. QED
  BY <1>2, <1>4, <1>5, <1>6, Assemble

\* A failed upsert leaves the store before or after the statement and ends the request.
LEMMA UpsertErrorStep ==
    ASSUME IInv, NEW p \in Proc, UpsertError(p)
    PROVE  IInv'
<1>1. num[p] \in Number /\ held[p] \in Body
  BY DEF IInv, TypeOK, RequestType, RequestInv, RequestOK, UpsertError
<1>2. Reply(p, 500) /\ UNCHANGED <<cache, log, overseas, served>>
  BY DEF UpsertError
<1>3. CASE ApplyUpsert(num[p], held[p])
  <2>1. StoreInv' /\ Grows
    BY <1>1, <1>2, <1>3, ApplyUpsertStep
  <2>2. RequestType' /\ RequestOK(p)' /\ \A q \in Proc \ {p} : SameRequest(q)
    BY <1>2, ReplyFacts DEF IInv
  <2>3. QED
    BY <2>1, <2>2, Assemble
<1>4. CASE UNCHANGED <<store, accepted, executed>>
  <2>1. UNCHANGED <<store, cache, log, overseas, history>>
    BY <1>2, <1>4 DEF history
  <2>2. QED
    BY <1>2, <2>1, ReplyStep
<1>5. QED
  BY <1>3, <1>4 DEF UpsertError

\* What Save writes to Redis was run through an upsert of its number.
LEMMA CacheSetStep ==
    ASSUME IInv, NEW p \in Proc, CacheSet(p)
    PROVE  IInv'
<1>1. /\ num[p] \in Number
      /\ pc[p] = "cache"
      /\ held[p] \in executed[num[p]]
      /\ kind[p] # "webhook" => held[p] \in TisBody
  BY DEF IInv, TypeOK, RequestType, RequestInv, RequestOK, CacheSet
<1>2. /\ cache' = cache \/ cache' = [cache EXCEPT ![num[p]] = held[p]]
      /\ served' = served
      /\ UNCHANGED <<store, log, overseas, accepted, executed>>
  BY DEF CacheSet, SetCache, history
<1>3. StoreInv' /\ Grows
  BY <1>1, <1>2, ShownStep
<1>4. CASE kind[p] = "webhook"
  <2>1. Reply(p, 200)
    BY <1>4 DEF CacheSet
  <2>2. RequestType' /\ RequestOK(p)' /\ \A q \in Proc \ {p} : SameRequest(q)
    BY <2>1, ReplyFacts DEF IInv
  <2>3. QED
    BY <1>3, <2>2, Assemble
<1>5. CASE kind[p] # "webhook"
  <2>1. Goto(p, "map")
    BY <1>5 DEF CacheSet
  <2>2. RequestType'
    BY <2>1, GotoType DEF IInv
  <2>3. /\ pc'[p] = "map" /\ num'[p] = num[p] /\ held'[p] = held[p]
        /\ \A q \in Proc \ {p} : SameRequest(q)
    BY <2>1, GotoFacts DEF IInv
  <2>4. RequestOK(p)'
    BY <1>1, <1>2, <1>5, <2>3 DEF RequestOK
  <2>5. QED
    BY <1>3, <2>2, <2>3, <2>4, Assemble
<1>6. QED
  BY <1>4, <1>5

\* The tracking_logs row becomes the image of the body p holds.
LEMMA SyncTrackingLogStep ==
    ASSUME IInv, NEW p \in Proc, SyncTrackingLog(p)
    PROVE  IInv'
<1>1. /\ num[p] \in Number
      /\ held[p] \in TisBody /\ held[p] \in executed[num[p]]
      /\ PossibleStatus(ts[p], held[p], overseas[num[p]])
      /\ ts[p] \in 0..3
  BY DEF IInv, TypeOK, RequestType, RequestInv, RequestOK, SyncTrackingLog
<1>2. Reply(p, 200) /\ UNCHANGED <<store, cache, overseas, history>>
  BY DEF SyncTrackingLog
<1> DEFINE row == [track_status |-> ts[p], synced |-> TRUE, times |-> held[p].times]
<1>3. CASE log' = log
  BY <1>2, <1>3, ReplyStep
<1>4. CASE num[p] # EmptyNumber /\ log' = [log EXCEPT ![num[p]] = row]
  <2>1. row \in LogRow
    BY <1>1 DEF LogRow, Times
  <2>2. LogImage(row, executed[num[p]], overseas[num[p]])
    BY <1>1 DEF LogImage
  <2> HIDE DEF row
  <2>3. StoreInv' /\ Grows
    BY <1>1, <1>2, <1>4, <2>1, <2>2, LogStep
  <2>4. RequestType' /\ RequestOK(p)' /\ \A q \in Proc \ {p} : SameRequest(q)
    BY <1>2, ReplyFacts DEF IInv
  <2>5. QED
    BY <2>3, <2>4, Assemble
<1>5. QED
  BY <1>3, <1>4 DEF SyncTrackingLog, UpdateLog

\* The steps of the readers.
LEMMA ServeStep ==
    ASSUME IInv, NEW p \in Proc, NEW n \in Number, NEW b \in executed[n],
           n # EmptyNumber, Serve(p, n, b),
           cache' = cache \/ cache' = [cache EXCEPT ![n] = b],
           UNCHANGED <<store, log, overseas, accepted, executed>>
    PROVE  IInv'
<1>1. StoreInv' /\ Grows
  BY ShownStep DEF Serve
<1>2. RequestType' /\ RequestOK(p)' /\ \A q \in Proc \ {p} : SameRequest(q)
  BY ReplyFacts DEF IInv, Serve
<1>3. QED
  BY <1>1, <1>2, Assemble

\* A hit is served what Redis held; a miss never asks for the empty number.
LEMMA ReadCacheStep ==
    ASSUME IInv, NEW p \in Proc, NEW n \in Number, ReadCache(p, n)
    PROVE  IInv'
<1>1. UNCHANGED <<store, cache, log, overseas, accepted, executed>>
  BY DEF ReadCache
<1>2. CASE Reply(p, 400) /\ UNCHANGED served
  BY <1>1, <1>2, ReplyStep DEF history
<1>3. CASE n # EmptyNumber /\ cache[n] # NoBody /\ Serve(p, n, cache[n])
  <2>1. cache[n] \in executed[n]
    BY <1>3 DEF IInv, ShownWasExecuted, Shown
  <2>2. QED
    BY <1>1, <1>3, <2>1, ServeStep
<1>4. CASE n # EmptyNumber /\ Begin(p, "query", n, NoBody, "find") /\ UNCHANGED served
  <2>1. RequestType'
    BY <1>4, BeginType DEF IInv
  <2>2. pc'[p] = "find" /\ num'[p] = n /\ \A q \in Proc \ {p} : SameRequest(q)
    BY <1>4, BeginFacts DEF IInv
  <2>3. RequestOK(p)'
    BY <1>4, <2>2 DEF RequestOK
  <2>4. UNCHANGED <<store, cache, log, overseas, history>>
    BY <1>1, <1>4 DEF history
  <2>5. QED
    BY <2>1, <2>2, <2>3, <2>4, RequestOnly
<1>5. QED
  BY <1>2, <1>3, <1>4 DEF ReadCache

\* What a reader writes to Redis and is served was read from the row.
LEMMA FillCacheStep ==
    ASSUME IInv, NEW p \in Proc, FillCache(p)
    PROVE  IInv'
<1>1. num[p] \in Number /\ held[p] \in executed[num[p]] /\ num[p] # EmptyNumber
  BY DEF IInv, TypeOK, RequestType, RequestInv, RequestOK, FillCache
<1>2. /\ cache' = cache \/ cache' = [cache EXCEPT ![num[p]] = held[p]]
      /\ Serve(p, num[p], held[p])
      /\ UNCHANGED <<store, log, overseas, accepted, executed>>
  BY DEF FillCache, SetCache
<1>3. QED
  BY <1>1, <1>2, ServeStep

\* The uncached query is served the row.
LEMMA GetTrackingStep ==
    ASSUME IInv, NEW p \in Proc, NEW n \in Number, GetTracking(p, n)
    PROVE  IInv'
<1>1. UNCHANGED <<store, cache, log, overseas, accepted, executed>>
  BY DEF GetTracking
<1>2. CASE n # EmptyNumber /\ detail[n] # NoBody /\ Serve(p, n, detail[n])
  <2>1. detail[n] \in executed[n]
    BY <1>2 DEF IInv, RowInv
  <2>2. QED
    BY <1>1, <1>2, <2>1, ServeStep
<1>3. CASE Reply(p, 50003) /\ UNCHANGED served
  BY <1>1, <1>3, ReplyStep DEF history
<1>4. QED
  BY <1>2, <1>3 DEF GetTracking

\* The environment's steps leave the requests alone.
LEMMA EnvironmentRequests ==
    ASSUME IInv, UNCHANGED request, answer' = 0, StoreInv', Grows
    PROVE  IInv'
<1>1. RequestType'
  BY DEF IInv, TypeOK, RequestType, request
<1>2. \A q \in Proc : SameRequest(q)
  BY DEF SameRequest, request
<1>3. RequestInv'
  BY <1>2, RequestKept DEF IInv, RequestInv
<1>4. QED
  BY <1>1, <1>3 DEF IInv, TypeOK, StoreInv

\* auto_sign publishes the detail it stores with the mark.
LEMMA AutoSignStep ==
    ASSUME IInv, NEW n \in Number, NEW b \in Body, AutoSign(n, b)
    PROVE  IInv'
<1>1. /\ auto_delivered' = [auto_delivered EXCEPT ![n] = TRUE]
      /\ detail' = [detail EXCEPT ![n] = b]
      /\ accepted' = Note(accepted, n, b)
      /\ executed' = Note(executed, n, b)
      /\ answer' = 0
      /\ UNCHANGED <<last_detail, cache, log, overseas, request, served>>
  BY DEF AutoSign
<1>2. /\ executed' \in [Number -> SUBSET Body] /\ Grows
      /\ ShownWasExecuted' /\ LogIsOnePush' /\ EmptyNumberStaysInside'
  BY <1>1, ExecutedGrows
<1>3. \A m \in Number : executed'[m] = IF m = n THEN executed[m] \cup {b} ELSE executed[m]
  BY <1>1, ExecutedGrows
<1>4. /\ detail \in [Number -> Body \cup {NoBody}]
      /\ auto_delivered \in [Number -> BOOLEAN]
  BY DEF IInv, TypeOK, StoreType
<1>5. /\ detail' \in [Number -> Body \cup {NoBody}]
      /\ auto_delivered' \in [Number -> BOOLEAN]
      /\ auto_delivered'[n]
      /\ detail'[n] = b
      /\ \A m \in Number \ {n} : detail'[m] = detail[m] /\ auto_delivered'[m] = auto_delivered[m]
  BY <1>1, <1>4
<1>6. /\ accepted' \in [Number -> SUBSET Body]
      /\ \A m \in Number \ {n} : accepted'[m] = accepted[m]
  <2>1. accepted \in [Number -> SUBSET Body]
    BY DEF IInv, TypeOK, StoreType
  <2>2. accepted' = Note(accepted, n, b)
    BY <1>1
  <2>3. QED
    BY <2>1, <2>2, SMT DEF Note
<1>7. StoreType'
  BY <1>1, <1>2, <1>5, <1>6 DEF IInv, TypeOK, StoreType
<1>8. ASSUME NEW m \in Number
      PROVE  /\ detail'[m] \in executed'[m] \cup {NoBody}
             /\ ~auto_delivered'[m] => executed'[m] \subseteq accepted'[m]
  <2>1. CASE m = n
    BY <1>3, <1>5, <2>1
  <2>2. CASE m # n
    BY <1>3, <1>5, <1>6, <2>2 DEF IInv, RowInv
  <2>3. QED
    BY <2>1, <2>2
<1>9. RowInv'
  BY <1>8 DEF RowInv
<1>10. QED
  BY <1>1, <1>2, <1>7, <1>9, EnvironmentRequests DEF StoreInv

\* A fresh tracking_logs row is not synced.
LEMMA CreateLogStep ==
    ASSUME IInv, NEW n \in Number, CreateLog(n)
    PROVE  IInv'
<1>1. /\ log' = [log EXCEPT ![n] = FreshLog]
      /\ answer' = 0
      /\ UNCHANGED <<store, cache, overseas, request, history>>
  BY DEF CreateLog
<1>2. FreshLog \in LogRow /\ ~FreshLog.synced
  BY DEF FreshLog, LogRow, Times
<1>3. StoreInv' /\ Grows
  BY <1>1, <1>2, LogStep
<1>4. QED
  BY <1>1, <1>3, EnvironmentRequests

\* Every track_status that was possible stays possible.
LEMMA RegisterOverseasStep ==
    ASSUME IInv, NEW n \in Number, RegisterOverseas(n)
    PROVE  IInv'
<1>1. /\ overseas' = [overseas EXCEPT ![n] = TRUE]
      /\ answer' = 0
      /\ UNCHANGED <<store, cache, log, request, history>>
  BY DEF RegisterOverseas
<1>2. /\ overseas \in [Number -> BOOLEAN]
      /\ overseas' \in [Number -> BOOLEAN]
      /\ \A m \in Number : overseas[m] => overseas'[m]
  BY <1>1 DEF IInv, TypeOK, StoreType
<1>3. Grows
  BY <1>1, <1>2 DEF Grows, history
<1>4. StoreType'
  BY <1>1, <1>2 DEF IInv, TypeOK, StoreType, store, history
<1>5. RowInv' /\ ShownWasExecuted'
  BY <1>1 DEF IInv, RowInv, ShownWasExecuted, Shown, store, history
<1>6. LogIsOnePush'
  <2>1. SUFFICES ASSUME NEW m \in Number, log'[m] # NoLog, log'[m].synced
                 PROVE  LogImage(log'[m], executed'[m], overseas'[m])
    BY DEF LogIsOnePush
  <2>2. log'[m] = log[m] /\ executed'[m] = executed[m]
    BY <1>1 DEF history
  <2>3. LogImage(log[m], executed[m], overseas[m])
    BY <1>1, <2>1 DEF IInv, LogIsOnePush
  <2>4. overseas[m] \in BOOLEAN /\ overseas'[m] \in BOOLEAN /\ (overseas[m] => overseas'[m])
    BY <1>2
  <2>5. QED
    BY <2>2, <2>3, <2>4, LogImageGrows
<1>7. EmptyNumberStaysInside'
  BY <1>1 DEF IInv, EmptyNumberStaysInside, history
<1>8. QED
  BY <1>1, <1>3, <1>4, <1>5, <1>6, <1>7, EnvironmentRequests DEF StoreInv

\* An entry that is gone shows nothing.
LEMMA ExpireStep ==
    ASSUME IInv, NEW n \in Number, Expire(n)
    PROVE  IInv'
<1>1. /\ cache' = [cache EXCEPT ![n] = NoBody]
      /\ answer' = 0
      /\ UNCHANGED <<store, log, overseas, request, history>>
  BY DEF Expire
<1>2. cache \in [Number -> Body \cup {NoBody}]
  BY DEF IInv, TypeOK, StoreType
<1>3. /\ cache' \in [Number -> Body \cup {NoBody}]
      /\ \A m \in Number : cache'[m] \in {cache[m], NoBody}
  BY <1>1, <1>2
<1>4. StoreType'
  BY <1>1, <1>3 DEF IInv, TypeOK, StoreType, store, history
<1>5. RowInv'
  BY <1>1 DEF IInv, RowInv, store, history
<1>6. ShownWasExecuted'
  BY <1>1, <1>3 DEF IInv, ShownWasExecuted, Shown, history
<1>7. LogIsOnePush'
  BY <1>1 DEF IInv, LogIsOnePush, LogImage, PossibleStatus, history
<1>8. Grows
  BY <1>1 DEF IInv, Grows, TypeOK, StoreType, history
<1>9. EmptyNumberStaysInside'
  BY <1>1 DEF IInv, EmptyNumberStaysInside, history
<1>10. QED
  BY <1>1, <1>4, <1>5, <1>6, <1>7, <1>8, <1>9, EnvironmentRequests DEF StoreInv

\* A request that is gone has nothing to rely on.
LEMMA CrashStep ==
    ASSUME IInv, Crash
    PROVE  IInv'
<1>1. UNCHANGED <<store, cache, log, overseas, history>>
  BY DEF Crash
<1>2. StoreInv'
  BY <1>1, StoreKept
<1>3. RequestType'
  BY DEF IInv, TypeOK, RequestType, Crash
<1>4. \A q \in Proc : pc'[q] = "idle"
  BY DEF Crash
<1>5. RequestInv'
  BY <1>4 DEF RequestInv, RequestOK
<1>6. QED
  BY <1>2, <1>3, <1>5 DEF IInv, TypeOK, StoreInv

\* A stuttering step changes none of it.
LEMMA StutterStep ==
    ASSUME IInv, UNCHANGED vars
    PROVE  IInv'
<1>1. StoreInv' /\ Grows
  BY StoreKept DEF vars
<1>2. RequestType' /\ \A q \in Proc : SameRequest(q)
  BY DEF IInv, TypeOK, RequestType, SameRequest, vars, request
<1>3. RequestInv'
  BY <1>1, <1>2, RequestKept DEF IInv, RequestInv
<1>4. QED
  BY <1>1, <1>2, <1>3 DEF IInv, TypeOK, StoreInv

\* The invariant holds at first, and every step keeps it.
LEMMA InitInv == Init => IInv
<1> SUFFICES ASSUME Init PROVE IInv
  OBVIOUS
<1>1. (CHOOSE n \in Number : TRUE) \in Number
  BY NumberAssumption
<1>2. RequestType
  BY <1>1 DEF Init, RequestType
<1>3. StoreType
  BY DEF Init, StoreType
<1>4. RequestInv /\ RowInv
  BY DEF Init, RequestInv, RequestOK, RowInv
<1>5. ShownWasExecuted /\ LogIsOnePush /\ EmptyNumberStaysInside
  BY DEF Init, ShownWasExecuted, Shown, LogIsOnePush, EmptyNumberStaysInside
<1>6. QED
  BY <1>2, <1>3, <1>4, <1>5 DEF IInv, TypeOK

\* Every step keeps the inductive invariant.
LEMMA StepInv == IInv /\ [Next]_vars => IInv'
<1> SUFFICES ASSUME IInv, [Next]_vars PROVE IInv'
  OBVIOUS
<1>1. ASSUME NEW p \in Proc, Arrive(p) PROVE IInv'
  <2>1. ASSUME NEW n \in Number, NEW b \in WebhookBody, Webhook(p, n, b) PROVE IInv'
    BY <2>1, WebhookStep
  <2>2. ASSUME NEW n \in Number, NEW b \in TisBody, TisPush(p, n, b) PROVE IInv'
    BY <2>2, TisPushStep
  <2>3. ASSUME NEW n \in Number, PublicQuery(p, n) \/ AdminGetTracking(p, n) PROVE IInv'
    BY <2>3, ReadCacheStep DEF PublicQuery, AdminGetTracking
  <2>4. ASSUME NEW n \in Number, GetTracking(p, n) PROVE IInv'
    BY <2>4, GetTrackingStep
  <2>5. ASSUME RejectWebhook(p) \/ RejectTisPush(p) PROVE IInv'
    BY <2>5, ReplyStep DEF RejectWebhook, RejectTisPush
  <2>6. QED
    BY <1>1, <2>1, <2>2, <2>3, <2>4, <2>5 DEF Arrive
<1>2. ASSUME NEW p \in Proc, Serving(p) PROVE IInv'
  BY <1>2, UpsertStep, UpsertErrorStep, CacheSetStep, MapStatusStep, SyncTrackingLogStep,
     FindRowStep, FillCacheStep DEF Serving
<1>3. ASSUME Environment PROVE IInv'
  BY <1>3, AutoSignStep, CreateLogStep, RegisterOverseasStep, ExpireStep, CrashStep
     DEF Environment
<1>4. ASSUME UNCHANGED vars PROVE IInv'
  BY <1>4, StutterStep
<1>5. QED
  BY <1>1, <1>2, <1>3, <1>4 DEF Next

\* The invariant of the store: every execution of the handlers, with any number
\* of requests, waybills and bodies and with every fault, keeps IInv.
THEOREM Invariant == Spec => []IInv
BY InitInv, StepInv, PTL DEF Spec

\* Requests, rows, Redis entries and logs always have their types.
THEOREM TypeCorrect == Spec => []TypeOK
<1>1. IInv => TypeOK
  BY DEF IInv
<1>2. QED
  BY <1>1, Invariant, PTL

\* Redis and readers only get what an upsert of that number ran with, however
\* Save, cache fills, expiry and crashes interleave.
THEOREM ShownWasExecutedCorrect == Spec => []ShownWasExecuted
<1>1. IInv => ShownWasExecuted
  BY DEF IInv
<1>2. QED
  BY <1>1, Invariant, PTL

\* Before auto_sign marks a row, Redis and readers only get what the row held.
THEOREM UnsignedShownWasStoredCorrect == Spec => []UnsignedShownWasStored
<1>1. IInv => UnsignedShownWasStored
  BY DEF IInv, RowInv, ShownWasExecuted, UnsignedShownWasStored
<1>2. QED
  BY <1>1, Invariant, PTL

\* A synced tracking_logs row has the status and timestamps of one TIS push,
\* although TisPush computes and writes them in separate calls.
THEOREM LogIsOnePushCorrect == Spec => []LogIsOnePush
<1>1. IInv => LogIsOnePush
  BY DEF IInv
<1>2. QED
  BY <1>1, Invariant, PTL

\* What a step can do as seen by the row and its readers: an upsert, auto_sign,
\* an answer with an executed body, or nothing.
RowSteps ==
    \/ \E n \in Number, b \in Body : ApplyUpsert(n, b) /\ UNCHANGED served
    \/ \E n \in Number, b \in Body : AutoSign(n, b)
    \/ \E n \in Number, b \in Body :
          b \in executed[n] /\ served' = Note(served, n, b) /\ UNCHANGED <<store, executed>>
    \/ UNCHANGED <<store, executed, served>>

\* Every step is one of these.
LEMMA ServingRowSteps ==
    ASSUME IInv, NEW p \in Proc, Serving(p)
    PROVE  RowSteps
<1>1. /\ num[p] \in Number
      /\ pc[p] \in {"upsert", "cache"} => held[p] \in Body
      /\ pc[p] = "fill" => held[p] \in executed[num[p]]
      /\ executed[num[p]] \subseteq Body
  BY DEF IInv, TypeOK, RequestType, StoreType, RequestInv, RequestOK
<1>2. CASE Upsert(p)
  BY <1>1, <1>2 DEF Upsert, RowSteps
<1>3. CASE UpsertError(p)
  BY <1>1, <1>3 DEF UpsertError, RowSteps
<1>4. CASE CacheSet(p)
  BY <1>4 DEF CacheSet, history, RowSteps
<1>5. CASE MapStatus(p)
  BY <1>5 DEF MapStatus, history, RowSteps
<1>6. CASE SyncTrackingLog(p)
  BY <1>6 DEF SyncTrackingLog, history, RowSteps
<1>7. CASE FindRow(p)
  BY <1>7 DEF FindRow, history, RowSteps
<1>8. CASE FillCache(p)
  <2>1. held[p] \in executed[num[p]] /\ held[p] \in Body
    BY <1>1, <1>8 DEF FillCache
  <2>2. served' = Note(served, num[p], held[p]) /\ UNCHANGED <<store, executed>>
    BY <1>8 DEF FillCache, Serve
  <2>3. QED
    BY <1>1, <2>1, <2>2 DEF RowSteps
<1>9. QED
  BY <1>2, <1>3, <1>4, <1>5, <1>6, <1>7, <1>8 DEF Serving

\* What a request that arrives may do to the rows and readers.
LEMMA ArriveRowSteps ==
    ASSUME IInv, NEW p \in Proc, Arrive(p)
    PROVE  RowSteps
<1>1. CASE UNCHANGED <<store, executed, served>>
  BY <1>1 DEF RowSteps
<1>2. ASSUME NEW n \in Number, NEW b, Serve(p, n, b), b \in executed[n],
             UNCHANGED <<store, executed>>
      PROVE  RowSteps
  <2>1. b \in Body
    BY <1>2 DEF IInv, TypeOK, StoreType
  <2>2. served' = Note(served, n, b)
    BY <1>2 DEF Serve
  <2>3. QED
    BY <1>2, <2>1, <2>2 DEF RowSteps
<1>3. ASSUME NEW n \in Number, ReadCache(p, n) PROVE RowSteps
  <2>1. UNCHANGED <<store, executed>>
    BY <1>3 DEF ReadCache
  <2>2. CASE UNCHANGED served
    BY <1>1, <2>1, <2>2
  <2>3. CASE cache[n] # NoBody /\ Serve(p, n, cache[n])
    <3>1. cache[n] \in executed[n]
      BY <2>3 DEF IInv, ShownWasExecuted, Shown
    <3>2. QED
      BY <1>2, <2>1, <2>3, <3>1
  <2>4. QED
    BY <1>3, <2>2, <2>3 DEF ReadCache
<1>4. ASSUME NEW n \in Number, GetTracking(p, n) PROVE RowSteps
  <2>1. UNCHANGED <<store, executed>>
    BY <1>4 DEF GetTracking
  <2>2. CASE UNCHANGED served
    BY <1>1, <2>1, <2>2
  <2>3. CASE detail[n] # NoBody /\ Serve(p, n, detail[n])
    <3>1. detail[n] \in executed[n]
      BY <2>3 DEF IInv, RowInv
    <3>2. QED
      BY <1>2, <2>1, <2>3, <3>1
  <2>4. QED
    BY <1>4, <2>2, <2>3 DEF GetTracking
<1>5. ASSUME \/ \E n \in Number : \/ \E b \in WebhookBody : Webhook(p, n, b)
                                 \/ \E b \in TisBody : TisPush(p, n, b)
             \/ RejectWebhook(p)
             \/ RejectTisPush(p)
      PROVE  RowSteps
  BY <1>1, <1>5 DEF Webhook, TisPush, RejectWebhook, RejectTisPush, history
<1>6. QED
  BY <1>3, <1>4, <1>5 DEF Arrive, PublicQuery, AdminGetTracking

\* Every step is one of the register's steps or a stutter on the rows.
LEMMA NextRowSteps ==
    ASSUME IInv, [Next]_vars
    PROVE  RowSteps
<1>1. ASSUME Environment PROVE RowSteps
  BY <1>1 DEF Environment, CreateLog, RegisterOverseas, Expire, Crash, history, RowSteps
<1>2. ASSUME UNCHANGED vars PROVE RowSteps
  BY <1>2 DEF vars, history, RowSteps
<1>3. QED
  BY <1>1, <1>2, ArriveRowSteps, ServingRowSteps DEF Next

\* None of these changes a signed row.
LEMMA RowStepsFreeze ==
    ASSUME IInv, RowSteps, NEW n \in Number, auto_delivered[n]
    PROVE  auto_delivered'[n] /\ detail'[n] = detail[n] /\ last_detail'[n] = last_detail[n]
<1>1. /\ detail \in [Number -> Body \cup {NoBody}]
      /\ last_detail \in [Number -> Body \cup {NoBody}]
      /\ auto_delivered \in [Number -> BOOLEAN]
  BY DEF IInv, TypeOK, StoreType
<1>2. ASSUME NEW m \in Number, NEW b \in Body, ApplyUpsert(m, b)
      PROVE  auto_delivered'[n] /\ detail'[n] = detail[n] /\ last_detail'[n] = last_detail[n]
  BY <1>1, <1>2 DEF ApplyUpsert, store
<1>3. ASSUME NEW m \in Number, NEW b \in Body, AutoSign(m, b)
      PROVE  auto_delivered'[n] /\ detail'[n] = detail[n] /\ last_detail'[n] = last_detail[n]
  BY <1>1, <1>3 DEF AutoSign
<1>4. ASSUME UNCHANGED store
      PROVE  auto_delivered'[n] /\ detail'[n] = detail[n] /\ last_detail'[n] = last_detail[n]
  BY <1>4 DEF store
<1>5. QED
  BY <1>2, <1>3, <1>4 DEF RowSteps

\* A row with auto_delivered_at is never changed again by Save.
THEOREM SignedRowFrozenCorrect == Spec => SignedRowFrozen
<1>1. IInv /\ [Next]_vars =>
        [\A n \in Number : auto_delivered[n] =>
            /\ auto_delivered'[n]
            /\ detail'[n] = detail[n]
            /\ last_detail'[n] = last_detail[n]]_vars
  BY NextRowSteps, RowStepsFreeze
<1>2. QED
  BY <1>1, Invariant, PTL DEF Spec, SignedRowFrozen

\* Only the process itself, or a crash, takes a request off the service.
LEMMA ReplyIsOwn ==
    ASSUME IInv, [Next]_vars, NEW p \in Proc, pc[p] # "idle", pc'[p] = "idle", answer' = 200
    PROVE  Serving(p)
<1>1. pc \in [Proc -> {"idle", "upsert", "cache", "map", "sync", "find", "fill"}]
  BY DEF IInv, TypeOK, RequestType
<1>2. ASSUME NEW q \in Proc, q # p, Arrive(q) \/ Serving(q) PROVE FALSE
  <2>1. pc'[p] = pc[p]
    BY <1>1, <1>2 DEF Arrive, Serving, Webhook, TisPush, PublicQuery, AdminGetTracking,
       GetTracking, RejectWebhook, RejectTisPush, ReadCache, Upsert, UpsertError, CacheSet,
       MapStatus, SyncTrackingLog, FindRow, FillCache, Serve, Begin, Goto, Reply
  <2>2. QED
    BY <2>1
<1>3. ~Arrive(p)
  BY DEF Arrive, Webhook, TisPush, PublicQuery, AdminGetTracking, GetTracking,
     RejectWebhook, RejectTisPush
<1>4. ~Environment
  BY DEF Environment, AutoSign, CreateLog, RegisterOverseas, Expire, Crash
<1>5. ~UNCHANGED vars
  BY DEF vars, request
<1>6. QED
  BY <1>2, <1>3, <1>4, <1>5 DEF Next

\* What a request in progress is answered 200 with, its upsert ran with.
LEMMA AckedStep ==
    ASSUME IInv, [Next]_vars, NEW p \in Proc, pc[p] # "idle", pc'[p] = "idle", answer' = 200
    PROVE  held[p] \in executed[num[p]]
<1>1. Serving(p)
  BY ReplyIsOwn
<1>2. pc[p] \in {"cache", "map", "sync", "fill"}
  <2>1. pc \in [Proc -> {"idle", "upsert", "cache", "map", "sync", "find", "fill"}]
    BY DEF IInv, TypeOK, RequestType
  <2>2. ~Upsert(p) /\ ~UpsertError(p) /\ ~FindRow(p)
    BY <2>1 DEF Upsert, UpsertError, FindRow, Goto, Reply
  <2>3. QED
    BY <1>1, <2>2 DEF Serving, CacheSet, MapStatus, SyncTrackingLog, FillCache
<1>3. QED
  BY <1>2 DEF IInv, RequestInv, RequestOK

\* A push is answered 200 only when its upsert ran.
THEOREM AckedPushExecutedCorrect == Spec => AckedPushExecuted
<1>1. IInv /\ [Next]_vars =>
        [\A p \in Proc :
            /\ pc[p] # "idle" /\ pc'[p] = "idle"
            /\ answer' = 200
            => held[p] \in executed[num[p]]]_vars
  BY AckedStep
<1>2. QED
  BY <1>1, Invariant, PTL DEF Spec, AckedPushExecuted

\* The empty store is the empty register.
LEMMA RegisterInit == Init => Register!Init
BY DEF Init, Register!Init

\* An upsert is Accept or Refuse, auto_sign a Seal, an answer a Tell.
LEMMA RowStepsRegister ==
    ASSUME RowSteps
    PROVE  [Register!Next]_(Register!vars)
<1>1. ASSUME NEW n \in Number, NEW b \in Body, ApplyUpsert(n, b), UNCHANGED served
      PROVE  Register!Accept(n, b) \/ Register!Refuse(n, b)
  BY <1>1 DEF ApplyUpsert, Note, store, Register!Accept, Register!Refuse, Register!Publish
<1>2. ASSUME NEW n \in Number, NEW b \in Body, AutoSign(n, b)
      PROVE  Register!Seal(n, b)
  BY <1>2 DEF AutoSign, Note, Register!Seal, Register!Publish
<1>3. ASSUME NEW n \in Number, NEW b \in Body, b \in executed[n],
             served' = Note(served, n, b), UNCHANGED <<store, executed>>
      PROVE  Register!Tell(n, b)
  BY <1>3 DEF Note, store, Register!Tell
<1>4. ASSUME UNCHANGED <<store, executed, served>>
      PROVE  UNCHANGED Register!vars
  BY <1>4 DEF store, Register!vars
<1>5. QED
  BY <1>1, <1>2, <1>3, <1>4 DEF RowSteps, Register!Next

\* The service implements the register: Save's upsert is Accept or Refuse, an
\* answered query is a Tell, everything else stutters.
THEOREM Refinement == Spec => ImplementsRegister
<1>1. IInv /\ [Next]_vars => [Register!Next]_(Register!vars)
  BY NextRowSteps, RowStepsRegister
<1>2. QED
  BY <1>1, RegisterInit, Invariant, PTL DEF Spec, ImplementsRegister, Register!Spec

\* The row of pushes without a waybill number reaches no reader and no log.
THEOREM EmptyNumberStaysInsideCorrect == Spec => []EmptyNumberStaysInside
<1>1. IInv => EmptyNumberStaysInside
  BY DEF IInv
<1>2. QED
  BY <1>1, Invariant, PTL
\* A step leaves Redis and what is on its way there as they are for n, or brings
\* the row's detail.
Undisturbed(n) ==
    /\ cache'[n] \in {NoBody, cache[n], detail[n]}
    /\ \A q \in Proc : num'[q] = n /\ pc'[q] \in {"cache", "fill"} =>
          \/ num[q] = n /\ pc[q] \in {"cache", "fill"} /\ held'[q] = held[q]
          \/ held'[q] = detail[n]

\* What is settled stays settled under such a step if it leaves the row alone.
LEMMA SettledKept ==
    ASSUME NEW n \in Number, Settled(n), Undisturbed(n), detail'[n] = detail[n]
    PROVE  Settled(n)'
BY DEF Settled, Undisturbed

\* A step that leaves the requests, or ends them, and the entry or drops it.
LEMMA QuietStep ==
    ASSUME NEW n \in Number, cache'[n] \in {NoBody, cache[n]},
           UNCHANGED request \/ \A q \in Proc : pc'[q] = "idle"
    PROVE  Undisturbed(n)
BY DEF Undisturbed, request

\* A step of p that moves on to a call other than a Redis write, or to one with
\* the row's detail, and leaves the other requests alone.
LEMMA OwnStep ==
    ASSUME NEW n \in Number, NEW p \in Proc,
           \A q \in Proc \ {p} : SameRequest(q),
           cache'[n] \in {NoBody, cache[n], detail[n]},
           num'[p] = n /\ pc'[p] \in {"cache", "fill"} => held'[p] = detail[n]
    PROVE  Undisturbed(n)
BY DEF Undisturbed, SameRequest

\* A request writes to Redis what it holds, which is the row's detail wherever
\* the number is settled.
LEMMA SetCacheSettled ==
    ASSUME StoreType, NEW n \in Number, Settled(n), NEW p \in Proc, pc[p] \in {"cache", "fill"},
           SetCache(num[p], held[p])
    PROVE  cache'[n] \in {NoBody, cache[n], detail[n]}
<1>1. cache \in [Number -> Body \cup {NoBody}]
  BY DEF StoreType
<1>2. CASE num[p] = n
  BY <1>1, <1>2 DEF Settled, SetCache
<1>3. CASE num[p] # n
  BY <1>1, <1>3 DEF SetCache
<1>4. QED
  BY <1>2, <1>3

\* No call of a request in progress puts an older body in Redis or on its way
\* there, except the upsert that goes on to Redis.
LEMMA ServingUndisturbed ==
    ASSUME IInv, NEW n \in Number, Settled(n), ~Saves(n), NEW p \in Proc, Serving(p)
    PROVE  Undisturbed(n)
<1>1. TypeOK /\ StoreType /\ num[p] \in Number
  BY DEF IInv, TypeOK, RequestType
<1>2. ASSUME NEW c \in {200, 404, 500}, Reply(p, c), cache'[n] \in {NoBody, cache[n], detail[n]}
      PROVE  Undisturbed(n)
  <2>1. \A q \in Proc \ {p} : SameRequest(q)
    BY <1>1, <1>2, ReplyFacts
  <2>2. pc'[p] = "idle"
    BY <1>1, <1>2 DEF Reply, TypeOK, RequestType
  <2>3. QED
    BY <1>2, <2>1, <2>2, OwnStep
<1>3. CASE Upsert(p)
  <2>1. /\ pc'[p] = "cache" /\ num'[p] = num[p]
        /\ \A q \in Proc \ {p} : SameRequest(q)
    BY <1>1, <1>3, GotoFacts DEF Upsert
  <2>2. num[p] # n /\ cache' = cache
    BY <1>3, <2>1 DEF Upsert, Saves
  <2>3. QED
    BY <2>1, <2>2, OwnStep
<1>4. CASE UpsertError(p)
  BY <1>2, <1>4 DEF UpsertError
<1>5. CASE CacheSet(p)
  <2>1. cache'[n] \in {NoBody, cache[n], detail[n]}
    BY <1>1, <1>5, SetCacheSettled DEF CacheSet
  <2>2. CASE Reply(p, 200)
    BY <1>2, <2>1, <2>2
  <2>3. CASE Goto(p, "map")
    BY <1>1, <2>1, <2>3, GotoFacts, OwnStep
  <2>4. QED
    BY <1>5, <2>2, <2>3 DEF CacheSet
<1>6. CASE MapStatus(p)
  <2>1. /\ pc' = [pc EXCEPT ![p] = "sync"]
        /\ UNCHANGED <<cache, kind, num, held>>
        /\ \E t : ts' = [ts EXCEPT ![p] = t]
    BY <1>6 DEF MapStatus
  <2>2. pc'[p] = "sync" /\ \A q \in Proc \ {p} : SameRequest(q)
    BY <1>1, <2>1, SMT DEF TypeOK, RequestType, SameRequest
  <2>3. QED
    BY <2>1, <2>2, OwnStep
<1>7. CASE SyncTrackingLog(p)
  BY <1>2, <1>7 DEF SyncTrackingLog
<1>8. CASE FindRow(p)
  <2>1. CASE Reply(p, 404)
    BY <1>2, <1>8, <2>1 DEF FindRow
  <2>2. CASE ~Reply(p, 404)
    <3>1. /\ held' = [held EXCEPT ![p] = detail[num[p]]]
          /\ pc' = [pc EXCEPT ![p] = "fill"]
          /\ UNCHANGED <<cache, kind, num, ts>>
      BY <1>8, <2>2 DEF FindRow
    <3>2. /\ held'[p] = detail[num[p]] /\ num'[p] = num[p]
          /\ \A q \in Proc \ {p} : SameRequest(q)
      BY <1>1, <3>1, SMT DEF TypeOK, RequestType, SameRequest
    <3>3. QED
      BY <3>1, <3>2, OwnStep
  <2>3. QED
    BY <2>1, <2>2
<1>9. CASE FillCache(p)
  <2>1. cache'[n] \in {NoBody, cache[n], detail[n]}
    BY <1>1, <1>9, SetCacheSettled DEF FillCache
  <2>2. Reply(p, 200)
    BY <1>9 DEF FillCache, Serve
  <2>3. QED
    BY <1>2, <2>1, <2>2
<1>10. QED
  BY <1>3, <1>4, <1>5, <1>6, <1>7, <1>8, <1>9 DEF Serving

\* Nor does a request that arrives.
LEMMA ArriveUndisturbed ==
    ASSUME IInv, NEW n \in Number, NEW p \in Proc, Arrive(p)
    PROVE  Undisturbed(n)
<1>1. TypeOK
  BY DEF IInv
<1>2. cache' = cache
  BY DEF Arrive, Webhook, TisPush, PublicQuery, AdminGetTracking, GetTracking, ReadCache,
     RejectWebhook, RejectTisPush
<1>3. \/ \E c \in {200, 400, 401, 50003} : Reply(p, c)
      \/ \E k, m, b, label : Begin(p, k, m, b, label) /\ label \in {"upsert", "find"}
  BY DEF Arrive, Webhook, TisPush, PublicQuery, AdminGetTracking, GetTracking, ReadCache,
     RejectWebhook, RejectTisPush, Serve
<1>4. CASE \E c \in {200, 400, 401, 50003} : Reply(p, c)
  <2>1. PICK c \in {200, 400, 401, 50003} : Reply(p, c)
    BY <1>4
  <2>2. \A q \in Proc \ {p} : SameRequest(q)
    BY <1>1, <2>1, ReplyFacts
  <2>3. pc'[p] = "idle"
    BY <1>1, <2>1 DEF Reply, TypeOK, RequestType
  <2>4. QED
    BY <1>2, <2>2, <2>3, OwnStep
<1>5. CASE \E k, m, b, label : Begin(p, k, m, b, label) /\ label \in {"upsert", "find"}
  BY <1>1, <1>2, <1>5, BeginFacts, OwnStep
<1>6. QED
  BY <1>3, <1>4, <1>5

\* Nor does the environment: entries only run out, and a crash ends requests.
LEMMA EnvironmentUndisturbed ==
    ASSUME IInv, NEW n \in Number, Environment \/ UNCHANGED vars
    PROVE  Undisturbed(n)
<1>1. cache \in [Number -> Body \cup {NoBody}]
  BY DEF IInv, TypeOK, StoreType
<1>2. CASE Crash
  BY <1>2, QuietStep DEF Crash
<1>3. CASE \E m \in Number : Expire(m)
  BY <1>1, <1>3, QuietStep DEF Expire
<1>4. CASE \E m \in Number : (\E b \in Body : AutoSign(m, b)) \/ CreateLog(m) \/ RegisterOverseas(m)
  BY <1>4, QuietStep DEF AutoSign, CreateLog, RegisterOverseas
<1>5. CASE UNCHANGED vars
  BY <1>5, QuietStep DEF vars
<1>6. QED
  BY <1>2, <1>3, <1>4, <1>5 DEF Environment

\* The three together: what any step does to Redis for a settled number.
LEMMA NextUndisturbed ==
    ASSUME IInv, [Next]_vars, NEW n \in Number, Settled(n), ~Saves(n)
    PROVE  Undisturbed(n)
BY ServingUndisturbed, ArriveUndisturbed, EnvironmentUndisturbed DEF Next

\* Only a step that stores a body for a number parts Redis from its row.
THEOREM CoherenceLastsCorrect == Spec => CoherenceLasts
<1>1. IInv /\ [Next]_vars =>
        [\A n \in Number : Settled(n) => Settled(n)' \/ Saves(n) \/ detail'[n] # detail[n]]_vars
  BY NextUndisturbed, SettledKept
<1>2. QED
  BY <1>1, Invariant, PTL DEF Spec, CoherenceLasts

\* The number of calls left at each place.
LEMMA CallsOfPlaces ==
    /\ CallsLeft["upsert"] = 4 /\ CallsLeft["cache"] = 3 /\ CallsLeft["map"] = 2
    /\ CallsLeft["sync"] = 1 /\ CallsLeft["find"] = 2 /\ CallsLeft["fill"] = 1
    /\ CallsLeft["idle"] = 0
BY DEF CallsLeft

\* A call brings its own request forward.
LEMMA ServingAdvances ==
    ASSUME TypeOK, NEW p \in Proc, Serving(p)
    PROVE  CallsLeft[pc'[p]] < CallsLeft[pc[p]]
<1>1. pc \in [Proc -> {"idle", "upsert", "cache", "map", "sync", "find", "fill"}]
  BY DEF TypeOK, RequestType
<1>2. \/ pc[p] = "upsert" /\ pc'[p] \in {"cache", "idle"}
      \/ pc[p] = "cache" /\ pc'[p] \in {"map", "idle"}
      \/ pc[p] = "map" /\ pc'[p] = "sync"
      \/ pc[p] = "find" /\ pc'[p] \in {"fill", "idle"}
      \/ pc[p] \in {"sync", "fill"} /\ pc'[p] = "idle"
  BY <1>1 DEF Serving, Upsert, UpsertError, CacheSet, MapStatus, SyncTrackingLog, FindRow,
     FillCache, Serve, Goto, Reply
<1>3. QED
  BY <1>2, CallsOfPlaces

\* Requests come nearer to their end with each of their calls, and by no other
\* step than a crash.
THEOREM RequestAdvancesCorrect == Spec => RequestAdvances
<1>1. ASSUME IInv, [Next]_vars, NEW p \in Proc, pc[p] # "idle"
      PROVE  CallsLeft[pc'[p]] <= CallsLeft[pc[p]]
  <2>1. pc \in [Proc -> {"idle", "upsert", "cache", "map", "sync", "find", "fill"}] /\ TypeOK
    BY <1>1 DEF IInv, TypeOK, RequestType
  <2>2. CASE Serving(p)
    <3>1. pc'[p] \in {"idle", "upsert", "cache", "map", "sync", "find", "fill"}
      BY <1>1, StepInv DEF IInv, TypeOK, RequestType
    <3>2. QED
      BY <2>1, <2>2, <3>1, ServingAdvances, CallsOfPlaces
  <2>3. ASSUME ~Serving(p) PROVE pc'[p] \in {pc[p], "idle"}
    <3>1. ASSUME NEW q \in Proc \ {p}, Arrive(q) \/ Serving(q) PROVE pc'[p] = pc[p]
      BY <2>1, <3>1 DEF Arrive, Serving, Webhook, TisPush, PublicQuery, AdminGetTracking,
         GetTracking, RejectWebhook, RejectTisPush, ReadCache, Upsert, UpsertError, CacheSet,
         MapStatus, SyncTrackingLog, FindRow, FillCache, Serve, Begin, Goto, Reply
    <3>2. ~Arrive(p)
      BY <1>1 DEF Arrive, Webhook, TisPush, PublicQuery, AdminGetTracking, GetTracking,
         RejectWebhook, RejectTisPush
    <3>3. ASSUME Environment PROVE pc'[p] \in {pc[p], "idle"}
      BY <3>3 DEF Environment, AutoSign, CreateLog, RegisterOverseas, Expire, Crash, request
    <3>4. ASSUME UNCHANGED vars PROVE pc'[p] = pc[p]
      BY <3>4 DEF vars, request
    <3>5. QED
      BY <1>1, <2>3, <3>1, <3>2, <3>3, <3>4 DEF Next
  <2>4. QED
    BY <2>1, <2>2, <2>3, CallsOfPlaces
<1>2. IInv /\ [Next]_vars =>
        [\A p \in Proc :
            /\ Serving(p) => CallsLeft[pc'[p]] < CallsLeft[pc[p]]
            /\ pc[p] # "idle" => CallsLeft[pc'[p]] <= CallsLeft[pc[p]]]_vars
  BY <1>1, ServingAdvances DEF IInv
<1>3. QED
  BY <1>2, Invariant, PTL DEF Spec, RequestAdvances
=============================================================================
