---------------------------- MODULE AtRestProofs ----------------------------
(***************************************************************************)
(* With one request at a time and no faults, Redis and tracking_logs       *)
(* follow the unsigned row between requests: the two at-rest properties of *)
(* TrackingStore for any numbers and bodies.                               *)
(***************************************************************************)
EXTENDS TrackingStoreProofs

\* One request at a time, no faults.
Sequential == Faults = {} /\ \A p, q \in Proc : p = q

\* Past its first call the request carries the body of the unsigned row, and
\* a webhook carries a webhook's body.
Current(p) ==
    /\ pc[p] \in {"upsert", "cache"} /\ kind[p] = "webhook" => held[p] \in WebhookBody
    /\ pc[p] \in {"cache", "map", "sync", "fill"} /\ ~auto_delivered[num[p]]
       => held[p] = detail[num[p]]

\* Redis follows the unsigned row, or is about to.
Cached(n) ==
    ~auto_delivered[n] => \/ cache[n] \in {NoBody, detail[n]}
                          \/ \E p \in Proc : pc[p] = "cache" /\ num[p] = n

\* The synced log row follows the unsigned row of a TIS push, or is about to.
Logged(n) ==
    /\ ~auto_delivered[n]
    /\ detail[n] \in TisBody \ WebhookBody
    /\ log[n] # NoLog
    /\ log[n].synced
    => \/ log[n].times = detail[n].times
       \/ \E p \in Proc : /\ pc[p] \in {"cache", "map", "sync"}
                          /\ num[p] = n

\* The inductive invariant, on top of IInv.
AtRestInv ==
    /\ \A p \in Proc : Current(p)
    /\ \A n \in Number : Cached(n) /\ Logged(n)

\* Alone, a request that starts or ends finds everything at rest, and leaves it.
LEMMA RestKept ==
    ASSUME IInv, AtRestInv, Sequential, NEW p \in Proc, pc[p] \in {"idle", "find"},
           UNCHANGED <<store, cache, log>>, Current(p)'
    PROVE  AtRestInv'
<1>1. \A q \in Proc : q = p
  BY DEF Sequential
<1>2. \A q \in Proc : Current(q)'
  BY <1>1
<1>3. \A q \in Proc : pc[q] \notin {"cache", "map", "sync"}
  BY <1>1
<1>4. \A n \in Number : Cached(n)' /\ Logged(n)'
  BY <1>3 DEF AtRestInv, Cached, Logged, store
<1>5. QED
  BY <1>2, <1>4 DEF AtRestInv

\* An answered request relies on nothing.
LEMMA AnsweredCurrent ==
    ASSUME IInv, NEW p \in Proc, NEW c, Reply(p, c)
    PROVE  pc'[p] = "idle" /\ Current(p)'
<1>1. pc'[p] = "idle"
  BY DEF Reply, IInv, TypeOK, RequestType
<1>2. QED
  BY <1>1 DEF Current

\* A push or a query begins.
LEMMA BegunCurrent ==
    ASSUME IInv, NEW p \in Proc, NEW k, NEW n, NEW b, NEW label \in {"upsert", "find"},
           Begin(p, k, n, b, label), k = "webhook" => b \in WebhookBody
    PROVE  Current(p)'
<1>1. pc'[p] = label /\ kind'[p] = k /\ held'[p] = b
  BY BeginFacts DEF IInv
<1>2. QED
  BY <1>1 DEF Current

\* Arrivals find the stores at rest and leave them alone.
LEMMA ArriveAtRest ==
    ASSUME IInv, AtRestInv, Sequential, NEW p \in Proc, Arrive(p)
    PROVE  AtRestInv'
<1>1. pc[p] = "idle" /\ UNCHANGED <<store, cache, log>>
  BY DEF Arrive, Webhook, TisPush, PublicQuery, AdminGetTracking, GetTracking,
         RejectWebhook, RejectTisPush, ReadCache
<1>2. Current(p)'
  <2>1. ASSUME NEW n \in Number, NEW b \in WebhookBody, Webhook(p, n, b)
        PROVE  Current(p)'
    BY <2>1, BegunCurrent DEF Webhook
  <2>2. ASSUME NEW n \in Number, NEW b \in TisBody, TisPush(p, n, b)
        PROVE  Current(p)'
    <3>1. Begin(p, "tis", n, b, "upsert")
      BY <2>2 DEF TisPush
    <3>2. QED
      BY <3>1, BegunCurrent
  <2>3. ASSUME NEW n \in Number, ReadCache(p, n)
        PROVE  Current(p)'
    <3>1. CASE \E c : Reply(p, c)
      BY <3>1, AnsweredCurrent
    <3>2. CASE Begin(p, "query", n, NoBody, "find")
      BY <3>2, BegunCurrent
    <3>3. QED
      BY <2>3, <3>1, <3>2 DEF ReadCache, Serve
  <2>4. ASSUME NEW n \in Number, GetTracking(p, n)
        PROVE  Current(p)'
    BY <2>4, AnsweredCurrent DEF GetTracking, Serve
  <2>5. ASSUME RejectWebhook(p) \/ RejectTisPush(p)
        PROVE  Current(p)'
    BY <2>5, AnsweredCurrent DEF RejectWebhook, RejectTisPush
  <2>6. QED
    BY <2>1, <2>2, <2>3, <2>4, <2>5 DEF Arrive, PublicQuery, AdminGetTracking
<1>3. QED
  BY <1>1, <1>2, RestKept

\* The upsert makes the held body the row's, unless the row is signed.
LEMMA UpsertAtRest ==
    ASSUME IInv, AtRestInv, Sequential, NEW p \in Proc, Upsert(p)
    PROVE  AtRestInv'
<1> DEFINE n == num[p]
<1>1. n \in Number /\ detail \in [Number -> Body \cup {NoBody}] /\ auto_delivered \in [Number -> BOOLEAN]
  BY DEF IInv, TypeOK, RequestType, StoreType
<1>2. \A q \in Proc : q = p
  BY DEF Sequential
<1>3. /\ pc[p] = "upsert" /\ pc'[p] = "cache"
      /\ kind'[p] = kind[p] /\ num'[p] = n /\ held'[p] = held[p]
  BY GotoFacts DEF Upsert, IInv
<1>4. /\ UNCHANGED <<cache, log, auto_delivered>>
      /\ ~auto_delivered[n] => detail'[n] = held[p]
      /\ \A m \in Number \ {n} : detail'[m] = detail[m]
  BY <1>1 DEF Upsert, ApplyUpsert, store
<1> HIDE DEF n
<1>5. Current(p)'
  BY <1>3, <1>4 DEF Current, AtRestInv
<1>6. ASSUME NEW m \in Number
      PROVE  Cached(m)' /\ Logged(m)'
  <2>1. CASE m = n
    <3>1. \E q \in Proc : pc'[q] = "cache" /\ num'[q] = m
      BY <1>3, <2>1
    <3>2. QED
      BY <3>1 DEF Cached, Logged
  <2>2. CASE m # n
    BY <1>2, <1>3, <1>4, <2>2 DEF AtRestInv, Cached, Logged
  <2>3. QED
    BY <2>1, <2>2
<1>7. QED
  BY <1>2, <1>5, <1>6 DEF AtRestInv

\* Redis takes the body of the row; a webhook ends here, and the row is not
\* one that only TIS pushes write.
LEMMA CacheSetAtRest ==
    ASSUME IInv, AtRestInv, Sequential, NEW p \in Proc, CacheSet(p)
    PROVE  AtRestInv'
<1> DEFINE n == num[p]
<1>1. n \in Number /\ cache \in [Number -> Body \cup {NoBody}]
  BY DEF IInv, TypeOK, RequestType, StoreType
<1>2. \A q \in Proc : q = p
  BY DEF Sequential
<1>3. /\ pc[p] = "cache"
      /\ UNCHANGED <<detail, auto_delivered, log>>
      /\ cache' = [cache EXCEPT ![n] = held[p]]
  BY DEF CacheSet, SetCache, Sequential, store
<1>4. \/ kind[p] = "webhook" /\ pc'[p] = "idle"
      \/ /\ kind[p] # "webhook" /\ pc'[p] = "map"
         /\ kind'[p] = kind[p] /\ num'[p] = n /\ held'[p] = held[p]
  BY GotoFacts, AnsweredCurrent DEF CacheSet, IInv
<1>5. /\ ~auto_delivered[n] => held[p] = detail[n]
      /\ kind[p] = "webhook" => held[p] \in WebhookBody
  BY <1>3 DEF AtRestInv, Current
<1> HIDE DEF n
<1>6. Current(p)'
  BY <1>3, <1>4, <1>5 DEF Current
<1>7. ASSUME NEW m \in Number
      PROVE  Cached(m)' /\ Logged(m)'
  <2>1. CASE m = n
    <3>1. Cached(m)'
      BY <1>1, <1>3, <1>5, <2>1 DEF Cached
    <3>2. Logged(m)'
      BY <1>3, <1>4, <1>5, <2>1 DEF Logged
    <3>3. QED
      BY <3>1, <3>2
  <2>2. CASE m # n
    <3>1. cache'[m] = cache[m]
      BY <1>1, <1>3, <2>2
    <3>2. num[p] # m
      BY <2>2 DEF n
    <3>3. QED
      BY <1>2, <1>3, <3>1, <3>2 DEF AtRestInv, Cached, Logged
  <2>3. QED
    BY <2>1, <2>2
<1>8. QED
  BY <1>2, <1>6, <1>7 DEF AtRestInv

\* Computing track_status touches no store.
LEMMA MapStatusAtRest ==
    ASSUME IInv, AtRestInv, Sequential, NEW p \in Proc, MapStatus(p)
    PROVE  AtRestInv'
<1>1. \A q \in Proc : q = p
  BY DEF Sequential
<1>2. /\ pc[p] = "map" /\ pc'[p] = "sync"
      /\ UNCHANGED <<detail, auto_delivered, cache, log, num, held, kind>>
  BY DEF MapStatus, IInv, TypeOK, RequestType, store
<1>3. Current(p)'
  BY <1>2 DEF AtRestInv, Current
<1>4. \A m \in Number : Cached(m)' /\ Logged(m)'
  BY <1>1, <1>2 DEF AtRestInv, Cached, Logged
<1>5. QED
  BY <1>1, <1>3, <1>4 DEF AtRestInv

\* The UPDATE brings the times of the row to its log row, where there is one.
LEMMA SyncAtRest ==
    ASSUME IInv, AtRestInv, Sequential, NEW p \in Proc, SyncTrackingLog(p)
    PROVE  AtRestInv'
<1> DEFINE n == num[p]
<1>1. n \in Number /\ log \in [Number -> LogRow \cup {NoLog}]
  BY DEF IInv, TypeOK, RequestType, StoreType
<1>2. \A q \in Proc : q = p
  BY DEF Sequential
<1>3. /\ pc[p] = "sync" /\ pc'[p] = "idle" /\ Current(p)'
      /\ UNCHANGED <<detail, auto_delivered, cache>>
      /\ UpdateLog(n, ts[p], held[p].times)
  BY AnsweredCurrent DEF SyncTrackingLog, Sequential, store
<1>4. ~auto_delivered[n] => held[p] = detail[n]
  BY <1>3 DEF AtRestInv, Current
<1>5. \A m \in Number \ {n} : log'[m] = log[m]
  BY <1>1, <1>3 DEF UpdateLog
<1>6. \/ log'[n] = NoLog
      \/ n = EmptyNumber /\ ~log'[n].synced
      \/ log'[n].times = held[p].times
  BY <1>1, <1>3 DEF UpdateLog, IInv, EmptyNumberStaysInside
<1>7. ASSUME NEW m \in Number
      PROVE  Cached(m)' /\ Logged(m)'
  <2>1. Cached(m)'
    BY <1>2, <1>3 DEF AtRestInv, Cached
  <2>2. CASE m = n
    BY <1>3, <1>4, <1>6, <2>1, <2>2 DEF Logged
  <2>3. CASE m # n
    BY <1>2, <1>3, <1>5, <2>1, <2>3 DEF AtRestInv, Logged
  <2>4. QED
    BY <2>2, <2>3
<1>8. QED
  BY <1>2, <1>3, <1>7 DEF AtRestInv

\* A reader takes the row as it is.
LEMMA FindRowAtRest ==
    ASSUME IInv, AtRestInv, Sequential, NEW p \in Proc, FindRow(p)
    PROVE  AtRestInv'
<1>1. pc[p] = "find" /\ UNCHANGED <<store, cache, log>>
  BY DEF FindRow
<1>2. CASE Reply(p, 404)
  BY <1>1, <1>2, AnsweredCurrent, RestKept
<1>3. CASE /\ held' = [held EXCEPT ![p] = detail[num[p]]]
           /\ pc' = [pc EXCEPT ![p] = "fill"]
           /\ UNCHANGED num
  <2>1. pc'[p] = "fill" /\ held'[p] = detail'[num'[p]]
    BY <1>1, <1>3 DEF IInv, TypeOK, RequestType, store
  <2>2. Current(p)'
    BY <2>1 DEF Current
  <2>3. QED
    BY <1>1, <2>2, RestKept
<1>4. QED
  BY <1>2, <1>3 DEF FindRow

\* The fill writes the row's own body, unless the row was signed in between.
LEMMA FillCacheAtRest ==
    ASSUME IInv, AtRestInv, Sequential, NEW p \in Proc, FillCache(p)
    PROVE  AtRestInv'
<1> DEFINE n == num[p]
<1>1. n \in Number /\ cache \in [Number -> Body \cup {NoBody}]
  BY DEF IInv, TypeOK, RequestType, StoreType
<1>2. \A q \in Proc : q = p
  BY DEF Sequential
<1>3. /\ pc[p] = "fill" /\ Current(p)'
      /\ UNCHANGED <<detail, auto_delivered, log>>
      /\ cache' = [cache EXCEPT ![n] = held[p]]
  BY AnsweredCurrent DEF FillCache, SetCache, Serve, Sequential, store
<1>4. ~auto_delivered[n] => held[p] = detail[n]
  BY <1>3 DEF AtRestInv, Current
<1> HIDE DEF n
<1>5. \A m \in Number : Cached(m)' /\ Logged(m)'
  BY <1>1, <1>2, <1>3, <1>4 DEF AtRestInv, Cached, Logged
<1>6. QED
  BY <1>2, <1>3, <1>5 DEF AtRestInv

\* auto_sign ends what is promised of a row; an expired entry and a fresh log
\* row promise nothing; without faults the service is not killed.
LEMMA EnvironmentAtRest ==
    ASSUME IInv, AtRestInv, Sequential, Environment
    PROVE  AtRestInv'
<1>1. UNCHANGED <<pc, kind, num, held>>
  BY DEF Environment, AutoSign, CreateLog, RegisterOverseas, Expire, Crash, Sequential, request
<1> SUFFICES ASSUME NEW n \in Number,
                    \/ \E b \in Body : AutoSign(n, b)
                    \/ CreateLog(n) \/ RegisterOverseas(n) \/ Expire(n)
             PROVE  AtRestInv'
  BY DEF Environment, Crash, Sequential
<1>2. /\ detail \in [Number -> Body \cup {NoBody}]
      /\ auto_delivered \in [Number -> BOOLEAN]
      /\ cache \in [Number -> Body \cup {NoBody}]
      /\ log \in [Number -> LogRow \cup {NoLog}]
      /\ num \in [Proc -> Number]
  BY DEF IInv, TypeOK, RequestType, StoreType
<1>3. CASE \E b \in Body : AutoSign(n, b)
  <2>1. /\ auto_delivered'[n]
        /\ \A m \in Number \ {n} : /\ auto_delivered'[m] = auto_delivered[m]
                                   /\ detail'[m] = detail[m]
        /\ UNCHANGED <<cache, log>>
    BY <1>2, <1>3 DEF AutoSign
  <2>2. QED
    BY <1>1, <1>2, <2>1 DEF AtRestInv, Current, Cached, Logged
<1>4. CASE CreateLog(n)
  <2>1. /\ ~log'[n].synced
        /\ \A m \in Number \ {n} : log'[m] = log[m]
        /\ UNCHANGED <<detail, auto_delivered, cache>>
    BY <1>2, <1>4 DEF CreateLog, FreshLog, store
  <2>2. QED
    BY <1>1, <2>1 DEF AtRestInv, Current, Cached, Logged
<1>5. CASE RegisterOverseas(n)
  BY <1>1, <1>5 DEF RegisterOverseas, AtRestInv, Current, Cached, Logged, store
<1>6. CASE Expire(n)
  <2>1. /\ cache'[n] = NoBody
        /\ \A m \in Number \ {n} : cache'[m] = cache[m]
        /\ UNCHANGED <<detail, auto_delivered, log>>
    BY <1>2, <1>6 DEF Expire, store
  <2>2. QED
    BY <1>1, <2>1 DEF AtRestInv, Current, Cached, Logged
<1>7. QED
  BY <1>3, <1>4, <1>5, <1>6

\* Every step keeps the invariant.
LEMMA StepAtRest ==
    ASSUME IInv, AtRestInv, Sequential, [Next]_vars
    PROVE  AtRestInv'
<1>1. ASSUME NEW p \in Proc, Arrive(p)
      PROVE  AtRestInv'
  BY <1>1, ArriveAtRest
<1>2. ASSUME NEW p \in Proc, Serving(p)
      PROVE  AtRestInv'
  <2>1. ~UpsertError(p)
    BY DEF UpsertError, Sequential
  <2>2. QED
    BY <1>2, <2>1, UpsertAtRest, CacheSetAtRest, MapStatusAtRest, SyncAtRest,
       FindRowAtRest, FillCacheAtRest DEF Serving
<1>3. CASE Environment
  BY <1>3, EnvironmentAtRest
<1>4. CASE UNCHANGED vars
  BY <1>4 DEF vars, store, request, AtRestInv, Current, Cached, Logged
<1>5. QED
  BY <1>1, <1>2, <1>3, <1>4 DEF Next

\* One request at a time, without faults, keeps the invariant.
THEOREM AtRestInvariant ==
    ASSUME Sequential
    PROVE  Spec => []AtRestInv
<1>1. Init => AtRestInv
  BY DEF Init, AtRestInv, Current, Cached, Logged
<1>2. IInv /\ AtRestInv /\ [Next]_vars => AtRestInv'
  BY StepAtRest
<1>3. QED
  BY <1>1, <1>2, Invariant, PTL DEF Spec

\* Between requests Redis never holds anything but the detail of the unsigned row.
THEOREM AtRestCoherentCorrect ==
    ASSUME Sequential
    PROVE  Spec => []AtRestCoherent
<1>1. AtRestInv => AtRestCoherent
  BY DEF AtRestInv, AtRestCoherent, AtRest, Cached
<1>2. QED
  BY <1>1, AtRestInvariant, PTL

\* Between requests the synced log row of an unsigned row a TIS push wrote last
\* has the times of that push.
THEOREM AtRestLogFollowsRowCorrect ==
    ASSUME Sequential
    PROVE  Spec => []AtRestLogFollowsRow
<1>1. AtRestInv => AtRestLogFollowsRow
  BY DEF AtRestInv, AtRestLogFollowsRow, AtRest, Logged
<1>2. QED
  BY <1>1, AtRestInvariant, PTL
=============================================================================
