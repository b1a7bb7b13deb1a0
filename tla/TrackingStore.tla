--------------------------- MODULE TrackingStore ---------------------------
(***************************************************************************)
(* The write-through store of tracking details and the requests that run   *)
(* concurrently against it.                                                *)
(*                                                                         *)
(*   - tracking_details, one row per waybill number (PostgreSQL);          *)
(*   - the Redis entry of each number (infrastructure/cache);              *)
(*   - tracking_logs, rows Ruby creates and the TIS push updates.          *)
(*                                                                         *)
(* A process is a request being served.  Each call it makes to the         *)
(* database or to Redis is one step, so that the calls of other requests,  *)
(* of Ruby's auto_sign job and of the Redis expiry fall between them.      *)
(* A body is what a push becomes once formatted: the detail JSON with its  *)
(* status column and the timestamps a TIS push sends to tracking_logs.     *)
(***************************************************************************)
EXTENDS StatusMapping

CONSTANTS
    Proc,           \* concurrent requests
    Number,         \* waybill numbers
    EmptyNumber,    \* the empty string, which a push may carry
    WebhookBody,    \* what the OMS webhook may push, formatted
    TisBody,        \* what the TIS push may push, formatted
    NoBody,         \* no row, no cache entry, SQL NULL
    NoLog,          \* no row in tracking_logs
    NoTimes,        \* timestamps of a tracking_logs row never synced
    Faults          \* which faults may occur: "db", "redis", "crash"

Body == WebhookBody \cup TisBody

ASSUME NumberAssumption == Number # {}
ASSUME BodyAssumption   == NoBody \notin Body
ASSUME FaultsAssumption == Faults \subseteq {"db", "redis", "crash"}

VARIABLES
    detail,             \* tracking_details.detail of each number
    last_detail,        \* tracking_details.last_detail
    auto_delivered,     \* auto_delivered_at IS NOT NULL
    cache,              \* the Redis entry of each number
    log,                \* the tracking_logs row of each number
    overseas,           \* the number has an overseas package row
    pc, kind, num, held, ts, \* a request: next call, route, number, body, track_status
    answer,             \* the code a step answers its request with, or 0
    accepted, executed, \* history: bodies the row held, bodies an upsert ran with
    served              \* history: bodies readers were given

store   == <<detail, last_detail, auto_delivered>>
request == <<pc, kind, num, held, ts>>
history == <<accepted, executed, served>>
vars    == <<store, cache, log, overseas, request, answer, history>>

Times   == {b.times : b \in TisBody} \cup {NoTimes}
LogRow  == [track_status : 0..3, synced : BOOLEAN, times : Times]
FreshLog == [track_status |-> 0, synced |-> FALSE, times |-> NoTimes]

RequestType ==
    /\ pc \in [Proc -> {"idle", "upsert", "cache", "map", "sync", "find", "fill"}]
    /\ kind \in [Proc -> {"none", "webhook", "tis", "query"}]
    /\ num \in [Proc -> Number]
    /\ held \in [Proc -> Body \cup {NoBody}]
    /\ ts \in [Proc -> 0..3]
    /\ answer \in {0, 200, 400, 401, 404, 500, 50003}

StoreType ==
    /\ detail \in [Number -> Body \cup {NoBody}]
    /\ last_detail \in [Number -> Body \cup {NoBody}]
    /\ auto_delivered \in [Number -> BOOLEAN]
    /\ cache \in [Number -> Body \cup {NoBody}]
    /\ log \in [Number -> LogRow \cup {NoLog}]
    /\ overseas \in [Number -> BOOLEAN]
    /\ accepted \in [Number -> SUBSET Body]
    /\ executed \in [Number -> SUBSET Body]
    /\ served \in [Number -> SUBSET Body]

\* Requests and stores hold what their types say.
TypeOK == RequestType /\ StoreType

Init ==
    /\ detail = [n \in Number |-> NoBody]
    /\ last_detail = [n \in Number |-> NoBody]
    /\ auto_delivered = [n \in Number |-> FALSE]
    /\ cache = [n \in Number |-> NoBody]
    /\ log = [n \in Number |-> NoLog]
    /\ overseas = [n \in Number |-> FALSE]
    /\ pc = [p \in Proc |-> "idle"]
    /\ kind = [p \in Proc |-> "none"]
    /\ num = [p \in Proc |-> CHOOSE n \in Number : TRUE]
    /\ held = [p \in Proc |-> NoBody]
    /\ ts = [p \in Proc |-> 0]
    /\ answer = 0
    /\ accepted = [n \in Number |-> {}]
    /\ executed = [n \in Number |-> {}]
    /\ served = [n \in Number |-> {}]

(***************************************************************************)
(* Requests arrive and are answered                                        *)
(***************************************************************************)

\* An idle process takes a request whose next call is the one at label.
Begin(p, k, n, b, label) ==
    /\ pc' = [pc EXCEPT ![p] = label]
    /\ kind' = [kind EXCEPT ![p] = k]
    /\ num' = [num EXCEPT ![p] = n]
    /\ held' = [held EXCEPT ![p] = b]
    /\ answer' = 0
    /\ UNCHANGED ts

\* The request goes on with its next call.
Goto(p, label) ==
    /\ pc' = [pc EXCEPT ![p] = label]
    /\ answer' = 0
    /\ UNCHANGED <<kind, num, held, ts>>

\* The request is answered with c and its goroutine ends.
Reply(p, c) ==
    /\ pc' = [pc EXCEPT ![p] = "idle"]
    /\ kind' = [kind EXCEPT ![p] = "none"]
    /\ held' = [held EXCEPT ![p] = NoBody]
    /\ ts' = [ts EXCEPT ![p] = 0]
    /\ answer' = c
    /\ UNCHANGED num

Note(set, n, b) == [set EXCEPT ![n] = @ \cup {b}]

\* WebhookNormalHandler and WebhookGEHandler let the push through to Webhook,
\* which formats it (b) and calls Save.
Webhook(p, n, b) ==
    /\ pc[p] = "idle"
    /\ Begin(p, "webhook", n, b, "upsert")
    /\ UNCHANGED <<store, cache, log, overseas, history>>

\* A body that cannot be parsed (400) or a wrong signature (401) is answered
\* before anything is stored.
RejectWebhook(p) ==
    /\ pc[p] = "idle"
    /\ \E c \in {400, 401} : Reply(p, c)
    /\ UNCHANGED <<store, cache, log, overseas, history>>

\* TisPushHandler passes a push with data on to TisPush.
TisPush(p, n, b) ==
    /\ pc[p] = "idle"
    /\ Begin(p, "tis", n, b, "upsert")
    /\ UNCHANGED <<store, cache, log, overseas, history>>

\* A TIS push that cannot be parsed or has no data is answered 400.
RejectTisPush(p) ==
    /\ pc[p] = "idle"
    /\ Reply(p, 400)
    /\ UNCHANGED <<store, cache, log, overseas, history>>

(***************************************************************************)
(* TrackingRepoImpl.Save: one upsert statement, then the Redis entry       *)
(***************************************************************************)

\* Wrong versions of the statement: ON CONFLICT DO NOTHING; no WHERE clause;
\* last_detail missing from the SET list.
ApplyUpsertDoNothing(n, b) ==
    /\ executed' = Note(executed, n, b)
    /\ IF detail[n] # NoBody
       THEN UNCHANGED <<store, accepted>>
       ELSE /\ detail' = [detail EXCEPT ![n] = b]
            /\ accepted' = Note(accepted, n, b)
            /\ UNCHANGED <<last_detail, auto_delivered>>

ApplyUpsertAlways(n, b) ==
    /\ executed' = Note(executed, n, b)
    /\ last_detail' = [last_detail EXCEPT ![n] = detail[n]]
    /\ detail' = [detail EXCEPT ![n] = b]
    /\ accepted' = Note(accepted, n, b)
    /\ UNCHANGED auto_delivered

ApplyUpsertNoBackup(n, b) ==
    /\ executed' = Note(executed, n, b)
    /\ IF auto_delivered[n]
       THEN UNCHANGED <<store, accepted>>
       ELSE /\ detail' = [detail EXCEPT ![n] = b]
            /\ accepted' = Note(accepted, n, b)
            /\ UNCHANGED <<last_detail, auto_delivered>>

\* The statement: INSERT ... ON CONFLICT DO UPDATE ... WHERE auto_delivered_at
\* IS NULL.  An insert leaves last_detail NULL, which is what detail reads
\* where there is no row; a signed row is left alone without an error.
ApplyUpsert(n, b) ==
    /\ executed' = Note(executed, n, b)
    /\ IF auto_delivered[n]
       THEN UNCHANGED <<store, accepted>>
       ELSE /\ last_detail' = [last_detail EXCEPT ![n] = detail[n]]
            /\ detail' = [detail EXCEPT ![n] = b]
            /\ accepted' = Note(accepted, n, b)
            /\ UNCHANGED auto_delivered

Upsert(p) ==
    /\ pc[p] = "upsert"
    /\ ApplyUpsert(num[p], held[p])
    /\ Goto(p, "cache")
    /\ UNCHANGED <<cache, log, overseas, served>>

\* A wrong version: the error is dropped and Save goes on to Redis.
UpsertErrorDropped(p) ==
    /\ "db" \in Faults
    /\ pc[p] = "upsert"
    /\ Goto(p, "cache")
    /\ UNCHANGED <<store, cache, log, overseas, history>>

\* The statement fails, or its outcome is lost with the connection or the
\* request's context after it took effect: Save returns the error, 500.
UpsertError(p) ==
    /\ "db" \in Faults
    /\ pc[p] = "upsert"
    /\ \/ ApplyUpsert(num[p], held[p])
       \/ UNCHANGED <<store, accepted, executed>>
    /\ Reply(p, 500)
    /\ UNCHANGED <<cache, log, overseas, served>>

\* TrackingCache.Set: a Redis error is logged and otherwise ignored.
SetCache(n, b) ==
    \/ cache' = [cache EXCEPT ![n] = b]
    \/ "redis" \in Faults /\ UNCHANGED cache

\* A wrong version: only the webhook writes Redis.
CacheSetWebhookOnly(p) ==
    /\ pc[p] = "cache"
    /\ IF kind[p] = "webhook"
       THEN SetCache(num[p], held[p]) /\ Reply(p, 200)
       ELSE UNCHANGED cache /\ Goto(p, "map")
    /\ UNCHANGED <<store, log, overseas, history>>

\* Save caches what was pushed, whatever the statement did with the row.  The
\* webhook then answers; the TIS push goes on to tracking_logs.
CacheSet(p) ==
    /\ pc[p] = "cache"
    /\ SetCache(num[p], held[p])
    /\ IF kind[p] = "webhook"
       THEN Reply(p, 200)
       ELSE Goto(p, "map")
    /\ UNCHANGED <<store, log, overseas, history>>

(***************************************************************************)
(* The TIS push writes tracking_logs                                       *)
(***************************************************************************)

\* A wrong version: the status is that of the row, which another push may have
\* written since.
MapStatusOfRow(p) ==
    /\ pc[p] = "map"
    /\ \E failed \in BOOLEAN :
          /\ failed => "db" \in Faults /\ AsksOverseas(held[p].status)
          /\ ts' = [ts EXCEPT ![p] =
                MapTrackStatus(detail[num[p]].status, overseas[num[p]], failed)]
    /\ pc' = [pc EXCEPT ![p] = "sync"]
    /\ answer' = 0
    /\ UNCHANGED <<store, cache, log, overseas, kind, num, held, history>>

\* MapTrackStatus; only an InfoReceived status queries the database, and a
\* failed query is answered "not overseas".
MapStatus(p) ==
    /\ pc[p] = "map"
    /\ \E failed \in BOOLEAN :
          /\ failed => "db" \in Faults /\ AsksOverseas(held[p].status)
          /\ ts' = [ts EXCEPT ![p] =
                MapTrackStatus(held[p].status, overseas[num[p]], failed)]
    /\ pc' = [pc EXCEPT ![p] = "sync"]
    /\ answer' = 0
    /\ UNCHANGED <<store, cache, log, overseas, kind, num, held, history>>

\* A wrong version: a row is synced only once.
UpdateLogOnce(n, status, times) ==
    IF n = EmptyNumber \/ log[n] = NoLog \/ log[n].synced
    THEN UNCHANGED log
    ELSE log' = [log EXCEPT ![n] =
            [track_status |-> status, synced |-> TRUE, times |-> times]]

\* UPDATE tracking_logs ... WHERE source_tracking_number: nothing to update
\* where Ruby has not created the row; the empty number is refused.
UpdateLog(n, status, times) ==
    IF n = EmptyNumber \/ log[n] = NoLog
    THEN UNCHANGED log
    ELSE log' = [log EXCEPT ![n] =
            [track_status |-> status, synced |-> TRUE, times |-> times]]

\* SyncTrackingLog; its error is logged and the push is answered 200 anyway.
SyncTrackingLog(p) ==
    /\ pc[p] = "sync"
    /\ \/ UpdateLog(num[p], ts[p], held[p].times)
       \/ "db" \in Faults /\ UNCHANGED log
    /\ Reply(p, 200)
    /\ UNCHANGED <<store, cache, overseas, history>>

(***************************************************************************)
(* Readers                                                                 *)
(***************************************************************************)

\* Answer the reader of n with b.
Serve(p, n, b) == Reply(p, 200) /\ served' = Note(served, n, b)

\* A wrong version: an empty number is looked up like any other.
ReadCacheUnchecked(p, n) ==
    /\ \/ /\ cache[n] # NoBody
          /\ Serve(p, n, cache[n])
       \/ /\ cache[n] = NoBody \/ "redis" \in Faults
          /\ Begin(p, "query", n, NoBody, "find")
          /\ UNCHANGED served
    /\ UNCHANGED <<store, cache, log, overseas, accepted, executed>>

\* The first call of both cached queries: a hit is served; a miss, and a
\* Redis error alike, sends the reader to the database.
ReadCache(p, n) ==
    /\ \/ /\ n = EmptyNumber
          /\ Reply(p, 400)
          /\ UNCHANGED served
       \/ /\ n # EmptyNumber
          /\ cache[n] # NoBody
          /\ Serve(p, n, cache[n])
       \/ /\ n # EmptyNumber
          /\ cache[n] = NoBody \/ "redis" \in Faults
          /\ Begin(p, "query", n, NoBody, "find")
          /\ UNCHANGED served
    /\ UNCHANGED <<store, cache, log, overseas, accepted, executed>>

PublicQuery(p, n) == pc[p] = "idle" /\ ReadCache(p, n)

AdminGetTracking(p, n) == pc[p] = "idle" /\ ReadCache(p, n)

\* Wrong versions: last_detail is read; a missing row is waited for.
FindRowReadsBackup(p) ==
    /\ pc[p] = "find"
    /\ \/ /\ last_detail[num[p]] # NoBody
          /\ held' = [held EXCEPT ![p] = last_detail[num[p]]]
          /\ pc' = [pc EXCEPT ![p] = "fill"]
          /\ answer' = 0
          /\ UNCHANGED <<kind, num, ts>>
       \/ /\ last_detail[num[p]] = NoBody \/ "db" \in Faults
          /\ Reply(p, 404)
    /\ UNCHANGED <<store, cache, log, overseas, history>>

FindRowRetries(p) ==
    /\ pc[p] = "find"
    /\ IF detail[num[p]] # NoBody
       THEN /\ held' = [held EXCEPT ![p] = detail[num[p]]]
            /\ pc' = [pc EXCEPT ![p] = "fill"]
            /\ answer' = 0
            /\ UNCHANGED <<kind, num, ts>>
       ELSE Goto(p, "find")
    /\ UNCHANGED <<store, cache, log, overseas, history>>

\* FindByTrackingNumber: no row and a database error are both answered 404.
FindRow(p) ==
    /\ pc[p] = "find"
    /\ \/ /\ detail[num[p]] # NoBody
          /\ held' = [held EXCEPT ![p] = detail[num[p]]]
          /\ pc' = [pc EXCEPT ![p] = "fill"]
          /\ answer' = 0
          /\ UNCHANGED <<kind, num, ts>>
       \/ /\ detail[num[p]] = NoBody \/ "db" \in Faults
          /\ Reply(p, 404)
    /\ UNCHANGED <<store, cache, log, overseas, history>>

\* The row read before is written to Redis and served.
FillCache(p) ==
    /\ pc[p] = "fill"
    /\ SetCache(num[p], held[p])
    /\ Serve(p, num[p], held[p])
    /\ UNCHANGED <<store, log, overseas, accepted, executed>>

\* The uncached query: one database read (its route matches no empty number).
\* FindByTrackingNumber reports a missing row as an error, so the code of a
\* missing row is 50003 too.
GetTracking(p, n) ==
    /\ pc[p] = "idle"
    /\ n # EmptyNumber
    /\ \/ /\ detail[n] # NoBody
          /\ Serve(p, n, detail[n])
       \/ /\ detail[n] = NoBody \/ "db" \in Faults
          /\ Reply(p, 50003)
          /\ UNCHANGED served
    /\ UNCHANGED <<store, cache, log, overseas, accepted, executed>>

(***************************************************************************)
(* The environment.  Of what Ruby writes only auto_sign and the creation   *)
(* of rows Go reads are here; that Ruby fetches a parcel from the carrier  *)
(* itself and syncs the unsigned row and its log row is left out: rows are *)
(* those that only Go and auto_sign write.                                 *)
(***************************************************************************)

\* Ruby's auto_sign marks a row delivered, with its own detail or the same.
AutoSign(n, b) ==
    /\ detail[n] # NoBody
    /\ ~auto_delivered[n]
    /\ auto_delivered' = [auto_delivered EXCEPT ![n] = TRUE]
    /\ detail' = [detail EXCEPT ![n] = b]
    /\ accepted' = Note(accepted, n, b)
    /\ executed' = Note(executed, n, b)
    /\ answer' = 0
    /\ UNCHANGED <<last_detail, cache, log, overseas, request, served>>

\* Ruby creates the tracking_logs row of a number.
CreateLog(n) ==
    /\ log[n] = NoLog
    /\ log' = [log EXCEPT ![n] = FreshLog]
    /\ answer' = 0
    /\ UNCHANGED <<store, cache, overseas, request, history>>

\* Ruby records the number as an overseas package.
RegisterOverseas(n) ==
    /\ ~overseas[n]
    /\ overseas' = [overseas EXCEPT ![n] = TRUE]
    /\ answer' = 0
    /\ UNCHANGED <<store, cache, log, request, history>>

\* The entry's time to live runs out, or Redis evicts it.
Expire(n) ==
    /\ cache[n] # NoBody
    /\ cache' = [cache EXCEPT ![n] = NoBody]
    /\ answer' = 0
    /\ UNCHANGED <<store, log, overseas, request, history>>

\* The service is killed: requests in progress get no answer.
Crash ==
    /\ "crash" \in Faults
    /\ \E p \in Proc : pc[p] # "idle"
    /\ pc' = [p \in Proc |-> "idle"]
    /\ kind' = [p \in Proc |-> "none"]
    /\ held' = [p \in Proc |-> NoBody]
    /\ ts' = [p \in Proc |-> 0]
    /\ answer' = 0
    /\ UNCHANGED <<store, cache, log, overseas, num, history>>

-----------------------------------------------------------------------------
Arrive(p) ==
    \/ \E n \in Number : \/ \E b \in WebhookBody : Webhook(p, n, b)
                         \/ \E b \in TisBody : TisPush(p, n, b)
                         \/ PublicQuery(p, n)
                         \/ AdminGetTracking(p, n)
                         \/ GetTracking(p, n)
    \/ RejectWebhook(p)
    \/ RejectTisPush(p)

\* The calls of a request in progress.
Serving(p) ==
    \/ Upsert(p) \/ UpsertError(p) \/ CacheSet(p)
    \/ MapStatus(p) \/ SyncTrackingLog(p)
    \/ FindRow(p) \/ FillCache(p)

Environment ==
    \/ \E n \in Number : \/ \E b \in Body : AutoSign(n, b)
                         \/ CreateLog(n)
                         \/ RegisterOverseas(n)
                         \/ Expire(n)
    \/ Crash

Next == (\E p \in Proc : Arrive(p) \/ Serving(p)) \/ Environment

Spec == Init /\ [][Next]_vars

\* A goroutine in a request is scheduled and its calls return, with an error
\* once the context ends; Redis drops an entry when its time to live is over.
Fairness ==
    /\ \A p \in Proc : WF_vars(Serving(p))
    /\ \A n \in Number : WF_vars(Expire(n))

FairSpec == Spec /\ Fairness

-----------------------------------------------------------------------------
(***************************************************************************)
(* What the store promises                                                 *)
(***************************************************************************)

Shown(n) == served[n] \cup ({cache[n]} \ {NoBody})

\* Whatever Redis holds for a number and whatever a reader of it was given
\* comes from an upsert statement that ran for that number: Save leaves
\* before the cache when the statement fails.
ShownWasExecuted == \A n \in Number : Shown(n) \subseteq executed[n]

\* Until auto_sign marks the row, that is what the row itself has held: cache
\* fills and pushes that overtake each other may show an older body, never
\* one the row never had.
UnsignedShownWasStored ==
    \A n \in Number : ~auto_delivered[n] => Shown(n) \subseteq accepted[n]

\* t is a track_status of body b: in transit before pickup only for a number
\* known to be an overseas package.
PossibleStatus(t, b, known) ==
    t \in {MapTrackStatus(b.status, FALSE, FALSE), MapTrackStatus(b.status, known, FALSE)}

LogImage(row, bodies, known) ==
    \E b \in bodies \cap TisBody :
        /\ row.times = b.times
        /\ PossibleStatus(row.track_status, b, known)

\* A synced tracking_logs row is the image of one TIS push whose upsert ran
\* for that very number: status and timestamps come from the same push.
LogIsOnePush ==
    \A n \in Number : log[n] # NoLog /\ log[n].synced =>
        LogImage(log[n], executed[n], overseas[n])

\* What a request in progress may rely on between two of its calls: a TIS push
\* carries a TIS body, what is about to be cached or synced was run through an
\* upsert of its number or read from its row, the track_status computed before
\* the UPDATE is still one of its status, and no reader asks for the empty number.
RequestOK(p) ==
    /\ pc[p] \in {"upsert", "cache"} => held[p] \in Body
    /\ pc[p] \in {"upsert", "cache"} /\ kind[p] # "webhook" => held[p] \in TisBody
    /\ pc[p] \in {"map", "sync"} => held[p] \in TisBody
    /\ pc[p] \in {"cache", "map", "sync", "fill"} => held[p] \in executed[num[p]]
    /\ pc[p] = "sync" => PossibleStatus(ts[p], held[p], overseas[num[p]])
    /\ pc[p] \in {"find", "fill"} => num[p] # EmptyNumber

RequestInv == \A p \in Proc : RequestOK(p)

\* The row holds an executed body, and until it is signed every executed body
\* was accepted.
RowInv ==
    \A n \in Number :
        /\ detail[n] \in executed[n] \cup {NoBody}
        /\ ~auto_delivered[n] => executed[n] \subseteq accepted[n]

\* Once auto_delivered_at is set no step of any request changes the row: the
\* WHERE clause of the upsert holds against pushes already in progress too.
SignedRowFrozen ==
    [][\A n \in Number : auto_delivered[n] =>
          /\ auto_delivered'[n]
          /\ detail'[n] = detail[n]
          /\ last_detail'[n] = last_detail[n]]_vars

\* A request in progress that is answered 200 had the upsert of its body run,
\* or read it from a row that only holds such bodies: however Redis,
\* tracking_logs and other requests fail on the way, 200 is never told for a push
\* whose upsert was not executed.  (Executed is not stored: the statement leaves
\* a signed row alone, and the push is answered 200 all the same.)
AckedPushExecuted ==
    [][\A p \in Proc :
          /\ pc[p] # "idle" /\ pc'[p] = "idle"
          /\ answer' = 200
          => held[p] \in executed[num[p]]]_vars

\* Pushes without a waybill number all land in the row of the empty number:
\* no reader is ever given it and no tracking_logs row is synced for it.
EmptyNumberStaysInside ==
    EmptyNumber \in Number =>
        /\ served[EmptyNumber] = {}
        /\ log[EmptyNumber] # NoLog => ~log[EmptyNumber].synced

\* The inductive invariant.
IInv ==
    /\ TypeOK /\ RequestInv /\ RowInv
    /\ ShownWasExecuted /\ LogIsOnePush /\ EmptyNumberStaysInside

AtRest == \A p \in Proc : pc[p] = "idle"

\* One request at a time and no faults: between requests Redis never holds
\* anything but the detail of the unsigned row.
AtRestCoherent ==
    AtRest => \A n \in Number :
        ~auto_delivered[n] => cache[n] \in {NoBody, detail[n]}

\* Under the same conditions a row a TIS push wrote last and its synced
\* tracking_logs row have the timestamps of the same push.
AtRestLogFollowsRow ==
    AtRest => \A n \in Number :
        /\ ~auto_delivered[n]
        /\ detail[n] \in TisBody \ WebhookBody
        /\ log[n] # NoLog
        /\ log[n].synced
        => log[n].times = detail[n].times

\* A request in progress ends, whatever fails: no call is waited for forever.
RequestsEnd == \A p \in Proc : pc[p] # "idle" ~> pc[p] = "idle"

Pushing == \E p \in Proc : pc[p] \in {"upsert", "cache", "map", "sync"}

\* Once pushes cease, Redis ends up holding the row's detail or nothing, for
\* good and whatever readers do: a hit never renews an entry, so a stale entry
\* runs out and the fills that follow read the current row.
EventuallyCoherent ==
    <>[]~Pushing => <>[](\A n \in Number : cache[n] \in {NoBody, detail[n]})

\* Redis holds the row's detail or nothing, and so does all that is on its way there.
Settled(n) ==
    /\ cache[n] \in {NoBody, detail[n]}
    /\ \A p \in Proc : num[p] = n /\ pc[p] \in {"cache", "fill"} => held[p] = detail[n]

\* Save's statement runs for n, and the request goes on to Redis.
Saves(n) == \E p \in Proc : num[p] = n /\ pc[p] = "upsert" /\ pc'[p] = "cache"

\* Once Redis and the row agree, only a step that stores a body for the number
\* can part them: no reader that fills Redis late, no entry that runs out, no failed
\* call and no crash puts an older body back.
CoherenceLasts ==
    [][\A n \in Number : Settled(n) => Settled(n)' \/ Saves(n) \/ detail'[n] # detail[n]]_vars

\* The calls a request at this place makes at most before it is answered.
CallsLeft ==
    [upsert |-> 4, cache |-> 3, map |-> 2, sync |-> 1, find |-> 2, fill |-> 1, idle |-> 0]

\* Each call brings its request nearer to its end, whatever becomes of the call,
\* and no step of anybody else throws it back: no request makes more than four.
RequestAdvances ==
    [][\A p \in Proc :
          /\ Serving(p) => CallsLeft[pc'[p]] < CallsLeft[pc[p]]
          /\ pc[p] # "idle" => CallsLeft[pc'[p]] <= CallsLeft[pc[p]]]_vars

\* The service is a register per number: requests, Redis and failures only
\* decide which published detail a reader is told.
Register == INSTANCE TrackingRegister WITH
    current <- detail, previous <- last_detail, sealed <- auto_delivered,
    published <- executed, told <- served

\* Every behaviour of the store is one of that register: each upsert statement
\* is one Accept or Refuse, each answered reader one Tell, the rest stutters.
ImplementsRegister == Register!Spec

(***************************************************************************)
(* What the comments and documents say and the code does not do            *)
(***************************************************************************)

\* The WHERE clause keeps a push from overwriting a signed record, and Redis
\* is written after a successful upsert: a reader is not given a push that
\* the row refused.
RefusedPushNotServed == \A n \in Number : served[n] \subseteq accepted[n]
=============================================================================
