---------------------------- MODULE EventPipeline ---------------------------
(***************************************************************************)
(* The event pipeline of domain/tracking/service: raw carrier events are   *)
(* mapped to the service's field names, a customs inspection becomes in    *)
(* transit, events without content or time are dropped, the rest is        *)
(* sorted by time and deliveries are marked.  The order of the stages is   *)
(* its caller's (the one of the Ruby formatter the code is ported from).   *)
(*                                                                         *)
(* An event is a function from field names to values, as the Go map is.    *)
(* A value is a word, or NotString for a JSON null or number.  Clock gives *)
(* the words that are times, in whatever layout; 0 is Go's zero time.      *)
(***************************************************************************)
EXTENDS Integers, SequencesExt

CONSTANTS
    RawEvent,       \* what a carrier sends, with either spelling of a field
    Clock,          \* word -> its time, a positive number
    Padded,         \* word with blanks around it -> the word without them
    NotString,      \* a value that is no string
    MaxEvents       \* bound on the length of a list

\* Times are after Go's zero time, and a value that is no string is neither a
\* time nor a status.
ASSUME WordAssumption ==
    /\ \A w \in DOMAIN Clock : Clock[w] \in Nat \ {0}
    /\ "" \in DOMAIN Padded => Padded[""] = ""
    /\ NotString \notin DOMAIN Clock
    /\ NotString \notin {"", "20", "50", "80", "Delivered"}

ASSUME BoundAssumption == MaxEvents \in Nat

VARIABLES
    raw,            \* the list as it was sent
    events,         \* the list as the last stage left it
    stage

vars == <<raw, events, stage>>

Init == raw = <<>> /\ events = <<>> /\ stage = "raw"

(***************************************************************************)
(* Reading a field under several names                                     *)
(***************************************************************************)

TrimSpace(word) == IF word \in DOMAIN Padded THEN Padded[word] ELSE word

\* The value of the first of these fields that is present as a string; a
\* string of blanks ends the search too.
FirstString(event, fields) ==
    LET Readable(f) == f \in DOMAIN event /\ event[f] # NotString
        i == SelectInSeq(fields, Readable)
    IN  IF i = 0 THEN "" ELSE event[fields[i]]

extractContent(event) ==
    TrimSpace(FirstString(event, <<"content", "ProcessContent", "processContent">>))

TimeString(event) == FirstString(event, <<"time", "ProcessDate", "processDate">>)

extractTimeStr(event) == TrimSpace(TimeString(event))

extractStatus(event) == FirstString(event, <<"TrackingStatus", "trackingStatus", "status">>)

parseTimeFormats(word) == IF word \in DOMAIN Clock THEN Clock[word] ELSE 0

\* Unlike extractTimeStr it goes on to the next field while a time cannot be
\* read, does not know processDate and does not trim.
parseTime(event) ==
    LET fields == <<"time", "ProcessDate">>
        Usable(f) == f \in DOMAIN event /\ parseTimeFormats(event[f]) # 0
        i == SelectInSeq(fields, Usable)
    IN  IF i = 0 THEN 0 ELSE parseTimeFormats(event[fields[i]])

(***************************************************************************)
(* The stages                                                              *)
(***************************************************************************)
lowercaseFirst ==
    [ProcessDate |-> "processDate", ProcessContent |-> "processContent",
     TrackingStatus |-> "trackingStatus"]

\* Field of the mapped event -> field of the raw event (EXTRA_FIELDS keep
\* their name).  Locations and descriptions are left out.
TRACK_DETAIL_MAPPINGS ==
    [time |-> "ProcessDate", content |-> "ProcessContent",
     TrackingStatus |-> "TrackingStatus"]

Spellings(f) == {f, lowercaseFirst[f]}

\* The first spelling wins where both are present, whatever its value.
MapEventFields(event) ==
    LET Source == TRACK_DETAIL_MAPPINGS
    IN  [g \in {g \in DOMAIN Source : Spellings(Source[g]) \cap DOMAIN event # {}} |->
            IF Source[g] \in DOMAIN event THEN event[Source[g]]
            ELSE event[lowercaseFirst[Source[g]]]]

\* A wrong version filters and sorts the raw events.
MapNoEvents(list) == list

MapAllEvents(list) == [i \in DOMAIN list |-> MapEventFields(list[i])]

\* event[f] = v, a new field where the event has none of this name.
SetField(event, f, v) ==
    [g \in DOMAIN event \cup {f} |-> IF g = f THEN v ELSE event[g]]

FixedEvent(event) ==
    IF extractStatus(event) = "80" THEN SetField(event, "TrackingStatus", "20") ELSE event

FixCustomsInspectionStatusInEvents(list) == [i \in DOMAIN list |-> FixedEvent(list[i])]

\* A wrong version does not look at the time.
isValidContent(event) == extractContent(event) # ""

isValidEvent(event) == extractContent(event) # "" /\ extractTimeStr(event) # ""

\* The valid events in their order: the j-th of them is the one that has j
\* valid ones up to itself.
FilterOrderTrackingDetails(list) ==
    LET valid == {i \in DOMAIN list : isValidEvent(list[i])}
        UpTo(i) == Cardinality({k \in valid : k <= i})
    IN  [j \in 1 .. Cardinality(valid) |-> list[CHOOSE i \in valid : UpTo(i) = j]]

Ascending(list) ==
    \A i, j \in DOMAIN list : i < j => parseTime(list[i]) <= parseTime(list[j])

Reordered(list) ==
    {[i \in DOMAIN list |-> list[p[i]]] : p \in Bijection(DOMAIN list, DOMAIN list)}

\* A wrong version puts the newest event first.
SortNewestFirst(list) == {s \in Reordered(list) : Ascending(Reverse(s))}

\* sort.Slice promises no order of equal times: every ascending list of the
\* same events.
SortEventsByTime(list) == {s \in Reordered(list) : Ascending(s)}

\* A wrong version knows the text of the status only.
MarkDeliveredText(list) ==
    [i \in DOMAIN list |-> IF extractStatus(list[i]) = "Delivered"
                           THEN SetField(list[i], "node", "Delivered") ELSE list[i]]

MarkedEvent(event) ==
    IF extractStatus(event) \in {"50", "Delivered"}
    THEN SetField(event, "node", "Delivered") ELSE event

MarkDeliveredNode(list) == [i \in DOMAIN list |-> MarkedEvent(list[i])]

GetLatestStatus(sorted) == IF sorted = <<>> THEN "" ELSE extractStatus(Last(sorted))
GetLatestTime(sorted)   == IF sorted = <<>> THEN 0 ELSE parseTime(Last(sorted))

(***************************************************************************)
(* A caller                                                                *)
(***************************************************************************)
Send(e) ==
    /\ stage = "raw"
    /\ Len(raw) < MaxEvents
    /\ raw' = Append(raw, e)
    /\ events' = raw'
    /\ UNCHANGED stage

Apply(from, to, result) ==
    /\ stage = from
    /\ events' = result
    /\ stage' = to
    /\ UNCHANGED raw

Map    == Apply("raw", "mapped", MapAllEvents(events))
Fix    == Apply("mapped", "fixed", FixCustomsInspectionStatusInEvents(events))
Filter == Apply("fixed", "filtered", FilterOrderTrackingDetails(events))
Sort   == \E s \in SortEventsByTime(events) : Apply("filtered", "sorted", s)
Mark   == Apply("sorted", "marked", MarkDeliveredNode(events))

NextPush ==
    /\ stage = "marked"
    /\ raw' = <<>> /\ events' = <<>> /\ stage' = "raw"

Next == (\E e \in RawEvent : Send(e)) \/ Map \/ Fix \/ Filter \/ Sort \/ Mark \/ NextPush

Spec == Init /\ [][Next]_vars

-----------------------------------------------------------------------------
Stages == <<"raw", "mapped", "fixed", "filtered", "sorted", "marked">>

Leads(s, t) == \E i, j \in DOMAIN Stages : Stages[i] = s /\ Stages[j] = t /\ i <= j

After(s) == Leads(s, stage)

\* Lists and stages have their types; from the mapping on an event has only
\* the service's fields.
TypeOK ==
    /\ raw \in BoundedSeq(RawEvent, MaxEvents)
    /\ stage \in {Stages[i] : i \in DOMAIN Stages}
    /\ Len(events) <= Len(raw)
    /\ After("mapped") => \A i \in DOMAIN events :
          DOMAIN events[i] \subseteq DOMAIN TRACK_DETAIL_MAPPINGS \cup {"node"}

\* What the sender meant, read from the raw event alone.
Sent(e, f) ==
    IF f \in DOMAIN e THEN e[f]
    ELSE IF lowercaseFirst[f] \in DOMAIN e THEN e[lowercaseFirst[f]] ELSE NotString

Usable(v) == v # NotString /\ TrimSpace(v) # ""

Complete(e) == Usable(Sent(e, "ProcessContent")) /\ Usable(Sent(e, "ProcessDate"))

SentTime(e) == parseTimeFormats(Sent(e, "ProcessDate"))

Kept == {raw[i] : i \in {i \in DOMAIN raw : Complete(raw[i])}}

\* An event as the stages up to s leave it, were it the only one.
Carried(s, e) ==
    CASE s = "raw" -> e
      [] s = "mapped" -> MapEventFields(e)
      [] s = "marked" -> MarkedEvent(FixedEvent(MapEventFields(e)))
      [] OTHER -> FixedEvent(MapEventFields(e))

\* The events of the push that are still there after stage s.
Remaining(s) ==
    IF s \in {"raw", "mapped", "fixed"} THEN DOMAIN raw
    ELSE {i \in DOMAIN raw : Complete(raw[i])}

\* The list after a stage is the events sent, each once and changed by its own
\* fields alone: no stage loses, invents, doubles or mixes up events.  Which of
\* them remain can be told from the push itself, and sorting has ordered them.
EventsTraced ==
    /\ \E p \in Bijection(1 .. Cardinality(Remaining(stage)), Remaining(stage)) :
          events = [j \in 1 .. Cardinality(Remaining(stage)) |-> Carried(stage, raw[p[j]])]
    /\ stage = "raw" => events = raw
    /\ After("sorted") => Ascending(events)

\* Filter and sort read the same time, though by different rules: an event
\* kept for a time that can be read is placed by that time, not put first,
\* unless there are blanks around it.
PlacedByItsTime ==
    After("filtered") => \A i \in DOMAIN events :
        TimeString(events[i]) = extractTimeStr(events[i]) =>
            parseTime(events[i]) = parseTimeFormats(extractTimeStr(events[i]))

\* The latest time and status of a push are those of the latest complete event
\* in it, in whatever order and spelling the events came; an event whose time
\* cannot be read counts only where there is no other.
LatestOfThePush ==
    After("sorted") /\ Kept # {} =>
        \E e \in Kept :
            /\ \A f \in Kept : SentTime(f) <= SentTime(e)
            /\ GetLatestTime(events) = SentTime(e)
            /\ LET status == Sent(e, "TrackingStatus")
               IN  GetLatestStatus(events) =
                        (CASE status = "80" -> "20" [] status = NotString -> ""
                           [] OTHER -> status)

\* No event that was sent as a customs inspection under either spelling is
\* left as one, and every delivery among the complete events ends up marked,
\* nothing else.
DeliveriesMarked ==
    stage = "marked" =>
        /\ \A i \in DOMAIN events : extractStatus(events[i]) # "80"
        /\ Cardinality({i \in DOMAIN events : "node" \in DOMAIN events[i]}) =
           Cardinality({i \in DOMAIN raw : /\ Complete(raw[i])
                                           /\ Sent(raw[i], "TrackingStatus") \in {"50", "Delivered"}})
=============================================================================
