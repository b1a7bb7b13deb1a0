------------------------------ MODULE PushFeed ------------------------------
(***************************************************************************)
(* A carrier's feed of one parcel: the event list grows, also by events    *)
(* that arrive late and are filed among earlier ones, and every version of *)
(* it is pushed and formatted.                                             *)
(***************************************************************************)
EXTENDS TrackFormat

CONSTANTS
    Node,           \* node codes the carrier uses
    MaxTime,        \* times run to MaxTime; 0 is an unusable one
    MaxEvents       \* bound on the length of the event list

ASSUME FeedAssumption == MaxTime \in Nat /\ MaxEvents \in Nat

VARIABLES
    events,         \* track_events of the next TIS push
    status          \* TrackingStatus of the next OMS webhook

vars == <<events, status>>

\* package_status is one value: Format computes the state from the status.
Tis == [waybill |-> "YT1", tracking |-> "LM1",
        package_status |-> "T", track_events |-> events]

Oms == [WayBillNumber |-> "YT1", TrackingNumber |-> "LM1",
        TrackingStatus |-> status,
        OrderTrackingDetails |-> [i \in DOMAIN events |->
            [ProcessDate |-> events[i].time, TrackingStatus |-> status,
             TrackNodeCode |-> events[i].node]]]

Init ==
    /\ events = <<>>
    /\ status = "0"

\* The newest event is added at the end of the list.
Scan(e) ==
    /\ Len(events) < MaxEvents
    /\ events' = Append(events, e)
    /\ UNCHANGED status

\* An event that comes late is filed before ones already reported.
LateScan(e) ==
    /\ Len(events) \in 1..(MaxEvents - 1)
    /\ \E i \in 1..Len(events) : events' = InsertAt(events, i, e)
    /\ UNCHANGED status

\* The OMS reports a status code for a parcel that has at most one event.
Report(s) ==
    /\ Len(events) <= 1
    /\ status' = s
    /\ UNCHANGED events

\* The bound is reached: the feed of another parcel.
NextParcel ==
    /\ Len(events) = MaxEvents
    /\ events' = <<>>
    /\ status' = "0"

Next ==
    \/ NextParcel
    \/ \E e \in [node : Node, time : 0..MaxTime] : Scan(e) \/ LateScan(e)
    \/ \E s \in StatusString : Report(s)

Spec == Init /\ [][Next]_vars

-----------------------------------------------------------------------------
Stored == {FormatTis(Tis), FormatWebhook(Oms)}

\* Inputs and bodies have their types; the status a TIS push is stored with
\* is one of STATUS_CODES, whatever its nodes are.
TypeOK ==
    /\ events \in BoundedSeq([node : Node, time : 0..MaxTime], MaxEvents)
    /\ status \in StatusString
    /\ \A body \in Stored :
          /\ body.status \in -1..1001
          /\ body.times \in [received : 0..MaxTime, delivered : 0..MaxTime, tracked : 0..MaxTime]
    /\ FormatTis(Tis).detail.TrackingStatus \in DOMAIN STATUS_CODES

TrackStatus(body) == MapTrackStatus(body.status, FALSE, FALSE)

\* tracking_logs says delivered only with the time of a delivery event: the
\* status comes from the last event and delivered_at from a search through
\* all of them, and late events may stand between the two.
DeliveredHasItsTime ==
    LET tis == FormatTis(Tis)
    IN  TrackStatus(tis) = 2 =>
            \E i \in DOMAIN events : /\ events[i].node \in DeliveredNodes
                                     /\ events[i].time = tis.times.delivered

\* The status survives its way into the int32 column: the package state
\* recomputed from the column is the one stored in the detail, for every TIS
\* push, for codes strconv.Atoi rejects too.  The column of an OMS push parts
\* from the detail only by a numeral in another spelling than strconv.Itoa's,
\* and then the detail, which takes no such spelling for a code, says NotFound.
ColumnMatchesDetail ==
    \A body \in Stored :
        \/ GetPackageState(Itoa(body.status)) = body.detail.PackageState
        \/ /\ body = FormatWebhook(Oms)
           /\ status \in DOMAIN OtherNumber
           /\ body.detail.PackageState = "0"

\* How the public letter reads in the admin query's vocabulary.
LetterText(letter) ==
    CASE letter = "N" -> {"NotFound"}
      [] letter = "T" -> {"InTransit", "AvailableForPickup"}
      [] letter = "D" -> {"Delivered"}
      [] letter = "F" -> {"InfoReceived"}
      [] letter = "C" -> {"Canceled"}
      [] letter = "E" -> {"DeliveryFailure", "Exception", "Expired"}
      [] letter = "R" -> {"Returned"}

\* The public and the admin query, which go through different columns and
\* tables, tell the same story for every code of STATUS_CODES and for codes
\* that are not numbers; a customs inspection is in transit in both.
ViewsAgree ==
    \A body \in Stored :
        body.detail.TrackingStatus \in DOMAIN STATUS_CODES \cup NotNumber =>
            AdminView(body).status_text \in
                LetterText(buildSuccessResponseFromMap(body).package_status)

\* Once reported, the receipt and delivery times stay what they are while
\* the feed only grows at its end.
TimesAreStable ==
    [][IsPrefix(events, events') =>
        LET old == extractTimestamps(events)
            new == extractTimestamps(events')
        IN  /\ old.received # 0 => new.received = old.received
            /\ old.delivered # 0 => new.delivered = old.delivered]_vars

\* A reader of a TIS push is shown every event, at its node and time.
PublicShowsFeed ==
    buildSuccessResponseFromMap(FormatTis(Tis)).track_events = events
=============================================================================
