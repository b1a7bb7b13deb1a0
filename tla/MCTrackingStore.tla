--------------------------- MODULE MCTrackingStore --------------------------
(***************************************************************************)
(* Instances of TrackingStore for TLC, composed with TrackFormat: a body   *)
(* is what the formatter makes of a push.                                  *)
(***************************************************************************)
EXTENDS TrackingStore, TrackFormat

CONSTANTS p1, p2, p3, n1, empty

ProcSymmetry == Permutations(Proc)

MCTis(events) ==
    FormatTis([waybill |-> "YT1", tracking |-> "LM1",
               package_status |-> "T", track_events |-> events])

MCOms(s) ==
    FormatWebhook([WayBillNumber |-> "YT1", TrackingNumber |-> "LM1",
                   TrackingStatus |-> s, OrderTrackingDetails |-> <<>>])

Received  == [node |-> "FIRST_MILE_ARRIVE", time |-> 1]
Delivered == [node |-> "DELIVERED", time |-> 2]

\* A parcel just received: the status that asks for overseas packages.
MCReceivedBody == {MCTis(<<Received>>)}

\* A push without events, in transit and without times, and the same parcel
\* received: status and every time of the two differ.
MCTwoTisBody == {MCTis(<<>>), MCTis(<<Received>>)}

\* The same parcel, and later on delivered.
MCTisBody == {MCTis(<<Received>>), MCTis(<<Received, Delivered>>)}

\* An OMS push about a customs inspection, which counts as in transit: what is
\* stored of it is what is stored of a TIS push without events.
MCWebhookBody == {MCOms("80")}

MCNothing == {}

\* Bodies cut down to a label, for the liveness run: no step looks into a
\* detail, and only equality of timestamps matters.
MCLabel(label, status) == [detail |-> label, status |-> status, times |-> label]

MCReceivedLabel == {MCLabel("received", 10)}
MCWebhookLabel == {MCLabel("transit", 20)}
=============================================================================
