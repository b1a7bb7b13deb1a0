---------------------------- MODULE TrackFormat ----------------------------
(***************************************************************************)
(* From a push to the body that is stored, and from the stored body to the *)
(* answers of the query endpoints.                                         *)
(*                                                                         *)
(* A TIS push is [waybill, tracking, package_status, track_events], each   *)
(* event a [node, time]; an OMS webhook is [WayBillNumber, TrackingNumber, *)
(* TrackingStatus, OrderTrackingDetails].  A time is a positive number; 0  *)
(* stands for a process_time that is empty or not RFC 3339, which          *)
(* SyncTrackingLog stores as 0.  Fields that are copied without being      *)
(* looked at (addresses, carrier names, weights, URLs) are left out.       *)
(***************************************************************************)
EXTENDS StatusMapping, SequencesExt

\* package_status of a TIS push -> package state (default in transit).
mapPackageState(s) ==
    CASE s \in {"I", "InfoReceived", "F"} -> "4"
      [] s \in {"D", "Delivered"} -> "3"
      [] s \in {"E", "Exception"} -> "6"
      [] s \in {"R", "Returned"}  -> "7"
      [] s \in {"C", "Canceled"}  -> "5"
      [] s \in {"N", "NotFound"}  -> "0"
      [] OTHER -> "2"

\* A wrong version loses the node codes of the events.
convertTisToWebhookNoNodes(tis) ==
    [WayBillNumber  |-> tis.waybill,
     TrackingNumber |-> tis.tracking,
     TrackingStatus |-> IF tis.track_events = <<>> THEN "20"
                        ELSE MapNodeCode(Last(tis.track_events).node),
     PackageState   |-> mapPackageState(tis.package_status),
     OrderTrackingDetails |-> [i \in DOMAIN tis.track_events |->
            [ProcessDate    |-> tis.track_events[i].time,
             TrackingStatus |-> MapNodeCode(tis.track_events[i].node),
             TrackNodeCode  |-> ""]]]

\* The status of a TIS push is that of its last event.
convertTisToWebhook(tis) ==
    LET details == [i \in DOMAIN tis.track_events |->
            [ProcessDate    |-> tis.track_events[i].time,
             TrackingStatus |-> MapNodeCode(tis.track_events[i].node),
             TrackNodeCode  |-> tis.track_events[i].node]]
    IN  [WayBillNumber  |-> tis.waybill,
         TrackingNumber |-> tis.tracking,
         TrackingStatus |-> IF details = <<>> THEN "20"
                            ELSE Last(details).TrackingStatus,
         PackageState   |-> mapPackageState(tis.package_status),
         OrderTrackingDetails |-> details]

\* A wrong version knows only the short code of a delivery.
ShortDeliveredNodes == {"MD/TT"}

ReceivedNodes  == {"FIRST_MILE_ARRIVE", "XD/ZC", "XD/CS"}
DeliveredNodes == {"DELIVERED", "MD/TT"}

\* A wrong version takes the last such event.
TimeOfLast(events, nodes) ==
    LET At(e) == e.node \in nodes
        i == SelectLastInSeq(events, At)
    IN  IF i = 0 THEN 0 ELSE events[i].time

\* The process_time of the first event at one of the nodes, 0 without one.
TimeOfFirst(events, nodes) ==
    LET At(e) == e.node \in nodes
        i == SelectInSeq(events, At)
    IN  IF i = 0 THEN 0 ELSE events[i].time

\* received_at, delivered_at and tracked_at of the tracking_logs row.
extractTimestamps(events) ==
    [received  |-> TimeOfFirst(events, ReceivedNodes),
     delivered |-> TimeOfFirst(events, DeliveredNodes),
     tracked   |-> IF events = <<>> THEN 0 ELSE Last(events).time]

\* The webhook's copy of its request keeps four fields of an event.
convertWebhookRequestToMap(req) ==
    [req EXCEPT !.OrderTrackingDetails =
        [i \in DOMAIN req.OrderTrackingDetails |->
            [req.OrderTrackingDetails[i] EXCEPT !.TrackNodeCode = ""]]]

\* The Item of the stored detail.  Its package state is computed from the
\* rewritten status, whatever PackageState came with the push; the events
\* are kept as they are and in the order they came.
Format(raw) ==
    LET status == FixCustomsInspectionStatus(raw.TrackingStatus)
    IN  [TrackingNumber |-> IF raw.WayBillNumber # "" THEN raw.WayBillNumber
                            ELSE raw.TrackingNumber,
         WayBillNumber  |-> raw.WayBillNumber,
         TrackingStatus |-> status,
         PackageState   |-> GetPackageState(status),
         OrderTrackingDetails |-> raw.OrderTrackingDetails]

\* What TisPush hands to Save, and the timestamps it hands to SyncTrackingLog.
FormatTis(tis) ==
    LET item == Format(convertTisToWebhook(tis))
    IN  [detail |-> item,
         status |-> Atoi(item.TrackingStatus),
         times  |-> extractTimestamps(tis.track_events)]

\* A wrong version stores the status of the push before it was rewritten.
FormatWebhookRawStatus(req) ==
    [detail |-> Format(convertWebhookRequestToMap(req)),
     status |-> Atoi(req.TrackingStatus),
     times  |-> extractTimestamps(<<>>)]

\* What Webhook hands to Save; it sends no timestamps anywhere.
FormatWebhook(req) ==
    LET item == Format(convertWebhookRequestToMap(req))
    IN  [detail |-> item,
         status |-> Atoi(item.TrackingStatus),
         times  |-> extractTimestamps(<<>>)]

\* Answer of the public query.
buildSuccessResponseFromMap(body) ==
    [order_number   |-> body.detail.WayBillNumber,
     package_status |-> mapPackageStateToStatus(body.detail.PackageState),
     track_events   |-> [i \in DOMAIN body.detail.OrderTrackingDetails |->
         [node |-> body.detail.OrderTrackingDetails[i].TrackNodeCode,
          time |-> body.detail.OrderTrackingDetails[i].ProcessDate]]]

\* Answer of the admin query: status column, its text, and the detail's state.
AdminView(body) ==
    [status        |-> body.status,
     status_text   |-> mapStatusToText(body.status),
     package_state |-> body.detail.PackageState]
=============================================================================
