--------------------------- MODULE StatusMapping ---------------------------
(***************************************************************************)
(* The status vocabularies of the service and the tables that translate    *)
(* between them (domain/tracking/service): YunExpress node code ->         *)
(* tracking status -> status text / package state / track_status of the    *)
(* tracking_logs row, and the two renderings the query endpoints use.      *)
(*                                                                         *)
(* A tracking status travels as a string ("50") inside the detail JSON and *)
(* as an int32 (50) in tracking_details.status.  The two are not inverse:  *)
(* many strings become one number.                                         *)
(***************************************************************************)
EXTENDS Integers

\* Status code -> status text (status_mapper.go).
STATUS_CODES ==
    [code \in {"0", "10", "20", "30", "40", "50", "60", "70", "80", "90", "100", "1001"} |->
        CASE code = "0"   -> "NotFound"
          [] code = "10"  -> "InfoReceived"
          [] code = "20"  -> "InTransit"
          [] code = "30"  -> "AvailableForPickup"
          [] code = "40"  -> "DeliveryFailure"
          [] code = "50"  -> "Delivered"
          [] code \in {"60", "80"} -> "Exception"
          [] code = "70"  -> "Expired"
          [] code = "90"  -> "Exception_Returned"
          [] code = "100" -> "Exception_Cancel"
          [] code = "1001" -> "InTransit_Arrival"]

\* Status code -> package state.
STATUS_CODES_TO_PACKAGE_STATES ==
    [code \in DOMAIN STATUS_CODES |->
        CASE code = "0"   -> "0"
          [] code = "10"  -> "4"
          [] code \in {"20", "30", "1001"} -> "2"
          [] code = "50"  -> "3"
          [] code \in {"40", "60", "70", "80"} -> "6"
          [] code = "90"  -> "7"
          [] code = "100" -> "5"]

GetStatusText(status) ==
    IF status \in DOMAIN STATUS_CODES THEN STATUS_CODES[status] ELSE "Undefined"

GetPackageState(status) ==
    IF status \in DOMAIN STATUS_CODES_TO_PACKAGE_STATES
    THEN STATUS_CODES_TO_PACKAGE_STATES[status] ELSE "0"

\* A wrong version leaves the code as it is.
KeepCustomsInspectionStatus(status) == status

\* A customs inspection (80) counts as in transit (20).
FixCustomsInspectionStatus(status) == IF status = "80" THEN "20" ELSE status

\* Node code -> tracking status.  One representative of each group of table
\* rows that share a status; every code missing from the table is "20".
NODE_CODE_TO_TRACKING_STATUS ==
    [code \in {"ORDER_CREATION", "FIRST_MILE_ARRIVE", "IN_TRANSIT",
               "DELIVERY_FAILURE", "DELIVERED"} |->
        CASE code \in {"ORDER_CREATION", "FIRST_MILE_ARRIVE"} -> "10"
          [] code = "IN_TRANSIT"       -> "20"
          [] code = "DELIVERY_FAILURE" -> "40"
          [] code = "DELIVERED"        -> "50"]

\* A wrong version: the zero value of a Go map lookup, not the default.
MapNodeCodeOrEmpty(code) ==
    IF code \in DOMAIN NODE_CODE_TO_TRACKING_STATUS
    THEN NODE_CODE_TO_TRACKING_STATUS[code] ELSE ""

MapNodeCode(code) ==
    IF code \in DOMAIN NODE_CODE_TO_TRACKING_STATUS
    THEN NODE_CODE_TO_TRACKING_STATUS[code] ELSE "20"

(***************************************************************************)
(* The int32 status column.  The webhook takes any string for a status, so *)
(* StatusString has one of each kind: the codes and two numerals outside   *)
(* the tables; numerals in another spelling than strconv.Itoa's; and       *)
(* strings strconv.Atoi rejects, whose 0 is stored.                        *)
(***************************************************************************)
StatusNumber ==
    [s \in DOMAIN STATUS_CODES \cup {"55", "-1"} |->
        CASE s = "0" -> 0     [] s = "10" -> 10   [] s = "20" -> 20   [] s = "30" -> 30
          [] s = "40" -> 40   [] s = "50" -> 50   [] s = "55" -> 55   [] s = "60" -> 60
          [] s = "70" -> 70   [] s = "80" -> 80   [] s = "90" -> 90   [] s = "100" -> 100
          [] s = "1001" -> 1001                   [] s = "-1" -> -1]

\* Leading zeros and a sign are dropped; 2^32 + 50 loses its upper half in
\* int32(...); 2^63 is out of range, and 2^63 - 1, which Atoi returns besides
\* the error, is -1 as an int32.
OtherNumber ==
    [s \in {"050", "+50", "080", "4294967346", "9223372036854775808"} |->
        CASE s \in {"050", "+50", "4294967346"} -> 50
          [] s = "080" -> 80
          [] s = "9223372036854775808" -> -1]

NotNumber == {"", "unknown"}

StatusString == DOMAIN StatusNumber \cup DOMAIN OtherNumber \cup NotNumber

\* int32 of what strconv.Atoi returns, its error dropped.
Atoi(s) ==
    CASE s \in DOMAIN StatusNumber -> StatusNumber[s]
      [] s \in DOMAIN OtherNumber  -> OtherNumber[s]
      [] OTHER -> 0

Itoa(i) == CHOOSE s \in DOMAIN StatusNumber : StatusNumber[s] = i

(***************************************************************************)
(* track_status of a tracking_logs row: 0 to receive, 1 in transit,        *)
(* 2 delivered, 3 exception.  Only InfoReceived asks whether the number is *)
(* an overseas package; a failed query counts as "no".                     *)
(***************************************************************************)
AsksOverseas(status) == GetStatusText(Itoa(status)) = "InfoReceived"

MapTrackStatus(status, overseas, queryFailed) ==
    LET text == GetStatusText(Itoa(status)) IN
    CASE text = "InfoReceived" -> IF overseas /\ ~queryFailed THEN 1 ELSE 0
      [] text \in {"InTransit", "InTransit_Arrival"} -> 1
      [] text \in {"Delivered", "AvailableForPickup"} -> 2
      [] text \in {"DeliveryFailure", "Exception", "Expired",
                   "Exception_Returned", "Exception_Cancel"} -> 3
      [] OTHER -> 0

\* Package state -> the letter of the public query (default "T").
mapPackageStateToStatus(state) ==
    CASE state = "0" -> "N"
      [] state = "2" -> "T"
      [] state = "3" -> "D"
      [] state = "4" -> "F"
      [] state = "5" -> "C"
      [] state = "6" -> "E"
      [] state = "7" -> "R"
      [] OTHER -> "T"

\* Status column -> the text of the admin query (default "InTransit").
mapStatusToText(status) ==
    CASE status = 0   -> "NotFound"
      [] status = 10  -> "InfoReceived"
      [] status = 20  -> "InTransit"
      [] status = 30  -> "AvailableForPickup"
      [] status = 40  -> "DeliveryFailure"
      [] status = 50  -> "Delivered"
      [] status = 60  -> "Exception"
      [] status = 70  -> "Expired"
      [] status = 80  -> "CustomsInspection"
      [] status = 90  -> "Returned"
      [] status = 100 -> "Canceled"
      [] OTHER -> "InTransit"
=============================================================================
