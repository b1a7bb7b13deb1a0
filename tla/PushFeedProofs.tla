--------------------------- MODULE PushFeedProofs ---------------------------
(***************************************************************************)
(* The properties of PushFeed for every set of node codes, all times and   *)
(* event lists of every length.                                            *)
(***************************************************************************)
EXTENDS PushFeed, FiniteSetTheorems, WellFoundedInduction, TLAPS

Event == [node : Node, time : 0..MaxTime]

\* What a list of events holds.
LEMMA EventFacts ==
    ASSUME NEW s \in Seq(Event), NEW i \in DOMAIN s
    PROVE  /\ s[i].time \in 0..MaxTime
           /\ s[i] = [node |-> s[i].node, time |-> s[i].time]
<1>1. s[i] \in Event
  OBVIOUS
<1>2. \A e \in Event : e.time \in 0..MaxTime /\ e = [node |-> e.node, time |-> e.time]
  BY DEF Event
<1>3. QED
  BY <1>1, <1>2

(***************************************************************************)
(* The first event at one of the nodes                                     *)
(***************************************************************************)

\* Of finitely many indices one is the least: the sets of indices up to each
\* of them are well-founded by inclusion.
LEMMA LeastIndex ==
    ASSUME NEW n \in Nat, NEW I \in SUBSET (1 .. n), I # {}
    PROVE  \E f \in I : \A i \in I : f <= i
<1> DEFINE UpTo(i) == {j \in I : j <= i}
           T == {UpTo(i) : i \in I}
<1>1. IsWellFoundedOn(StrictSubsetOrdering(1 .. n), SUBSET (1 .. n))
  <2>1. IsFiniteSet(1 .. n)
    BY FS_Interval
  <2>2. QED
    BY <2>1, FS_StrictSubsetOrderingWellFounded, FS_FiniteSubsetsOfFinite
<1>2. T \subseteq SUBSET (1 .. n) /\ T # {}
  OBVIOUS
<1>3. PICK U \in T : \A V \in T : <<V, U>> \notin StrictSubsetOrdering(1 .. n)
  <2> HIDE DEF T
  <2>1. QED
    BY <1>1, <1>2, WFMin
<1>4. PICK f \in I : U = UpTo(f)
  OBVIOUS
<1>5. ASSUME NEW i \in I, ~(f <= i)
      PROVE  FALSE
  <2>1. f \in Nat /\ i \in Nat /\ I \subseteq Nat
    OBVIOUS
  <2>2. UpTo(i) \subseteq UpTo(f) /\ f \in UpTo(f) /\ f \notin UpTo(i)
    <3>1. f <= f /\ \A j \in I : j <= i => j <= f
      BY <1>5, <2>1
    <3>2. QED
      BY <1>5, <3>1
  <2>3. <<UpTo(i), UpTo(f)>> \in (SUBSET (1 .. n)) \X (SUBSET (1 .. n))
    OBVIOUS
  <2>4. <<UpTo(i), UpTo(f)>> \in StrictSubsetOrdering(1 .. n)
    <3> HIDE DEF UpTo
    <3>1. QED
      BY <2>2, <2>3 DEF StrictSubsetOrdering
  <2>5. UpTo(i) \in T
    OBVIOUS
  <2>6. QED
    <3> HIDE DEF UpTo, T
    <3>1. QED
      BY <1>3, <1>4, <2>4, <2>5
<1>6. QED
  BY <1>5

\* The search finds the first such event, or none.
LEMMA FirstEvent ==
    ASSUME NEW s \in Seq(Event), NEW nodes
    PROVE  \/ /\ \A i \in DOMAIN s : s[i].node \notin nodes
              /\ TimeOfFirst(s, nodes) = 0
           \/ \E f \in DOMAIN s :
                 /\ s[f].node \in nodes
                 /\ \A i \in 1 .. f - 1 : s[i].node \notin nodes
                 /\ TimeOfFirst(s, nodes) = s[f].time
<1> DEFINE I == {i \in 1 .. Len(s) : s[i].node \in nodes}
<1>1. TimeOfFirst(s, nodes) =
         IF (IF I # {} THEN Min(I) ELSE 0) = 0 THEN 0 ELSE s[IF I # {} THEN Min(I) ELSE 0].time
  BY DEF TimeOfFirst, SelectInSeq
<1>2. DOMAIN s = 1 .. Len(s) /\ Len(s) \in Nat
  OBVIOUS
<1>3. CASE I = {}
  BY <1>1, <1>2, <1>3
<1>4. CASE I # {}
  <2>1. PICK f \in I : \A i \in I : f <= i
    BY <1>2, <1>4, LeastIndex
  <2>2. Min(I) \in I /\ \A i \in I : Min(I) <= i
    BY <2>1 DEF Min
  <2>3. Min(I) \in 1 .. Len(s) /\ s[Min(I)].node \in nodes
    BY <2>2
  <2>4. ASSUME NEW i \in 1 .. Min(I) - 1
        PROVE  s[i].node \notin nodes
    <3> HIDE DEF I
    <3>1. i \in 1 .. Len(s) /\ ~(Min(I) <= i)
      BY <1>2, <2>3
    <3>2. i \notin I
      BY <2>2, <3>1
    <3>3. QED
      BY <3>1, <3>2 DEF I
  <2>5. TimeOfFirst(s, nodes) = s[Min(I)].time
    BY <1>1, <1>4, <2>3, <1>2
  <2>6. QED
    BY <1>2, <2>3, <2>4, <2>5
<1>5. QED
  BY <1>3, <1>4
(***************************************************************************)
(* The tables                                                              *)
(***************************************************************************)

\* Numerals in another spelling are neither those of the tables nor non-numbers.
LEMMA SpellingsApart ==
    /\ DOMAIN OtherNumber \cap DOMAIN StatusNumber = {}
    /\ DOMAIN STATUS_CODES \subseteq DOMAIN StatusNumber
    /\ NotNumber \cap (DOMAIN StatusNumber \cup DOMAIN OtherNumber) = {}
BY DEF OtherNumber, StatusNumber, STATUS_CODES, NotNumber

\* What is stored in the column, for each kind of string.
LEMMA AtoiFacts ==
    ASSUME NEW s
    PROVE  /\ s \in DOMAIN StatusNumber => Atoi(s) = StatusNumber[s]
           /\ s \in DOMAIN OtherNumber => Atoi(s) = OtherNumber[s]
           /\ s \in NotNumber => Atoi(s) = 0
BY SpellingsApart DEF Atoi

\* The column of a push of any status is within its bounds.
LEMMA AtoiRange ==
    ASSUME NEW s \in StatusString
    PROVE  Atoi(s) \in -1..1001
<1>1. CASE s \in DOMAIN StatusNumber
  <2>1. StatusNumber[s] \in {0, 10, 20, 30, 40, 50, 55, 60, 70, 80, 90, 100, 1001, -1}
    BY <1>1 DEF StatusNumber, STATUS_CODES
  <2>2. QED
    BY <1>1, <2>1, AtoiFacts
<1>2. CASE s \in DOMAIN OtherNumber
  <2>1. OtherNumber[s] \in {50, 80, -1}
    BY <1>2 DEF OtherNumber
  <2>2. QED
    BY <1>2, <2>1, AtoiFacts
<1>3. CASE s \in NotNumber
  BY <1>3, AtoiFacts
<1>4. QED
  BY <1>1, <1>2, <1>3 DEF StatusString

\* A numeral as strconv.Itoa spells it reads back from the column as itself.
LEMMA ItoaAtoi ==
    ASSUME NEW s \in DOMAIN StatusNumber
    PROVE  Itoa(Atoi(s)) = s
<1>1. \A t \in DOMAIN StatusNumber : StatusNumber[t] = StatusNumber[s] => t = s
  BY SMTT(60) DEF StatusNumber, STATUS_CODES
<1>2. Atoi(s) = StatusNumber[s]
  BY AtoiFacts
<1>3. QED
  BY <1>1, <1>2 DEF Itoa

\* The column keeps the package state of such numerals and of what strconv.Atoi
\* rejects.
LEMMA ColumnKeepsState ==
    ASSUME NEW s \in StatusString \ DOMAIN OtherNumber
    PROVE  GetPackageState(Itoa(Atoi(s))) = GetPackageState(s)
<1>1. CASE s \in DOMAIN StatusNumber
  BY <1>1, ItoaAtoi
<1>2. CASE s \in NotNumber
  <2>1. "0" \in DOMAIN StatusNumber /\ StatusNumber["0"] = 0
    BY DEF StatusNumber, STATUS_CODES
  <2>2. Itoa(Atoi(s)) = "0"
    BY <1>2, <2>1, ItoaAtoi, AtoiFacts
  <2>3. GetPackageState(s) = "0" /\ GetPackageState("0") = "0"
    BY <1>2 DEF NotNumber, STATUS_CODES, GetPackageState, STATUS_CODES_TO_PACKAGE_STATES
  <2>4. QED
    BY <2>2, <2>3
<1>3. QED
  BY <1>1, <1>2 DEF StatusString

\* In the detail a code in another spelling is no code.
LEMMA OtherIsNotFound ==
    ASSUME NEW s \in DOMAIN OtherNumber
    PROVE  GetPackageState(s) = "0"
<1>1. s \notin DOMAIN STATUS_CODES
  BY SpellingsApart
<1>2. QED
  BY <1>1 DEF GetPackageState, STATUS_CODES_TO_PACKAGE_STATES

\* The text of a code in the admin query is one its letter in the public query
\* stands for.
CodeAgrees(s) ==
    mapStatusToText(Atoi(s)) \in LetterText(mapPackageStateToStatus(GetPackageState(s)))

\* That is so for every code the formatter lets through, and for strings that
\* are no numerals.
LEMMA CodesAgree ==
    ASSUME NEW s \in (DOMAIN STATUS_CODES \cup NotNumber) \ {"80"}
    PROVE  CodeAgrees(s)
<1> USE DEF CodeAgrees, mapStatusToText, mapPackageStateToStatus, LetterText
<1>1. CASE s \in DOMAIN STATUS_CODES
  <2>1. s \in {"0", "10", "20", "30", "40", "50", "60", "70", "90", "100", "1001"}
    BY <1>1 DEF STATUS_CODES
  <2>2. s \in DOMAIN StatusNumber /\ Atoi(s) = StatusNumber[s]
    BY <1>1, SpellingsApart, AtoiFacts
  <2>3. GetPackageState(s) = STATUS_CODES_TO_PACKAGE_STATES[s]
    BY <2>1 DEF GetPackageState, STATUS_CODES_TO_PACKAGE_STATES, STATUS_CODES
  <2> USE DEF STATUS_CODES, StatusNumber, STATUS_CODES_TO_PACKAGE_STATES
  <2>4. CASE s = "0"
    <3>1. Atoi(s) = 0 /\ GetPackageState(s) = "0"
      BY <2>2, <2>3, <2>4
    <3>2. QED
      BY <3>1
  <2>5. CASE s = "10"
    <3>1. Atoi(s) = 10 /\ GetPackageState(s) = "4"
      BY <2>2, <2>3, <2>5
    <3>2. QED
      BY <3>1
  <2>6. CASE s = "20"
    <3>1. Atoi(s) = 20 /\ GetPackageState(s) = "2"
      BY <2>2, <2>3, <2>6
    <3>2. QED
      BY <3>1
  <2>7. CASE s = "30"
    <3>1. Atoi(s) = 30 /\ GetPackageState(s) = "2"
      BY <2>2, <2>3, <2>7
    <3>2. QED
      BY <3>1
  <2>8. CASE s = "40"
    <3>1. Atoi(s) = 40 /\ GetPackageState(s) = "6"
      BY <2>2, <2>3, <2>8
    <3>2. QED
      BY <3>1
  <2>9. CASE s = "50"
    <3>1. Atoi(s) = 50 /\ GetPackageState(s) = "3"
      BY <2>2, <2>3, <2>9
    <3>2. QED
      BY <3>1
  <2>10. CASE s = "60"
    <3>1. Atoi(s) = 60 /\ GetPackageState(s) = "6"
      BY <2>2, <2>3, <2>10
    <3>2. QED
      BY <3>1
  <2>11. CASE s = "70"
    <3>1. Atoi(s) = 70 /\ GetPackageState(s) = "6"
      BY <2>2, <2>3, <2>11
    <3>2. QED
      BY <3>1
  <2>12. CASE s = "90"
    <3>1. Atoi(s) = 90 /\ GetPackageState(s) = "7"
      BY <2>2, <2>3, <2>12
    <3>2. QED
      BY <3>1
  <2>13. CASE s = "100"
    <3>1. Atoi(s) = 100 /\ GetPackageState(s) = "5"
      BY <2>2, <2>3, <2>13
    <3>2. QED
      BY <3>1
  <2>14. CASE s = "1001"
    <3>1. Atoi(s) = 1001 /\ GetPackageState(s) = "2"
      BY <2>2, <2>3, <2>14
    <3>2. QED
      BY <3>1
  <2>15. QED
    BY <2>1, <2>4, <2>5, <2>6, <2>7, <2>8, <2>9, <2>10, <2>11, <2>12, <2>13, <2>14
<1>2. CASE s \in NotNumber
  <2>1. Atoi(s) = 0 /\ GetPackageState(s) = "0"
    BY <1>2, AtoiFacts DEF NotNumber, STATUS_CODES, GetPackageState, STATUS_CODES_TO_PACKAGE_STATES
  <2>2. QED
    BY <2>1
<1>3. QED
  BY <1>1, <1>2

\* Every node has a status of STATUS_CODES, and only the delivery has 50.
LEMMA NodeStatus ==
    ASSUME NEW c
    PROVE  /\ MapNodeCode(c) \in {"10", "20", "40", "50"}
           /\ MapNodeCode(c) = "50" => c = "DELIVERED"
BY DEF MapNodeCode, NODE_CODE_TO_TRACKING_STATUS

(***************************************************************************)
(* What the formatter makes of the two pushes                              *)
(***************************************************************************)

\* The feed is a sequence of events within its bound.
FeedInv ==
    /\ events \in Seq(Event)
    /\ Len(events) <= MaxEvents
    /\ status \in StatusString

\* A TIS push is stored with the status of its last event.
LEMMA TisBody ==
    ASSUME FeedInv
    PROVE  LET body == FormatTis(Tis)
               last == IF events = <<>> THEN "20" ELSE MapNodeCode(Last(events).node)
           IN  /\ body.detail.TrackingStatus = last
               /\ body.detail.PackageState = GetPackageState(last)
               /\ body.detail.OrderTrackingDetails =
                     [i \in DOMAIN events |->
                        [ProcessDate    |-> events[i].time,
                         TrackingStatus |-> MapNodeCode(events[i].node),
                         TrackNodeCode  |-> events[i].node]]
               /\ body.status = Atoi(last)
               /\ body.times = extractTimestamps(events)
               /\ last \in {"10", "20", "40", "50"}
<1> DEFINE details == [i \in DOMAIN events |->
              [ProcessDate    |-> events[i].time,
               TrackingStatus |-> MapNodeCode(events[i].node),
               TrackNodeCode  |-> events[i].node]]
           last == IF events = <<>> THEN "20" ELSE MapNodeCode(Last(events).node)
<1>1. last \in {"10", "20", "40", "50"}
  BY NodeStatus
<1>2. (IF details = <<>> THEN "20" ELSE Last(details).TrackingStatus) = last
  <2>1. CASE events = <<>>
    <3>1. details = <<>>
      BY <2>1
    <3>2. QED
      BY <2>1, <3>1
  <2>2. CASE events # <<>>
    <3>1. /\ DOMAIN events = 1 .. Len(events) /\ Len(events) \in Nat
          /\ Len(events) \in DOMAIN events
      BY <2>2 DEF FeedInv
    <3>2. Len(details) = Len(events) /\ details # <<>>
      BY <3>1
    <3>3. Last(details).TrackingStatus = MapNodeCode(Last(events).node)
      BY <3>1, <3>2 DEF Last
    <3>4. QED
      BY <2>2, <3>2, <3>3
  <2>3. QED
    BY <2>1, <2>2
<1>3. convertTisToWebhook(Tis).TrackingStatus = last
      /\ convertTisToWebhook(Tis).OrderTrackingDetails = details
  BY <1>2 DEF convertTisToWebhook, Tis
<1>4. FixCustomsInspectionStatus(last) = last
  BY <1>1 DEF FixCustomsInspectionStatus
<1>5. QED
  BY <1>1, <1>3, <1>4 DEF FormatTis, Format, Tis

\* An OMS webhook is stored with its own status, a customs inspection in transit.
LEMMA OmsBody ==
    LET body == FormatWebhook(Oms)
        code == FixCustomsInspectionStatus(status)
    IN  /\ body.detail.TrackingStatus = code
        /\ body.detail.PackageState = GetPackageState(code)
        /\ body.status = Atoi(code)
        /\ body.times = extractTimestamps(<<>>)
BY DEF FormatWebhook, convertWebhookRequestToMap, Format, Oms

(***************************************************************************)
(* The invariants                                                          *)
(***************************************************************************)

\* Every operation of the carrier and the OMS leaves a feed.
LEMMA FeedIsKept == Spec => []FeedInv
<1>1. Init => FeedInv
  <2>1. "0" \in StatusString
    BY DEF StatusString, StatusNumber, STATUS_CODES
  <2>2. QED
    BY <2>1, FeedAssumption DEF Init, FeedInv
<1>2. FeedInv /\ [Next]_vars => FeedInv'
  <2> SUFFICES ASSUME FeedInv, [Next]_vars PROVE FeedInv'
    OBVIOUS
  <2>1. CASE UNCHANGED vars
    BY <2>1 DEF FeedInv, vars
  <2>2. CASE NextParcel
    <3>1. "0" \in StatusString
      BY DEF StatusString, StatusNumber, STATUS_CODES
    <3>2. QED
      BY <2>2, <3>1, FeedAssumption DEF NextParcel, FeedInv
  <2>3. ASSUME NEW e \in Event, Scan(e)
        PROVE  FeedInv'
    <3>1. events' \in Seq(Event) /\ Len(events') = Len(events) + 1
      BY <2>3 DEF Scan, FeedInv
    <3>2. QED
      BY <2>3, <3>1, FeedAssumption DEF Scan, FeedInv
  <2>4. ASSUME NEW e \in Event, LateScan(e)
        PROVE  FeedInv'
    <3>1. PICK i \in 1 .. Len(events) : events' = InsertAt(events, i, e)
      BY <2>4 DEF LateScan
    <3>2. /\ SubSeq(events, 1, i - 1) \in Seq(Event)
          /\ SubSeq(events, i, Len(events)) \in Seq(Event)
          /\ Len(SubSeq(events, 1, i - 1)) = i - 1
          /\ Len(SubSeq(events, i, Len(events))) = Len(events) - i + 1
          /\ Len(events) \in Nat
      BY <3>1 DEF FeedInv
    <3>3. /\ events' \in Seq(Event)
          /\ Len(events') = (i - 1) + 1 + (Len(events) - i + 1)
      <4> DEFINE a == SubSeq(events, 1, i - 1)
                 b == SubSeq(events, i, Len(events))
      <4>1. a \in Seq(Event) /\ b \in Seq(Event)
        BY <3>2
      <4>2. events' = a \o <<e>> \o b
        BY <3>1 DEF InsertAt
      <4>3. Len(a) = i - 1 /\ Len(b) = Len(events) - i + 1
        BY <3>2
      <4> HIDE DEF a, b
      <4>4. a \o <<e>> \in Seq(Event) /\ Len(a \o <<e>>) = (i - 1) + 1
        BY <4>1, <4>3
      <4>5. (a \o <<e>>) \o b \in Seq(Event)
            /\ Len((a \o <<e>>) \o b) = (i - 1) + 1 + (Len(events) - i + 1)
        BY <4>1, <4>3, <4>4
      <4>6. QED
        BY <4>2, <4>5
    <3>4. Len(events') <= MaxEvents
      BY <2>4, <3>1, <3>2, <3>3, FeedAssumption DEF LateScan
    <3>5. QED
      BY <2>4, <3>3, <3>4 DEF LateScan, FeedInv
  <2>5. ASSUME NEW s \in StatusString, Report(s)
        PROVE  FeedInv'
    BY <2>5 DEF Report, FeedInv
  <2>6. QED
    BY <2>1, <2>2, <2>3, <2>4, <2>5 DEF Next, Event
<1>3. QED
  BY <1>1, <1>2, PTL DEF Spec

\* A time of the tracking_logs row is one of the feed, or 0.
LEMMA TimeRange ==
    ASSUME NEW s \in Seq(Event), NEW nodes
    PROVE  TimeOfFirst(s, nodes) \in 0..MaxTime
<1>1. 0 \in 0..MaxTime
  BY FeedAssumption
<1>2. \A f \in DOMAIN s : s[f].time \in 0..MaxTime
  BY EventFacts
<1>3. QED
  BY <1>1, <1>2, FirstEvent

LEMMA TimesRange ==
    ASSUME NEW s \in Seq(Event)
    PROVE  extractTimestamps(s) \in
              [received : 0..MaxTime, delivered : 0..MaxTime, tracked : 0..MaxTime]
<1>1. (IF s = <<>> THEN 0 ELSE Last(s).time) \in 0..MaxTime
  <2>1. CASE s = <<>>
    BY <2>1, FeedAssumption
  <2>2. CASE s # <<>>
    <3>1. s[Len(s)] \in Event
      BY <2>2
    <3>2. QED
      BY <2>2, <3>1 DEF Last, Event
  <2>3. QED
    BY <2>1, <2>2
<1>2. QED
  BY <1>1, TimeRange DEF extractTimestamps

\* What is stored of the two pushes.
LEMMA StoredBodies ==
    ASSUME FeedInv, NEW body \in Stored
    PROVE  \E code \in StatusString \ {"80"} :
              /\ code \in DOMAIN OtherNumber => body = FormatWebhook(Oms) /\ status = code
              /\ body.detail.TrackingStatus = code
              /\ body.detail.PackageState = GetPackageState(code)
              /\ body.status = Atoi(code)
              /\ \E s \in Seq(Event) : body.times = extractTimestamps(s)
<1>1. {"10", "20", "40", "50"} \subseteq StatusString \ ({"80"} \cup DOMAIN OtherNumber)
  BY DEF StatusString, StatusNumber, STATUS_CODES, OtherNumber
<1>2. CASE body = FormatTis(Tis)
  BY <1>1, <1>2, TisBody DEF FeedInv
<1>3. CASE body = FormatWebhook(Oms)
  <2>1. /\ FixCustomsInspectionStatus(status) \in StatusString \ {"80"}
        /\ FixCustomsInspectionStatus(status) \in DOMAIN OtherNumber =>
              status = FixCustomsInspectionStatus(status)
    BY <1>1 DEF FixCustomsInspectionStatus, FeedInv
  <2>2. <<>> \in Seq(Event)
    OBVIOUS
  <2>3. QED
    BY <1>3, <2>1, <2>2, OmsBody
<1>4. QED
  BY <1>2, <1>3 DEF Stored

\* Feeds, bodies and their times have their types, and every node of a TIS push
\* gets a status of STATUS_CODES.
THEOREM FeedTypeCorrect == Spec => []TypeOK
<1>1. ASSUME FeedInv
      PROVE  TypeOK
  <2>1. events \in BoundedSeq([node : Node, time : 0..MaxTime], MaxEvents)
    <3>1. Len(events) \in 0..MaxEvents /\ events \in [1 .. Len(events) -> Event]
      BY <1>1, FeedAssumption DEF FeedInv
    <3>2. QED
      BY <3>1 DEF BoundedSeq, SeqOf, Event
  <2>2. ASSUME NEW body \in Stored
        PROVE  /\ body.status \in -1..1001
               /\ body.times \in [received : 0..MaxTime, delivered : 0..MaxTime, tracked : 0..MaxTime]
    <3>1. PICK code \in StatusString : body.status = Atoi(code)
      BY <1>1, StoredBodies
    <3>2. PICK s \in Seq(Event) : body.times = extractTimestamps(s)
      BY <1>1, StoredBodies
    <3>3. QED
      BY <3>1, <3>2, AtoiRange, TimesRange
  <2>3. FormatTis(Tis).detail.TrackingStatus \in {"10", "20", "40", "50"}
    BY <1>1, TisBody
  <2>4. QED
    BY <1>1, <2>1, <2>2, <2>3 DEF TypeOK, FeedInv, STATUS_CODES
<1>2. QED
  BY <1>1, FeedIsKept, PTL

\* The int32 column and the detail have the same package state, except that an
\* OMS push with a numeral in another spelling is NotFound in the detail.
THEOREM ColumnMatchesDetailCorrect == Spec => []ColumnMatchesDetail
<1>1. ASSUME FeedInv, NEW body \in Stored
      PROVE  \/ GetPackageState(Itoa(body.status)) = body.detail.PackageState
             \/ /\ body = FormatWebhook(Oms)
                /\ status \in DOMAIN OtherNumber
                /\ body.detail.PackageState = "0"
  <2>1. PICK code \in StatusString \ {"80"} :
              /\ code \in DOMAIN OtherNumber => body = FormatWebhook(Oms) /\ status = code
              /\ body.detail.PackageState = GetPackageState(code)
              /\ body.status = Atoi(code)
    BY <1>1, StoredBodies
  <2>2. CASE code \in DOMAIN OtherNumber
    BY <2>1, <2>2, OtherIsNotFound
  <2>3. CASE code \notin DOMAIN OtherNumber
    BY <2>1, <2>3, ColumnKeepsState
  <2>4. QED
    BY <2>2, <2>3
<1>2. FeedInv => ColumnMatchesDetail
  BY <1>1 DEF ColumnMatchesDetail
<1>3. QED
  BY <1>2, FeedIsKept, PTL

\* The public and the admin query tell the same story of every push.
THEOREM ViewsAgreeCorrect == Spec => []ViewsAgree
<1>1. ASSUME FeedInv
      PROVE  ViewsAgree
  <2> SUFFICES ASSUME NEW body \in Stored,
                      body.detail.TrackingStatus \in DOMAIN STATUS_CODES \cup NotNumber
               PROVE  AdminView(body).status_text \in
                         LetterText(buildSuccessResponseFromMap(body).package_status)
    BY DEF ViewsAgree
  <2>1. PICK code \in StatusString \ {"80"} :
              /\ body.detail.TrackingStatus = code
              /\ body.detail.PackageState = GetPackageState(code)
              /\ body.status = Atoi(code)
    BY <1>1, StoredBodies
  <2>2. CodeAgrees(code)
    BY <2>1, CodesAgree
  <2>3. AdminView(body).status_text = mapStatusToText(Atoi(code))
    BY <2>1 DEF AdminView
  <2>4. buildSuccessResponseFromMap(body).package_status
           = mapPackageStateToStatus(GetPackageState(code))
    BY <2>1 DEF buildSuccessResponseFromMap
  <2>5. QED
    BY <2>2, <2>3, <2>4 DEF CodeAgrees
<1>2. QED
  BY <1>1, FeedIsKept, PTL

\* Readers are shown every event of a TIS push, at its node and its time.
THEOREM PublicShowsFeedCorrect == Spec => []PublicShowsFeed
<1>1. ASSUME FeedInv
      PROVE  PublicShowsFeed
  <2>1. events = [i \in DOMAIN events |-> [node |-> events[i].node, time |-> events[i].time]]
    <3>1. \A i \in DOMAIN events : events[i] = [node |-> events[i].node, time |-> events[i].time]
      BY <1>1, EventFacts DEF FeedInv
    <3>2. events = [i \in DOMAIN events |-> events[i]]
      BY <1>1 DEF FeedInv
    <3>3. QED
      BY <3>1, <3>2
  <2>2. buildSuccessResponseFromMap(FormatTis(Tis)).track_events
           = [i \in DOMAIN events |-> [node |-> events[i].node, time |-> events[i].time]]
    BY <1>1, TisBody DEF buildSuccessResponseFromMap
  <2>3. QED
    BY <2>1, <2>2 DEF PublicShowsFeed
<1>2. QED
  BY <1>1, FeedIsKept, PTL

\* Once tracking_logs says delivered it has the time of a delivery event: the
\* last event is one, so the search through all of them finds one.
THEOREM DeliveredHasItsTimeCorrect == Spec => []DeliveredHasItsTime
<1>1. ASSUME FeedInv, TrackStatus(FormatTis(Tis)) = 2
      PROVE  \E i \in DOMAIN events : /\ events[i].node \in DeliveredNodes
                                      /\ events[i].time = FormatTis(Tis).times.delivered
  <2> DEFINE last == IF events = <<>> THEN "20" ELSE MapNodeCode(Last(events).node)
  <2>1. FormatTis(Tis).status = Atoi(last) /\ last \in {"10", "20", "40", "50"}
    BY <1>1, TisBody
  <2>2. last \in DOMAIN StatusNumber
    BY <2>1 DEF StatusNumber, STATUS_CODES
  <2>3. TrackStatus(FormatTis(Tis)) = MapTrackStatus(Atoi(last), FALSE, FALSE)
    BY <2>1 DEF TrackStatus
  <2>4. last = "50"
    <3> HIDE DEF last
    <3>1. Itoa(Atoi(last)) = last
      BY <2>2, ItoaAtoi
    <3>2. GetStatusText("10") = "InfoReceived" /\ GetStatusText("20") = "InTransit"
          /\ GetStatusText("40") = "DeliveryFailure"
      BY DEF GetStatusText, STATUS_CODES
    <3>3. last # "50" => MapTrackStatus(Atoi(last), FALSE, FALSE) # 2
      BY <2>1, <3>1, <3>2 DEF MapTrackStatus
    <3>4. QED
      BY <1>1, <2>3, <3>3
  <2>5. events # <<>> /\ Last(events).node = "DELIVERED"
    BY <2>4, NodeStatus
  <2>6. Len(events) \in DOMAIN events /\ events[Len(events)].node \in DeliveredNodes
    BY <1>1, <2>5 DEF FeedInv, Last, DeliveredNodes
  <2>7. FormatTis(Tis).times.delivered = TimeOfFirst(events, DeliveredNodes)
    BY <1>1, TisBody DEF extractTimestamps
  <2>8. QED
    BY <1>1, <2>6, <2>7, FirstEvent DEF FeedInv
<1>2. FeedInv => DeliveredHasItsTime
  BY <1>1 DEF DeliveredHasItsTime
<1>3. QED
  BY <1>2, FeedIsKept, PTL

\* The first event at a node stays the first while a feed grows at its end.
LEMMA FirstStays ==
    ASSUME NEW s \in Seq(Event), NEW t \in Seq(Event), IsPrefix(s, t), NEW nodes,
           TimeOfFirst(s, nodes) # 0
    PROVE  TimeOfFirst(t, nodes) = TimeOfFirst(s, nodes)
<1>1. PICK f \in DOMAIN s :
         /\ s[f].node \in nodes
         /\ \A i \in 1 .. f - 1 : s[i].node \notin nodes
         /\ TimeOfFirst(s, nodes) = s[f].time
  BY FirstEvent
<1>2. /\ DOMAIN s = 1 .. Len(s) /\ Len(s) \in Nat
      /\ DOMAIN t = 1 .. Len(t) /\ Len(t) \in Nat
      /\ Len(s) <= Len(t)
  BY DEF IsPrefix
<1>3. \A i \in 1 .. Len(s) : t[i] = s[i]
  <2>1. SubSeq(s, 1, Len(s)) = SubSeq(t, 1, Len(s))
    BY DEF IsPrefix
  <2>2. \A i \in 1 .. Len(s) : SubSeq(s, 1, Len(s))[i] = s[i] /\ SubSeq(t, 1, Len(s))[i] = t[i]
    BY <1>2
  <2>3. QED
    BY <2>1, <2>2
<1>4. f \in DOMAIN t /\ t[f].node \in nodes
  BY <1>1, <1>2, <1>3
<1>5. PICK g \in DOMAIN t :
         /\ t[g].node \in nodes
         /\ \A i \in 1 .. g - 1 : t[i].node \notin nodes
         /\ TimeOfFirst(t, nodes) = t[g].time
  BY <1>4, FirstEvent
<1>6. g = f
  <2>1. ~(f < g)
    BY <1>1, <1>2, <1>3, <1>5
  <2>2. ~(g < f)
    BY <1>1, <1>2, <1>3, <1>5
  <2>3. QED
    BY <1>1, <1>2, <1>5, <2>1, <2>2
<1>7. QED
  BY <1>1, <1>2, <1>3, <1>5, <1>6

\* Receipt and delivery times stay what they are while the feed only grows at its end.
THEOREM TimesAreStableCorrect == Spec => TimesAreStable
<1>1. ASSUME FeedInv, FeedInv', IsPrefix(events, events')
      PROVE  LET old == extractTimestamps(events)
                 new == extractTimestamps(events')
             IN  /\ old.received # 0 => new.received = old.received
                 /\ old.delivered # 0 => new.delivered = old.delivered
  BY <1>1, FirstStays DEF extractTimestamps, FeedInv
<1>2. QED
  BY <1>1, FeedIsKept, PTL DEF TimesAreStable

=============================================================================
