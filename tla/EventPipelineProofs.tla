------------------------ MODULE EventPipelineProofs ------------------------
(***************************************************************************)
(* The event pipeline for pushes of any length and events with any fields. *)
(* The invariant traces every event of the list, after every stage, to the *)
(* event of the push it was (EventsTraced); what the list says then        *)
(* follows from what one event says.                                       *)
(***************************************************************************)
EXTENDS EventPipeline, FiniteSetTheorems, FunctionTheorems, SequenceTheorems, TLAPS

(***************************************************************************)
(* Stages                                                                  *)
(***************************************************************************)

StageNames == {"raw", "mapped", "fixed", "filtered", "sorted", "marked"}

\* The stages reached from each of the ones the properties name.
LEMMA StageOrder ==
    /\ {Stages[i] : i \in DOMAIN Stages} = StageNames
    /\ \A t \in StageNames :
          /\ Leads("mapped", t) <=> t # "raw"
          /\ Leads("filtered", t) <=> t \in {"filtered", "sorted", "marked"}
          /\ Leads("sorted", t) <=> t \in {"sorted", "marked"}
<1>1. /\ DOMAIN Stages = 1 .. 6
      /\ Stages[1] = "raw" /\ Stages[2] = "mapped" /\ Stages[3] = "fixed"
      /\ Stages[4] = "filtered" /\ Stages[5] = "sorted" /\ Stages[6] = "marked"
  BY DEF Stages
<1>2. 1 .. 6 = {1, 2, 3, 4, 5, 6}
  OBVIOUS
<1>3. DOMAIN Stages = {1, 2, 3, 4, 5, 6}
  BY <1>1, <1>2
<1>4. {Stages[i] : i \in DOMAIN Stages} = StageNames
  BY <1>1, <1>3 DEF StageNames
<1>5. ASSUME NEW t \in StageNames
      PROVE  /\ Leads("mapped", t) <=> t # "raw"
             /\ Leads("filtered", t) <=> t \in {"filtered", "sorted", "marked"}
             /\ Leads("sorted", t) <=> t \in {"sorted", "marked"}
  BY <1>1, <1>3 DEF Leads, StageNames
<1>6. QED
  BY <1>4, <1>5

(***************************************************************************)
(* One event                                                               *)
(***************************************************************************)

\* A field looked up under its first name only, where the event has no other.
LEMMA FirstName ==
    ASSUME NEW event, NEW a, NEW b, NEW c, b \notin DOMAIN event, c \notin DOMAIN event
    PROVE  FirstString(event, <<a, b, c>>) =
              IF a \in DOMAIN event /\ event[a] # NotString THEN event[a] ELSE ""
<1> DEFINE fields == <<a, b, c>>
           I == {i \in 1 .. Len(fields) : fields[i] \in DOMAIN event /\ event[fields[i]] # NotString}
<1>1. Len(fields) = 3 /\ fields[1] = a /\ fields[2] = b /\ fields[3] = c
  OBVIOUS
<1>2. I = IF a \in DOMAIN event /\ event[a] # NotString THEN {1} ELSE {}
  <2> HIDE DEF fields
  <2>1. 1 .. Len(fields) = {1, 2, 3}
    BY <1>1
  <2>2. QED
    BY <1>1, <2>1
<1>3. Min({1}) = 1
  BY DEF Min
<1>4. FirstString(event, fields) =
         IF (IF I # {} THEN Min(I) ELSE 0) = 0 THEN "" ELSE event[fields[IF I # {} THEN Min(I) ELSE 0]]
  BY DEF FirstString, SelectInSeq
<1> HIDE DEF I, fields
<1>5. FirstString(event, fields) =
         IF a \in DOMAIN event /\ event[a] # NotString THEN event[a] ELSE ""
  BY <1>1, <1>2, <1>3, <1>4
<1>6. QED
  BY <1>5 DEF fields

\* The same for the time sorting looks up.
LEMMA TimeByName ==
    ASSUME NEW event, "ProcessDate" \notin DOMAIN event
    PROVE  parseTime(event) =
              IF "time" \in DOMAIN event THEN parseTimeFormats(event["time"]) ELSE 0
<1> DEFINE fields == <<"time", "ProcessDate">>
           I == {i \in 1 .. Len(fields) : fields[i] \in DOMAIN event /\ parseTimeFormats(event[fields[i]]) # 0}
<1>1. Len(fields) = 2 /\ fields[1] = "time" /\ fields[2] = "ProcessDate"
  OBVIOUS
<1>2. I = IF "time" \in DOMAIN event /\ parseTimeFormats(event["time"]) # 0 THEN {1} ELSE {}
  <2> HIDE DEF fields
  <2>1. 1 .. Len(fields) = {1, 2}
    BY <1>1
  <2>2. QED
    BY <1>1, <2>1
<1>3. Min({1}) = 1
  BY DEF Min
<1>4. parseTime(event) =
         IF (IF I # {} THEN Min(I) ELSE 0) = 0 THEN 0
         ELSE parseTimeFormats(event[fields[IF I # {} THEN Min(I) ELSE 0]])
  BY DEF parseTime, SelectInSeq
<1> HIDE DEF I, fields
<1>5. QED
  BY <1>1, <1>2, <1>3, <1>4

\* The mapped event has the service's names only, with what was sent.
LEMMA MappedEvent ==
    ASSUME NEW e
    PROVE  LET m == MapEventFields(e)
           IN  /\ DOMAIN m \subseteq {"time", "content", "TrackingStatus"}
               /\ IF "time" \in DOMAIN m THEN m["time"] = Sent(e, "ProcessDate")
                  ELSE Sent(e, "ProcessDate") = NotString
               /\ IF "content" \in DOMAIN m THEN m["content"] = Sent(e, "ProcessContent")
                  ELSE Sent(e, "ProcessContent") = NotString
               /\ IF "TrackingStatus" \in DOMAIN m
                  THEN m["TrackingStatus"] = Sent(e, "TrackingStatus")
                  ELSE Sent(e, "TrackingStatus") = NotString
<1> DEFINE Source == TRACK_DETAIL_MAPPINGS
           D == {g \in DOMAIN Source : Spellings(Source[g]) \cap DOMAIN e # {}}
           m == MapEventFields(e)
<1>1. /\ DOMAIN Source = {"time", "content", "TrackingStatus"}
      /\ Source["time"] = "ProcessDate" /\ Source["content"] = "ProcessContent"
      /\ Source["TrackingStatus"] = "TrackingStatus"
  BY DEF TRACK_DETAIL_MAPPINGS
<1>2. m = [g \in D |-> IF Source[g] \in DOMAIN e THEN e[Source[g]]
                       ELSE e[lowercaseFirst[Source[g]]]]
  BY DEF MapEventFields
<1> HIDE DEF Source, m
<1>3. \A g \in DOMAIN Source :
         /\ g \in D <=> Source[g] \in DOMAIN e \/ lowercaseFirst[Source[g]] \in DOMAIN e
         /\ g \in D => m[g] = Sent(e, Source[g])
         /\ g \notin D => Sent(e, Source[g]) = NotString
  BY <1>2 DEF Spellings, Sent
<1>4. DOMAIN m = D
  BY <1>2
<1>5. QED
  <2> HIDE DEF D
  <2>1. DOMAIN m \subseteq DOMAIN Source
    BY <1>4 DEF D
  <2>2. QED
    BY <1>1, <1>3, <1>4, <2>1 DEF m

ServiceFields == {"time", "content", "TrackingStatus"}

\* What the stages read of an event under the service's names.
LEMMA Readers ==
    ASSUME NEW event, DOMAIN event \subseteq ServiceFields \cup {"node"}
    PROVE  /\ extractContent(event) =
                 TrimSpace(IF "content" \in DOMAIN event /\ event["content"] # NotString
                           THEN event["content"] ELSE "")
           /\ TimeString(event) = IF "time" \in DOMAIN event /\ event["time"] # NotString
                                  THEN event["time"] ELSE ""
           /\ extractStatus(event) =
                 IF "TrackingStatus" \in DOMAIN event /\ event["TrackingStatus"] # NotString
                 THEN event["TrackingStatus"] ELSE ""
           /\ parseTime(event) =
                 IF "time" \in DOMAIN event THEN parseTimeFormats(event["time"]) ELSE 0
<1>1. \A f \in {"ProcessContent", "processContent", "ProcessDate", "processDate",
                "trackingStatus", "status"} : f \notin DOMAIN event
  BY DEF ServiceFields
<1>2. FirstString(event, <<"content", "ProcessContent", "processContent">>) =
         IF "content" \in DOMAIN event /\ event["content"] # NotString THEN event["content"] ELSE ""
  BY <1>1, FirstName
<1>3. FirstString(event, <<"time", "ProcessDate", "processDate">>) =
         IF "time" \in DOMAIN event /\ event["time"] # NotString THEN event["time"] ELSE ""
  BY <1>1, FirstName
<1>4. FirstString(event, <<"TrackingStatus", "trackingStatus", "status">>) =
         IF "TrackingStatus" \in DOMAIN event /\ event["TrackingStatus"] # NotString
         THEN event["TrackingStatus"] ELSE ""
  BY <1>1, FirstName
<1>5. QED
  BY <1>1, <1>2, <1>3, <1>4, TimeByName DEF extractContent, TimeString, extractStatus

\* Nothing but blanks is nothing.
LEMMA NoWord == TrimSpace("") = ""
BY WordAssumption DEF TrimSpace

\* The status of the event once a customs inspection is in transit.
FinalStatus(e) ==
    CASE Sent(e, "TrackingStatus") = "80" -> "20"
      [] Sent(e, "TrackingStatus") = NotString -> ""
      [] OTHER -> Sent(e, "TrackingStatus")

\* An event that was mapped and fixed says what its sender meant.
LEMMA FixedFacts ==
    ASSUME NEW e
    PROVE  LET x == FixedEvent(MapEventFields(e))
           IN  /\ DOMAIN x \subseteq ServiceFields
               /\ isValidEvent(x) <=> Complete(e)
               /\ parseTime(x) = SentTime(e)
               /\ extractStatus(x) = FinalStatus(e)
<1> DEFINE m == MapEventFields(e)
           x == FixedEvent(m)
<1>1. /\ DOMAIN m \subseteq ServiceFields
      /\ IF "time" \in DOMAIN m THEN m["time"] = Sent(e, "ProcessDate")
         ELSE Sent(e, "ProcessDate") = NotString
      /\ IF "content" \in DOMAIN m THEN m["content"] = Sent(e, "ProcessContent")
         ELSE Sent(e, "ProcessContent") = NotString
      /\ IF "TrackingStatus" \in DOMAIN m
         THEN m["TrackingStatus"] = Sent(e, "TrackingStatus")
         ELSE Sent(e, "TrackingStatus") = NotString
  BY MappedEvent DEF ServiceFields
<1> HIDE DEF m
<1>2. extractStatus(m) = IF "TrackingStatus" \in DOMAIN m /\ m["TrackingStatus"] # NotString
                         THEN m["TrackingStatus"] ELSE ""
  BY <1>1, Readers
<1>3. /\ DOMAIN x \subseteq ServiceFields
      /\ "time" \in DOMAIN x <=> "time" \in DOMAIN m
      /\ "content" \in DOMAIN x <=> "content" \in DOMAIN m
      /\ "time" \in DOMAIN x => x["time"] = m["time"]
      /\ "content" \in DOMAIN x => x["content"] = m["content"]
      /\ IF extractStatus(m) = "80"
         THEN "TrackingStatus" \in DOMAIN x /\ x["TrackingStatus"] = "20"
         ELSE x = m
  <2>1. CASE extractStatus(m) = "80"
    <3>1. x = [g \in DOMAIN m \cup {"TrackingStatus"} |->
                  IF g = "TrackingStatus" THEN "20" ELSE m[g]]
      BY <2>1 DEF FixedEvent, SetField
    <3> HIDE DEF x
    <3>2. DOMAIN x = DOMAIN m \cup {"TrackingStatus"}
      BY <3>1
    <3>3. QED
      BY <1>1, <2>1, <3>1, <3>2 DEF ServiceFields
  <2>2. CASE extractStatus(m) # "80"
    <3>1. x = m
      BY <2>2 DEF FixedEvent
    <3> HIDE DEF x
    <3>2. QED
      BY <1>1, <2>2, <3>1
  <2>3. QED
    BY <2>1, <2>2
<1> HIDE DEF x
<1>4. /\ extractContent(x) = TrimSpace(IF "content" \in DOMAIN x /\ x["content"] # NotString
                                       THEN x["content"] ELSE "")
      /\ TimeString(x) = IF "time" \in DOMAIN x /\ x["time"] # NotString
                         THEN x["time"] ELSE ""
      /\ extractStatus(x) = IF "TrackingStatus" \in DOMAIN x /\ x["TrackingStatus"] # NotString
                            THEN x["TrackingStatus"] ELSE ""
      /\ parseTime(x) = IF "time" \in DOMAIN x THEN parseTimeFormats(x["time"]) ELSE 0
  BY <1>3, Readers
<1>5. isValidEvent(x) <=> Complete(e)
  <2>1. extractContent(x) # "" <=> Usable(Sent(e, "ProcessContent"))
    BY <1>1, <1>3, <1>4, NoWord DEF Usable
  <2>2. extractTimeStr(x) # "" <=> Usable(Sent(e, "ProcessDate"))
    BY <1>1, <1>3, <1>4, NoWord DEF Usable, extractTimeStr
  <2>3. QED
    BY <2>1, <2>2 DEF isValidEvent, Complete
<1>6. parseTime(x) = SentTime(e)
  BY <1>1, <1>3, <1>4, WordAssumption DEF SentTime, parseTimeFormats
<1>7. extractStatus(x) = FinalStatus(e)
  BY <1>1, <1>2, <1>3, <1>4, WordAssumption DEF FinalStatus
<1>8. QED
  BY <1>3, <1>5, <1>6, <1>7 DEF x, m

\* Marking a delivery changes nothing else that is read of the event.
LEMMA MarkedFacts ==
    ASSUME NEW x, DOMAIN x \subseteq ServiceFields
    PROVE  LET y == MarkedEvent(x)
           IN  /\ DOMAIN y \subseteq ServiceFields \cup {"node"}
               /\ isValidEvent(y) <=> isValidEvent(x)
               /\ parseTime(y) = parseTime(x)
               /\ extractStatus(y) = extractStatus(x)
               /\ "node" \in DOMAIN y <=> extractStatus(x) \in {"50", "Delivered"}
<1> DEFINE y == MarkedEvent(x)
<1>1. /\ DOMAIN y \subseteq ServiceFields \cup {"node"}
      /\ \A f \in ServiceFields : /\ f \in DOMAIN y <=> f \in DOMAIN x
                                  /\ f \in DOMAIN y => y[f] = x[f]
      /\ "node" \in DOMAIN y <=> extractStatus(x) \in {"50", "Delivered"}
  <2>1. CASE extractStatus(x) \in {"50", "Delivered"}
    <3>1. y = [g \in DOMAIN x \cup {"node"} |-> IF g = "node" THEN "Delivered" ELSE x[g]]
      BY <2>1 DEF MarkedEvent, SetField
    <3> HIDE DEF y
    <3>2. DOMAIN y = DOMAIN x \cup {"node"}
      BY <3>1
    <3>3. QED
      BY <2>1, <3>1, <3>2 DEF ServiceFields
  <2>2. CASE extractStatus(x) \notin {"50", "Delivered"}
    <3>1. y = x
      BY <2>2 DEF MarkedEvent
    <3> HIDE DEF y
    <3>2. QED
      BY <2>2, <3>1 DEF ServiceFields
  <2>3. QED
    BY <2>1, <2>2
<1> HIDE DEF y
<1>2. \A v : DOMAIN v \subseteq ServiceFields \cup {"node"} =>
         /\ extractContent(v) = TrimSpace(IF "content" \in DOMAIN v /\ v["content"] # NotString
                                          THEN v["content"] ELSE "")
         /\ TimeString(v) = IF "time" \in DOMAIN v /\ v["time"] # NotString
                            THEN v["time"] ELSE ""
         /\ extractStatus(v) = IF "TrackingStatus" \in DOMAIN v /\ v["TrackingStatus"] # NotString
                               THEN v["TrackingStatus"] ELSE ""
         /\ parseTime(v) = IF "time" \in DOMAIN v THEN parseTimeFormats(v["time"]) ELSE 0
  BY Readers
<1>3. {"time", "content", "TrackingStatus"} \subseteq ServiceFields
  BY DEF ServiceFields
<1>4. /\ extractContent(y) = extractContent(x) /\ TimeString(y) = TimeString(x)
      /\ extractStatus(y) = extractStatus(x) /\ parseTime(y) = parseTime(x)
  BY <1>1, <1>2, <1>3
<1>5. isValidEvent(y) <=> isValidEvent(x)
  BY <1>4 DEF isValidEvent, extractTimeStr
<1>6. QED
  BY <1>1, <1>4, <1>5 DEF y

\* A valid event with a time that is not padded is placed by it.
LEMMA ValidIsPlaced ==
    ASSUME NEW v, DOMAIN v \subseteq ServiceFields \cup {"node"}, isValidEvent(v),
           TimeString(v) = extractTimeStr(v)
    PROVE  parseTime(v) = parseTimeFormats(extractTimeStr(v))
<1>1. /\ TimeString(v) = IF "time" \in DOMAIN v /\ v["time"] # NotString THEN v["time"] ELSE ""
      /\ parseTime(v) = IF "time" \in DOMAIN v THEN parseTimeFormats(v["time"]) ELSE 0
  BY Readers
<1>2. TimeString(v) # ""
  BY NoWord DEF isValidEvent, extractTimeStr
<1>3. QED
  BY <1>1, <1>2

(***************************************************************************)
(* The list                                                                *)
(***************************************************************************)

\* Counting the members of a set of indices up to each of them numbers them
\* from 1 without a gap.
LEMMA RankBijects ==
    ASSUME NEW n \in Nat, NEW V \in SUBSET (1 .. n), NEW rank,
           rank = [i \in V |-> Cardinality({k \in V : k <= i})]
    PROVE  rank \in Bijection(V, 1 .. Cardinality(V))
<1> DEFINE UpTo(i) == {k \in V : k <= i}
<1>1. IsFiniteSet(V) /\ Cardinality(V) \in Nat
  <2>1. IsFiniteSet(1 .. n)
    BY FS_Interval, 1 \in Int
  <2>2. QED
    BY <2>1, FS_Subset, FS_CardinalityType
<1>2. ASSUME NEW i \in V
      PROVE  /\ i \in UpTo(i) /\ UpTo(i) \subseteq V /\ IsFiniteSet(UpTo(i))
             /\ Cardinality(UpTo(i)) \in 1 .. Cardinality(V)
  <2>1. i \in UpTo(i) /\ UpTo(i) \subseteq V
    OBVIOUS
  <2> HIDE DEF UpTo
  <2>2. IsFiniteSet(UpTo(i)) /\ Cardinality(UpTo(i)) <= Cardinality(V)
    BY <1>1, <2>1, FS_Subset
  <2>3. Cardinality(UpTo(i)) \in Nat /\ Cardinality(UpTo(i)) # 0
    BY <2>1, <2>2, FS_CardinalityType, FS_EmptySet
  <2>4. QED
    BY <1>1, <2>1, <2>2, <2>3
<1>3. ASSUME NEW i \in V, NEW k \in V, i < k
      PROVE  Cardinality(UpTo(i)) # Cardinality(UpTo(k))
  <2>1. UpTo(i) \subseteq UpTo(k) /\ k \notin UpTo(i)
    <3>1. \A x \in 1 .. n, y \in 1 .. n, z \in 1 .. n : y < z => (x <= y => x <= z) /\ ~(z <= y)
      OBVIOUS
    <3>2. (\A x \in V : x <= i => x <= k) /\ ~(k <= i)
      BY <1>3, <3>1
    <3>3. QED
      BY <3>2
  <2>2. UpTo(i) # UpTo(k)
    BY <1>2, <2>1
  <2>3. IsFiniteSet(UpTo(k))
    BY <1>2
  <2> HIDE DEF UpTo
  <2>4. QED
    BY <2>1, <2>2, <2>3, FS_Subset
<1>4. rank \in [V -> 1 .. Cardinality(V)] /\ \A i \in V : rank[i] = Cardinality(UpTo(i))
  BY <1>2
<1>5. ASSUME NEW i \in V, NEW k \in V, rank[i] = rank[k]
      PROVE  i = k
  <2>1. i = k \/ i < k \/ k < i
    OBVIOUS
  <2> HIDE DEF UpTo
  <2>2. QED
    BY <1>3, <1>4, <1>5, <2>1
<1>6. rank \in Injection(V, 1 .. Cardinality(V))
  <2> HIDE DEF UpTo
  <2>1. QED
    BY <1>4, <1>5, Fun_IsInj
<1>7. IsFiniteSet(1 .. Cardinality(V)) /\ Cardinality(1 .. Cardinality(V)) = Cardinality(V)
  <2>1. /\ 1 \in Int /\ Cardinality(V) \in Int
        /\ (IF 1 > Cardinality(V) THEN 0 ELSE Cardinality(V) - 1 + 1) = Cardinality(V)
    BY <1>1
  <2>2. QED
    BY <2>1, FS_Interval
<1>8. rank \in Surjection(V, 1 .. Cardinality(V))
  BY <1>6, <1>7, FS_Injection
<1>9. QED
  BY <1>6, <1>8 DEF Bijection

\* Filtering keeps each valid event once.
LEMMA FilterTraced ==
    ASSUME NEW n \in Nat, NEW list, DOMAIN list = 1 .. n,
           NEW V, V = {i \in 1 .. n : isValidEvent(list[i])}
    PROVE  \E q \in Bijection(1 .. Cardinality(V), V) :
              FilterOrderTrackingDetails(list) = [j \in 1 .. Cardinality(V) |-> list[q[j]]]
<1> DEFINE c == Cardinality(V)
           UpTo(i) == Cardinality({k \in V : k <= i})
           rank == [i \in V |-> UpTo(i)]
           q == [j \in 1 .. c |-> CHOOSE i \in V : UpTo(i) = j]
<1>1. rank \in Bijection(V, 1 .. c)
  BY RankBijects
<1>2. FilterOrderTrackingDetails(list) = [j \in 1 .. c |-> list[CHOOSE i \in V : UpTo(i) = j]]
  BY DEF FilterOrderTrackingDetails
<1> HIDE DEF UpTo
<1>3. /\ \A i \in V : UpTo(i) \in 1 .. c
      /\ \A i, k \in V : UpTo(i) = UpTo(k) => i = k
      /\ \A j \in 1 .. c : \E i \in V : UpTo(i) = j
  <2>1. \A i \in V : rank[i] = UpTo(i)
    OBVIOUS
  <2> HIDE DEF rank, c
  <2>2. /\ rank \in [V -> 1 .. c]
        /\ \A i, k \in V : rank[i] = rank[k] => i = k
        /\ \A j \in 1 .. c : \E i \in V : rank[i] = j
    <3> DEFINE C == 1 .. c
    <3> HIDE DEF C
    <3>1. rank \in Bijection(V, C)
      BY <1>1 DEF C
    <3>2. /\ rank \in [V -> C]
          /\ \A i, k \in V : rank[i] = rank[k] => i = k
          /\ \A j \in C : \E i \in V : rank[i] = j
      BY <3>1, Fun_BijectionProperties
    <3>3. QED
      BY <3>2 DEF C
  <2>3. QED
    BY <2>1, <2>2
<1>4. \A j \in 1 .. c : q[j] \in V /\ UpTo(q[j]) = j
  BY <1>3
<1>5. q \in [1 .. c -> V]
  BY <1>3
<1>6. FilterOrderTrackingDetails(list) = [j \in 1 .. c |-> list[q[j]]]
  BY <1>2
<1> HIDE DEF q, c
<1>7. \A i, k \in 1 .. c : q[i] = q[k] => i = k
  BY <1>4
<1>8. \A i \in V : \E j \in 1 .. c : q[j] = i
  BY <1>3, <1>4
<1>9. q \in Bijection(1 .. c, V)
  BY <1>5, <1>7, <1>8, Fun_IsBij
<1>10. QED
  BY <1>6, <1>9 DEF c

\* A bijection takes the indices that satisfy a condition onto the ones that
\* satisfy it on the other side.
LEMMA BijectionOfSubset ==
    ASSUME NEW S, NEW T, NEW p \in Bijection(S, T), NEW A \in SUBSET S, NEW B \in SUBSET T,
           \A j \in S : j \in A <=> p[j] \in B
    PROVE  [j \in A |-> p[j]] \in Bijection(A, B)
<1> DEFINE r == [j \in A |-> p[j]]
<1>1. /\ p \in [S -> T]
      /\ \A a, b \in S : p[a] = p[b] => a = b
      /\ \A t \in T : \E s \in S : p[s] = t
  BY Fun_BijectionProperties
<1>2. r \in [A -> B]
  BY <1>1
<1>3. \A a, b \in A : r[a] = r[b] => a = b
  BY <1>1
<1>4. \A t \in B : \E a \in A : r[a] = t
  BY <1>1
<1>5. QED
  <2> HIDE DEF r
  <2>1. r \in Bijection(A, B)
    BY <1>2, <1>3, <1>4, Fun_IsBij
  <2>2. QED
    BY <2>1 DEF r

\* Bounded sequences are sequences with a bounded length.
LEMMA RawFacts ==
    ASSUME NEW r \in BoundedSeq(RawEvent, MaxEvents)
    PROVE  /\ Len(r) \in 0 .. MaxEvents /\ DOMAIN r = 1 .. Len(r)
           /\ r \in Seq(RawEvent)
           /\ Cardinality(DOMAIN r) = Len(r) /\ IsFiniteSet(DOMAIN r)
<1>1. PICK m \in 0 .. MaxEvents : r \in [1 .. m -> RawEvent]
  BY DEF BoundedSeq, SeqOf
<1>2. m \in Nat
  OBVIOUS
<1>3. Len(r) = m /\ DOMAIN r = 1 .. m /\ r \in Seq(RawEvent)
  BY <1>1, <1>2
<1>4. 1 \in Int /\ m \in Int /\ (IF 1 > m THEN 0 ELSE m - 1 + 1) = m
  BY <1>2
<1>5. Cardinality(1 .. m) = m /\ IsFiniteSet(1 .. m)
  BY <1>4, FS_Interval
<1>6. QED
  BY <1>3, <1>5

\* A list is its own events in its own order.
LEMMA SelfTraced ==
    ASSUME NEW r \in BoundedSeq(RawEvent, MaxEvents)
    PROVE  \E p \in Bijection(1 .. Cardinality(DOMAIN r), DOMAIN r) :
              r = [j \in 1 .. Cardinality(DOMAIN r) |-> r[p[j]]]
<1> DEFINE p == [j \in DOMAIN r |-> j]
<1>1. 1 .. Cardinality(DOMAIN r) = DOMAIN r
  BY RawFacts
<1>2. r = [j \in DOMAIN r |-> r[p[j]]]
  <2>1. r = [j \in DOMAIN r |-> r[j]]
    <3>1. r \in Seq(RawEvent) /\ DOMAIN r = 1 .. Len(r)
      BY RawFacts
    <3>2. r \in [1 .. Len(r) -> RawEvent]
      BY <3>1, LenProperties
    <3>3. QED
      BY <3>2
  <2>2. QED
    BY <2>1
<1>3. p \in Bijection(DOMAIN r, DOMAIN r)
  <2>1. /\ p \in [DOMAIN r -> DOMAIN r]
        /\ \A a, b \in DOMAIN r : p[a] = p[b] => a = b
        /\ \A t \in DOMAIN r : \E a \in DOMAIN r : p[a] = t
    OBVIOUS
  <2> HIDE DEF p
  <2>2. QED
    BY <2>1, Fun_IsBij
<1>4. QED
  <2> HIDE DEF p
  <2>1. QED
    BY <1>1, <1>2, <1>3

\* What remains are finitely many of the events sent.
LEMMA RemainingFacts ==
    ASSUME raw \in BoundedSeq(RawEvent, MaxEvents), NEW s
    PROVE  /\ Remaining(s) \subseteq DOMAIN raw
           /\ IsFiniteSet(Remaining(s))
           /\ Cardinality(Remaining(s)) \in 0 .. Len(raw)
<1>1. Remaining(s) \subseteq DOMAIN raw
  BY DEF Remaining
<1>2. /\ IsFiniteSet(Remaining(s)) /\ Cardinality(Remaining(s)) <= Cardinality(DOMAIN raw)
      /\ Cardinality(Remaining(s)) \in Nat
  BY <1>1, RawFacts, FS_Subset, FS_CardinalityType
<1>3. QED
  BY <1>1, <1>2, RawFacts

(***************************************************************************)
(* The invariant                                                           *)
(***************************************************************************)

PInv ==
    /\ raw \in BoundedSeq(RawEvent, MaxEvents)
    /\ stage \in StageNames
    /\ EventsTraced

\* What the invariant says of the list.
LEMMA TracedFacts ==
    ASSUME PInv
    PROVE  LET n == Cardinality(Remaining(stage))
           IN  /\ n \in 0 .. Len(raw) /\ Len(raw) \in 0 .. MaxEvents
               /\ DOMAIN events = 1 .. n /\ Len(events) = n
               /\ \E p \in Bijection(1 .. n, Remaining(stage)) :
                     /\ p \in [1 .. n -> Remaining(stage)]
                     /\ \A i \in Remaining(stage) : \E j \in 1 .. n : p[j] = i
                     /\ events = [j \in 1 .. n |-> Carried(stage, raw[p[j]])]
<1> DEFINE n == Cardinality(Remaining(stage))
           D == 1 .. n
<1>1. n \in 0 .. Len(raw) /\ Len(raw) \in 0 .. MaxEvents
  BY RawFacts, RemainingFacts DEF PInv
<1>2. PICK p \in Bijection(D, Remaining(stage)) :
         events = [j \in D |-> Carried(stage, raw[p[j]])]
  BY DEF PInv, EventsTraced
<1> HIDE DEF D
<1>3. /\ p \in [D -> Remaining(stage)]
      /\ \A i \in Remaining(stage) : \E j \in D : p[j] = i
  BY Fun_BijectionProperties
<1>4. DOMAIN events = 1 .. n
  BY <1>2 DEF D
<1>5. Len(events) = n
  <2> HIDE DEF n
  <2>1. n \in Nat
    BY <1>1
  <2>2. QED
    BY <1>4, <2>1
<1>6. QED
  BY <1>1, <1>2, <1>3, <1>4, <1>5 DEF D

\* The first stages keep the whole push.
LEMMA AllRemain ==
    ASSUME PInv, stage \in {"raw", "mapped", "fixed"}
    PROVE  /\ Remaining(stage) = DOMAIN raw /\ DOMAIN raw = 1 .. Len(raw)
           /\ Cardinality(DOMAIN raw) = Len(raw)
BY RawFacts DEF Remaining, PInv

\* A stage that changes every event by itself keeps the trace.
LEMMA EachTraced ==
    ASSUME PInv, raw' = raw, stage' \in StageNames, stage' # "raw", Remaining(stage') = Remaining(stage),
           DOMAIN events' = DOMAIN events,
           \A e : \A j \in DOMAIN events :
              events[j] = Carried(stage, e) => events'[j] = Carried(stage', e),
           stage' \in {"sorted", "marked"} => Ascending(events'),
           events' = [j \in DOMAIN events |-> events'[j]]
    PROVE  PInv'
<1> DEFINE n == Cardinality(Remaining(stage))
           D == 1 .. n
<1>1. /\ DOMAIN events = D
      /\ \E p \in Bijection(D, Remaining(stage)) :
            events = [j \in D |-> Carried(stage, raw[p[j]])]
  BY TracedFacts
<1> HIDE DEF D, n
<1>2. PICK p \in Bijection(D, Remaining(stage)) :
         events = [j \in D |-> Carried(stage, raw[p[j]])]
  BY <1>1
<1>3. \A j \in D : events'[j] = Carried(stage', raw[p[j]])
  BY <1>1, <1>2
<1>4. events' = [j \in D |-> Carried(stage', raw[p[j]])]
  BY <1>1, <1>3
<1>5. raw' \in BoundedSeq(RawEvent, MaxEvents)
  BY DEF PInv
<1>6. After("sorted")' => Ascending(events')
  BY StageOrder DEF After
<1>7. Remaining(stage)' = Remaining(stage')
  BY DEF Remaining
<1>8. /\ Cardinality(Remaining(stage)') = n /\ Remaining(stage)' = Remaining(stage)
      /\ \A i : raw'[i] = raw[i]
  BY <1>7 DEF n
<1>9. EventsTraced'
  <2>1. PICK q \in Bijection(D, Remaining(stage)) : q = p
    OBVIOUS
  <2>2. events' = [j \in D |-> Carried(stage', raw'[q[j]])]
    BY <1>4, <1>8, <2>1
  <2>3. \E r \in Bijection(1 .. Cardinality(Remaining(stage)'), Remaining(stage)') :
           events' = [j \in 1 .. Cardinality(Remaining(stage)') |-> Carried(stage', raw'[r[j]])]
    BY <1>8, <2>2 DEF D
  <2>4. QED
    BY <1>6, <2>3 DEF EventsTraced
<1>10. QED
  BY <1>5, <1>9 DEF PInv


\* A push that is still being sent.
LEMMA RawTraced ==
    ASSUME NEW r \in BoundedSeq(RawEvent, MaxEvents)
    PROVE  /\ \E p \in Bijection(1 .. Cardinality(DOMAIN r), DOMAIN r) :
                 r = [j \in 1 .. Cardinality(DOMAIN r) |-> Carried("raw", r[p[j]])]
           /\ "raw" \in StageNames /\ ~Leads("sorted", "raw")
<1>1. \A e : Carried("raw", e) = e
  BY DEF Carried
<1>2. "raw" \in StageNames /\ ~Leads("sorted", "raw")
  BY StageOrder DEF StageNames
<1>3. PICK p \in Bijection(1 .. Cardinality(DOMAIN r), DOMAIN r) :
         r = [j \in 1 .. Cardinality(DOMAIN r) |-> r[p[j]]]
  BY SelfTraced
<1>4. r = [j \in 1 .. Cardinality(DOMAIN r) |-> Carried("raw", r[p[j]])]
  BY <1>1, <1>3
<1>5. QED
  BY <1>2, <1>3, <1>4

LEMMA EmptyIsBounded == <<>> \in BoundedSeq(RawEvent, MaxEvents) /\ <<>> = [j \in 1 .. 0 |-> 0]
<1>1. 0 \in 0 .. MaxEvents
  BY BoundAssumption
<1>2. <<>> \in [1 .. 0 -> RawEvent]
  OBVIOUS
<1>3. QED
  BY <1>1, <1>2 DEF BoundedSeq, SeqOf

LEMMA InitPInv == Init => PInv
<1> SUFFICES ASSUME Init
             PROVE  PInv
  OBVIOUS
<1>1. raw \in BoundedSeq(RawEvent, MaxEvents) /\ events = raw /\ stage = "raw"
  BY EmptyIsBounded DEF Init
<1>2. Remaining(stage) = DOMAIN raw
  BY <1>1 DEF Remaining
<1>3. EventsTraced
  BY <1>1, <1>2, RawTraced DEF EventsTraced, After
<1>4. QED
  BY <1>1, <1>3, RawTraced DEF PInv

\* A push that is being sent, after the step.
LEMMA RawStep ==
    ASSUME raw' \in BoundedSeq(RawEvent, MaxEvents), events' = raw', stage' = "raw"
    PROVE  PInv'
<1>1. Remaining(stage)' = DOMAIN raw'
  BY DEF Remaining
<1>2. EventsTraced'
  BY <1>1, RawTraced DEF EventsTraced, After
<1>3. QED
  BY <1>2, RawTraced DEF PInv

LEMMA SendStep ==
    ASSUME PInv, NEW e \in RawEvent, Send(e)
    PROVE  PInv'
<1>1. /\ raw \in Seq(RawEvent) /\ Len(raw) \in 0 .. MaxEvents /\ Len(raw) < MaxEvents
      /\ raw' = Append(raw, e) /\ events' = raw' /\ stage' = "raw"
  BY RawFacts DEF PInv, Send
<1>2. Append(raw, e) \in [1 .. Len(raw) + 1 -> RawEvent] /\ Len(raw) + 1 \in 0 .. MaxEvents
  <2>1. Append(raw, e) \in Seq(RawEvent) /\ Len(Append(raw, e)) = Len(raw) + 1
    BY <1>1, AppendProperties
  <2>2. Append(raw, e) \in [1 .. Len(raw) + 1 -> RawEvent]
    BY <2>1, LenProperties
  <2>3. QED
    BY <1>1, <2>2, BoundAssumption
<1>3. raw' \in BoundedSeq(RawEvent, MaxEvents)
  BY <1>1, <1>2 DEF BoundedSeq, SeqOf
<1>4. QED
  BY <1>1, <1>3, RawStep

LEMMA NextPushStep ==
    ASSUME NextPush
    PROVE  PInv'
BY EmptyIsBounded, RawStep DEF NextPush

LEMMA MapStep ==
    ASSUME PInv, Map
    PROVE  PInv'
<1>1. /\ stage = "raw" /\ stage' = "mapped" /\ raw' = raw
      /\ events' = [i \in DOMAIN events |-> MapEventFields(events[i])]
  BY DEF Map, Apply, MapAllEvents
<1>2. stage' \in StageNames /\ Remaining(stage') = Remaining(stage)
  BY <1>1 DEF StageNames, Remaining
<1>3. DOMAIN events' = DOMAIN events /\ events' = [i \in DOMAIN events |-> events'[i]]
  BY <1>1
<1>4. \A e : \A j \in DOMAIN events :
         events[j] = Carried(stage, e) => events'[j] = Carried(stage', e)
  BY <1>1 DEF Carried
<1>5. QED
  BY <1>1, <1>2, <1>3, <1>4, EachTraced

LEMMA FixStep ==
    ASSUME PInv, Fix
    PROVE  PInv'
<1>1. /\ stage = "mapped" /\ stage' = "fixed" /\ raw' = raw
      /\ events' = [i \in DOMAIN events |-> FixedEvent(events[i])]
  BY DEF Fix, Apply, FixCustomsInspectionStatusInEvents
<1>2. stage' \in StageNames /\ Remaining(stage') = Remaining(stage)
  BY <1>1 DEF StageNames, Remaining
<1>3. DOMAIN events' = DOMAIN events /\ events' = [i \in DOMAIN events |-> events'[i]]
  BY <1>1
<1>4. \A e : \A j \in DOMAIN events :
         events[j] = Carried(stage, e) => events'[j] = Carried(stage', e)
  BY <1>1 DEF Carried
<1>5. QED
  BY <1>1, <1>2, <1>3, <1>4, EachTraced

\* Marking reads and leaves the times as they are.
LEMMA MarkStep ==
    ASSUME PInv, Mark
    PROVE  PInv'
<1>1. /\ stage = "sorted" /\ stage' = "marked" /\ raw' = raw
      /\ events' = [i \in DOMAIN events |-> MarkedEvent(events[i])]
  BY DEF Mark, Apply, MarkDeliveredNode
<1>2. stage' \in StageNames /\ Remaining(stage') = Remaining(stage)
  BY <1>1 DEF StageNames, Remaining
<1>3. DOMAIN events' = DOMAIN events /\ events' = [i \in DOMAIN events |-> events'[i]]
  BY <1>1
<1>4. \A e : \A j \in DOMAIN events :
         events[j] = Carried(stage, e) => events'[j] = Carried(stage', e)
  BY <1>1 DEF Carried
<1>5. Ascending(events')
  <2>1. Ascending(events)
    BY <1>1, StageOrder DEF PInv, EventsTraced, After
  <2>2. ASSUME NEW j \in DOMAIN events
        PROVE  parseTime(events'[j]) = parseTime(events[j])
    <3>1. DOMAIN events[j] \subseteq ServiceFields
      <4> DEFINE n == Cardinality(Remaining(stage))
      <4>1. PICK p : /\ DOMAIN events = 1 .. n
                     /\ events = [i \in 1 .. n |-> Carried(stage, raw[p[i]])]
        BY TracedFacts
      <4>2. events[j] = FixedEvent(MapEventFields(raw[p[j]]))
        BY <1>1, <4>1 DEF Carried
      <4>3. QED
        BY <4>2, FixedFacts
    <3>2. QED
      BY <1>1, <3>1, MarkedFacts
  <2>3. QED
    BY <1>3, <2>1, <2>2 DEF Ascending
<1>6. QED
  BY <1>1, <1>2, <1>3, <1>4, <1>5, EachTraced

\* Filtering drops the incomplete events and keeps the trace of the others.
LEMMA FilterStep ==
    ASSUME PInv, Filter
    PROVE  PInv'
<1> DEFINE n == Cardinality(Remaining(stage))
           R == {i \in DOMAIN raw : Complete(raw[i])}
           V == {j \in 1 .. n : isValidEvent(events[j])}
           c == Cardinality(V)
           X(e) == FixedEvent(MapEventFields(e))
<1>1. /\ stage = "fixed" /\ stage' = "filtered" /\ raw' = raw
      /\ events' = FilterOrderTrackingDetails(events)
  BY DEF Filter, Apply
<1>2. n \in Nat /\ DOMAIN events = 1 .. n /\ Remaining(stage) = DOMAIN raw
  BY <1>1, TracedFacts, AllRemain
<1>3. PICK p \in Bijection(1 .. n, DOMAIN raw) :
         /\ p \in [1 .. n -> DOMAIN raw]
         /\ events = [j \in 1 .. n |-> X(raw[p[j]])]
  <2>1. \A e : Carried(stage, e) = X(e)
    BY <1>1 DEF Carried
  <2> HIDE DEF n, X
  <2>2. PICK p \in Bijection(1 .. n, DOMAIN raw) :
           /\ p \in [1 .. n -> DOMAIN raw]
           /\ events = [j \in 1 .. n |-> Carried(stage, raw[p[j]])]
    BY <1>2, TracedFacts DEF n
  <2>3. events = [j \in 1 .. n |-> X(raw[p[j]])]
    BY <2>1, <2>2
  <2>4. QED
    BY <2>2, <2>3
<1> HIDE DEF n
<1>4. PICK q \in Bijection(1 .. c, V) :
         FilterOrderTrackingDetails(events) = [j \in 1 .. c |-> events[q[j]]]
  BY <1>2, FilterTraced
<1>5. \A j \in 1 .. n : j \in V <=> p[j] \in R
  <2>1. ASSUME NEW j \in 1 .. n
        PROVE  isValidEvent(events[j]) <=> Complete(raw[p[j]])
    BY <1>3, FixedFacts
  <2>2. QED
    BY <1>3, <2>1
<1>6. V \subseteq 1 .. n /\ R \subseteq DOMAIN raw
  OBVIOUS
<1> DEFINE r == [j \in V |-> p[j]]
           t == [j \in 1 .. c |-> r[q[j]]]
<1>7. r \in Bijection(V, R)
  <2> DEFINE D == 1 .. n
  <2> HIDE DEF D, V, R
  <2>1. p \in Bijection(D, DOMAIN raw) /\ V \in SUBSET D /\ R \in SUBSET DOMAIN raw
    BY <1>3, <1>6 DEF D
  <2>2. \A j \in D : j \in V <=> p[j] \in R
    BY <1>5 DEF D
  <2>3. QED
    BY <2>1, <2>2, BijectionOfSubset
<1>8. c = Cardinality(R)
  <2>1. IsFiniteSet(V)
    <3>1. IsFiniteSet(1 .. n)
      BY <1>2, FS_Interval, 1 \in Int
    <3>2. QED
      BY <3>1, FS_Subset
  <2>2. ExistsBijection(V, R)
    <3> HIDE DEF V, R, r
    <3>1. QED
      BY <1>7 DEF ExistsBijection
  <2> HIDE DEF V, R
  <2>3. QED
    BY <2>1, <2>2, FS_Bijection
<1>9. t \in Bijection(1 .. c, R)
  <2> DEFINE C == 1 .. c
  <2> HIDE DEF V, R, r, C
  <2>1. q \in Bijection(C, V)
    BY <1>4 DEF C
  <2>2. [j \in C |-> r[q[j]]] \in Bijection(C, R)
    BY <1>7, <2>1, Fun_BijTransitive
  <2>3. QED
    BY <2>2 DEF C
<1>10. events' = [j \in 1 .. c |-> X(raw[t[j]])]
  <2>1. ASSUME NEW j \in 1 .. c
        PROVE  events[q[j]] = X(raw[t[j]])
    <3>1. q[j] \in V
      <4> DEFINE C == 1 .. c
      <4> HIDE DEF V, C
      <4>1. q \in Bijection(C, V)
        BY <1>4 DEF C
      <4>2. q \in [C -> V]
        BY <4>1, Fun_BijectionProperties
      <4>3. QED
        BY <4>2 DEF C
    <3>2. t[j] = p[q[j]] /\ q[j] \in 1 .. n
      <4> HIDE DEF c
      <4>1. QED
        BY <3>1
    <3> HIDE DEF t, X
    <3>3. QED
      BY <1>3, <3>2
  <2> HIDE DEF t, X, c
  <2>2. QED
    BY <1>1, <1>4, <2>1
<1>11. \A e : Carried(stage', e) = X(e)
  BY <1>1 DEF Carried
<1> HIDE DEF t, X, c, R
<1>12. Remaining(stage)' = R
  BY <1>1 DEF Remaining, R
<1>13. \E u \in Bijection(1 .. Cardinality(R), R) :
          events' = [j \in 1 .. Cardinality(R) |-> Carried(stage', raw'[u[j]])]
  <2>1. events' = [j \in 1 .. c |-> Carried(stage', raw'[t[j]])]
    BY <1>1, <1>10, <1>11
  <2>2. QED
    BY <1>8, <1>9, <2>1
<1>14. stage' \in StageNames /\ ~Leads("sorted", stage')
  BY <1>1, StageOrder DEF StageNames
<1>15. EventsTraced'
  BY <1>1, <1>12, <1>13, <1>14 DEF EventsTraced, After
<1>16. QED
  BY <1>1, <1>14, <1>15 DEF PInv

\* Sorting reorders.
LEMMA SortStep ==
    ASSUME PInv, Sort
    PROVE  PInv'
<1> DEFINE n == Cardinality(Remaining(stage))
           D == 1 .. n
           R == Remaining(stage)
<1>1. /\ stage = "filtered" /\ stage' = "sorted" /\ raw' = raw
      /\ events' \in Reordered(events) /\ Ascending(events')
  BY DEF Sort, Apply, SortEventsByTime
<1>2. /\ DOMAIN events = D
      /\ \E p \in Bijection(D, R) : events = [j \in D |-> Carried(stage, raw[p[j]])]
  BY TracedFacts
<1> HIDE DEF D, n, R
<1>3. PICK p \in Bijection(D, R) : events = [j \in D |-> Carried(stage, raw[p[j]])]
  BY <1>2
<1>4. PICK q \in Bijection(D, D) : events' = [j \in D |-> events[q[j]]]
  BY <1>1, <1>2 DEF Reordered
<1> DEFINE t == [j \in D |-> p[q[j]]]
<1>5. t \in Bijection(D, R)
  BY Fun_BijTransitive
<1>6. q \in [D -> D]
  BY Fun_BijectionProperties
<1>7. \A e : Carried(stage', e) = Carried(stage, e)
  BY <1>1 DEF Carried
<1>8. events' = [j \in D |-> Carried(stage', raw'[t[j]])]
  <2>1. ASSUME NEW j \in D
        PROVE  events[q[j]] = Carried(stage', raw'[t[j]])
    BY <1>1, <1>3, <1>6, <1>7
  <2> HIDE DEF t
  <2>2. QED
    BY <1>4, <2>1
<1>9. Remaining(stage)' = R
  BY <1>1 DEF Remaining, R
<1>10. \E u \in Bijection(1 .. Cardinality(Remaining(stage)'), Remaining(stage)') :
          events' = [j \in 1 .. Cardinality(Remaining(stage)') |-> Carried(stage', raw'[u[j]])]
  <2> HIDE DEF t
  <2>1. D = 1 .. Cardinality(Remaining(stage)')
    BY <1>9 DEF D, n, R
  <2>2. QED
    BY <1>5, <1>8, <1>9, <2>1
<1>11. EventsTraced'
  BY <1>1, <1>10 DEF EventsTraced
<1>12. QED
  BY <1>1, <1>11 DEF PInv, StageNames

LEMMA StepPInv == PInv /\ [Next]_vars => PInv'
<1> SUFFICES ASSUME PInv, [Next]_vars
             PROVE  PInv'
  OBVIOUS
<1>1. CASE UNCHANGED vars
  <2>1. raw' = raw /\ events' = events /\ stage' = stage
    BY <1>1 DEF vars
  <2>2. Remaining(stage)' = Remaining(stage)
    BY <2>1 DEF Remaining
  <2>3. EventsTraced'
    BY <2>1, <2>2 DEF PInv, EventsTraced, After
  <2>4. QED
    BY <2>1, <2>3 DEF PInv
<1>2. CASE Next
  BY <1>2, SendStep, MapStep, FixStep, FilterStep, SortStep, MarkStep, NextPushStep DEF Next
<1>3. QED
  BY <1>1, <1>2

LEMMA PipelineInv == Spec => []PInv
<1>1. QED
  BY InitPInv, StepPInv, PTL DEF Spec

(***************************************************************************)
(* What the list says                                                      *)
(***************************************************************************)

\* Every event of the list is one that was sent, and after filtering it is a
\* complete one that says what its sender meant.
LEMMA EventFacts ==
    ASSUME PInv, stage # "raw", NEW j \in DOMAIN events
    PROVE  /\ DOMAIN events[j] \subseteq ServiceFields \cup {"node"}
           /\ stage \in {"filtered", "sorted", "marked"} => isValidEvent(events[j])
<1>1. PICK p : /\ p \in [DOMAIN events -> Remaining(stage)]
               /\ events = [i \in DOMAIN events |-> Carried(stage, raw[p[i]])]
  BY TracedFacts
<1>2. events[j] = Carried(stage, raw[p[j]]) /\ p[j] \in Remaining(stage)
  BY <1>1
<1>3. CASE stage = "mapped"
  BY <1>2, <1>3, MappedEvent DEF Carried, ServiceFields
<1>4. CASE stage \in {"fixed", "filtered", "sorted"}
  <2>1. events[j] = FixedEvent(MapEventFields(raw[p[j]]))
    BY <1>2, <1>4 DEF Carried
  <2>2. stage # "fixed" => Complete(raw[p[j]])
    BY <1>2, <1>4 DEF Remaining
  <2>3. QED
    BY <1>4, <2>1, <2>2, FixedFacts
<1>5. CASE stage = "marked"
  <2>1. events[j] = MarkedEvent(FixedEvent(MapEventFields(raw[p[j]])))
    BY <1>2, <1>5 DEF Carried
  <2>2. Complete(raw[p[j]])
    BY <1>2, <1>5 DEF Remaining
  <2>3. QED
    BY <2>1, <2>2, FixedFacts, MarkedFacts
<1>6. QED
  BY <1>3, <1>4, <1>5 DEF PInv, StageNames

\* From the sorting on, the times and statuses of the list are the sent ones.
LEMMA SortedFacts ==
    ASSUME PInv, stage \in {"sorted", "marked"}, NEW e
    PROVE  /\ parseTime(Carried(stage, e)) = SentTime(e)
           /\ extractStatus(Carried(stage, e)) = FinalStatus(e)
           /\ stage = "marked" =>
                 ("node" \in DOMAIN Carried(stage, e) <=>
                    Sent(e, "TrackingStatus") \in {"50", "Delivered"})
<1> DEFINE x == FixedEvent(MapEventFields(e))
<1>1. DOMAIN x \subseteq ServiceFields /\ parseTime(x) = SentTime(e) /\ extractStatus(x) = FinalStatus(e)
  BY FixedFacts
<1>2. FinalStatus(e) \in {"50", "Delivered"} <=> Sent(e, "TrackingStatus") \in {"50", "Delivered"}
  BY WordAssumption DEF FinalStatus
<1>3. CASE stage = "sorted"
  BY <1>1, <1>3 DEF Carried
<1>4. CASE stage = "marked"
  <2>1. Carried(stage, e) = MarkedEvent(x)
    BY <1>4 DEF Carried
  <2> HIDE DEF x
  <2>2. QED
    BY <1>1, <1>2, <2>1, MarkedFacts
<1>5. QED
  BY <1>3, <1>4

\* A time that was sent is a natural number.
LEMMA TimesCompare == \A e : SentTime(e) \in Nat
BY WordAssumption DEF SentTime, parseTimeFormats

\* The invariant holds after any number of pushes.
THEOREM EventsTracedCorrect == Spec => []EventsTraced
<1>1. PInv => EventsTraced
  BY DEF PInv
<1>2. QED
  BY <1>1, PipelineInv, PTL

\* Lists are bounded by the push and the fields are the service's.
THEOREM PipelineTypeCorrect == Spec => []TypeOK
<1>1. PInv => TypeOK
  <2> SUFFICES ASSUME PInv
               PROVE  TypeOK
    OBVIOUS
  <2>1. raw \in BoundedSeq(RawEvent, MaxEvents) /\ stage \in {Stages[i] : i \in DOMAIN Stages}
    BY StageOrder DEF PInv
  <2>2. Len(events) <= Len(raw)
    BY TracedFacts
  <2>3. ASSUME After("mapped"), NEW i \in DOMAIN events
        PROVE  DOMAIN events[i] \subseteq DOMAIN TRACK_DETAIL_MAPPINGS \cup {"node"}
    <3>1. stage # "raw"
      BY <2>3, StageOrder DEF After, PInv
    <3>2. DOMAIN TRACK_DETAIL_MAPPINGS = ServiceFields
      BY DEF TRACK_DETAIL_MAPPINGS, ServiceFields
    <3>3. QED
      BY <3>1, <3>2, EventFacts
  <2>4. QED
    BY <2>1, <2>2, <2>3 DEF TypeOK
<1>2. QED
  BY <1>1, PipelineInv, PTL

\* What the filter kept for its time is sorted by that time.
THEOREM PlacedByItsTimeCorrect == Spec => []PlacedByItsTime
<1>1. PInv => PlacedByItsTime
  <2> SUFFICES ASSUME PInv, After("filtered"), NEW i \in DOMAIN events,
                      TimeString(events[i]) = extractTimeStr(events[i])
               PROVE  parseTime(events[i]) = parseTimeFormats(extractTimeStr(events[i]))
    BY DEF PlacedByItsTime
  <2>1. stage \in {"filtered", "sorted", "marked"}
    BY StageOrder DEF After, PInv
  <2>2. DOMAIN events[i] \subseteq ServiceFields \cup {"node"} /\ isValidEvent(events[i])
    BY <2>1, EventFacts
  <2>3. QED
    BY <2>2, ValidIsPlaced
<1>2. QED
  BY <1>1, PipelineInv, PTL

\* The last event of the sorted list is a complete event of the push that no
\* other is later than, and the latest status and time are its own.
THEOREM LatestOfThePushCorrect == Spec => []LatestOfThePush
<1>1. PInv => LatestOfThePush
  <2> SUFFICES ASSUME PInv, After("sorted"), Kept # {}
               PROVE  \E e \in Kept :
                         /\ \A f \in Kept : SentTime(f) <= SentTime(e)
                         /\ GetLatestTime(events) = SentTime(e)
                         /\ GetLatestStatus(events) = FinalStatus(e)
    BY DEF LatestOfThePush, FinalStatus
  <2> DEFINE n == Len(events)
             R == Remaining(stage)
  <2>1. stage \in {"sorted", "marked"} /\ Ascending(events)
    BY StageOrder DEF After, PInv, EventsTraced
  <2>2. R = {i \in DOMAIN raw : Complete(raw[i])}
    BY <2>1 DEF Remaining
  <2>3. Kept = {raw[i] : i \in R}
    BY <2>2 DEF Kept
  <2>4. /\ n \in Nat /\ DOMAIN events = 1 .. n
        /\ \E p : /\ p \in [1 .. n -> R]
                  /\ \A i \in R : \E j \in 1 .. n : p[j] = i
                  /\ events = [j \in 1 .. n |-> Carried(stage, raw[p[j]])]
    BY TracedFacts
  <2> HIDE DEF n, R
  <2>5. PICK p : /\ p \in [1 .. n -> R]
                 /\ \A i \in R : \E j \in 1 .. n : p[j] = i
                 /\ events = [j \in 1 .. n |-> Carried(stage, raw[p[j]])]
    BY <2>4
  <2>6. n \in 1 .. n
    <3>1. PICK j \in 1 .. n : TRUE
      BY <2>3, <2>5
    <3>2. QED
      BY <2>4, <3>1
  <2>7. \A j \in 1 .. n : /\ parseTime(events[j]) = SentTime(raw[p[j]])
                          /\ extractStatus(events[j]) = FinalStatus(raw[p[j]])
    BY <2>1, <2>5, SortedFacts
  <2> DEFINE e == raw[p[n]]
  <2>8. e \in Kept
    BY <2>3, <2>5, <2>6
  <2>9. ASSUME NEW f \in Kept
        PROVE  SentTime(f) <= SentTime(e)
    <3>1. PICK j \in 1 .. n : f = raw[p[j]]
      BY <2>3, <2>5
    <3>2. CASE j = n
      BY <3>1, <3>2, TimesCompare
    <3>3. CASE j # n
      <4>1. j < n
        BY <2>4, <3>3
      <4>2. parseTime(events[j]) <= parseTime(events[n])
        BY <2>1, <2>4, <2>6, <4>1 DEF Ascending
      <4>3. QED
        BY <2>6, <2>7, <3>1, <4>2
    <3>4. QED
      BY <3>2, <3>3
  <2>10. GetLatestTime(events) = SentTime(e) /\ GetLatestStatus(events) = FinalStatus(e)
    <3>1. events # <<>>
      BY <2>4, <2>6
    <3>2. Last(events) = events[n]
      BY DEF Last, n
    <3>3. QED
      BY <2>6, <2>7, <3>1, <3>2 DEF GetLatestTime, GetLatestStatus
  <2>11. QED
    BY <2>8, <2>9, <2>10
<1>2. QED
  BY <1>1, PipelineInv, PTL

\* As many events end up marked as complete deliveries were sent.
THEOREM DeliveriesMarkedCorrect == Spec => []DeliveriesMarked
<1>1. PInv => DeliveriesMarked
  <2> SUFFICES ASSUME PInv, stage = "marked"
               PROVE  /\ \A i \in DOMAIN events : extractStatus(events[i]) # "80"
                      /\ Cardinality({i \in DOMAIN events : "node" \in DOMAIN events[i]}) =
                         Cardinality({i \in DOMAIN raw :
                                        /\ Complete(raw[i])
                                        /\ Sent(raw[i], "TrackingStatus") \in {"50", "Delivered"}})
    BY DEF DeliveriesMarked
  <2> DEFINE D == DOMAIN events
             R == Remaining(stage)
             A == {i \in D : "node" \in DOMAIN events[i]}
             B == {i \in R : Sent(raw[i], "TrackingStatus") \in {"50", "Delivered"}}
  <2>1. PICK p \in Bijection(D, R) : /\ p \in [D -> R]
                                     /\ events = [j \in D |-> Carried(stage, raw[p[j]])]
    BY TracedFacts
  <2>2. B = {i \in DOMAIN raw : /\ Complete(raw[i])
                                /\ Sent(raw[i], "TrackingStatus") \in {"50", "Delivered"}}
    BY DEF Remaining
  <2>3. \A j \in D : /\ extractStatus(events[j]) = FinalStatus(raw[p[j]])
                     /\ j \in A <=> p[j] \in B
    BY <2>1, SortedFacts
  <2>4. \A i \in D : extractStatus(events[i]) # "80"
    BY <2>3, WordAssumption DEF FinalStatus
  <2>5. IsFiniteSet(R)
    BY RemainingFacts DEF PInv
  <2>6. A \subseteq D /\ B \subseteq R
    OBVIOUS
  <2> HIDE DEF D, R, A, B
  <2>7. [j \in A |-> p[j]] \in Bijection(A, B)
    BY <2>1, <2>3, <2>6, BijectionOfSubset
  <2>8. Cardinality(A) = Cardinality(B)
    <3>1. IsFiniteSet(D) /\ IsFiniteSet(A)
      <4>1. PICK m \in Nat : D = 1 .. m
        BY TracedFacts DEF D
      <4>2. IsFiniteSet(D)
        BY <4>1, FS_Interval, 1 \in Int
      <4>3. QED
        BY <2>6, <4>2, FS_Subset
    <3>2. ExistsBijection(A, B)
      BY <2>7 DEF ExistsBijection
    <3>3. QED
      BY <3>1, <3>2, FS_Bijection
  <2>9. QED
    BY <2>2, <2>4, <2>8 DEF D, A
<1>2. QED
  BY <1>1, PipelineInv, PTL
=============================================================================
