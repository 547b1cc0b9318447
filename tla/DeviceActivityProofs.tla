------------------------- MODULE DeviceActivityProofs -------------------------
(***************************************************************************)
(* The telemetry and the risk of devices, for any number of devices,       *)
(* threads, events and calls that die, and windows of any size.            *)
(*                                                                         *)
(* A report that is about to be inserted has every earlier copy of its id  *)
(* outside its window (Sought).  A snapshot that is about to be stored     *)
(* continues the history (Due): while reads of the device do not overlap   *)
(* nobody else stores one (Single).                                        *)
(***************************************************************************)
EXTENDS DeviceActivity, FiniteSetTheorems, TLAPS

Sought ==
    \A p \in Threads : call[p].op = "insert" =>
        /\ call[p].seen <= Len(events)
        /\ \A i \in Stored(call[p].device, call[p].id) :
              i > call[p].seen \/ call[p].seen - i >= DedupWindow

Single ==
    \A d \in Devices \ overlapped : \A p, q \in Threads : Reads(p, d) /\ Reads(q, d) => p = q

\* A snapshot that may come after these.
Continues(rows, s) ==
    IF rows = << >> THEN s.change = 0
    ELSE /\ s.picture # rows[Len(rows)].picture
         /\ Score(s.picture) = Score(rows[Len(rows)].picture) + s.change

Due ==
    \A p \in Threads : call[p].op = "store" /\ call[p].device \notin overlapped =>
        Continues(history[call[p].device], [picture |-> call[p].picture, change |-> call[p].change])

AddsUp(rows) ==
    \A n \in DOMAIN rows :
        /\ n = 1 => rows[1].change = 0
        /\ n > 1 => /\ rows[n].picture # rows[n - 1].picture
                    /\ Score(rows[n].picture) = Score(rows[n - 1].picture) + rows[n].change

Safe == TypeOK /\ Sought /\ RetriesAddNothing /\ Single /\ Due /\ HistoryAddsUp

Inserts == [op : {"insert"}, device : Devices, id : Reports, seen : Nat]
Touches == [op : {"touch"}, device : Devices, id : Reports]
Counts == [op : {"count"}, device : Devices, alerts : AlertPoints, offline : BOOLEAN]
Compares == [op : {"compare"}, device : Devices, picture : Pictures]
Stores == [op : {"store"}, device : Devices, picture : Pictures, change : Int]

---------------------------------------------------------------------------
(* Operators and types *)

(* The bounds and the windows are numbers.                                 *)
LEMMA Numbers ==
    /\ DedupWindow \in Nat \ {0} /\ RiskWindow \in Nat \ {0} /\ OwnWindow \in Nat \ {0}
    /\ MaxEvents \in Nat /\ MaxChanges \in Nat /\ MaxFaults \in Nat
    /\ AlertPoints \subseteq Nat /\ 0 \in AlertPoints
BY WindowAssumption, BoundAssumption, PointsAssumption

(* A call has the fields that its op names.                                *)
LEMMA CallKinds ==
    ASSUME TypeOK, NEW p \in Threads
    PROVE  /\ call[p] \in CallState
           /\ call[p].op = "insert" => call[p] \in Inserts
           /\ call[p].op = "touch" => call[p] \in Touches
           /\ call[p].op = "count" => call[p] \in Counts
           /\ call[p].op = "compare" => call[p] \in Compares
           /\ call[p].op = "store" => call[p] \in Stores
<1>1. call[p] \in CallState
  BY DEF TypeOK
<1> QED BY <1>1 DEF CallState, Idle, Inserts, Touches, Counts, Compares, Stores

(* Calls of every kind are calls.                                          *)
LEMMA Kinds ==
    /\ Idle \in CallState /\ Inserts \subseteq CallState /\ Touches \subseteq CallState
    /\ Counts \subseteq CallState /\ Compares \subseteq CallState /\ Stores \subseteq CallState
BY DEF CallState, Inserts, Touches, Counts, Compares, Stores

(* The score of a picture is a number.                                     *)
LEMMA ScoreIsNumber == ASSUME NEW picture \in Pictures PROVE Score(picture) \in Int
<1>1. picture.alerts \in Nat /\ picture.high \in Nat
  BY Numbers DEF Pictures
<1>2. 8 * picture.high \in Int /\ (IF picture.offline THEN 8 ELSE 0) \in Int
  BY <1>1
<1>3. Least(8 * picture.high, 30) \in Int
  BY <1>2 DEF Least
<1>4. picture.alerts + Least(8 * picture.high, 30) + (IF picture.offline THEN 8 ELSE 0) \in Int
  BY <1>1, <1>2, <1>3
<1> QED BY <1>4 DEF Score, Least

(* The events that the risk counts are finitely many.                      *)
LEMMA HighIsNumber == ASSUME TypeOK, NEW d \in Devices PROVE HighEvents(d) \in Nat
<1> DEFINE own == {i \in Newest(RiskWindow) : events[i].device = d}
           counted == {i \in own : Cardinality({j \in own : j > i}) < OwnWindow}
           high == {i \in counted : events[i].id \in Severe}
<1>1. Len(events) \in Nat /\ DOMAIN events = 1..Len(events)
  BY DEF TypeOK
<1>2. IsFiniteSet(DOMAIN events)
  BY <1>1, FS_Interval
<1>3. high \subseteq DOMAIN events
  BY DEF Newest
<1>4. IsFiniteSet(high)
  BY <1>2, <1>3, FS_Subset
<1>5. Cardinality(high) \in Nat
  BY <1>4, FS_CardinalityType
<1> QED BY <1>5 DEF HighEvents

(* A snapshot that continues a history that adds up leaves one.            *)
LEMMA Continued ==
    ASSUME NEW rows \in Seq(Snapshot), NEW s \in Snapshot, AddsUp(rows), Continues(rows, s)
    PROVE  AddsUp(Append(rows, s))
<1> DEFINE more == Append(rows, s)
<1>1. /\ Len(rows) \in Nat /\ DOMAIN more = 1..(Len(rows) + 1) /\ DOMAIN rows = 1..Len(rows)
      /\ more[Len(rows) + 1] = s
      /\ \A n \in 1..Len(rows) : more[n] = rows[n]
  OBVIOUS
<1>2. SUFFICES ASSUME NEW n \in DOMAIN more
               PROVE  /\ n = 1 => more[1].change = 0
                      /\ n > 1 => /\ more[n].picture # more[n - 1].picture
                                  /\ Score(more[n].picture) = Score(more[n - 1].picture) + more[n].change
  BY DEF AddsUp
<1> HIDE DEF more
<1>3. CASE n \in DOMAIN rows
  <2>1. more[n] = rows[n] /\ (n > 1 => n - 1 \in DOMAIN rows /\ more[n - 1] = rows[n - 1])
    BY <1>1, <1>3
  <2> QED BY <2>1, <1>3 DEF AddsUp
<1>4. CASE n \notin DOMAIN rows
  <2>1. n = Len(rows) + 1
    BY <1>1, <1>2, <1>4
  <2>2. CASE rows = << >>
    <3>1. n = 1 /\ more[n] = s
      BY <2>1, <2>2, <1>1
    <3> QED BY <3>1, <2>2 DEF Continues
  <2>3. CASE rows # << >>
    <3>1. Len(rows) > 0
      BY <2>3
    <3>2. n > 1 /\ n - 1 = Len(rows) /\ more[n] = s /\ more[n - 1] = rows[Len(rows)]
      BY <2>1, <3>1, <1>1
    <3> QED BY <3>2, <2>3 DEF Continues
  <2> QED BY <2>2, <2>3
<1> QED BY <1>3, <1>4

(* One thread takes the next step of its call.                             *)
LEMMA Takes ==
    ASSUME TypeOK, NEW p \in Threads, NEW c \in CallState, Becomes(p, c)
    PROVE  /\ call' \in [Threads -> CallState]
           /\ call'[p] = c
           /\ \A q \in Threads : q # p => call'[q] = call[q]
BY DEF TypeOK, Becomes

---------------------------------------------------------------------------
(* Steps *)

(* A call that looks for nothing new, stores nothing and reads nobody that *)
(* it did not read before leaves the rest as it is.                        *)
LEMMA Quiet ==
    ASSUME Safe, NEW p \in Threads, NEW c \in CallState, Becomes(p, c), c.op \notin {"insert", "store"},
           c.op \in {"count", "compare"} => Reads(p, c.device),
           UNCHANGED <<events, alerts, history, overlapped, changes>>,
           offline' \subseteq Devices, faults' \in 0..MaxFaults
    PROVE  Safe'
<1> USE DEF Safe
<1>1. /\ call' \in [Threads -> CallState]
      /\ call'[p] = c
      /\ \A q \in Threads : q # p => call'[q] = call[q]
  BY Takes
<1>2. TypeOK'
  BY <1>1 DEF TypeOK
<1>3. Sought' /\ RetriesAddNothing'
  BY <1>1 DEF Sought, RetriesAddNothing, Stored
<1>4. Single'
  BY <1>1 DEF Single, Reads
<1>5. Due' /\ HistoryAddsUp'
  BY <1>1 DEF Due, HistoryAddsUp
<1> QED BY <1>2, <1>3, <1>4, <1>5

(* Looking for the id of a report, and storing it.                         *)
LEMMA TelemetrySafe ==
    ASSUME Safe, NEW p \in Threads,
           \/ \E d \in Devices, r \in Reports : Report(p, d, r)
           \/ Insert(p) \/ Touch(p) \/ Die(p)
    PROVE  Safe'
<1> USE DEF Safe
<1>0. /\ events \in Seq(Event) /\ Len(events) \in Nat /\ DOMAIN events = 1..Len(events)
      /\ offline \subseteq Devices /\ faults \in 0..MaxFaults
      /\ Idle \in CallState /\ Idle.op = "idle"
  BY Kinds DEF TypeOK, Idle
<1>1. ASSUME NEW d \in Devices, NEW r \in Reports, Report(p, d, r) PROVE Safe'
  <2> DEFINE c == [op |-> "insert", device |-> d, id |-> r, seen |-> Len(events)]
  <2>1. c \in Inserts /\ c.op = "insert" /\ c.device = d /\ c.id = r /\ c.seen = Len(events)
    BY <1>0 DEF Inserts
  <2>2. Becomes(p, c) /\ ~Repeats(d, r)
        /\ UNCHANGED <<events, alerts, offline, history, overlapped, changes, faults>>
    BY <1>1 DEF Report
  <2> HIDE DEF c
  <2>3. /\ call' \in [Threads -> CallState]
        /\ call'[p] = c
        /\ \A q \in Threads : q # p => call'[q] = call[q]
    BY <2>1, <2>2, Kinds, Takes
  <2>4. \A i \in Stored(d, r) : Len(events) - i >= DedupWindow
    BY <2>2, <1>0, Numbers DEF Repeats, Newest, Stored
  <2>5. TypeOK'
    BY <2>2, <2>3 DEF TypeOK
  <2>6. Sought'
    BY <2>1, <2>2, <2>3, <2>4 DEF Sought, Stored
  <2>7. RetriesAddNothing' /\ HistoryAddsUp'
    BY <2>2 DEF RetriesAddNothing, Stored, HistoryAddsUp
  <2>8. Single' /\ Due'
    BY <2>1, <2>2, <2>3 DEF Single, Reads, Due
  <2> QED BY <2>5, <2>6, <2>7, <2>8
<1>2. CASE Insert(p)
  <2> DEFINE e == [device |-> call[p].device, id |-> call[p].id, seen |-> call[p].seen]
             c == [op |-> "touch", device |-> call[p].device, id |-> call[p].id]
  <2>1. call[p] \in Inserts /\ call[p].op = "insert"
    BY <1>2, CallKinds DEF Insert
  <2>2. e \in Event /\ e.device = call[p].device /\ e.id = call[p].id /\ e.seen = call[p].seen
        /\ c \in Touches /\ c.op = "touch"
    BY <2>1 DEF Inserts, Event, Touches
  <2>3. events' = Append(events, e) /\ Becomes(p, c)
        /\ UNCHANGED <<alerts, offline, history, overlapped, changes, faults>>
    BY <1>2 DEF Insert
  <2> HIDE DEF e, c
  <2>4. /\ call' \in [Threads -> CallState]
        /\ call'[p] = c
        /\ \A q \in Threads : q # p => call'[q] = call[q]
    BY <2>2, <2>3, Kinds, Takes
  <2>5. /\ events' \in Seq(Event) /\ DOMAIN events' = 1..(Len(events) + 1)
        /\ events'[Len(events) + 1] = e
        /\ \A i \in 1..Len(events) : events'[i] = events[i]
    BY <1>0, <2>2, <2>3
  <2>6. TypeOK'
    BY <2>3, <2>4, <2>5 DEF TypeOK
  <2>7. \A d \in Devices, r \in Reports : \A i \in Stored(d, r)' :
           i \in Stored(d, r) \/ (i = Len(events) + 1 /\ e.device = d /\ e.id = r)
    BY <1>0, <2>5 DEF Stored
  <2>8. \A d \in Devices, r \in Reports : \A i \in Stored(d, r) : i \in 1..Len(events)
    BY <1>0 DEF Stored
  <2>9. Sought'
    <3> SUFFICES ASSUME NEW q \in Threads, (call[q].op = "insert")'
                 PROVE  (/\ call[q].seen <= Len(events)
                         /\ \A i \in Stored(call[q].device, call[q].id) :
                               i > call[q].seen \/ call[q].seen - i >= DedupWindow)'
      BY DEF Sought
    <3>1. q # p /\ call'[q] = call[q] /\ call[q] \in Inserts /\ call[q].op = "insert"
      BY <2>2, <2>4, CallKinds
    <3>2. call[q].device \in Devices /\ call[q].id \in Reports /\ call[q].seen \in Nat
      BY <3>1 DEF Inserts
    <3>3. call[q].seen <= Len(events)
      BY <3>1 DEF Sought
    <3>4. Len(events') = Len(events) + 1
      BY <1>0, <2>2, <2>3
    <3>5. call[q].seen <= Len(events') /\ Len(events) + 1 > call[q].seen
      BY <3>2, <3>3, <3>4, <1>0
    <3>6. ASSUME NEW i \in DOMAIN events', events'[i].device = call[q].device, events'[i].id = call[q].id
          PROVE  i > call[q].seen \/ call[q].seen - i >= DedupWindow
      <4>1. i \in Stored(call[q].device, call[q].id) \/ i = Len(events) + 1
        BY <1>0, <2>5, <3>6 DEF Stored
      <4> QED BY <4>1, <3>1, <3>5 DEF Sought
    <3> QED BY <3>1, <3>5, <3>6 DEF Stored
  <2>10. RetriesAddNothing'
    <3> SUFFICES ASSUME NEW d \in Devices, NEW r \in Reports,
                        NEW i \in Stored(d, r)', NEW j \in Stored(d, r)', i < j
                 PROVE  i > events'[j].seen \/ events'[j].seen - i >= DedupWindow
      BY DEF RetriesAddNothing
    <3>1. i \in Stored(d, r)
      BY <1>0, <2>7, <2>8
    <3>2. CASE j \in Stored(d, r)
      BY <3>1, <3>2, <2>5, <2>8 DEF RetriesAddNothing
    <3>3. CASE j = Len(events) + 1 /\ e.device = d /\ e.id = r
      <4>1. events'[j] = e /\ call[p].device = d /\ call[p].id = r
        BY <3>3, <2>2, <2>5
      <4> QED BY <4>1, <3>1, <2>1, <2>2 DEF Sought
    <3> QED BY <3>2, <3>3, <2>7
  <2>11. Single' /\ Due' /\ HistoryAddsUp'
    BY <2>2, <2>3, <2>4 DEF Single, Reads, Due, HistoryAddsUp
  <2> QED BY <2>6, <2>9, <2>10, <2>11
<1>3. CASE Touch(p)
  BY <1>0, <1>3, Quiet DEF Touch
<1>4. CASE Die(p)
  <2>1. faults' \in 0..MaxFaults
    BY <1>0, <1>4, Numbers DEF Die
  <2> QED BY <2>1, <1>0, <1>4, Quiet DEF Die
<1> QED BY <1>1, <1>2, <1>3, <1>4

(* Reading the risk of a device, and storing a snapshot of it.             *)
LEMMA RiskSafe ==
    ASSUME Safe, NEW p \in Threads,
           (\E d \in Devices : Read(p, d)) \/ Count(p) \/ Compare(p) \/ Store(p)
    PROVE  Safe'
<1> USE DEF Safe
<1>0. /\ offline \subseteq Devices /\ faults \in 0..MaxFaults /\ alerts \in [Devices -> AlertPoints]
      /\ history \in [Devices -> Seq(Snapshot)] /\ overlapped \subseteq Devices
      /\ Idle \in CallState /\ Idle.op = "idle"
  BY Kinds DEF TypeOK, Idle
<1>1. ASSUME NEW d \in Devices, Read(p, d) PROVE Safe'
  <2> DEFINE c == [op |-> "count", device |-> d, alerts |-> alerts[d], offline |-> d \in offline]
  <2>1. c \in Counts /\ c.op = "count" /\ c.device = d
    BY <1>0 DEF Counts
  <2>2. /\ Becomes(p, c)
        /\ overlapped' = overlapped \cup {x \in {d} : \E q \in Threads : Reads(q, d)}
        /\ UNCHANGED <<events, alerts, offline, history, changes, faults>>
    BY <1>1 DEF Read
  <2> HIDE DEF c
  <2>3. /\ call' \in [Threads -> CallState]
        /\ call'[p] = c
        /\ \A q \in Threads : q # p => call'[q] = call[q]
    BY <2>1, <2>2, Kinds, Takes
  <2>4. overlapped' \subseteq Devices /\ overlapped \subseteq overlapped'
    BY <1>0, <2>2
  <2>5. TypeOK'
    BY <2>2, <2>3, <2>4 DEF TypeOK
  <2>6. Sought' /\ RetriesAddNothing'
    BY <2>1, <2>2, <2>3 DEF Sought, RetriesAddNothing, Stored
  <2>7. Single'
    BY <2>1, <2>2, <2>3 DEF Single, Reads
  <2>8. Due' /\ HistoryAddsUp'
    BY <2>1, <2>2, <2>3, <2>4 DEF Due, HistoryAddsUp
  <2> QED BY <2>5, <2>6, <2>7, <2>8
<1>2. CASE Count(p)
  <2> DEFINE picture == [alerts |-> call[p].alerts, high |-> HighEvents(call[p].device),
                         offline |-> call[p].offline]
             c == [op |-> "compare", device |-> call[p].device, picture |-> picture]
  <2>1. call[p] \in Counts /\ call[p].op = "count" /\ call[p].device \in Devices
    BY <1>2, CallKinds DEF Count, Counts
  <2>2. picture \in Pictures
    BY <2>1, HighIsNumber DEF Counts, Pictures
  <2>3. Becomes(p, c) /\ UNCHANGED <<events, alerts, offline, history, overlapped, changes, faults>>
    BY <1>2 DEF Count
  <2> HIDE DEF picture
  <2>4. c \in Compares /\ c.op = "compare" /\ c.device = call[p].device
    BY <2>1, <2>2 DEF Compares
  <2> HIDE DEF c
  <2>5. Reads(p, c.device)
    BY <2>1, <2>4 DEF Reads
  <2> QED BY <1>0, <2>3, <2>4, <2>5, Kinds, Quiet
<1>3. CASE Compare(p)
  <2> DEFINE d == call[p].device
             picture == call[p].picture
             before == {Score(s.picture) : s \in Latest(d)}
             change == IF before = {} THEN 0 ELSE Score(picture) - Max(before)
             c == [op |-> "store", device |-> d, picture |-> picture, change |-> change]
  <2>1. call[p] \in Compares /\ call[p].op = "compare" /\ d \in Devices /\ picture \in Pictures
    BY <1>3, CallKinds DEF Compare, Compares
  <2>2. /\ Becomes(p, IF Differs(Latest(d), picture) THEN c ELSE Idle)
        /\ UNCHANGED <<events, alerts, offline, history, overlapped, changes, faults>>
    BY <1>3 DEF Compare
  <2>3. CASE ~Differs(Latest(d), picture)
    BY <1>0, <2>2, <2>3, Quiet
  <2>4. CASE Differs(Latest(d), picture)
    <3>1. history[d] \in Seq(Snapshot)
      BY <1>0, <2>1
    <3>2. change \in Int /\ Continues(history[d], [picture |-> picture, change |-> change])
      <4>1. CASE history[d] = << >>
        <5>1. change = 0
          BY <4>1 DEF Latest
        <5> QED BY <4>1, <5>1 DEF Continues
      <4>2. CASE history[d] # << >>
        <5>1. PICK last \in Snapshot : last = history[d][Len(history[d])]
          BY <3>1, <4>2
        <5>2. Latest(d) = {last} /\ last.picture \in Pictures
          BY <4>2, <5>1 DEF Latest, Snapshot
        <5>3. Score(last.picture) \in Int /\ Score(picture) \in Int
          BY <5>2, <2>1, ScoreIsNumber
        <5>4. before = {Score(last.picture)}
          BY <5>2
        <5>5. Max(before) = Score(last.picture)
          BY <5>3, <5>4 DEF Max
        <5>6. change = Score(picture) - Score(last.picture)
          BY <5>4, <5>5
        <5>7. last.picture # picture
          BY <2>4, <5>2 DEF Differs
        <5> HIDE DEF change
        <5>8. change \in Int /\ Score(picture) = Score(last.picture) + change
          BY <5>3, <5>6
        <5> QED BY <4>2, <5>1, <5>7, <5>8 DEF Continues
      <4> QED BY <4>1, <4>2
    <3> HIDE DEF change
    <3>3. c \in Stores /\ c.op = "store" /\ c.device = d /\ c.picture = picture /\ c.change = change
      BY <2>1, <3>2 DEF Stores
    <3>4. Becomes(p, c)
      BY <2>2, <2>4 DEF change
    <3> HIDE DEF c
    <3>5. /\ call' \in [Threads -> CallState]
          /\ call'[p] = c
          /\ \A q \in Threads : q # p => call'[q] = call[q]
      BY <3>3, <3>4, Kinds, Takes
    <3>6. TypeOK'
      BY <2>2, <3>5 DEF TypeOK
    <3>7. Sought' /\ RetriesAddNothing'
      BY <2>2, <3>3, <3>5 DEF Sought, RetriesAddNothing, Stored
    <3>8. Single'
      BY <2>1, <2>2, <3>3, <3>5 DEF Single, Reads
    <3>9. Due' /\ HistoryAddsUp'
      BY <2>2, <3>2, <3>3, <3>5 DEF Due, HistoryAddsUp
    <3> QED BY <3>6, <3>7, <3>8, <3>9
  <2> QED BY <2>3, <2>4
<1>4. CASE Store(p)
  <2> DEFINE s == [picture |-> call[p].picture, change |-> call[p].change]
  <2>1. call[p] \in Stores /\ call[p].op = "store" /\ call[p].device \in Devices
    BY <1>4, CallKinds DEF Store, Stores
  <2>2. s \in Snapshot
    BY <2>1 DEF Stores, Snapshot
  <2>3. /\ history' = [history EXCEPT ![call[p].device] = Append(@, s)]
        /\ Becomes(p, Idle)
        /\ UNCHANGED <<events, alerts, offline, overlapped, changes, faults>>
    BY <1>4 DEF Store
  <2>4. call[p].device \notin overlapped => Continues(history[call[p].device], s)
    BY <2>1 DEF Due
  <2> HIDE DEF s
  <2>5. /\ call' \in [Threads -> CallState]
        /\ call'[p] = Idle
        /\ \A q \in Threads : q # p => call'[q] = call[q]
    BY <1>0, <2>3, Takes
  <2>6. /\ history' \in [Devices -> Seq(Snapshot)]
        /\ history'[call[p].device] = Append(history[call[p].device], s)
        /\ \A d \in Devices : d # call[p].device => history'[d] = history[d]
    BY <1>0, <2>1, <2>2, <2>3
  <2>7. TypeOK'
    BY <2>3, <2>5, <2>6 DEF TypeOK
  <2>8. Sought' /\ RetriesAddNothing'
    <3>1. RetriesAddNothing'
      BY <2>3 DEF RetriesAddNothing, Stored
    <3>2. Sought'
      BY <1>0, <2>3, <2>5 DEF Sought, Stored
    <3> QED BY <3>1, <3>2
  <2>9. Single'
    BY <1>0, <2>3, <2>5 DEF Single, Reads
  <2>10. Due'
    <3> SUFFICES ASSUME NEW q \in Threads, call'[q].op = "store", call'[q].device \notin overlapped
                 PROVE  Continues(history'[call'[q].device],
                                  [picture |-> call'[q].picture, change |-> call'[q].change])
      BY <2>3 DEF Due
    <3>1. q # p /\ call'[q] = call[q] /\ call[q].op = "store" /\ call[q].device \in Devices
      BY <1>0, <2>5, CallKinds DEF Stores
    <3>2. call[q].device # call[p].device
      BY <3>1, <2>1 DEF Single, Reads
    <3> QED BY <3>1, <3>2, <2>6 DEF Due
  <2>11. HistoryAddsUp'
    <3> SUFFICES ASSUME NEW d \in Devices \ overlapped PROVE AddsUp(history'[d])
      BY <2>3 DEF HistoryAddsUp, AddsUp
    <3>1. AddsUp(history[d]) /\ history[d] \in Seq(Snapshot)
      BY <1>0 DEF HistoryAddsUp, AddsUp
    <3>2. CASE d = call[p].device
      BY <3>1, <3>2, <2>2, <2>4, <2>6, Continued
    <3>3. CASE d # call[p].device
      BY <3>1, <3>3, <2>6
    <3> QED BY <3>2, <3>3
  <2> QED BY <2>7, <2>8, <2>9, <2>10, <2>11
<1> QED BY <1>1, <1>2, <1>3, <1>4

(* What the rest of the lab does.                                          *)
LEMMA LabSafe ==
    ASSUME Safe,
           \/ OtherEvent
           \/ \E d \in Devices, points \in AlertPoints : AlertsChange(d, points)
           \/ \E d \in Devices : GoOffline(d)
    PROVE  Safe'
<1> USE DEF Safe
<1>1. CASE OtherEvent
  <2> DEFINE e == [device |-> NULL, id |-> NULL, seen |-> 0]
  <2>1. e \in Event /\ e.device \notin Devices
    BY NullAssumption DEF Event
  <2>2. events' = Append(events, e)
        /\ UNCHANGED <<alerts, offline, history, call, overlapped, changes, faults>>
    BY <1>1 DEF OtherEvent
  <2> HIDE DEF e
  <2>3. events \in Seq(Event) /\ Len(events) \in Nat /\ DOMAIN events = 1..Len(events)
    BY DEF TypeOK
  <2>4. /\ events' \in Seq(Event) /\ DOMAIN events' = 1..(Len(events) + 1)
        /\ Len(events') = Len(events) + 1
        /\ events'[Len(events) + 1] = e
        /\ \A i \in 1..Len(events) : events'[i] = events[i]
    BY <2>1, <2>2, <2>3
  <2>5. TypeOK'
    BY <2>2, <2>4 DEF TypeOK
  <2>6. \A d \in Devices, r \in Reports : Stored(d, r)' = Stored(d, r)
    BY <2>1, <2>3, <2>4 DEF Stored
  <2>7. RetriesAddNothing'
    <3> SUFFICES ASSUME NEW d \in Devices, NEW r \in Reports,
                        NEW i \in Stored(d, r), NEW j \in Stored(d, r), i < j
                 PROVE  i > events'[j].seen \/ events'[j].seen - i >= DedupWindow
      BY <2>6 DEF RetriesAddNothing
    <3>1. events'[j] = events[j]
      BY <2>3, <2>4 DEF Stored
    <3> QED BY <3>1 DEF RetriesAddNothing
  <2>8. Sought'
    <3> SUFFICES ASSUME NEW p \in Threads, call[p].op = "insert"
                 PROVE  /\ call[p].seen <= Len(events')
                        /\ \A i \in Stored(call[p].device, call[p].id)' :
                              i > call[p].seen \/ call[p].seen - i >= DedupWindow
      BY <2>2 DEF Sought
    <3>1. call[p].device \in Devices /\ call[p].id \in Reports /\ call[p].seen \in Nat
      BY CallKinds DEF Inserts
    <3>2. call[p].seen <= Len(events)
      BY DEF Sought
    <3>3. call[p].seen <= Len(events')
      BY <3>1, <3>2, <2>3, <2>4
    <3>4. Stored(call[p].device, call[p].id)' = Stored(call[p].device, call[p].id)
      BY <2>2, <2>6, <3>1 DEF Stored
    <3> QED BY <3>3, <3>4 DEF Sought
  <2>9. Single' /\ Due' /\ HistoryAddsUp'
    BY <2>2 DEF Single, Reads, Due, HistoryAddsUp
  <2> QED BY <2>5, <2>7, <2>8, <2>9
<1>2. ASSUME UNCHANGED <<events, history, call, overlapped, faults>>, alerts' \in [Devices -> AlertPoints],
             offline' \subseteq Devices, changes' \in 0..MaxChanges
      PROVE  Safe'
  <2>1. TypeOK'
    BY <1>2 DEF TypeOK
  <2>2. Sought' /\ RetriesAddNothing' /\ Single' /\ Due' /\ HistoryAddsUp'
    BY <1>2 DEF Sought, RetriesAddNothing, Stored, Single, Reads, Due, HistoryAddsUp
  <2> QED BY <2>1, <2>2
<1>3. changes \in 0..MaxChanges /\ (changes < MaxChanges => changes + 1 \in 0..MaxChanges)
      /\ alerts \in [Devices -> AlertPoints] /\ offline \subseteq Devices
  BY Numbers DEF TypeOK
<1>4. ASSUME NEW d \in Devices, NEW points \in AlertPoints, AlertsChange(d, points) PROVE Safe'
  BY <1>2, <1>3, <1>4 DEF AlertsChange
<1>5. ASSUME NEW d \in Devices, GoOffline(d) PROVE Safe'
  BY <1>2, <1>3, <1>5 DEF GoOffline
<1> QED BY <1>1, <1>4, <1>5

(* The lab starts without events and histories.                            *)
LEMMA InitSafe == ASSUME Init PROVE Safe
<1>1. Idle \in CallState /\ Idle.op = "idle"
  BY Kinds DEF Idle
<1>2. \A p \in Threads : call[p].op = "idle"
  BY <1>1 DEF Init
<1>3. TypeOK
  BY <1>1, Numbers DEF Init, TypeOK
<1>4. Sought /\ Single /\ Due
  BY <1>2 DEF Sought, Single, Reads, Due
<1>5. RetriesAddNothing /\ HistoryAddsUp
  BY DEF Init, RetriesAddNothing, Stored, HistoryAddsUp
<1> QED BY <1>3, <1>4, <1>5 DEF Safe

(* Every step keeps the invariant.                                         *)
LEMMA NextSafe == ASSUME Safe, [Next]_vars PROVE Safe'
<1>1. CASE UNCHANGED vars
  BY <1>1 DEF vars, Safe, TypeOK, Sought, RetriesAddNothing, Stored, Single, Reads, Due, HistoryAddsUp
<1>2. ASSUME NEW p \in Threads, Goes(p) \/ Die(p) PROVE Safe'
  BY <1>2, TelemetrySafe, RiskSafe DEF Goes
<1> QED BY <1>1, <1>2, TelemetrySafe, RiskSafe, LabSafe DEF Next

---------------------------------------------------------------------------

(* The invariant of telemetry and risk.                                    *)
THEOREM Invariant == Spec => []Safe
BY InitSafe, NextSafe, PTL DEF Spec

(* Events, histories and calls keep the types that the code gives them.    *)
THEOREM TypeCorrect == Spec => []TypeOK
<1>1. Safe => TypeOK
  BY DEF Safe
<1> QED BY <1>1, Invariant, PTL

(* Telemetry is stored twice only if two handlers looked for its id before *)
(* either had stored it, or DedupWindow events lie between                 *)
(* (managed_device_telemetry), however often it is retried.                *)
THEOREM Retries == Spec => []RetriesAddNothing
<1>1. Safe => RetriesAddNothing
  BY DEF Safe
<1> QED BY <1>1, Invariant, PTL

(* The history of a device whose reads never overlapped is a chain: no two *)
(* equal neighbours, and changes that add up (calculate_device_risk).      *)
THEOREM Chaining == Spec => []HistoryAddsUp
<1>1. Safe => HistoryAddsUp
  BY DEF Safe
<1> QED BY <1>1, Invariant, PTL
=============================================================================
