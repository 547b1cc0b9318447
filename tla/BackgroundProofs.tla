-------------------------- MODULE BackgroundProofs --------------------------
(***************************************************************************)
(* What goes on behind the requests: the scans of NetworkMonitor, for any  *)
(* addresses, rows, threads and any number of faults; and, at the end, the *)
(* database file (Maintenance), for any backups, commands, commits, kills  *)
(* and exceptions.                                                         *)
(*                                                                         *)
(* NetworkMonitor's TypeOK bounds the announcements of a row, so it is not *)
(* inductive: what a scan in flight knows of its row has to be said too    *)
(* (InFlight).                                                             *)
(*                                                                         *)
(* Of the database: the live file has a journal only in a commit or after  *)
(* a kill in one (LiveRight), a torn copy always has one (CopiesRight),    *)
(* and what a command has copied stays what it was until it is verified    *)
(* (StagesRight).  All of it until a restore has put its file beside the   *)
(* journal of another one; while nothing was killed and nothing raised,    *)
(* that cannot happen and no file is empty (Calm).                         *)
(***************************************************************************)
EXTENDS NetworkMonitor, Maintenance, TLAPS

Items == [op : {"items"}, now : Nat, seen : SUBSET Ips, todo : SUBSET Ips]
Inserts == [op : {"insert"}, now : Nat, seen : SUBSET Ips, todo : SUBSET Ips, ip : Ips]
Updates == [op : {"update", "announce"}, now : Nat, seen : SUBSET Ips,
            todo : SUBSET Ips, id : Rows]

Present ==
    [status : {"online", "offline"}, ip : Ips, last_seen : Nat, known : BOOLEAN]

\* What the scan of a thread has established and nobody else can undo.
Holds(p) ==
    /\ call[p].op = "update" => Existing(call[p].id)
    /\ call[p].op = "announce" =>
          author[call[p].id] = p /\ announced[call[p].id] = 0
    /\ call[p].op = "insert" =>
          \A i \in Rows :
              Existing(i) /\ device[i].ip = call[p].ip => author[i] # p

InFlight == \A p \in Threads : Holds(p)

\* A row that is not there has no author and no event.
Blank == \A i \in Rows : ~Existing(i) => author[i] = NULL /\ announced[i] = 0

IInv == TypeOK /\ InFlight /\ Blank /\ DuplicatesAreRaced

---------------------------------------------------------------------------
(* Calls and rows *)

(* A call is of the kind that its op names.                                *)
LEMMA CallKinds ==
    ASSUME TypeOK, NEW p \in Threads
    PROVE  /\ call[p] \in CallState
           /\ call[p].op = "items" => call[p] \in Items
           /\ call[p].op = "insert" => call[p] \in Inserts
           /\ call[p].op \in {"update", "announce"} => call[p] \in Updates
           /\ call[p].op # "idle" => call[p] # Idle /\ call[p].now \in Nat /\ call[p].now <= now
<1>1. call[p] \in CallState
  BY DEF TypeOK
<1> QED BY <1>1 DEF TypeOK, CallState, Idle, Items, Inserts, Updates

(* A row that is there has the attributes of a device.                     *)
LEMMA PresentRow ==
    ASSUME TypeOK, NEW i \in Rows, Existing(i)
    PROVE  device[i] \in Present
BY DEF TypeOK, DeviceRow, Existing, Present

(* A device is not an absent row.                                          *)
LEMMA PresentExists == ASSUME NEW row \in Present PROVE row # NoDevice /\ row \in DeviceRow
<1>1. row.status # "ABSENT"
  BY DEF Present
<1>2. NoDevice.status = "ABSENT"
  BY DEF NoDevice
<1>3. row \in DeviceRow
  BY DEF DeviceRow, Present
<1> QED BY <1>1, <1>2, <1>3

(* The calls that a scan goes on with are calls.                           *)
LEMMA NextCalls ==
    ASSUME NEW c, c \in Items \cup Inserts \cup Updates
    PROVE  /\ NextItem(c) \in Items
           /\ \A ip \in Ips : Inserting(c, ip) \in Inserts
           /\ \A ip \in Ips, i \in Rows : Updating(c, ip, i) \in Updates
           /\ \A i \in Rows : Announcing(c, i) \in Updates
<1>1. c.now \in Nat /\ c.seen \in SUBSET Ips /\ c.todo \in SUBSET Ips
  BY DEF Items, Inserts, Updates
<1>2. NextItem(c) \in Items
  BY <1>1 DEF NextItem, Items
<1>3. ASSUME NEW ip \in Ips PROVE Inserting(c, ip) \in Inserts
  BY <1>1 DEF Inserting, Inserts
<1>4. ASSUME NEW ip \in Ips, NEW i \in Rows PROVE Updating(c, ip, i) \in Updates
  BY <1>1 DEF Updating, Updates
<1>5. ASSUME NEW i \in Rows PROVE Announcing(c, i) \in Updates
  BY <1>1 DEF Announcing, Updates
<1> QED BY <1>2, <1>3, <1>4, <1>5

(* CallsOfScans of calls are calls.                                               *)
LEMMA CallsOfScans == Items \cup Inserts \cup Updates \subseteq CallState
BY DEF Items, Inserts, Updates, CallState

(* No device goes offline.                                                 *)
LEMMA NothingIsMarked ==
    ASSUME TypeOK, NEW p \in Threads, FinishScan(p)
    PROVE  device' = device
<1>1. \A i \in Rows : device'[i] = device[i]
  BY DEF FinishScan, GoesOffline, ComparisonRaises
<1>2. device' = [i \in Rows |-> device'[i]]
  BY DEF FinishScan
<1> QED BY <1>1, <1>2 DEF TypeOK

---------------------------------------------------------------------------
(* The invariant is inductive *)

(* It holds initially.                                                     *)
LEMMA InitInvariant == Init => IInv
<1> SUFFICES ASSUME Init PROVE IInv
  OBVIOUS
<1>1. TypeOK
  BY BoundAssumption DEF Init, TypeOK, CallState, Idle, DeviceRow
<1>2. InFlight
  BY DEF Init, InFlight, Holds, Idle
<1>3. Blank /\ DuplicatesAreRaced
  BY DEF Init, Blank, DuplicatesAreRaced, Existing
<1> QED BY <1>1, <1>2, <1>3 DEF IInv

(* A step of one scan that leaves the rows as they are: only what that     *)
(* scan holds is to be shown.                                              *)
LEMMA OwnStep ==
    ASSUME IInv, NEW p \in Threads, NEW c \in CallState, Becomes(p, c),
           UNCHANGED <<device, author, announced, now>>,
           faults' \in 0..MaxFaults, c # Idle => c.now <= now, Holds(p)'
    PROVE  IInv'
<1> USE DEF IInv
<1>1. call' \in [Threads -> CallState] /\ call'[p] = c
      /\ \A q \in Threads \ {p} : call'[q] = call[q]
  BY DEF Becomes, TypeOK
<1>2. TypeOK'
  BY <1>1 DEF TypeOK
<1>3. InFlight'
  BY <1>1 DEF InFlight, Holds, Existing
<1>4. Blank' /\ DuplicatesAreRaced'
  BY DEF Blank, DuplicatesAreRaced, Existing
<1> QED BY <1>2, <1>3, <1>4

(* A step that changes attributes of a device, but not its address.        *)
LEMMA AttributeStep ==
    ASSUME IInv, NEW i \in Rows, NEW row \in Present, Existing(i),
           row.ip = device[i].ip, device' = [device EXCEPT ![i] = row],
           UNCHANGED <<author, announced, now, call, faults>>
    PROVE  IInv'
<1> USE DEF IInv
<1>1. row # NoDevice /\ row \in DeviceRow
  BY PresentExists
<1>2. \A j \in Rows : Existing(j)' <=> Existing(j)
  BY <1>1 DEF Existing, TypeOK
<1>3. \A j \in Rows : device'[j].ip = device[j].ip
  BY DEF TypeOK
<1>4. TypeOK'
  BY <1>1 DEF TypeOK
<1>5. InFlight'
  <2> SUFFICES ASSUME NEW p \in Threads PROVE Holds(p)'
    BY DEF InFlight
  <2>1. Holds(p) /\ call[p] \in CallState
    BY CallKinds DEF InFlight
  <2>2. call[p].op = "update" => call[p].id \in Rows
    BY CallKinds DEF Updates
  <2> QED BY <1>2, <1>3, <2>1, <2>2 DEF Holds
<1>6. Blank' /\ DuplicatesAreRaced'
  BY <1>2, <1>3 DEF Blank, DuplicatesAreRaced
<1> QED BY <1>4, <1>5, <1>6

(* A call that is not updating, announcing or inserting holds nothing.     *)
LEMMA HoldsNothing ==
    ASSUME NEW p \in Threads, call'[p].op \in {"idle", "items"}
    PROVE  Holds(p)'
BY DEF Holds

(* It is preserved by every step of a scan, one action at a time.          *)
LEMMA ScanStep == ASSUME IInv, NEW p \in Threads, Scan(p) PROVE IInv'
<1> USE DEF IInv
<1>0. call \in [Threads -> CallState]
  BY DEF TypeOK
<1>1. ASSUME NEW seen \in SUBSET Ips, StartScan(p, seen) PROVE IInv'
  <2> DEFINE c == [op |-> "items", now |-> now, seen |-> seen, todo |-> seen]
  <2>1. c \in CallState /\ c.now <= now
    BY DEF TypeOK, CallState
  <2>2. Becomes(p, c) /\ call'[p].op = "items"
    BY <1>0, <1>1 DEF StartScan, Becomes
  <2>3. Holds(p)'
    BY <2>2, HoldsNothing
  <2> HIDE DEF c
  <2> QED BY <1>1, <2>1, <2>2, <2>3, OwnStep DEF StartScan, TypeOK
<1>2. ASSUME NEW ip \in Ips, SelectDevice(p, ip) PROVE IInv'
  <2> DEFINE found == {i \in Rows : IsDevice(i, ip)}
  <2>1. call[p] \in Items /\ call[p].now <= now
    BY <1>2, CallKinds DEF SelectDevice
  <2>2. CASE found = {} /\ Becomes(p, Inserting(call[p], ip))
    <3> DEFINE c == Inserting(call[p], ip)
    <3>1. c \in Inserts
      BY <2>1, NextCalls
    <3>2. c \in CallState /\ c.now = call[p].now
      BY <3>1, CallsOfScans DEF Inserting
    <3>3. call'[p].op = "insert" /\ call'[p].ip = ip
      BY <1>0, <2>2 DEF Becomes, Inserting
    <3>4. Holds(p)'
      BY <1>2, <2>2, <3>3 DEF Holds, SelectDevice, IsDevice, Existing
    <3> QED BY <1>2, <2>1, <2>2, <3>2, <3>4, OwnStep DEF SelectDevice, TypeOK
  <2>3. CASE \E i \in found : Becomes(p, Updating(call[p], ip, i))
    <3>1. PICK i \in found : Becomes(p, Updating(call[p], ip, i))
      BY <2>3
    <3> DEFINE c == Updating(call[p], ip, i)
    <3>2. i \in Rows /\ Existing(i)
      BY DEF IsDevice
    <3>3. c \in Updates
      BY <2>1, <3>2, NextCalls
    <3>4. c \in CallState /\ c.now = call[p].now
      BY <3>3, CallsOfScans DEF Updating
    <3>5. call'[p].op = "update" /\ call'[p].id = i
      BY <1>0, <3>1 DEF Becomes, Updating
    <3>6. Holds(p)'
      BY <1>2, <3>2, <3>5 DEF Holds, SelectDevice, Existing
    <3> QED BY <1>2, <2>1, <3>1, <3>4, <3>6, OwnStep DEF SelectDevice, TypeOK
  <2> QED BY <1>2, <2>2, <2>3 DEF SelectDevice
<1>3. ASSUME NEW i \in Rows, InsertDevice(p, i) PROVE IInv'
  <2> DEFINE c == call[p]  row == NewDevice(c.ip, c.now)
  <2>1. c \in Inserts /\ c.now <= now /\ c.op = "insert"
    BY <1>3, CallKinds DEF InsertDevice
  <2>2. row \in Present /\ row.ip = c.ip
    BY <2>1 DEF NewDevice, Present, Inserts
  <2>3. row # NoDevice /\ row \in DeviceRow
    BY <2>2, PresentExists
  <2>4. device'[i] = row /\ author'[i] = p /\ author[i] = NULL /\ announced[i] = 0
    BY <1>3 DEF InsertDevice, TypeOK, Blank
  <2>5. \A j \in Rows \ {i} : device'[j] = device[j] /\ author'[j] = author[j]
    BY <1>3 DEF InsertDevice, TypeOK
  <2>6. Announcing(c, i) \in CallState /\ Announcing(c, i).now = c.now
    BY <2>1, NextCalls, CallsOfScans DEF Announcing, Inserts
  <2>7. call'[p] = Announcing(c, i) /\ \A q \in Threads \ {p} : call'[q] = call[q]
    BY <1>0, <1>3 DEF InsertDevice, Becomes
  <2> HIDE DEF row
  <2>8. TypeOK'
    <3>1. device' \in [Rows -> DeviceRow]
      BY <1>3, <2>3 DEF InsertDevice, TypeOK, row
    <3>2. call' \in [Threads -> CallState]
      BY <1>0, <1>3, <2>6 DEF InsertDevice, Becomes
    <3>3. \A q \in Threads : call'[q] # Idle => call'[q].now <= now
      BY <2>1, <2>6, <2>7 DEF TypeOK
    <3> QED BY <1>3, <3>1, <3>2, <3>3 DEF InsertDevice, TypeOK
  <2>9. InFlight'
    <3>1. Holds(p)'
      BY <1>3, <2>4, <2>7 DEF Holds, Announcing, InsertDevice
    <3>2. ASSUME NEW q \in Threads \ {p} PROVE Holds(q)'
      <4>1. Holds(q) /\ call'[q] = call[q] /\ q # NULL
        BY <2>7, ThreadAssumption DEF InFlight
      <4>2. call[q].op \in {"update", "announce"} => call[q].id \in Rows
        BY CallKinds DEF Updates
      <4>3. call[q].op = "update" => Existing(call[q].id)'
        BY <2>3, <2>4, <2>5, <4>1, <4>2 DEF Holds, Existing
      <4>4. call[q].op = "announce" => call[q].id # i
        BY <2>4, <4>1 DEF Holds
      <4>5. call[q].op = "announce" =>
              author'[call[q].id] = q /\ announced'[call[q].id] = 0
        BY <1>3, <2>5, <4>1, <4>2, <4>4 DEF Holds, InsertDevice
      <4>6. call[q].op = "insert" =>
              \A j \in Rows : Existing(j)' /\ device'[j].ip = call[q].ip => author'[j] # q
        BY <2>4, <2>5, <4>1 DEF Holds, Existing
      <4> QED BY <4>1, <4>3, <4>5, <4>6 DEF Holds
    <3> QED BY <3>1, <3>2 DEF InFlight
  <2>10. Blank'
    BY <1>3, <2>3, <2>4, <2>5 DEF Blank, InsertDevice, Existing
  <2>11. DuplicatesAreRaced'
    <3>1. \A j \in Rows \ {i} : Existing(j) /\ device[j].ip = c.ip => author[j] # p
      BY <2>1 DEF InFlight, Holds
    <3> QED BY <2>2, <2>4, <2>5, <3>1 DEF DuplicatesAreRaced, Existing
  <2> QED BY <2>8, <2>9, <2>10, <2>11
<1>4. ASSUME AnnounceDevice(p) PROVE IInv'
  <2> DEFINE c == call[p]
  <2>1. c \in Updates /\ c.now <= now /\ c.op = "announce" /\ c.id \in Rows
    BY <1>4, CallKinds DEF AnnounceDevice, Updates
  <2>2. announced[c.id] = 0 /\ author[c.id] = p
    BY <2>1 DEF InFlight, Holds
  <2>3. announced'[c.id] = 1 /\ \A j \in Rows \ {c.id} : announced'[j] = announced[j]
    BY <1>4, <2>1, <2>2 DEF AnnounceDevice, TypeOK
  <2>4. NextItem(c) \in CallState /\ NextItem(c).now = c.now
    BY <2>1, NextCalls, CallsOfScans DEF NextItem, Updates
  <2>5. call'[p] = NextItem(c) /\ \A q \in Threads \ {p} : call'[q] = call[q]
    BY <1>0, <1>4 DEF AnnounceDevice, Becomes
  <2>6. TypeOK'
    <3>1. announced' \in [Rows -> 0..1]
      BY <1>4, <2>1, <2>2 DEF AnnounceDevice, TypeOK
    <3>2. call' \in [Threads -> CallState]
      BY <1>0, <1>4, <2>4 DEF AnnounceDevice, Becomes
    <3>3. \A q \in Threads : call'[q] # Idle => call'[q].now <= now
      BY <2>1, <2>4, <2>5 DEF TypeOK
    <3> QED BY <1>4, <3>1, <3>2, <3>3 DEF AnnounceDevice, TypeOK
  <2>7. InFlight'
    <3>1. Holds(p)'
      BY <2>5, HoldsNothing DEF NextItem
    <3>2. ASSUME NEW q \in Threads \ {p} PROVE Holds(q)'
      <4>1. Holds(q) /\ call'[q] = call[q]
        BY <2>5 DEF InFlight
      <4>2. call[q].op = "announce" => call[q].id \in Rows /\ call[q].id # c.id
        BY <2>2, <4>1, CallKinds DEF Holds, Updates
      <4> QED BY <1>4, <2>3, <4>1, <4>2 DEF Holds, AnnounceDevice, Existing
    <3> QED BY <3>1, <3>2 DEF InFlight
  <2>8. Blank'
    <3>1. Existing(c.id)
      BY <2>1, <2>2, ThreadAssumption DEF Blank
    <3> QED BY <1>4, <2>3, <3>1 DEF AnnounceDevice, Blank, Existing
  <2>9. DuplicatesAreRaced'
    BY <1>4 DEF AnnounceDevice, DuplicatesAreRaced, Existing
  <2> QED BY <2>6, <2>7, <2>8, <2>9
<1>5. ASSUME UpdateDevice(p) PROVE IInv'
  <2> DEFINE c == call[p]  i == c.id  row == SeenAgain(device[i], c.now)
  <2>1. c \in Updates /\ c.now <= now /\ c.op = "update" /\ i \in Rows /\ c.now \in Nat
    BY <1>5, CallKinds DEF UpdateDevice, Updates
  <2>2. Existing(i) /\ device[i] \in Present
    BY <2>1, PresentRow DEF InFlight, Holds
  <2>3. row \in Present /\ row.ip = device[i].ip
    BY <2>1, <2>2 DEF SeenAgain, Present
  <2>4. row # NoDevice /\ row \in DeviceRow
    BY <2>3, PresentExists
  <2>5. device'[i] = row /\ \A j \in Rows \ {i} : device'[j] = device[j]
    BY <1>5, <2>1 DEF UpdateDevice, TypeOK
  <2>6. NextItem(c) \in CallState /\ NextItem(c).now = c.now
    BY <2>1, NextCalls, CallsOfScans DEF NextItem, Updates
  <2>7. call'[p] = NextItem(c) /\ \A q \in Threads \ {p} : call'[q] = call[q]
    BY <1>0, <1>5 DEF UpdateDevice, Becomes
  <2> HIDE DEF row
  <2>8. \A j \in Rows : (Existing(j)' <=> Existing(j)) /\ device'[j].ip = device[j].ip
    BY <2>2, <2>3, <2>4, <2>5 DEF Existing
  <2>9. TypeOK'
    <3>1. device' \in [Rows -> DeviceRow]
      BY <1>5, <2>4 DEF UpdateDevice, TypeOK, row
    <3>2. call' \in [Threads -> CallState]
      BY <1>0, <1>5, <2>6 DEF UpdateDevice, Becomes
    <3>3. \A q \in Threads : call'[q] # Idle => call'[q].now <= now
      BY <2>1, <2>6, <2>7 DEF TypeOK
    <3> QED BY <1>5, <3>1, <3>2, <3>3 DEF UpdateDevice, TypeOK
  <2>10. InFlight'
    <3>1. Holds(p)'
      BY <2>7, HoldsNothing DEF NextItem
    <3>2. ASSUME NEW q \in Threads \ {p} PROVE Holds(q)'
      <4>1. Holds(q) /\ call'[q] = call[q]
        BY <2>7 DEF InFlight
      <4>2. call[q].op = "update" => call[q].id \in Rows
        BY CallKinds DEF Updates
      <4> QED BY <1>5, <2>8, <4>1, <4>2 DEF Holds, UpdateDevice
    <3> QED BY <3>1, <3>2 DEF InFlight
  <2>11. Blank' /\ DuplicatesAreRaced'
    BY <1>5, <2>8 DEF Blank, DuplicatesAreRaced, UpdateDevice
  <2> QED BY <2>9, <2>10, <2>11
<1>6. ASSUME FailItem(p) PROVE IInv'
  <2> DEFINE c == call[p]
  <2>1. c \in Inserts \cup Updates /\ c.now <= now
    BY <1>6, CallKinds DEF FailItem
  <2>2. NextItem(c) \in Items /\ NextItem(c).now = c.now
    BY <2>1, NextCalls DEF NextItem
  <2>3. NextItem(c) \in CallState
    BY <2>2, CallsOfScans
  <2>4. call'[p] = NextItem(c) /\ Becomes(p, NextItem(c))
    BY <1>0, <1>6 DEF FailItem, Becomes
  <2>5. Holds(p)'
    BY <2>4, HoldsNothing DEF NextItem
  <2>6. faults' \in 0..MaxFaults
    BY <1>6, BoundAssumption DEF FailItem, TypeOK
  <2> QED BY <1>6, <2>1, <2>2, <2>3, <2>4, <2>5, <2>6, OwnStep DEF FailItem
<1>7. ASSUME FinishScan(p) PROVE IInv'
  <2>1. UNCHANGED <<device, author, announced, now, faults>>
    BY <1>7, NothingIsMarked DEF FinishScan
  <2>2. Becomes(p, Idle) /\ call'[p] = Idle
    BY <1>0, <1>7 DEF FinishScan, Becomes
  <2>3. Holds(p)'
    BY <2>2, HoldsNothing DEF Idle
  <2>4. Idle \in CallState
    BY DEF CallState
  <2> QED BY <2>1, <2>2, <2>3, <2>4, OwnStep DEF TypeOK
<1> QED BY <1>1, <1>2, <1>3, <1>4, <1>5, <1>6, <1>7 DEF Scan

(* It is preserved by every step.                                          *)
LEMMA InvariantStep == IInv /\ [Next]_vars => IInv'
<1> SUFFICES ASSUME IInv, [Next]_vars PROVE IInv'
  OBVIOUS
<1> USE DEF IInv
<1>1. ASSUME NEW p \in Threads, Scan(p) PROVE IInv'
  BY <1>1, ScanStep
<1>2. ASSUME NEW i \in Rows, NEW known \in BOOLEAN, SetKnown(i, known) PROVE IInv'
  <2> DEFINE row == [device[i] EXCEPT !.known = known, !.last_seen = now]
  <2>1. Existing(i) /\ device[i] \in Present /\ now \in Nat
    BY <1>2, PresentRow, BoundAssumption DEF SetKnown, TypeOK
  <2>2. row \in Present /\ row.ip = device[i].ip
    BY <2>1 DEF Present
  <2>3. device' = [device EXCEPT ![i] = row]
    BY <1>2 DEF SetKnown
  <2> HIDE DEF row
  <2> QED BY <1>2, <2>1, <2>2, <2>3, AttributeStep DEF SetKnown
<1>3. ASSUME Tick PROVE IInv'
  <2>1. TypeOK'
    <3>1. now' \in 0..MaxTime /\ now <= now'
      BY <1>3, BoundAssumption DEF Tick, TypeOK
    <3>2. \A p \in Threads : call[p] # Idle => call[p].now <= now'
      <4> SUFFICES ASSUME NEW p \in Threads, call[p] # Idle PROVE call[p].now <= now'
        OBVIOUS
      <4>1. call[p].now \in Nat /\ call[p].now <= now
        BY DEF TypeOK, CallState
      <4> QED BY <3>1, <4>1 DEF TypeOK
    <3> QED BY <1>3, <3>1, <3>2 DEF Tick, TypeOK
  <2>2. InFlight' /\ Blank' /\ DuplicatesAreRaced'
    BY <1>3 DEF Tick, InFlight, Holds, Blank, DuplicatesAreRaced, Existing
  <2> QED BY <2>1, <2>2
<1>4. CASE UNCHANGED vars
  BY <1>4 DEF vars, TypeOK, InFlight, Holds, Blank, DuplicatesAreRaced, Existing
<1> QED BY <1>1, <1>2, <1>3, <1>4 DEF Next

---------------------------------------------------------------------------
(* The theorems *)

(* The tables and the scans keep their types, and no row is announced      *)
(* twice, whatever is rolled back and however often it is scanned.         *)
THEOREM TypeCorrect == Spec => []TypeOK
<1>1. IInv => TypeOK
  BY DEF IInv
<1> QED BY <1>1, InitInvariant, InvariantStep, PTL DEF Spec

(* Two rows of one address were inserted by two threads: only scans that   *)
(* overlap duplicate a device.                                             *)
THEOREM Duplicates == Spec => []DuplicatesAreRaced
<1>1. IInv => DuplicatesAreRaced
  BY DEF IInv
<1> QED BY <1>1, InitInvariant, InvariantStep, PTL DEF Spec

(* A scan never changes the operator's mark of a device.                   *)
LEMMA MarkStep ==
    ASSUME IInv, [Next]_vars, NEW i \in Rows, Existing(i), device'[i] # device[i],
           call' # call
    PROVE  device'[i].known = device[i].known
<1> USE DEF IInv
<1>1. PICK p \in Threads : Scan(p)
  BY DEF Next, SetKnown, Tick, vars
<1>2. CASE UpdateDevice(p)
  <2>1. device' = [device EXCEPT ![call[p].id] = SeenAgain(@, call[p].now)]
    BY <1>2 DEF UpdateDevice
  <2>2. device[i] \in Present
    BY PresentRow
  <2>3. device'[i] = SeenAgain(device[i], call[p].now)
    BY <2>1 DEF TypeOK
  <2> QED BY <2>2, <2>3 DEF SeenAgain, Present
<1>3. CASE \E j \in Rows : InsertDevice(p, j)
  BY <1>3 DEF InsertDevice, TypeOK
<1>4. CASE FinishScan(p)
  BY <1>4, NothingIsMarked
<1> QED BY <1>1, <1>2, <1>3, <1>4
       DEF Scan, StartScan, SelectDevice, AnnounceDevice, FailItem

(* For any number of scans in flight, the operator's mark stands.          *)
THEOREM Marks == Spec => MarkSurvivesScans
<1>1. IInv /\ [Next]_vars =>
        [\A i \in Rows :
            Existing(i) /\ device'[i] # device[i] /\ call' # call
                => device'[i].known = device[i].known]_vars
  BY MarkStep
<1> QED BY <1>1, InitInvariant, InvariantStep, PTL DEF Spec, MarkSurvivesScans
---------------------------------------------------------------------------
(* Nothing that was recorded is lost *)

(* A row stays, with its address, and comes about by an insert alone.      *)
LEMMA RowStep ==
    ASSUME IInv, [Next]_vars, NEW i \in Rows
    PROVE  /\ Existing(i) => Existing(i)' /\ device'[i].ip = device[i].ip
           /\ Existing(i)' /\ ~Existing(i) => \E p \in Threads : InsertDevice(p, i)
<1> USE DEF IInv
<1>1. CASE UNCHANGED device
  BY <1>1 DEF Existing
<1>2. ASSUME NEW p \in Threads, NEW j \in Rows, InsertDevice(p, j)
      PROVE  /\ Existing(i) => Existing(i)' /\ device'[i].ip = device[i].ip
             /\ Existing(i)' /\ ~Existing(i) => InsertDevice(p, i)
  BY <1>2 DEF InsertDevice, TypeOK, Existing
<1>3. ASSUME NEW p \in Threads, UpdateDevice(p)
      PROVE  /\ Existing(i) => Existing(i)' /\ device'[i].ip = device[i].ip
             /\ Existing(i)' => Existing(i)
  <2> DEFINE row == SeenAgain(device[i], call[p].now)
  <2>1. call[p].id \in Rows /\ Existing(call[p].id) /\ call[p].now \in Nat
    BY <1>3, CallKinds DEF UpdateDevice, InFlight, Holds, Updates
  <2>2. device' = [device EXCEPT ![call[p].id] = SeenAgain(@, call[p].now)]
    BY <1>3 DEF UpdateDevice
  <2>3. CASE i = call[p].id
    <3>1. device'[i] = row
      BY <2>2, <2>3 DEF TypeOK
    <3>2. row \in Present /\ row.ip = device[i].ip
      BY <2>1, <2>3, PresentRow DEF SeenAgain, Present
    <3> HIDE DEF row
    <3> QED BY <2>1, <2>3, <3>1, <3>2, PresentExists DEF Existing
  <2>4. CASE i # call[p].id
    BY <2>2, <2>4 DEF Existing, TypeOK
  <2> QED BY <2>3, <2>4
<1>4. ASSUME NEW j \in Rows, NEW known \in BOOLEAN, SetKnown(j, known)
      PROVE  /\ Existing(i) => Existing(i)' /\ device'[i].ip = device[i].ip
             /\ Existing(i)' => Existing(i)
  <2>1. CASE i = j
    <3>1. device[i] \in Present /\ Existing(i) /\ now \in Nat
      BY <1>4, <2>1, PresentRow, BoundAssumption DEF SetKnown, TypeOK
    <3>2. device'[i] = [device[i] EXCEPT !.known = known, !.last_seen = now]
      BY <1>4, <2>1 DEF SetKnown, TypeOK
    <3>3. device'[i] \in Present /\ device'[i].ip = device[i].ip
      BY <3>1, <3>2 DEF Present
    <3>4. device'[i] # NoDevice
      BY <3>3, PresentExists
    <3> QED BY <3>1, <3>3, <3>4 DEF Existing
  <2>2. CASE i # j
    BY <1>4, <2>2 DEF SetKnown, Existing, TypeOK
  <2> QED BY <2>1, <2>2
<1>5. ASSUME NEW p \in Threads, FinishScan(p)
      PROVE  UNCHANGED device
  BY <1>5, NothingIsMarked
<1> QED BY <1>1, <1>2, <1>3, <1>4, <1>5
       DEF Next, vars, Tick, Scan, StartScan, SelectDevice, AnnounceDevice, FailItem

(* While no item fails, an announcement stands, and a call that is about   *)
(* to announce a row goes on to do so.                                     *)
LEMMA AnnounceStep ==
    ASSUME IInv, [Next]_vars, faults' = 0, NEW i \in Rows
    PROVE  /\ faults = 0
           /\ announced[i] = 1 => announced'[i] = 1
           /\ \A p \in Threads : call[p].op = "announce" /\ call[p].id = i =>
                 announced'[i] = 1 \/ call'[p] = call[p]
<1> USE DEF IInv
<1> DEFINE Kept ==
             /\ faults = 0
             /\ announced[i] = 1 => announced'[i] = 1
             /\ \A p \in Threads : call[p].op = "announce" /\ call[p].id = i =>
                   announced'[i] = 1 \/ call'[p] = call[p]
<1>0. call \in [Threads -> CallState] /\ announced \in [Rows -> 0..1] /\ faults \in Nat
  BY BoundAssumption DEF TypeOK
<1>1. CASE UNCHANGED <<announced, faults, call>>
  BY <1>0, <1>1
<1>2. ASSUME NEW p \in Threads, call[p].op # "announce",
             UNCHANGED <<announced, faults>>,
             \A q \in Threads \ {p} : call'[q] = call[q]
      PROVE  Kept
  BY <1>2
<1>3. ASSUME NEW p \in Threads, AnnounceDevice(p)
      PROVE  Kept
  <2> DEFINE n == call[p].id
  <2>1. n \in Rows /\ announced[n] = 0
    BY <1>3, CallKinds DEF AnnounceDevice, Updates, InFlight, Holds
  <2>2. announced' = [announced EXCEPT ![n] = 1] /\ faults' = faults
    BY <1>3, <2>1 DEF AnnounceDevice
  <2>3. \A q \in Threads \ {p} : call'[q] = call[q]
    BY <1>0, <1>3 DEF AnnounceDevice, Becomes
  <2> QED BY <1>0, <2>1, <2>2, <2>3
<1>4. ASSUME NEW p \in Threads, Scan(p)
      PROVE  Kept
  <2> USE <1>0 DEF Becomes
  <2>1. ASSUME NEW seen \in SUBSET Ips, StartScan(p, seen) PROVE Kept
    BY <1>2, <2>1 DEF StartScan, Idle
  <2>2. ASSUME NEW ip \in Ips, SelectDevice(p, ip) PROVE Kept
    BY <1>2, <2>2 DEF SelectDevice
  <2>3. ASSUME NEW j \in Rows, InsertDevice(p, j) PROVE Kept
    BY <1>2, <2>3 DEF InsertDevice
  <2>4. ASSUME UpdateDevice(p) PROVE Kept
    BY <1>2, <2>4 DEF UpdateDevice
  <2>5. ASSUME FailItem(p) PROVE FALSE
    BY <2>5 DEF FailItem
  <2>6. ASSUME FinishScan(p) PROVE Kept
    BY <1>2, <2>6 DEF FinishScan
  <2> QED BY <1>3, <1>4, <2>1, <2>2, <2>3, <2>4, <2>5, <2>6 DEF Scan
<1> QED BY <1>1, <1>4 DEF Next, vars, SetKnown, Tick

(* The row that a thread inserts is the one that it goes on to announce.   *)
LEMMA InsertAnnounces ==
    ASSUME IInv, NEW p \in Threads, NEW i \in Rows, InsertDevice(p, i)
    PROVE  call'[p].op = "announce" /\ call'[p].id = i
BY DEF IInv, TypeOK, InsertDevice, Becomes, Announcing

(* However scans overlap, no new device goes unannounced unless an item    *)
(* failed.                                                                 *)
THEOREM Announcements == Spec => []NewDevicesAreAnnounced
<1>1. Init => NewDevicesAreAnnounced
  BY DEF Init, NewDevicesAreAnnounced, Existing
<1>2. IInv /\ NewDevicesAreAnnounced /\ [Next]_vars => NewDevicesAreAnnounced'
  <2> SUFFICES ASSUME IInv, NewDevicesAreAnnounced, [Next]_vars, faults' = 0,
                      NEW i \in Rows, Existing(i)'
               PROVE  \/ announced'[i] = 1
                      \/ \E p \in Threads : call'[p].op = "announce" /\ call'[p].id = i
    BY DEF NewDevicesAreAnnounced
  <2>1. CASE Existing(i)
    BY <2>1, AnnounceStep DEF NewDevicesAreAnnounced
  <2>2. CASE ~Existing(i)
    BY <2>2, RowStep, InsertAnnounces
  <2> QED BY <2>1, <2>2
<1> QED BY <1>1, <1>2, InitInvariant, InvariantStep, PTL DEF Spec

---------------------------------------------------------------------------
(* What a scan has got past *)

Recorded(ip) == \E i \in Rows : Existing(i) /\ device[i].ip = ip

\* The addresses that the call of a thread has behind it, up to the one it
\* is about to insert, have a row.
Passed(c) ==
    c # Idle =>
        \A ip \in c.seen \ c.todo : Recorded(ip) \/ (c.op = "insert" /\ c.ip = ip)

PassedAreRecorded == faults = 0 => \A p \in Threads : Passed(call[p])

(* A recorded address stays recorded.                                      *)
LEMMA RecordedStep ==
    ASSUME IInv, [Next]_vars, NEW ip, Recorded(ip)
    PROVE  Recorded(ip)'
<1>1. PICK i \in Rows : Existing(i) /\ device[i].ip = ip
  BY DEF Recorded
<1>2. Existing(i)' /\ device'[i].ip = ip
  BY <1>1, RowStep
<1> QED BY <1>2 DEF Recorded

(* What the thread of a step has passed has a row after the step.          *)
LEMMA OwnPassed ==
    ASSUME IInv, NEW p \in Threads, Scan(p), faults' = faults, Passed(call[p]),
           \A ip : Recorded(ip) => Recorded(ip)'
    PROVE  Passed(call[p])'
<1> USE DEF Passed
<1>0. call \in [Threads -> CallState] /\ faults \in Nat
  BY BoundAssumption DEF IInv, TypeOK
<1>1. ASSUME NEW seen \in SUBSET Ips, StartScan(p, seen) PROVE Passed(call[p])'
  BY <1>0, <1>1 DEF StartScan, Becomes
<1>2. ASSUME NEW ip \in Ips, SelectDevice(p, ip) PROVE Passed(call[p])'
  <2>1. call[p] # Idle /\ call[p].op # "insert"
    BY <1>2 DEF SelectDevice, Idle
  <2>2. CASE call'[p] = Inserting(call[p], ip)
    BY <2>1, <2>2 DEF Inserting
  <2>3. ASSUME NEW i \in Rows, IsDevice(i, ip), call'[p] = Updating(call[p], ip, i)
        PROVE  Passed(call[p])'
    <3>1. Recorded(ip)
      BY <2>3 DEF IsDevice, Recorded
    <3> QED BY <2>1, <2>3, <3>1 DEF Updating
  <2> QED BY <1>0, <1>2, <2>2, <2>3 DEF SelectDevice, Becomes
<1>3. ASSUME NEW i \in Rows, InsertDevice(p, i) PROVE Passed(call[p])'
  <2>1. call[p] \in Inserts /\ call[p] # Idle
    BY <1>3, CallKinds DEF InsertDevice, IInv
  <2>2. NewDevice(call[p].ip, call[p].now) \in Present
    BY <2>1 DEF NewDevice, Present, Inserts
  <2>3. device'[i] # NoDevice /\ device'[i].ip = call[p].ip
    BY <1>3, <2>2, PresentExists DEF InsertDevice, IInv, TypeOK, NewDevice
  <2>4. call'[p] = Announcing(call[p], i)
    BY <1>0, <1>3 DEF InsertDevice, Becomes
  <2>5. \A ip : ip = call[p].ip => \E j \in Rows : device'[j] # NoDevice /\ device'[j].ip = ip
    BY <2>3
  <2>6. \A ip : ip = call[p].ip => Recorded(ip)'
    BY <2>5 DEF Recorded, Existing
  <2> QED BY <2>1, <2>4, <2>6 DEF Announcing
<1>4. ASSUME AnnounceDevice(p) \/ UpdateDevice(p) PROVE Passed(call[p])'
  <2>1. call[p].op \in {"announce", "update"} /\ call'[p] = NextItem(call[p])
    BY <1>0, <1>4 DEF AnnounceDevice, UpdateDevice, Becomes
  <2> QED BY <2>1 DEF NextItem, Idle
<1>5. ASSUME FailItem(p) PROVE FALSE
  BY <1>0, <1>5 DEF FailItem
<1>6. ASSUME FinishScan(p) PROVE Passed(call[p])'
  BY <1>0, <1>6 DEF FinishScan, Becomes
<1> QED BY <1>1, <1>2, <1>3, <1>4, <1>5, <1>6 DEF Scan

(* A call moves by a step of its own scan, and faults are never taken back. *)
LEMMA CallStep ==
    ASSUME IInv, [Next]_vars, NEW q \in Threads
    PROVE  /\ call'[q] = call[q] \/ Scan(q)
           /\ faults' = 0 => faults = 0
<1>0. call \in [Threads -> CallState] /\ faults \in Nat
  BY BoundAssumption DEF IInv, TypeOK
<1>1. ASSUME NEW p \in Threads, Scan(p)
      PROVE  /\ \A x \in Threads \ {p} : call'[x] = call[x]
             /\ faults' = 0 => faults = 0
  <2>1. CASE FailItem(p)
    BY <1>0, <2>1 DEF FailItem, Becomes
  <2>2. ASSUME NEW seen \in SUBSET Ips, StartScan(p, seen)
        PROVE  faults' = faults /\ \A x \in Threads \ {p} : call'[x] = call[x]
    BY <1>0, <2>2 DEF StartScan, Becomes
  <2>3. ASSUME NEW ip \in Ips, SelectDevice(p, ip)
        PROVE  faults' = faults /\ \A x \in Threads \ {p} : call'[x] = call[x]
    BY <1>0, <2>3 DEF SelectDevice, Becomes
  <2>4. ASSUME NEW i \in Rows, InsertDevice(p, i)
        PROVE  faults' = faults /\ \A x \in Threads \ {p} : call'[x] = call[x]
    BY <1>0, <2>4 DEF InsertDevice, Becomes
  <2>5. CASE AnnounceDevice(p) \/ UpdateDevice(p) \/ FinishScan(p)
    BY <1>0, <2>5 DEF AnnounceDevice, UpdateDevice, FinishScan, Becomes
  <2> QED BY <1>1, <2>1, <2>2, <2>3, <2>4, <2>5 DEF Scan
<1>2. CASE UNCHANGED <<call, faults>>
  BY <1>2
<1> QED BY <1>1, <1>2 DEF Next, vars, SetKnown, Tick

(* As long as no item fails, every address that a scan saw and has got     *)
(* past has a row, also while other scans record the same addresses.       *)
THEOREM Completeness == Spec => []SeenIsRecorded
<1>1. Init => PassedAreRecorded
  BY DEF Init, PassedAreRecorded, Passed
<1>2. IInv /\ PassedAreRecorded /\ [Next]_vars => PassedAreRecorded'
  <2> SUFFICES ASSUME IInv, PassedAreRecorded, [Next]_vars, faults' = 0,
                      NEW q \in Threads
               PROVE  Passed(call[q])'
    BY DEF PassedAreRecorded
  <2>1. faults = 0
    BY CallStep
  <2>2. Passed(call[q]) /\ \A ip : Recorded(ip) => Recorded(ip)'
    BY <2>1, RecordedStep DEF PassedAreRecorded
  <2>3. CASE call'[q] = call[q]
    BY <2>2, <2>3 DEF Passed
  <2>4. CASE Scan(q)
    BY <2>1, <2>2, <2>4, OwnPassed
  <2>5. call'[q] = call[q] \/ Scan(q)
    BY CallStep
  <2> QED BY <2>3, <2>4, <2>5
<1>3. PassedAreRecorded => SeenIsRecorded
  BY DEF PassedAreRecorded, Passed, SeenIsRecorded, Recorded, Idle
<1> QED BY <1>1, <1>2, <1>3, InitInvariant, InvariantStep, PTL DEF Spec

---------------------------------------------------------------------------
(* Database maintenance *)

Active == [op : Stages, kind : Kinds, source : Files, target : Files,
           replace : BOOLEAN, trusted : BOOLEAN]

\* A backup copies the live file, a restore copies into the temporary one.
BacksUp(c) == c.kind = "backup" /\ c.source = "live" /\ c.target \in Backups
Restores(c) == c.kind = "restore" /\ c.source \in Backups /\ c.target = "temp"

FileTypes ==
    /\ file \in [Files -> Int] /\ journal \in [Files -> Int]
    /\ version \in Nat /\ kills \in Nat /\ raised \in Nat
    /\ promised \in Int /\ promised \in past
    /\ mispaired \in BOOLEAN
    /\ reported \subseteq Backups
    /\ command \in [Commands -> {NoCommand} \cup Active]
    /\ \A p \in Commands :
          command[p] # NoCommand => BacksUp(command[p]) \/ Restores(command[p])

\* A source that is trusted is a backup that was reported.
Trusts ==
    \A p \in Commands : command[p] # NoCommand /\ command[p].trusted =>
        command[p].kind = "restore" /\ command[p].source \in reported

\* Who may be in the middle of a commit, and that a restore is alone.
Processes ==
    /\ writing \in {"nobody", "handler", "check"}
    /\ server = "down" => monitor = "off" /\ writing = "nobody"
    /\ server = "stopping" => writing # "handler"
    /\ writing = "check" => monitor \in {"checking", "orphaned"}
    /\ Restoring => server = "down"
    /\ \A p, q \in Commands :
          /\ command[p] # NoCommand /\ command[p].kind = "restore"
          /\ command[q] # NoCommand /\ command[q].kind = "restore"
          => p = q

Nothing == {ABSENT, TORN, BROKEN}

\* The live file has a journal only in a commit, or after a kill in one.
LiveRight ==
    /\ Opened("live") = promised
    /\ file["live"] \notin {ABSENT, BROKEN}
    /\ journal["live"] # ABSENT => file["live"] \in {TORN, promised}
    /\ server # "down" /\ writing = "nobody" => journal["live"] = ABSENT
    /\ past \cap Nothing = {}

\* A torn copy has its journal.
CopyRight(f) ==
    /\ file[f] # BROKEN
    /\ journal[f] \notin {TORN, BROKEN}
    /\ file[f] = TORN => journal[f] # ABSENT
    /\ journal[f] # ABSENT => file[f] \in {TORN, ABSENT, EMPTY}
CopiesRight == \A f \in Files \ {"live"} : CopyRight(f)

\* A file that a command has opened is there, and what it has copied stays what
\* it was, under whatever is done since.
StagesRight ==
    /\ \A p \in Commands : command[p].op = "open" => file[command[p].target] # ABSENT
    /\ \A p \in Commands, d \in Backups :
          command[p].op = "finish" /\ BacksUp(command[p]) /\ command[p].target = d
             => Opened(d) \in past
    /\ \A p \in Commands :
          command[p].op = "finish" /\ Restores(command[p]) =>
             /\ file["temp"] \notin Nothing
             /\ command[p].trusted => file["temp"] \in past

Right == LiveRight /\ CopiesRight /\ StagesRight /\ BackupsAreWhole

\* The live file has no journal outside commits unless something was killed.
Calm == ~mispaired /\ (writing = "nobody" => journal["live"] = ABSENT)

DInv ==
    /\ FileTypes
    /\ Processes
    /\ Trusts
    /\ ~mispaired => Right
    /\ kills = 0 => Calm

(* The contents that are no data are different numbers, and none of data.  *)
LEMMA ContentsDiffer ==
    /\ ABSENT \in Int /\ EMPTY \in Int
    /\ TORN \in Int /\ BROKEN \in Int
    /\ ABSENT # EMPTY /\ ABSENT # TORN
    /\ ABSENT # BROKEN /\ EMPTY # TORN
    /\ EMPTY # BROKEN /\ TORN # BROKEN
    /\ \A n \in Nat : n # ABSENT /\ n # EMPTY
                      /\ n # TORN /\ n # BROKEN
BY DEF ABSENT, EMPTY, TORN, BROKEN

(* Opening a file is what a second opening finds.                          *)
LEMMA OpenedStays ==
    ASSUME NEW f \in Files, file'[f] = Opened(f),
           journal'[f] = ABSENT
    PROVE  Opened(f)' = Opened(f)
BY DEF Opened, Exists

(* A file that nobody touches opens as it did.                             *)
LEMMA OpenedSame ==
    ASSUME NEW f \in Files, file'[f] = file[f], journal'[f] = journal[f]
    PROVE  Opened(f)' = Opened(f)
BY DEF Opened, Exists

(* A torn file opens as its journal, a file without a journal as it is.    *)
LEMMA OpenedIs ==
    ASSUME NEW f \in Files
    PROVE  /\ file[f] = TORN /\ journal[f] # ABSENT
                 => Opened(f) = journal[f]
           /\ journal[f] = ABSENT => Opened(f) = file[f]
           /\ file[f] = ABSENT => Opened(f) = ABSENT
           /\ file[f] # ABSENT => Opened(f) # ABSENT
BY ContentsDiffer DEF Opened, Exists

(* Opening yields a content.                                               *)
LEMMA OpenedType ==
    ASSUME FileTypes, NEW f \in Files
    PROVE  Opened(f) \in Int
BY ContentsDiffer DEF FileTypes, Opened, Exists

(* The paths that commands work on.                                        *)
LEMMA CommandPaths ==
    ASSUME FileTypes, NEW p \in Commands, command[p] # NoCommand
    PROVE  /\ command[p] \in Active /\ command[p].op # "idle"
           /\ command[p].source \in Files /\ command[p].target \in Files
           /\ command[p].target # "live" /\ command[p].target # command[p].source
           /\ command[p].source = "live" \/ command[p].source \in Backups
           /\ "live" \in Files /\ "temp" \in Files
<1>1. command[p] \in Active /\ (BacksUp(command[p]) \/ Restores(command[p]))
  BY DEF FileTypes
<1> QED BY <1>1, PathAssumption DEF Active, Kinds, Stages, BacksUp, Restores, Files

(* The next stage of a command.                                            *)
LEMMA NextStage ==
    ASSUME NEW c \in Active, NEW o \in Stages
    PROVE  /\ At(c, o) \in Active
           /\ At(c, o).op = o /\ At(c, o).kind = c.kind
           /\ At(c, o).source = c.source /\ At(c, o).target = c.target
           /\ At(c, o).trusted = c.trusted
           /\ [At(c, o) EXCEPT !.target = c.target] = At(c, o)
BY DEF Active, Kinds, Stages, At

(* What a step does to a file that is not the live one.                    *)
LEMMA OtherFiles ==
    ASSUME FileTypes, [DatabaseNext]_databaseVars, NEW f \in Files, f # "live"
    PROVE  \/ file'[f] = file[f] /\ journal'[f] = journal[f]
           \/ /\ file'[f] = Opened(f) /\ journal'[f] = ABSENT
              /\ Unlocked(f) \/ raised' = raised + 1
           \/ file[f] = ABSENT /\ file'[f] = EMPTY /\ journal'[f] = journal[f]
           \/ \E p \in Commands :
                 BeginCopy(p) /\ command[p].target = f
           \/ \E p \in Commands :
                 EndCopy(p) /\ command[p].target = f
           \/ /\ f = "temp" /\ file'[f] = ABSENT
              /\ journal'[f] = journal[f] \/ journal'[f] = ABSENT
              /\ \/ CleanUp
                 \/ \E p \in Commands :
                       /\ command[p] # NoCommand /\ Restores(command[p])
                       /\ FinishRestore(p) \/ FailCommand(p)
<1>0. file \in [Files -> Int] /\ journal \in [Files -> Int]
  BY DEF FileTypes
<1>1. CASE UNCHANGED databaseVars
  BY <1>1 DEF databaseVars
<1>2. CASE CleanUp
  BY <1>0, <1>2 DEF CleanUp
<1>3. CASE Backend
  BY <1>0, <1>3 DEF Backend, StartServer, BeginCommit,
        EndCommit, Monitor, BeginCheck, EndCheck,
        MonitorStops, GiveUpWaiting, StopServer, Exit,
        KillServer
<1>4. ASSUME NEW p \in Commands, Command(p)
      PROVE  \/ file'[f] = file[f] /\ journal'[f] = journal[f]
             \/ /\ file'[f] = Opened(f) /\ journal'[f] = ABSENT
                /\ Unlocked(f) \/ raised' = raised + 1
             \/ file[f] = ABSENT /\ file'[f] = EMPTY /\ journal'[f] = journal[f]
             \/ BeginCopy(p) /\ command[p].target = f
             \/ EndCopy(p) /\ command[p].target = f
             \/ /\ f = "temp" /\ file'[f] = ABSENT
                /\ journal'[f] = journal[f] \/ journal'[f] = ABSENT
                /\ command[p] # NoCommand /\ Restores(command[p])
                /\ FinishRestore(p) \/ FailCommand(p)
  <2>1. CASE \E d \in Backups : StartBackup(p, d)
    BY <2>1, <1>0 DEF StartBackup
  <2>2. CASE \E s \in Backups, replace \in BOOLEAN : StartRestore(p, s, replace)
    <3>1. PICK s \in Backups, replace \in BOOLEAN : StartRestore(p, s, replace)
      BY <2>2
    <3>2. /\ file' = [file EXCEPT ![s] = Opened(s)]
          /\ journal' = [journal EXCEPT ![s] = ABSENT]
          /\ Unlocked(s)
      BY <3>1 DEF StartRestore
    <3> QED BY <3>2, <1>0
  <2>3. CASE BeginCopy(p)
    <3>1. command[p] # NoCommand
      BY <2>3 DEF BeginCopy, NoCommand
    <3>2. PICK t \in Files : t = command[p].target
      BY <3>1, CommandPaths
    <3>3. /\ journal' = [journal EXCEPT ![t] = Before(t)]
          /\ file' = [file EXCEPT ![t] = TORN]
      BY <2>3, <3>2 DEF BeginCopy
    <3> QED BY <2>3, <3>2, <3>3, <1>0
  <2>9. CASE Connect(p)
    <3>1. command[p] # NoCommand
      BY <2>9 DEF Connect, NoCommand
    <3>2. PICK t \in Files : t = command[p].target
      BY <3>1, CommandPaths
    <3>3. /\ journal' = journal
          /\ file' = [file EXCEPT ![t] = IF file[t] = ABSENT THEN EMPTY ELSE file[t]]
      BY <2>9, <3>2 DEF Connect, Written
    <3> QED BY <3>3, <1>0
  <2>4. CASE EndCopy(p)
    <3>1. command[p] # NoCommand
      BY <2>4 DEF EndCopy, NoCommand
    <3>2. PICK t \in Files, s \in Files :
             t = command[p].target /\ s = command[p].source
      BY <3>1, CommandPaths
    <3>3. /\ file' = [file EXCEPT ![s] = Opened(s), ![t] = Opened(s)]
          /\ journal' = [journal EXCEPT ![s] = ABSENT, ![t] = ABSENT]
          /\ Unlocked(s)
      BY <2>4, <3>2 DEF EndCopy
    <3> QED BY <2>4, <3>2, <3>3, <1>0
  <2>5. CASE FinishBackup(p)
    BY <2>5 DEF FinishBackup
  <2>6. CASE FinishRestore(p)
    <3>1. command[p] # NoCommand /\ command[p].kind = "restore"
      BY <2>6 DEF FinishRestore, NoCommand
    <3>2. Restores(command[p])
      BY <3>1 DEF FileTypes, BacksUp, Restores
    <3>3. f # "temp" => file'[f] = file[f] /\ journal'[f] = journal[f]
      BY <2>6, <1>0 DEF FinishRestore
    <3>4. f = "temp" => file'[f] = ABSENT /\ journal'[f] = journal[f]
      BY <2>6, <1>0 DEF FinishRestore
    <3> QED BY <2>6, <3>1, <3>2, <3>3, <3>4
  <2>7. CASE FailCommand(p)
    <3>1. command[p] # NoCommand /\ raised' = raised + 1
      BY <2>7 DEF FailCommand
    <3>2. PICK t \in Files : t = command[p].target
      BY <3>1, CommandPaths
    <3>3. /\ file' = [file EXCEPT ![t] = IF command[p].kind = "restore" THEN ABSENT
                                         ELSE IF command[p].op = "copying" THEN Opened(t)
                                         ELSE file[t]]
          /\ journal' = [journal EXCEPT ![t] = IF command[p].op = "copying" THEN ABSENT
                                               ELSE journal[t]]
      BY <2>7, <3>2 DEF FailCommand
    <3>4. CASE f # t
      BY <3>3, <3>4, <1>0
    <3>5. CASE f = t
      <4>1. /\ file'[f] = IF command[p].kind = "restore" THEN ABSENT
                          ELSE IF command[p].op = "copying" THEN Opened(f) ELSE file[f]
            /\ journal'[f] = IF command[p].op = "copying" THEN ABSENT ELSE journal[f]
        BY <3>3, <3>5, <1>0
      <4>2. command[p].kind = "restore" => f = "temp" /\ Restores(command[p])
        BY <3>1, <3>2, <3>5 DEF FileTypes, BacksUp, Restores
      <4> QED BY <2>7, <3>1, <4>1, <4>2
    <3> QED BY <3>4, <3>5
  <2>8. CASE KillCommand(p)
    BY <2>8 DEF KillCommand
  <2> QED BY <1>4, <2>1, <2>2, <2>3, <2>4, <2>5, <2>6, <2>7, <2>8, <2>9 DEF Command
<1> QED BY <1>1, <1>2, <1>3, <1>4 DEF DatabaseNext

(* The database as it is created.                                          *)
LEMMA DatabaseBegins == ASSUME DatabaseInit PROVE DInv
<1> USE DEF DatabaseInit
<1>0. "live" \in Files
  BY DEF Files
<1>1. FileTypes
  <2>1. file \in [Files -> Int] /\ journal \in [Files -> Int]
    BY ContentsDiffer
  <2>2. /\ command \in [Commands -> {NoCommand} \cup Active]
        /\ \A p \in Commands : command[p] = NoCommand
    BY Zenon
  <2>3. version \in Nat /\ kills \in Nat /\ raised \in Nat /\ promised \in Int
    OBVIOUS
  <2>4. promised \in past /\ mispaired \in BOOLEAN /\ reported \subseteq Backups
    BY Zenon
  <2> QED BY <2>1, <2>2, <2>3, <2>4, Zenon DEF FileTypes
<1>2. \A p \in Commands : command[p] = NoCommand /\ command[p].op = "idle"
  BY DEF NoCommand
<1>3. Processes
  BY <1>2 DEF Processes, Restoring
<1>4. file["live"] = 0 /\ Opened("live") = 0
  BY <1>0, OpenedIs
<1>5. \A f \in Files \ {"live"} :
         file[f] = ABSENT /\ journal[f] = ABSENT
  OBVIOUS
<1>6. Right
  <2>1. LiveRight
    BY <1>0, <1>4, ContentsDiffer DEF LiveRight, Nothing
  <2>2. CopiesRight
    BY <1>5, ContentsDiffer DEF CopiesRight, CopyRight
  <2>3. StagesRight
    BY <1>2 DEF StagesRight
  <2> QED BY <2>1, <2>2, <2>3 DEF Right, BackupsAreWhole
<1>7. Calm /\ Trusts
  BY <1>0, <1>2 DEF Calm, Trusts
<1> QED BY <1>1, <1>3, <1>6, <1>7 DEF DInv

(* The types of a step's file contents.                                    *)
LEMMA ContentTypes ==
    ASSUME FileTypes, [DatabaseNext]_databaseVars
    PROVE  file' \in [Files -> Int] /\ journal' \in [Files -> Int]
<1>0. /\ file \in [Files -> Int] /\ journal \in [Files -> Int]
      /\ \A f \in Files : Opened(f) \in Int
      /\ \A f \in Files : Before(f) \in Int
      /\ "live" \in Files /\ "temp" \in Files /\ Backups \subseteq Files
      /\ version + 1 \in Int
  BY OpenedType, ContentsDiffer DEF FileTypes, Before, Files
<1>1. CASE UNCHANGED databaseVars
  BY <1>0, <1>1 DEF databaseVars
<1>2. CASE CleanUp
  BY <1>0, <1>2, ContentsDiffer DEF CleanUp
<1>3. CASE StartServer
  BY <1>0, <1>3, ContentsDiffer DEF StartServer
<1>4. CASE \E w \in {"handler", "check"} : BeginCommit(w)
  BY <1>0, <1>4, ContentsDiffer DEF BeginCommit
<1>5. CASE EndCommit
  BY <1>0, <1>5, ContentsDiffer DEF EndCommit
<1>6. CASE Monitor \/ StopServer \/ Exit \/ KillServer
  BY <1>0, <1>6 DEF Monitor, BeginCheck, EndCheck,
        MonitorStops, GiveUpWaiting, StopServer, Exit,
        KillServer
<1>7. ASSUME NEW p \in Commands, Command(p)
      PROVE  file' \in [Files -> Int] /\ journal' \in [Files -> Int]
  <2>0. command[p] # NoCommand =>
           command[p].target \in Files /\ command[p].source \in Files
    BY <1>7, CommandPaths
  <2>1. CASE \E d \in Backups : StartBackup(p, d)
    BY <2>1, <1>0, ContentsDiffer DEF StartBackup
  <2>2. CASE \E s \in Backups, replace \in BOOLEAN : StartRestore(p, s, replace)
    BY <2>2, <1>0, ContentsDiffer DEF StartRestore
  <2>3. CASE BeginCopy(p)
    <3>1. command[p].target \in Files
      BY <2>0, <2>3 DEF BeginCopy, NoCommand
    <3> QED BY <2>3, <3>1, <1>0, ContentsDiffer DEF BeginCopy
  <2>8. CASE Connect(p)
    <3>1. command[p].target \in Files
      BY <2>0, <2>8 DEF Connect, NoCommand
    <3> QED BY <2>8, <3>1, <1>0, ContentsDiffer DEF Connect, Written
  <2>4. CASE EndCopy(p)
    <3>1. command[p].source \in Files /\ command[p].target \in Files
      BY <2>0, <2>4 DEF EndCopy, NoCommand
    <3> QED BY <2>4, <3>1, <1>0, ContentsDiffer DEF EndCopy
  <2>5. CASE FinishBackup(p) \/ KillCommand(p)
    BY <2>5, <1>0 DEF FinishBackup, KillCommand
  <2>6. CASE FinishRestore(p)
    BY <2>6, <1>0, ContentsDiffer DEF FinishRestore
  <2>7. CASE FailCommand(p)
    <3>1. command[p].target \in Files
      BY <2>0, <2>7 DEF FailCommand
    <3> QED BY <2>7, <3>1, <1>0, ContentsDiffer DEF FailCommand
  <2> QED BY <1>7, <2>1, <2>2, <2>3, <2>4, <2>5, <2>6, <2>7, <2>8 DEF Command
<1> QED BY <1>1, <1>2, <1>3, <1>4, <1>5, <1>6, <1>7 DEF DatabaseNext, Backend

(* What a step does to the commands: one of them goes on, begins or ends.  *)
LEMMA CommandStep ==
    ASSUME FileTypes, [DatabaseNext]_databaseVars
    PROVE  /\ command' \in [Commands -> {NoCommand} \cup Active]
           /\ \A p \in Commands :
                 \/ command'[p] = command[p]
                 \/ command'[p] = NoCommand
                 \/ /\ command[p] # NoCommand /\ command'[p] # NoCommand
                    /\ command'[p].kind = command[p].kind
                    /\ command'[p].source = command[p].source
                    /\ command'[p].target = command[p].target
                    /\ command'[p].trusted = command[p].trusted
                 \/ /\ command[p] = NoCommand /\ command'[p] # NoCommand
                    /\ command'[p].op = "begin"
                    /\ \/ BacksUp(command'[p]) /\ ~command'[p].trusted
                       \/ /\ Restores(command'[p]) /\ server = "down" /\ ~Restoring
                          /\ command'[p].trusted => command'[p].source \in reported
           /\ \A p, q \in Commands :
                 command'[p] # command[p] /\ command'[q] # command[q] => p = q
<1>0. command \in [Commands -> {NoCommand} \cup Active]
  BY DEF FileTypes
<1>1. CASE UNCHANGED command
  BY <1>0, <1>1
<1>2. ASSUME NEW p \in Commands, NEW c \in {NoCommand} \cup Active,
             command' = [command EXCEPT ![p] = c]
      PROVE  /\ command' \in [Commands -> {NoCommand} \cup Active]
             /\ command'[p] = c /\ \A q \in Commands \ {p} : command'[q] = command[q]
  BY <1>0, <1>2
<1>3. ASSUME NEW p \in Commands, NEW c \in {NoCommand} \cup Active,
             command' = [command EXCEPT ![p] = c], command[p] # NoCommand,
             c = NoCommand \/ (/\ c # NoCommand
                                   /\ c.kind = command[p].kind
                                   /\ c.source = command[p].source
                                   /\ c.target = command[p].target
                      /\ c.trusted = command[p].trusted
                                   /\ c.trusted = command[p].trusted)
      PROVE  \A q \in Commands :
                 \/ command'[q] = command[q]
                 \/ command'[q] = NoCommand
                 \/ /\ command[q] # NoCommand /\ command'[q] # NoCommand
                    /\ command'[q].kind = command[q].kind
                    /\ command'[q].source = command[q].source
                    /\ command'[q].target = command[q].target
                    /\ command'[q].trusted = command[q].trusted
  BY <1>2, <1>3
<1>4. ASSUME NEW p \in Commands, Command(p)
      PROVE  \E c \in {NoCommand} \cup Active :
                /\ command' = [command EXCEPT ![p] = c]
                /\ \/ c = NoCommand
                   \/ /\ command[p] # NoCommand /\ c # NoCommand
                      /\ c.kind = command[p].kind
                      /\ c.source = command[p].source
                      /\ c.target = command[p].target
                      /\ c.trusted = command[p].trusted
                   \/ /\ command[p] = NoCommand /\ c # NoCommand
                      /\ c.op = "begin"
                      /\ \/ BacksUp(c) /\ ~c.trusted
                         \/ /\ Restores(c) /\ server = "down" /\ ~Restoring
                            /\ c.trusted => c.source \in reported
  <2>1. CASE \E d \in Backups : StartBackup(p, d)
    <3>1. PICK d \in Backups : StartBackup(p, d)
      BY <2>1
    <3> DEFINE c == [op |-> "begin", kind |-> "backup", source |-> "live", target |-> d,
                     replace |-> FALSE, trusted |-> FALSE]
    <3>2. c \in Active /\ c # NoCommand /\ c.op = "begin" /\ BacksUp(c) /\ ~c.trusted
      BY DEF Active, Kinds, Stages, NoCommand, Files, BacksUp
    <3>3. \/ command' = [command EXCEPT ![p] = c] /\ command[p] = NoCommand
          \/ command' = [command EXCEPT ![p] = NoCommand]
      BY <3>1 DEF StartBackup, Proceed
    <3> HIDE DEF c
    <3> QED BY <3>2, <3>3
  <2>2. CASE \E s \in Backups, replace \in BOOLEAN : StartRestore(p, s, replace)
    <3>1. PICK s \in Backups, replace \in BOOLEAN : StartRestore(p, s, replace)
      BY <2>2
    <3>4. (s \in reported) \in BOOLEAN
      OBVIOUS
    <3>0. PICK known \in BOOLEAN : known = (s \in reported)
      BY <3>4, Zenon
    <3> DEFINE c == [op |-> "begin", kind |-> "restore", source |-> s, target |-> "temp",
                     replace |-> replace, trusted |-> known]
    <3>2. /\ c \in Active /\ c # NoCommand /\ c.op = "begin" /\ Restores(c)
          /\ c.trusted => c.source \in reported
      BY <3>0 DEF Active, Kinds, Stages, NoCommand, Files, Restores
    <3>3. /\ server = "down" /\ ~Restoring /\ command[p] = NoCommand
          /\ \/ command' = [command EXCEPT ![p] = c]
             \/ command' = [command EXCEPT ![p] = NoCommand]
      BY <3>0, <3>1 DEF StartRestore, Proceed
    <3> HIDE DEF c
    <3> QED BY <3>2, <3>3
  <2>3. CASE BeginCopy(p)
    <3>1. command[p] # NoCommand /\ command[p] \in Active
      BY <2>3, CommandPaths DEF BeginCopy, NoCommand
    <3>2. PICK c \in Active : c = At(command[p], "copying")
      BY <3>1, NextStage DEF Stages
    <3>3. /\ command' = [command EXCEPT ![p] = c]
          /\ c.kind = command[p].kind /\ c.source = command[p].source
          /\ c.target = command[p].target /\ c.trusted = command[p].trusted
      BY <2>3, <3>1, <3>2, NextStage
         DEF Stages, BeginCopy, Proceed
    <3>4. c # NoCommand
      BY <3>2 DEF Active, Kinds, Stages, NoCommand
    <3> QED BY <3>1, <3>3, <3>4
  <2>6. CASE Connect(p)
    <3>1. command[p] # NoCommand /\ command[p] \in Active
      BY <2>6, CommandPaths DEF Connect, NoCommand
    <3>2. PICK c \in Active : c = At(command[p], "open")
      BY <3>1, NextStage DEF Stages
    <3>3. /\ command' = [command EXCEPT ![p] = c]
          /\ c.kind = command[p].kind /\ c.source = command[p].source
          /\ c.target = command[p].target /\ c.trusted = command[p].trusted
      BY <2>6, <3>1, <3>2, NextStage
         DEF Stages, Connect, Proceed, Written
    <3>4. c # NoCommand
      BY <3>2 DEF Active, Kinds, Stages, NoCommand
    <3> QED BY <3>1, <3>3, <3>4
  <2>4. CASE EndCopy(p)
    <3>1. command[p] # NoCommand /\ command[p] \in Active
      BY <2>4, CommandPaths DEF EndCopy, NoCommand
    <3>2. PICK c \in Active : c = At(command[p], "finish")
      BY <3>1, NextStage DEF Stages
    <3>3. /\ command' = [command EXCEPT ![p] = c]
          /\ c.kind = command[p].kind /\ c.source = command[p].source
          /\ c.target = command[p].target /\ c.trusted = command[p].trusted
      BY <2>4, <3>1, <3>2, NextStage DEF Stages, EndCopy, Proceed
    <3>4. c # NoCommand
      BY <3>2 DEF Active, Kinds, Stages, NoCommand
    <3> QED BY <3>1, <3>3, <3>4
  <2>5. CASE FinishBackup(p) \/ FinishRestore(p)
             \/ FailCommand(p) \/ KillCommand(p)
    BY <2>5 DEF FinishBackup, FinishRestore, FailCommand,
                KillCommand, Proceed
  <2> QED BY <1>4, <2>1, <2>2, <2>3, <2>4, <2>5, <2>6 DEF Command
<1>5. CASE \E p \in Commands : Command(p)
  <2>1. PICK p \in Commands : Command(p)
    BY <1>5
  <2>2. PICK c \in {NoCommand} \cup Active :
                /\ command' = [command EXCEPT ![p] = c]
                /\ \/ c = NoCommand
                   \/ /\ command[p] # NoCommand /\ c # NoCommand
                      /\ c.kind = command[p].kind
                      /\ c.source = command[p].source
                      /\ c.target = command[p].target
                      /\ c.trusted = command[p].trusted
                   \/ /\ command[p] = NoCommand /\ c # NoCommand
                      /\ c.op = "begin"
                      /\ \/ BacksUp(c) /\ ~c.trusted
                         \/ /\ Restores(c) /\ server = "down" /\ ~Restoring
                            /\ c.trusted => c.source \in reported
    BY <2>1, <1>4
  <2>3. /\ command' \in [Commands -> {NoCommand} \cup Active]
        /\ command'[p] = c /\ \A q \in Commands \ {p} : command'[q] = command[q]
    BY <2>2, <1>2
  <2> QED BY <2>2, <2>3
<1>6. CASE UNCHANGED databaseVars \/ CleanUp \/ Backend
  <2>1. UNCHANGED command
    BY <1>6 DEF databaseVars, CleanUp, Backend, StartServer,
        BeginCommit, EndCommit, Monitor, BeginCheck,
        EndCheck, MonitorStops, GiveUpWaiting, StopServer,
        Exit, KillServer
  <2> QED BY <2>1, <1>1
<1> QED BY <1>5, <1>6 DEF DatabaseNext

(* Where a stage of a command comes from, and where it goes.               *)
LEMMA StageStep ==
    ASSUME FileTypes, [DatabaseNext]_databaseVars,
           NEW p \in Commands
    PROVE  /\ command'[p].op = "finish" => command'[p] = command[p] \/ EndCopy(p)
           /\ command'[p].op = "open" => command'[p] = command[p] \/ Connect(p)
<1>0. command \in [Commands -> {NoCommand} \cup Active]
  BY DEF FileTypes
<1>1. CASE UNCHANGED command
  BY <1>1
<1>2. ASSUME NEW q \in Commands, Command(q), p # q
      PROVE  command'[p] = command[p]
  BY <1>0, <1>2 DEF Command, StartBackup, StartRestore,
        Connect, BeginCopy, EndCopy, FinishBackup, FinishRestore,
        FailCommand, KillCommand, Proceed
<1>3. ASSUME Command(p)
      PROVE  /\ command'[p].op = "finish" => EndCopy(p)
             /\ command'[p].op = "open" => Connect(p)
  <2>0. NoCommand.op = "idle"
    BY DEF NoCommand
  <2>1. CASE \E d \in Backups : StartBackup(p, d)
    <3>1. command[p] = NoCommand /\ command'[p].op \in {"begin", "idle"}
      BY <2>0, <2>1, <1>0 DEF StartBackup, Proceed
    <3> QED BY <3>1, <2>0
  <2>2. CASE \E s \in Backups, replace \in BOOLEAN : StartRestore(p, s, replace)
    <3>1. command[p] = NoCommand /\ command'[p].op \in {"begin", "idle"}
      BY <2>0, <2>2, <1>0 DEF StartRestore, Proceed
    <3> QED BY <3>1, <2>0
  <2>3. CASE BeginCopy(p)
    <3>1. command[p] # NoCommand
      BY <2>0, <2>3 DEF BeginCopy
    <3>2. command'[p] = At(command[p], "copying")
      BY <2>3, <3>1, <1>0, CommandPaths, NextStage
         DEF Stages, BeginCopy, Proceed
    <3>3. command'[p].op = "copying"
      BY <3>1, <3>2, CommandPaths, NextStage DEF Stages
    <3> QED BY <3>1, <3>3
  <2>6. CASE Connect(p)
    <3>1. command[p] # NoCommand
      BY <2>0, <2>6 DEF Connect
    <3>2. command'[p] = At(command[p], "open")
      BY <2>6, <3>1, <1>0, CommandPaths, NextStage
         DEF Stages, Connect, Proceed, Written
    <3>3. command'[p].op = "open"
      BY <3>1, <3>2, CommandPaths, NextStage DEF Stages
    <3> QED BY <2>6, <3>3
  <2>7. CASE EndCopy(p)
    <3>1. command[p] # NoCommand
      BY <2>0, <2>7 DEF EndCopy
    <3>2. command'[p] = At(command[p], "finish")
      BY <2>7, <1>0 DEF EndCopy, Proceed
    <3>3. command'[p].op = "finish"
      BY <3>1, <3>2, CommandPaths, NextStage DEF Stages
    <3> QED BY <2>7, <3>3
  <2>4. CASE FinishBackup(p) \/ FinishRestore(p)
    <3>1. command[p].op = "finish" /\ command'[p] = NoCommand
      BY <2>4, <1>0 DEF FinishBackup, FinishRestore, Proceed
    <3> QED BY <3>1, <2>0
  <2>5. CASE FailCommand(p) \/ KillCommand(p)
    <3>1. command'[p] = NoCommand
      BY <2>5, <1>0 DEF FailCommand, KillCommand, Proceed
    <3> QED BY <3>1, <2>0
  <2> QED BY <1>3, <2>1, <2>2, <2>3, <2>4, <2>5, <2>6, <2>7 DEF Command
<1>4. CASE \E q \in Commands : Command(q)
  BY <1>2, <1>3, <1>4
<1>5. CASE UNCHANGED databaseVars \/ CleanUp \/ Backend
  <2>1. UNCHANGED command
    BY <1>5 DEF databaseVars, CleanUp, Backend, StartServer,
        BeginCommit, EndCommit, Monitor, BeginCheck,
        EndCheck, MonitorStops, GiveUpWaiting, StopServer,
        Exit, KillServer
  <2> QED BY <2>1, <1>1
<1> QED BY <1>4, <1>5 DEF DatabaseNext

(* What a step does to the histories and the counts.                       *)
LEMMA HistoryStep ==
    ASSUME FileTypes, [DatabaseNext]_databaseVars
    PROVE  /\ version' \in Nat /\ kills' \in Nat /\ raised' \in Nat
           /\ kills' = 0 => kills = 0
           /\ past \subseteq past' /\ promised' \in Int /\ promised' \in past'
           /\ mispaired' \in BOOLEAN /\ (mispaired => mispaired')
           /\ \A d \in reported' : \/ d \in reported
                                   \/ \E p \in Commands :
                                         /\ command[p].op = "finish" /\ BacksUp(command[p])
                                         /\ command[p].target = d
           /\ reported \subseteq reported' /\ reported' \subseteq Backups
<1>0. /\ file \in [Files -> Int] /\ "temp" \in Files
      /\ version \in Nat /\ kills \in Nat /\ raised \in Nat
      /\ promised \in Int /\ promised \in past /\ mispaired \in BOOLEAN
      /\ reported \subseteq Backups
  BY DEF FileTypes, Files
<1>1. CASE UNCHANGED databaseVars \/ CleanUp
  BY <1>0, <1>1 DEF databaseVars, historyVars, backendVars, CleanUp
<1>2. CASE StartServer
  BY <1>0, <1>2 DEF StartServer, Promise
<1>3. CASE EndCommit
  BY <1>0, <1>3 DEF EndCommit, Promise
<1>4. CASE \E w \in {"handler", "check"} : BeginCommit(w)
  BY <1>0, <1>4 DEF BeginCommit, historyVars
<1>5. CASE Monitor \/ StopServer \/ Exit \/ KillServer
  BY <1>0, <1>5 DEF Monitor, BeginCheck, EndCheck,
        MonitorStops, GiveUpWaiting, StopServer, Exit,
        KillServer, historyVars
<1>6. CASE \E p \in Commands :
              \/ \E d \in Backups : StartBackup(p, d)
              \/ \E s \in Backups, replace \in BOOLEAN : StartRestore(p, s, replace)
              \/ Connect(p) \/ BeginCopy(p) \/ EndCopy(p)
              \/ FailCommand(p) \/ KillCommand(p)
  <2>1. /\ UNCHANGED <<historyVars, backendVars>>
        /\ kills' = kills \/ kills' = kills + 1
        /\ raised' = raised \/ raised' = raised + 1
    BY <1>6 DEF StartBackup, StartRestore, Connect, BeginCopy,
          EndCopy, FailCommand, KillCommand
  <2> QED BY <1>0, <2>1 DEF historyVars, backendVars
<1>7. ASSUME NEW p \in Commands, FinishBackup(p)
      PROVE  /\ reported' = reported \cup {command[p].target}
             /\ command[p].op = "finish" /\ BacksUp(command[p])
             /\ UNCHANGED <<version, kills, raised, past, promised, mispaired>>
  <2>1. command[p] # NoCommand /\ command[p].kind = "backup"
    BY <1>7 DEF FinishBackup, NoCommand
  <2>2. BacksUp(command[p])
    BY <2>1 DEF FileTypes, BacksUp, Restores
  <2> QED BY <1>7, <2>2 DEF FinishBackup, backendVars
<1>8. CASE \E p \in Commands : FinishBackup(p)
  BY <1>0, <1>7, <1>8 DEF BacksUp
<1>9. CASE \E p \in Commands : FinishRestore(p)
  BY <1>0, <1>9 DEF FinishRestore, Promise, backendVars
<1> QED BY <1>1, <1>2, <1>3, <1>4, <1>5, <1>6, <1>8, <1>9
           DEF DatabaseNext, Backend, Command

(* A step keeps the types.                                                 *)
LEMMA FileTypesStep ==
    ASSUME FileTypes, [DatabaseNext]_databaseVars
    PROVE  FileTypes'
<1>1. /\ command' \in [Commands -> {NoCommand} \cup Active]
      /\ \A p \in Commands :
            \/ command'[p] = command[p]
            \/ command'[p] = NoCommand
            \/ /\ command[p] # NoCommand
               /\ command'[p].kind = command[p].kind
               /\ command'[p].source = command[p].source
               /\ command'[p].target = command[p].target
            \/ BacksUp(command'[p]) \/ Restores(command'[p])
  BY CommandStep
<1>2. \A p \in Commands :
         command[p] # NoCommand => BacksUp(command[p]) \/ Restores(command[p])
  BY DEF FileTypes
<1>3. \A p \in Commands :
         command'[p] # NoCommand => BacksUp(command'[p]) \/ Restores(command'[p])
  BY <1>1, <1>2 DEF BacksUp, Restores
<1>4. \A p \in Commands :
         (command[p] # NoCommand => BacksUp(command[p]) \/ Restores(command[p]))'
  BY <1>3 DEF BacksUp, Restores, NoCommand
<1>5. file' \in [Files -> Int] /\ journal' \in [Files -> Int]
  BY ContentTypes
<1> QED BY <1>1, <1>4, <1>5, HistoryStep DEF FileTypes

(* A step keeps the processes in order: a restore begins only while the    *)
(* backend is down and no other restore runs, and no backend starts then.  *)
LEMMA ProcessesStep ==
    ASSUME FileTypes, Processes, [DatabaseNext]_databaseVars
    PROVE  Processes'
<1> DEFINE Busy(q) == command[q] # NoCommand /\ command[q].kind = "restore"
<1> DEFINE BusyNext(q) == command'[q] # NoCommand /\ command'[q].kind = "restore"
<1>0. Restoring <=> \E q \in Commands : Busy(q)
  BY DEF Restoring
<1>1. Restoring' <=> \E q \in Commands : BusyNext(q)
  BY DEF Restoring, NoCommand
<1>2. \A p, q \in Commands : Busy(p) /\ Busy(q) => p = q
  BY DEF Processes
<1>3. \A q \in Commands : BusyNext(q) =>
         \/ Busy(q)
         \/ command'[q] # command[q] /\ server = "down" /\ ~Restoring
  <2> SUFFICES ASSUME NEW q \in Commands, BusyNext(q)
               PROVE  \/ Busy(q)
                      \/ command'[q] # command[q] /\ server = "down" /\ ~Restoring
    OBVIOUS
  <2>1. ~BacksUp(command'[q])
    BY DEF BacksUp
  <2>2. \/ command'[q] = command[q]
        \/ command[q] # NoCommand /\ command'[q].kind = command[q].kind
        \/ /\ command[q] = NoCommand /\ command'[q] # NoCommand
           /\ server = "down" /\ ~Restoring
    BY <2>1, CommandStep
  <2> QED BY <2>2
<1>4. \A p, q \in Commands : BusyNext(p) /\ BusyNext(q) => p = q
  BY <1>0, <1>2, <1>3, CommandStep
<1>5. Restoring' => server = "down"
  BY <1>0, <1>1, <1>3 DEF Processes
<1>6. CASE UNCHANGED <<server, monitor, writing>>
  <2>1. Restoring' => server' = "down"
    BY <1>5, <1>6
  <2> QED BY <1>4, <1>6, <2>1 DEF Processes, NoCommand
<1>7. CASE Backend
  <2> USE DEF Processes
  <2>1. UNCHANGED command
    BY <1>7 DEF Backend, StartServer,
        BeginCommit, EndCommit, Monitor, BeginCheck,
        EndCheck, MonitorStops, GiveUpWaiting, StopServer,
        Exit, KillServer
  <2>2. Restoring' <=> Restoring
    BY <2>1, <1>0, <1>1
  <2>3. /\ writing' \in {"nobody", "handler", "check"}
        /\ (server = "down" => monitor = "off" /\ writing = "nobody")'
        /\ (server = "stopping" => writing # "handler")'
        /\ (writing = "check" => monitor \in {"checking", "orphaned"})'
        /\ server = "down" => server' = "down" \/ ~Restoring
    <3>1. CASE StartServer
      BY <3>1 DEF StartServer
    <3>2. CASE \E w \in {"handler", "check"} : BeginCommit(w)
      BY <3>2 DEF BeginCommit, MayCommit
    <3>3. CASE EndCommit
      BY <3>3 DEF EndCommit
    <3>4. CASE BeginCheck
      BY <3>4 DEF BeginCheck, ChecksAgain
    <3>5. CASE EndCheck
      BY <3>5 DEF EndCheck
    <3>6. CASE MonitorStops
      BY <3>6 DEF MonitorStops
    <3>7. CASE GiveUpWaiting
      BY <3>7 DEF GiveUpWaiting
    <3>8. CASE StopServer
      BY <3>8 DEF StopServer
    <3>9. CASE Exit
      BY <3>9 DEF Exit
    <3>10. CASE KillServer
      BY <3>10 DEF KillServer
    <3> QED BY <1>7, <3>1, <3>2, <3>3, <3>4, <3>5, <3>6, <3>7, <3>8, <3>9, <3>10
               DEF Backend, Monitor
  <2>4. Restoring' => server' = "down"
    BY <2>2, <2>3
  <2> QED BY <1>4, <2>3, <2>4 DEF NoCommand
<1>8. CASE UNCHANGED databaseVars \/ CleanUp \/ \E p \in Commands : Command(p)
  <2>1. UNCHANGED <<server, monitor, writing>>
    BY <1>8 DEF databaseVars, CleanUp, Command, StartBackup,
        StartRestore, Connect, BeginCopy, EndCopy, FinishBackup,
        FinishRestore, FailCommand, KillCommand,
        backendVars
  <2> QED BY <2>1, <1>6
<1> QED BY <1>7, <1>8 DEF DatabaseNext

(* What the live database becomes in a step.                               *)
LEMMA LiveStep ==
    ASSUME FileTypes, Processes, Right, [DatabaseNext]_databaseVars, ~mispaired'
    PROVE  LiveRight'
<1>0. /\ file \in [Files -> Int] /\ journal \in [Files -> Int]
      /\ "live" \in Files /\ "temp" \in Files
      /\ Backups \subseteq Files /\ version \in Nat
  BY DEF FileTypes, Files
<1>1. /\ Opened("live") = promised /\ promised \in past
      /\ promised \notin Nothing /\ past \cap Nothing = {}
      /\ file["live"] \notin {ABSENT, BROKEN}
      /\ journal["live"] # ABSENT => file["live"] \in {TORN, promised}
      /\ server # "down" /\ writing = "nobody" => journal["live"] = ABSENT
  BY DEF Right, LiveRight, FileTypes
<1>2. ASSUME file'["live"] = promised', journal'["live"] = ABSENT,
             past' \cap Nothing = {}, promised' \in past'
      PROVE  LiveRight'
  <2>1. Opened("live")' = promised'
    BY <1>2 DEF Opened, Exists
  <2>2. promised' \notin Nothing
    BY <1>2
  <2> QED BY <1>2, <2>1, <2>2 DEF LiveRight, Nothing, ABSENT, TORN,
             BROKEN
<1>3. ASSUME file'["live"] = file["live"], journal'["live"] = journal["live"],
             promised' = promised, past' = past,
             server' # "down" /\ writing' = "nobody" => server # "down" /\ writing = "nobody"
      PROVE  LiveRight'
  <2>1. Opened("live")' = promised'
    BY <1>0, <1>1, <1>3, OpenedSame
  <2> QED BY <1>1, <1>3, <2>1 DEF LiveRight, Nothing, ABSENT, TORN,
             BROKEN
<1>4. CASE UNCHANGED databaseVars \/ CleanUp
  BY <1>0, <1>3, <1>4 DEF databaseVars, historyVars, backendVars,
                          CleanUp
<1>5. CASE StartServer
  <2>1. CASE promised = EMPTY
    <3>1. /\ file'["live"] = 0 /\ journal'["live"] = ABSENT
          /\ promised' = 0 /\ past' = past \cup {0}
      BY <1>0, <1>1, <1>5, <2>1 DEF StartServer, Promise
    <3> QED BY <3>1, <1>1, <1>2, ContentsDiffer DEF Nothing
  <2>2. CASE promised # EMPTY
    <3>1. Opened("live") \notin {ABSENT, EMPTY}
      BY <1>1, <2>2 DEF Nothing
    <3>2. /\ file'["live"] = promised /\ journal'["live"] = ABSENT
          /\ promised' = promised /\ past' = past
      BY <1>0, <1>1, <1>5, <3>1 DEF StartServer
    <3> QED BY <3>2, <1>1, <1>2
  <2> QED BY <2>1, <2>2
<1>6. CASE \E w \in {"handler", "check"} : BeginCommit(w)
  <2>1. server # "down" /\ writing = "nobody"
    BY <1>6 DEF BeginCommit, MayCommit, Processes
  <2>2. journal["live"] = ABSENT /\ file["live"] = promised
    BY <1>0, <1>1, <2>1, OpenedIs
  <2>3. /\ file'["live"] = TORN /\ journal'["live"] = promised
        /\ promised' = promised /\ past' = past /\ writing' # "nobody"
    BY <1>0, <1>6, <2>2 DEF BeginCommit, historyVars
  <2>4. promised # ABSENT
    BY <1>1 DEF Nothing
  <2>5. Opened("live")' = promised'
    BY <2>3, <2>4, ContentsDiffer DEF Opened, Exists, TORN,
          ABSENT
  <2> QED BY <1>1, <2>3, <2>5 DEF LiveRight, Nothing, ABSENT, TORN,
             BROKEN
<1>7. CASE EndCommit
  <2>1. /\ file'["live"] = version + 1 /\ journal'["live"] = ABSENT
        /\ promised' = version + 1 /\ past' = past \cup {version + 1}
    BY <1>0, <1>7 DEF EndCommit, Promise
  <2>2. version + 1 \notin Nothing
    BY <1>0, ContentsDiffer DEF Nothing
  <2> QED BY <1>1, <1>2, <2>1, <2>2
<1>8. CASE Monitor \/ StopServer \/ Exit \/ KillServer
  BY <1>3, <1>8 DEF Monitor, BeginCheck, EndCheck,
        MonitorStops, GiveUpWaiting, StopServer, Exit,
        KillServer, historyVars
<1>9. ASSUME NEW p \in Commands, Command(p)
      PROVE  LiveRight'
  <2>1. CASE \E d \in Backups : StartBackup(p, d)
    <3>1. /\ file'["live"] = promised /\ journal'["live"] = ABSENT
          /\ promised' = promised /\ past' = past
      BY <1>0, <1>1, <2>1 DEF StartBackup, historyVars
    <3> QED BY <3>1, <1>1, <1>2
  <2>2. CASE \E s \in Backups, replace \in BOOLEAN : StartRestore(p, s, replace)
    <3>1. PICK s \in Backups : \E replace \in BOOLEAN : StartRestore(p, s, replace)
      BY <2>2
    <3>2. s # "live" /\ s \in Files
      BY <1>0, PathAssumption
    <3> QED BY <1>0, <1>3, <3>1, <3>2 DEF StartRestore, historyVars,
               backendVars
  <2>3. CASE BeginCopy(p)
    <3>1. command[p] # NoCommand
      BY <2>3 DEF BeginCopy, NoCommand
    <3>2. PICK t \in Files : t = command[p].target /\ t # "live"
      BY <3>1, CommandPaths
    <3> QED BY <1>0, <1>3, <2>3, <3>2 DEF BeginCopy, historyVars, backendVars
  <2>8. CASE Connect(p)
    <3>1. command[p] # NoCommand
      BY <2>8 DEF Connect, NoCommand
    <3>2. PICK t \in Files : t = command[p].target /\ t # "live"
      BY <3>1, CommandPaths
    <3> QED BY <1>0, <1>3, <2>8, <3>2 DEF Connect, Written, historyVars, backendVars
  <2>4. CASE EndCopy(p)
    <3>1. command[p] # NoCommand
      BY <2>4 DEF EndCopy, NoCommand
    <3>2. PICK t \in Files, s \in Files :
             t = command[p].target /\ s = command[p].source /\ t # "live"
      BY <3>1, CommandPaths
    <3>3. /\ file' = [file EXCEPT ![s] = Opened(s), ![t] = Opened(s)]
          /\ journal' = [journal EXCEPT ![s] = ABSENT, ![t] = ABSENT]
          /\ promised' = promised /\ past' = past /\ UNCHANGED <<server, writing>>
      BY <2>4, <3>2 DEF EndCopy, historyVars, backendVars
    <3>4. CASE s = "live"
      BY <1>0, <1>1, <1>2, <3>2, <3>3, <3>4
    <3>5. CASE s # "live"
      BY <1>0, <1>3, <3>2, <3>3, <3>5
    <3> QED BY <3>4, <3>5
  <2>5. CASE FinishBackup(p) \/ KillCommand(p)
    BY <1>3, <2>5 DEF FinishBackup, KillCommand, historyVars,
          backendVars
  <2>6. CASE FinishRestore(p)
    <3>1. command[p] # NoCommand /\ command[p].kind = "restore" /\ command[p].op = "finish"
      BY <2>6 DEF FinishRestore, NoCommand
    <3>2. Restores(command[p])
      BY <3>1 DEF FileTypes, BacksUp, Restores
    <3>3. file["temp"] \notin Nothing
      BY <3>1, <3>2 DEF Right, StagesRight
    <3>4. /\ file'["live"] = file["temp"] /\ journal' = journal
          /\ promised' = file["temp"] /\ past' = past \cup {file["temp"]}
          /\ journal["live"] = ABSENT
      BY <1>0, <2>6 DEF FinishRestore, Promise, StaleJournal
    <3> QED BY <1>1, <1>2, <3>3, <3>4
  <2>7. CASE FailCommand(p)
    <3>1. command[p] # NoCommand
      BY <2>7 DEF FailCommand
    <3>2. PICK t \in Files : t = command[p].target /\ t # "live"
      BY <3>1, CommandPaths
    <3> QED BY <1>0, <1>3, <2>7, <3>2 DEF FailCommand, historyVars,
               backendVars
  <2> QED BY <1>9, <2>1, <2>2, <2>3, <2>4, <2>5, <2>6, <2>7, <2>8 DEF Command
<1> QED BY <1>4, <1>5, <1>6, <1>7, <1>8, <1>9 DEF DatabaseNext, Backend

(* What a file that is no live one opens as, from what is known of it.     *)
LEMMA CopyOpens ==
    ASSUME NEW f \in Files, CopyRight(f)
    PROVE  /\ Opened(f) \notin {TORN, BROKEN}
           /\ file[f] # ABSENT => Opened(f) \notin Nothing
           /\ file[f] \notin Nothing => Opened(f) = file[f]
BY ContentsDiffer DEF CopyRight, Nothing, Opened, Exists

(* What a copy takes over is a whole database.                             *)
LEMMA SourceOpens ==
    ASSUME FileTypes, Right, ~mispaired, NEW p \in Commands, EndCopy(p)
    PROVE  /\ command[p] # NoCommand
           /\ command[p].source \in Files
           /\ Opened(command[p].source) \notin Nothing
           /\ BacksUp(command[p]) \/ command[p].source \in reported
                 => Opened(command[p].source) \in past
           /\ file'[command[p].target] = Opened(command[p].source)
           /\ journal'[command[p].target] = ABSENT
<1>1. command[p] # NoCommand
  BY DEF EndCopy, NoCommand
<1>2. PICK s \in Files, t \in Files :
         s = command[p].source /\ t = command[p].target /\ t # s
  BY <1>1, CommandPaths
<1>3. file[s] # ABSENT
  BY <1>2 DEF EndCopy, Exists
<1>4. Opened(s) \notin Nothing
  <2>1. CASE s = "live"
    BY <2>1 DEF Right, LiveRight, FileTypes
  <2>2. CASE s # "live"
    BY <1>3, <2>2, CopyOpens DEF Right, CopiesRight
  <2> QED BY <2>1, <2>2
<1>5. BacksUp(command[p]) \/ s \in reported => Opened(s) \in past
  BY <1>2 DEF BacksUp, Right, LiveRight, FileTypes, BackupsAreWhole
<1>6. file'[t] = Opened(s) /\ journal'[t] = ABSENT
  BY <1>2 DEF EndCopy, FileTypes
<1> QED BY <1>1, <1>2, <1>4, <1>5, <1>6

(* A step keeps what is known of the files that are not the live one.      *)
LEMMA CopiesStep ==
    ASSUME FileTypes, Right, ~mispaired, [DatabaseNext]_databaseVars
    PROVE  CopiesRight'
<1> SUFFICES ASSUME NEW f \in Files, f # "live"
             PROVE  CopyRight(f)'
  BY DEF CopiesRight, Files
<1>0. /\ CopyRight(f) /\ file \in [Files -> Int] /\ journal \in [Files -> Int]
      /\ Opened(f) \notin {TORN, BROKEN}
  BY CopyOpens DEF Right, CopiesRight, FileTypes
<1>1. ASSUME /\ file'[f] # BROKEN
             /\ journal'[f] \notin {TORN, BROKEN}
             /\ file'[f] = TORN => journal'[f] # ABSENT
             /\ journal'[f] # ABSENT => file'[f] \in {TORN, ABSENT, EMPTY}
      PROVE  CopyRight(f)'
  BY <1>1 DEF CopyRight, ABSENT, EMPTY, TORN, BROKEN
<1>2. CASE file'[f] = file[f] /\ journal'[f] = journal[f]
  BY <1>0, <1>1, <1>2 DEF CopyRight
<1>3. CASE file'[f] = Opened(f) /\ journal'[f] = ABSENT
  BY <1>0, <1>1, <1>3, ContentsDiffer
<1>4. ASSUME NEW p \in Commands, BeginCopy(p), command[p].target = f
      PROVE  CopyRight(f)'
  <2>1. file'[f] = TORN /\ journal'[f] = Before(f)
    BY <1>0, <1>4 DEF BeginCopy
  <2>2. Before(f) \notin Nothing
    <3>1. command[p] # NoCommand /\ command[p].op = "open"
      BY <1>4 DEF BeginCopy, NoCommand
    <3>2. file[f] # ABSENT
      BY <1>4, <3>1 DEF Right, StagesRight
    <3> QED BY <1>0, <3>2, CopyOpens DEF Before, Right, CopiesRight
  <2> QED BY <1>1, <2>1, <2>2, ContentsDiffer DEF Nothing
<1>5. ASSUME NEW p \in Commands, EndCopy(p), command[p].target = f
      PROVE  CopyRight(f)'
  <2>1. file'[f] \notin Nothing /\ journal'[f] = ABSENT
    BY <1>5, SourceOpens
  <2> QED BY <1>1, <2>1, ContentsDiffer DEF Nothing
<1>6. CASE /\ file'[f] = ABSENT
           /\ journal'[f] = journal[f] \/ journal'[f] = ABSENT
  BY <1>0, <1>1, <1>6, ContentsDiffer DEF CopyRight
<1>7. CASE file[f] = ABSENT /\ file'[f] = EMPTY /\ journal'[f] = journal[f]
  BY <1>0, <1>1, <1>7, ContentsDiffer DEF CopyRight
<1> QED BY <1>2, <1>3, <1>4, <1>5, <1>6, <1>7, OtherFiles

(* A backup that opens as something the live database has held opens so    *)
(* after every step, even while a command writes to it again.              *)
LEMMA KeepsWhole ==
    ASSUME FileTypes, Right, ~mispaired, [DatabaseNext]_databaseVars,
           NEW d \in Backups, Opened(d) \in past
    PROVE  Opened(d)' \in past'
<1>0. /\ d \in Files /\ d # "live" /\ d # "temp"
      /\ file \in [Files -> Int] /\ journal \in [Files -> Int]
      /\ past \subseteq past'
  BY HistoryStep, PathAssumption DEF FileTypes, Files
<1>1. CASE file'[d] = file[d] /\ journal'[d] = journal[d]
  BY <1>0, <1>1, OpenedSame
<1>2. CASE file'[d] = Opened(d) /\ journal'[d] = ABSENT
  BY <1>0, <1>2, OpenedStays
<1>3. ASSUME NEW p \in Commands, BeginCopy(p), command[p].target = d
      PROVE  Opened(d)' \in past'
  <2>1. file'[d] = TORN /\ journal'[d] = Before(d)
    BY <1>0, <1>3 DEF BeginCopy, Written
  <2>2. Opened(d) # ABSENT
    BY DEF Right, LiveRight, Nothing
  <2>3. Before(d) = Opened(d)
    BY <1>0, <2>2, OpenedIs DEF Before, Exists
  <2>4. Opened(d)' = Opened(d)
    BY <2>1, <2>2, <2>3, ContentsDiffer DEF Opened, Exists, TORN,
          ABSENT
  <2> QED BY <1>0, <2>4
<1>4. ASSUME NEW p \in Commands, EndCopy(p), command[p].target = d
      PROVE  Opened(d)' \in past'
  <2>1. BacksUp(command[p])
    BY <1>0, <1>4, SourceOpens DEF FileTypes, Restores
  <2>2. file'[d] \in past /\ journal'[d] = ABSENT
    BY <1>4, <2>1, SourceOpens
  <2>3. Opened(d)' = file'[d]
    BY <2>2 DEF Opened, Exists, ABSENT
  <2> QED BY <1>0, <2>2, <2>3
<1>5. file[d] # ABSENT
  <2>1. ABSENT \notin past
    BY DEF Right, LiveRight, Nothing
  <2> QED BY <2>1 DEF Opened, Exists
<1> QED BY <1>0, <1>1, <1>2, <1>3, <1>4, <1>5, OtherFiles

(* While a restore runs and does not step, nobody else uses or removes the *)
(* temporary file.                                                         *)
LEMMA TempIsHeld ==
    ASSUME FileTypes, Processes, [DatabaseNext]_databaseVars, NEW p \in Commands,
           command[p] # NoCommand, Restores(command[p]), command'[p] = command[p]
    PROVE  /\ ~CleanUp
           /\ \A q \in Commands :
                 /\ command[q] # NoCommand /\ command[q].target = "temp" => q = p
                 /\ command[q] # NoCommand /\ Restores(command[q])
                       => ~FinishRestore(q) /\ ~FailCommand(q)
<1>1. ASSUME NEW q \in Commands, command[q] # NoCommand, command[q].target = "temp"
      PROVE  q = p
  <2>1. Restores(command[q])
    BY <1>1, PathAssumption DEF FileTypes, BacksUp
  <2> QED BY <1>1, <2>1 DEF Processes, Restores
<1>2. ASSUME NEW q \in Commands, command[q] # NoCommand, Restores(command[q]),
             FinishRestore(q) \/ FailCommand(q)
      PROVE  FALSE
  <2>1. q = p
    BY <1>1, <1>2 DEF Restores
  <2>2. command'[p] = NoCommand
    BY <1>2, <2>1 DEF FinishRestore, FailCommand, Proceed, FileTypes
  <2> QED BY <2>2
<1>3. ~CleanUp
  BY DEF CleanUp, Restoring, Restores
<1> QED BY <1>1, <1>2, <1>3

(* Backups that were reported, and copies that are to be verified, stay    *)
(* whole in a step.                                                        *)
LEMMA WholeStep ==
    ASSUME FileTypes, Processes, Trusts, Right, [DatabaseNext]_databaseVars, ~mispaired'
    PROVE  StagesRight' /\ BackupsAreWhole'
<1>0. /\ file \in [Files -> Int] /\ journal \in [Files -> Int]
      /\ "temp" \in Files /\ Backups \subseteq Files
      /\ command \in [Commands -> {NoCommand} \cup Active]
  BY DEF FileTypes, Files
<1>8. ~mispaired
  BY HistoryStep
<1>1. ASSUME NEW p \in Commands, command'[p].op \in {"open", "finish"}
      PROVE  /\ command[p].kind = command'[p].kind /\ command[p].source = command'[p].source
             /\ command[p].target = command'[p].target /\ command[p] # NoCommand
             /\ command[p].trusted = command'[p].trusted
  <2>1. command[p] # NoCommand
    <3>1. CASE command'[p] = command[p]
      BY <1>1, <3>1 DEF NoCommand
    <3>2. CASE EndCopy(p) \/ Connect(p)
      BY <3>2 DEF EndCopy, Connect, NoCommand
    <3> QED BY <1>1, <3>1, <3>2, StageStep
  <2>2. command'[p] # NoCommand
    BY <1>1 DEF NoCommand
  <2> QED BY <2>1, <2>2, CommandStep
<1>2. ASSUME NEW p \in Commands, NEW d \in Backups, command'[p].op = "finish",
             BacksUp(command'[p]), command'[p].target = d
      PROVE  Opened(d)' \in past'
  <2>1. BacksUp(command[p]) /\ command[p].target = d
    BY <1>1, <1>2 DEF BacksUp
  <2>2. CASE EndCopy(p)
    <3>1. file'[d] \in past /\ journal'[d] = ABSENT
      BY <1>8, <2>1, <2>2, SourceOpens
    <3>2. Opened(d)' = file'[d]
      BY <3>1 DEF Opened, Exists, ABSENT
    <3> QED BY <3>1, <3>2, HistoryStep
  <2>3. CASE command'[p] = command[p]
    <3>1. Opened(d) \in past
      BY <1>2, <2>1, <2>3 DEF Right, StagesRight
    <3> QED BY <1>8, <3>1, KeepsWhole
  <2> QED BY <1>2, <2>2, <2>3, StageStep
<1>3. ASSUME NEW p \in Commands, command'[p].op = "finish", Restores(command'[p])
      PROVE  /\ file'["temp"] \notin Nothing
             /\ command'[p].trusted => file'["temp"] \in past'
  <2>1. Restores(command[p]) /\ command[p] # NoCommand
    BY <1>1, <1>3 DEF Restores
  <2>2. CASE EndCopy(p)
    <3>1. command'[p].trusted => command[p].source \in reported
      BY <1>1, <1>3, <2>1 DEF Trusts
    <3>2. past \subseteq past'
      BY HistoryStep
    <3> QED BY <1>0, <1>8, <2>1, <2>2, <3>1, <3>2, SourceOpens DEF Restores
  <2>3. CASE command'[p] = command[p] /\ ~EndCopy(p)
    <3>1. /\ file["temp"] \notin Nothing /\ command[p].op = "finish"
          /\ command[p].trusted => file["temp"] \in past
      BY <1>3, <2>1, <2>3 DEF Right, StagesRight
    <3>2. Opened("temp") = file["temp"]
      BY <1>0, <3>1, CopyOpens DEF Right, CopiesRight
    <3>3. ASSUME NEW q \in Commands, BeginCopy(q) \/ EndCopy(q), command[q].target = "temp"
          PROVE  FALSE
      <4>1. command[q] # NoCommand
        BY <3>3 DEF BeginCopy, EndCopy, NoCommand
      <4>2. q = p
        BY <2>1, <2>3, <3>3, <4>1, TempIsHeld
      <4> QED BY <2>3, <3>1, <3>3, <4>2 DEF BeginCopy
    <3>4. file'["temp"] = file["temp"]
      BY <1>0, <2>1, <2>3, <3>1, <3>2, <3>3, TempIsHeld, OtherFiles, PathAssumption
         DEF Nothing
    <3> QED BY <2>3, <3>1, <3>4, HistoryStep
  <2> QED BY <1>3, <2>2, <2>3, StageStep
<1>7. ASSUME NEW p \in Commands, command'[p].op = "open"
      PROVE  file'[command'[p].target] # ABSENT
  <2>1. PICK f \in Files : f = command'[p].target /\ f = command[p].target /\ f # "live"
    BY <1>1, <1>7, CommandPaths
  <2>2. CASE Connect(p)
    BY <1>0, <2>1, <2>2, ContentsDiffer DEF Connect, Written
  <2>3. CASE command'[p] = command[p]
    <3>1. file[f] # ABSENT /\ Opened(f) # ABSENT
      BY <1>7, <2>1, <2>3, OpenedIs DEF Right, StagesRight
    <3>2. ASSUME NEW q \in Commands, BeginCopy(q) \/ EndCopy(q), command[q].target = f
          PROVE  file'[f] # ABSENT
      <4>1. CASE BeginCopy(q)
        BY <1>0, <3>2, <4>1, ContentsDiffer DEF BeginCopy
      <4>2. CASE EndCopy(q)
        BY <1>0, <1>8, <3>2, <4>2, SourceOpens DEF Nothing
      <4> QED BY <3>2, <4>1, <4>2
    <3>3. f = "temp" => Restores(command[p])
      BY <1>1, <1>7, <2>1, PathAssumption DEF FileTypes, BacksUp
    <3> QED BY <1>1, <1>7, <2>1, <2>3, <3>1, <3>2, <3>3, TempIsHeld, OtherFiles
  <2> QED BY <1>7, <2>1, <2>2, <2>3, StageStep
<1>4. ASSUME NEW d \in reported'
      PROVE  Opened(d)' \in past'
  <2>1. d \in Backups
    BY <1>4, HistoryStep
  <2>2. Opened(d) \in past
    <3>1. CASE d \in reported
      BY <1>8, <3>1 DEF Right, BackupsAreWhole
    <3>2. CASE \E p \in Commands : /\ command[p].op = "finish" /\ BacksUp(command[p])
                                   /\ command[p].target = d
      BY <2>1, <3>2 DEF Right, StagesRight
    <3> QED BY <1>4, <3>1, <3>2, HistoryStep
  <2> QED BY <1>8, <2>1, <2>2, KeepsWhole
<1>5. StagesRight'
  <2>1. \A p \in Commands, d \in Backups :
           (command[p].op = "finish" /\ BacksUp(command[p]) /\ command[p].target = d
              => Opened(d) \in past)'
    BY <1>2 DEF BacksUp
  <2>2. \A p \in Commands :
           (command[p].op = "finish" /\ Restores(command[p]) =>
               /\ file["temp"] \notin Nothing
               /\ command[p].trusted => file["temp"] \in past)'
    BY <1>3 DEF Restores, Nothing, ABSENT, TORN, BROKEN
  <2>3. \A p \in Commands : (command[p].op = "open" => file[command[p].target] # ABSENT)'
    BY <1>7 DEF ABSENT
  <2> QED BY <2>1, <2>2, <2>3 DEF StagesRight
<1>6. BackupsAreWhole'
  <2>1. \A d \in reported' : Opened(d)' \in past'
    BY <1>4
  <2> QED BY <2>1 DEF BackupsAreWhole
<1> QED BY <1>5, <1>6

(* A step keeps a trusted source reported.                                 *)
LEMMA TrustStep ==
    ASSUME FileTypes, Trusts, [DatabaseNext]_databaseVars
    PROVE  Trusts'
<1>1. ASSUME NEW p \in Commands, command'[p] # NoCommand, command'[p].trusted
      PROVE  command'[p].kind = "restore" /\ command'[p].source \in reported'
  <2>1. \/ command'[p] = command[p]
        \/ /\ command[p] # NoCommand /\ command'[p].kind = command[p].kind
           /\ command'[p].source = command[p].source
           /\ command'[p].trusted = command[p].trusted
        \/ Restores(command'[p]) /\ command'[p].source \in reported
    BY <1>1, CommandStep
  <2> QED BY <1>1, <2>1, HistoryStep DEF Trusts, Restores
<1> QED BY <1>1 DEF Trusts, NoCommand

(* Without a kill, a step leaves no journal beside the live file outside   *)
(* commits.                                                                *)
LEMMA CalmStep ==
    ASSUME FileTypes, Processes, Calm, [DatabaseNext]_databaseVars,
           kills = 0, kills' = 0
    PROVE  Calm'
<1>0. /\ journal \in [Files -> Int] /\ "live" \in Files
      /\ Backups \subseteq Files /\ "live" \notin Backups /\ kills' # kills + 1
  BY PathAssumption DEF FileTypes, Files
<1>1. ~mispaired'
  <2>1. ASSUME NEW p \in Commands, FinishRestore(p)
        PROVE  ~mispaired'
    <3>1. Restoring
      BY <2>1 DEF FinishRestore, Restoring, NoCommand
    <3>2. journal["live"] = ABSENT
      BY <3>1 DEF Calm, Processes
    <3> QED BY <2>1, <3>2 DEF FinishRestore, StaleJournal, Calm
  <2>2. CASE ~\E p \in Commands : FinishRestore(p)
    <3>1. UNCHANGED mispaired
      BY <2>2 DEF DatabaseNext, databaseVars, historyVars, CleanUp, Backend,
            StartServer, BeginCommit, EndCommit, Monitor, BeginCheck, EndCheck,
            MonitorStops, GiveUpWaiting, StopServer, Exit, KillServer, Command,
            StartBackup, StartRestore, Connect, BeginCopy, EndCopy, FinishBackup,
            FailCommand, KillCommand
    <3> QED BY <3>1 DEF Calm
  <2> QED BY <2>1, <2>2
<1>2. ASSUME writing' = "nobody"
      PROVE  journal'["live"] = ABSENT
  <2>1. CASE Backend
    BY <1>0, <1>2, <2>1 DEF Calm, Backend, StartServer, BeginCommit, EndCommit,
          Monitor, BeginCheck, EndCheck, MonitorStops, GiveUpWaiting, StopServer,
          Exit, KillServer
  <2>2. CASE UNCHANGED databaseVars \/ CleanUp
    BY <1>2, <2>2 DEF Calm, databaseVars, backendVars, CleanUp
  <2>3. ASSUME NEW p \in Commands, Command(p)
        PROVE  journal'["live"] = ABSENT
    <3>0. writing = "nobody"
      BY <1>2, <2>3 DEF Command, StartBackup, StartRestore, Connect, BeginCopy, EndCopy,
            FinishBackup, FinishRestore, FailCommand, KillCommand, backendVars
    <3>1. journal["live"] = ABSENT
      BY <3>0 DEF Calm
    <3>2. CASE BeginCopy(p) \/ EndCopy(p) \/ FailCommand(p)
      <4>1. command[p] # NoCommand
        BY <3>2 DEF BeginCopy, EndCopy, FailCommand, NoCommand
      <4>2. PICK t \in Files : t = command[p].target /\ t # "live"
        BY <4>1, CommandPaths
      <4>3. CASE BeginCopy(p)
        BY <1>0, <3>1, <4>2, <4>3 DEF BeginCopy
      <4>4. CASE EndCopy(p)
        BY <1>0, <3>1, <4>2, <4>4 DEF EndCopy
      <4>5. CASE FailCommand(p)
        BY <1>0, <3>1, <4>2, <4>5 DEF FailCommand
      <4> QED BY <3>2, <4>3, <4>4, <4>5
    <3> QED BY <1>0, <2>3, <3>1, <3>2 DEF Command, StartBackup, StartRestore, Connect,
          FinishBackup, FinishRestore, KillCommand
  <2> QED BY <2>1, <2>2, <2>3 DEF DatabaseNext
<1> QED BY <1>1, <1>2 DEF Calm, ABSENT

(* The invariant holds in every state that is reached.                     *)
LEMMA DatabaseInvariant == DatabaseSpec => []DInv
<1>1. DatabaseInit => DInv
  BY DatabaseBegins
<1>2. DInv /\ [DatabaseNext]_databaseVars => DInv'
  <2> SUFFICES ASSUME DInv, [DatabaseNext]_databaseVars PROVE DInv'
    OBVIOUS
  <2>0. FileTypes /\ Processes /\ Trusts
    BY DEF DInv
  <2>1. FileTypes' /\ Processes' /\ Trusts'
    BY <2>0, FileTypesStep, ProcessesStep, TrustStep
  <2>2. (mispaired => mispaired') /\ (kills' = 0 => kills = 0)
    BY <2>0, HistoryStep
  <2>3. ASSUME ~mispaired' PROVE Right'
    <3>1. Right /\ ~mispaired
      BY <2>2, <2>3 DEF DInv
    <3> QED BY <2>0, <2>3, <3>1, LiveStep, CopiesStep, WholeStep DEF Right
  <2>4. ASSUME kills' = 0 PROVE Calm'
    <3>1. kills = 0 /\ Calm
      BY <2>2, <2>4 DEF DInv
    <3> QED BY <2>0, <2>4, <3>1, CalmStep
  <2> QED BY <2>1, <2>3, <2>4 DEF DInv
<1> QED BY <1>1, <1>2, PTL DEF DatabaseSpec

(* Whatever is killed in whatever step, the live database opens as the     *)
(* last confirmed commit or the last reported restore, unless a restore    *)
(* went over a database whose backend was killed in a commit               *)
(* (restore_sqlite_file, os.replace).                                      *)
THEOREM Live == DatabaseSpec => []LiveIsPromised
<1>1. DInv => LiveIsPromised
  BY DEF DInv, Right, LiveRight, LiveIsPromised
<1> QED BY <1>1, DatabaseInvariant, PTL

(* A backup that was reported as done opens as something the live database *)
(* has held, whatever command writes over it or dies later                 *)
(* (backup_sqlite_file).                                                   *)
THEOREM Whole == DatabaseSpec => []BackupsAreWhole
<1>1. DInv => BackupsAreWhole
  BY DEF DInv, Right, BackupsAreWhole
<1> QED BY <1>1, DatabaseInvariant, PTL

(* A restore of a backup that was reported before it began ends with the   *)
(* live database as it was or with something it has held, whatever else    *)
(* opens, writes or dies in that backup meanwhile (restore_sqlite_file).   *)
THEOREM Trusted == DatabaseSpec => ReportedBackupsRestore
<1>1. DInv /\ [DatabaseNext]_databaseVars =>
         [\A p \in Commands :
            command[p] # NoCommand /\ command[p].trusted /\ command'[p] = NoCommand =>
               mispaired \/ promised' \in past]_databaseVars
  <2> SUFFICES ASSUME DInv, [DatabaseNext]_databaseVars, ~mispaired, NEW p \in Commands,
                      command[p] # NoCommand, command[p].trusted, command'[p] = NoCommand
               PROVE  promised' \in past
    OBVIOUS
  <2>0. FileTypes /\ Right /\ Restores(command[p])
    BY DEF DInv, Trusts, FileTypes, BacksUp
  <2>1. CASE FinishRestore(p)
    <3>1. file["temp"] \in past
      BY <2>0, <2>1 DEF FinishRestore, Right, StagesRight
    <3> QED BY <2>1, <3>1 DEF FinishRestore, Promise
  <2>2. CASE ~FinishRestore(p)
    <3>1. Command(p)
      <4>1. ~UNCHANGED command
        OBVIOUS
      <4>2. ~Backend /\ ~CleanUp /\ ~UNCHANGED databaseVars
        BY <4>1 DEF Backend, StartServer, BeginCommit, EndCommit, Monitor, BeginCheck,
              EndCheck, MonitorStops, GiveUpWaiting, StopServer, Exit, KillServer,
              CleanUp, databaseVars
      <4>3. ASSUME NEW q \in Commands, Command(q), q # p
            PROVE  FALSE
        BY <2>0, <4>3 DEF Command, StartBackup, StartRestore, Connect, BeginCopy, EndCopy,
              FinishBackup, FinishRestore, FailCommand, KillCommand, Proceed, FileTypes
      <4> QED BY <4>2, <4>3 DEF DatabaseNext
    <3>2. promised' = promised
      BY <2>2, <3>1 DEF Command, StartBackup, StartRestore, Connect, BeginCopy, EndCopy,
            FinishBackup, FailCommand, KillCommand, historyVars
    <3> QED BY <2>0, <3>2 DEF FileTypes
  <2> QED BY <2>1, <2>2
<1> QED BY <1>1, DatabaseInvariant, PTL DEF DatabaseSpec, ReportedBackupsRestore

(* As long as no process was killed, the live database is what the last    *)
(* restore has verified: RestoredIsServed fails only after a kill          *)
(* (restore_sqlite_file).                                                  *)
THEOREM Undisturbed == DatabaseSpec => [](kills = 0 => RestoredIsServed)
<1>1. DInv => (kills = 0 => RestoredIsServed)
  BY DEF DInv, Calm, Right, LiveRight, RestoredIsServed
<1> QED BY <1>1, DatabaseInvariant, PTL
=============================================================================
