---------------------------- MODULE NetworkMonitor ----------------------------
(***************************************************************************)
(* The network monitor: scans of the local network are recorded address by *)
(* address (record_scan in backend/network/monitor.py, a thread per        *)
(* request), while the operator marks devices as known (set_device_known   *)
(* in backend/api/routes.py).                                              *)
(*                                                                         *)
(* Each discovered address is selected and then inserted or updated, with  *)
(* a commit of its own; nothing makes an address unique in the table.  An  *)
(* item that raises is rolled back and the scan goes on with the next one. *)
(* In the end the scan looks for the devices that it did not see.  SQLite  *)
(* stores a time without its zone, and comparing a time without zone with  *)
(* one that has it raises a TypeError.                                     *)
(*                                                                         *)
(* An UPDATE writes only the columns whose value changed, and last_seen    *)
(* too when the code did not set it (onupdate).  Discovery, the other      *)
(* attributes of a device and the events of known devices are left out.    *)
(***************************************************************************)
EXTENDS Integers, FiniteSets

CONSTANTS
    Ips,         \* addresses that a scan may discover, in the order of discovery
    Rows,        \* ids of the rows the devices table can hold
    Threads,     \* scans that can be in flight at once
    NULL,        \* nobody
    MaxTime,     \* bound: the clock
    MaxFaults    \* bound: items that fail

ASSUME IdAssumption == Ips \subseteq Nat /\ Rows \subseteq Nat
ASSUME ThreadAssumption == NULL \notin Threads
ASSUME BoundAssumption == MaxTime \in Nat /\ MaxFaults \in Nat

VARIABLES
    device,      \* the devices table
    now,         \* the clock, in seconds
    call,        \* what each thread is doing
    faults,      \* items that have failed
    author,      \* history: the thread that inserted each row
    announced    \* history: NEW_DEVICE events of each row

vars == <<device, now, call, faults, author, announced>>

---------------------------------------------------------------------------
(* Rows and calls *)

NoDevice == [status |-> "ABSENT"]
DeviceRow == {NoDevice} \cup
    [status : {"online", "offline"}, ip : Ips, last_seen : Nat, known : BOOLEAN]

Existing(i) == device[i] # NoDevice

\* A scan in flight: when it began, what it saw, the addresses still to record.
Idle == [op |-> "idle"]
CallState ==
    {Idle}
    \cup [op : {"items"}, now : Nat, seen : SUBSET Ips, todo : SUBSET Ips]
    \cup [op : {"insert"}, now : Nat, seen : SUBSET Ips, todo : SUBSET Ips, ip : Ips]
    \cup [op : {"update", "announce"}, now : Nat, seen : SUBSET Ips, todo : SUBSET Ips,
          id : Rows]

Becomes(p, c) == call' = [call EXCEPT ![p] = c]

NextItem(c) == [op |-> "items", now |-> c.now, seen |-> c.seen, todo |-> c.todo]
Inserting(c, ip) ==
    [op |-> "insert", now |-> c.now, seen |-> c.seen, todo |-> c.todo \ {ip}, ip |-> ip]
Updating(c, ip, i) ==
    [op |-> "update", now |-> c.now, seen |-> c.seen, todo |-> c.todo \ {ip}, id |-> i]
\* Mutant: the event is left to the next scan.
Unannounced(c, i) == NextItem(c)

Announcing(c, i) ==
    [op |-> "announce", now |-> c.now, seen |-> c.seen, todo |-> c.todo, id |-> i]

---------------------------------------------------------------------------
(* The discovered devices *)

StartScan(p, seen) ==
    /\ call[p] = Idle
    /\ Becomes(p, [op |-> "items", now |-> now, seen |-> seen, todo |-> seen])
    /\ UNCHANGED <<device, now, faults, author, announced>>

\* Mutant: known devices are not looked for.
IsUnknownDevice(i, ip) == Existing(i) /\ device[i].ip = ip /\ ~device[i].known

\* Mutant: an address matches those that it is a prefix of.
IsDeviceByPrefix(i, ip) == Existing(i) /\ ip <= device[i].ip

IsDevice(i, ip) == Existing(i) /\ device[i].ip = ip

SelectDevice(p, ip) ==
    LET found == {i \in Rows : IsDevice(i, ip)} IN
    /\ call[p].op = "items"
    /\ ip \in call[p].todo
    /\ \A later \in call[p].todo : ip <= later
    /\ \/ found = {} /\ Becomes(p, Inserting(call[p], ip))
       \/ \E i \in found : Becomes(p, Updating(call[p], ip, i))
    /\ UNCHANGED <<device, now, faults, author, announced>>

NewDevice(ip, time) ==
    [status |-> "online", ip |-> ip, last_seen |-> time, known |-> FALSE]

InsertDevice(p, i) ==
    /\ call[p].op = "insert"
    /\ ~Existing(i)
    /\ \A j \in Rows : j < i => Existing(j)
    /\ device' = [device EXCEPT ![i] = NewDevice(call[p].ip, call[p].now)]
    /\ author' = [author EXCEPT ![i] = p]
    /\ Becomes(p, Announcing(call[p], i))
    /\ UNCHANGED <<now, faults, announced>>

\* create_event("NEW_DEVICE")
AnnounceDevice(p) ==
    /\ call[p].op = "announce"
    /\ announced' = [announced EXCEPT ![call[p].id] = @ + 1]
    /\ Becomes(p, NextItem(call[p]))
    /\ UNCHANGED <<device, now, faults, author>>

\* Mutant: a device that is seen again is a new one.
SeenAsNew(row, time) == NewDevice(row.ip, time)

SeenAgain(row, time) == [row EXCEPT !.status = "online", !.last_seen = time]

UpdateDevice(p) ==
    /\ call[p].op = "update"
    /\ device' = [device EXCEPT ![call[p].id] = SeenAgain(@, call[p].now)]
    /\ Becomes(p, NextItem(call[p]))
    /\ UNCHANGED <<now, faults, author, announced>>

\* Mutant: the item that failed is recorded again.
RetryItem(p) ==
    /\ call[p].op = "announce"
    /\ faults < MaxFaults
    /\ faults' = faults + 1
    /\ announced' = [announced EXCEPT ![call[p].id] = @ + 1]
    /\ UNCHANGED <<device, now, author, call>>

\* The commit of an item fails: it is rolled back, and the scan goes on.
FailItem(p) ==
    /\ call[p].op \in {"insert", "update", "announce"}
    /\ faults < MaxFaults
    /\ faults' = faults + 1
    /\ Becomes(p, NextItem(call[p]))
    /\ UNCHANGED <<device, now, author, announced>>

---------------------------------------------------------------------------
(* The devices that were not seen *)

\* The cutoff has a zone, and a time that was loaded from SQLite has none.
ComparisonRaises == TRUE

\* The operands of the condition, from left to right.
Overdue(row, c) == row.ip \notin c.seen /\ row.status = "online" /\ row.last_seen < c.now - 1
GoesOffline(row, c) == ~ComparisonRaises /\ Overdue(row, c)

\* The whole loop is one step: no item of it gets to a commit.
FinishScan(p) ==
    /\ call[p].op = "items"
    /\ call[p].todo = {}
    /\ device' = [i \in Rows |->
          IF Existing(i) /\ GoesOffline(device[i], call[p])
          THEN [device[i] EXCEPT !.status = "offline", !.last_seen = now]
          ELSE device[i]]
    /\ Becomes(p, Idle)
    /\ UNCHANGED <<now, faults, author, announced>>

---------------------------------------------------------------------------
(* The operator and the clock *)

SetKnown(i, known) ==
    /\ Existing(i)
    /\ device[i].known # known
    /\ device' = [device EXCEPT ![i].known = known, ![i].last_seen = now]
    /\ UNCHANGED <<now, call, faults, author, announced>>

Tick ==
    /\ now < MaxTime
    /\ now' = now + 1
    /\ UNCHANGED <<device, call, faults, author, announced>>

Init ==
    /\ device = [i \in Rows |-> NoDevice]
    /\ now = 0
    /\ call = [p \in Threads |-> Idle]
    /\ faults = 0
    /\ author = [i \in Rows |-> NULL]
    /\ announced = [i \in Rows |-> 0]

Scan(p) ==
    \/ \E seen \in SUBSET Ips : StartScan(p, seen)
    \/ \E ip \in Ips : SelectDevice(p, ip)
    \/ \E i \in Rows : InsertDevice(p, i)
    \/ AnnounceDevice(p)
    \/ UpdateDevice(p)
    \/ FailItem(p)
    \/ FinishScan(p)

Next ==
    \/ \E p \in Threads : Scan(p)
    \/ \E i \in Rows, known \in BOOLEAN : SetKnown(i, known)
    \/ Tick

Spec == Init /\ [][Next]_vars

---------------------------------------------------------------------------
(* Properties *)

(* Every variable has its type (the rows of the devices table and the      *)
(* scans in flight), no scan begins in the future, and an item that was    *)
(* rolled back leaves no event: a row is announced at most once however    *)
(* often its address is scanned (record_scan).                             *)
TypeOK ==
    /\ device \in [Rows -> DeviceRow]
    /\ now \in 0..MaxTime
    /\ call \in [Threads -> CallState]
    /\ \A p \in Threads : call[p] # Idle => call[p].now <= now
    /\ faults \in 0..MaxFaults
    /\ author \in [Rows -> Threads \cup {NULL}]
    /\ announced \in [Rows -> 0..1]

(* Two rows of one address come from two scans that overlapped: no thread  *)
(* ever inserts an address that it, or a scan before it, has recorded.     *)
(* With one scan at a time, an address is unique (record_scan selects      *)
(* before it inserts).                                                     *)
DuplicatesAreRaced ==
    \A i, j \in Rows :
        i # j /\ Existing(i) /\ Existing(j) /\ device[i].ip = device[j].ip
            => author[i] # author[j]

(* While no item has failed, every row has been announced or its scan is   *)
(* just about to (record_scan's commit of the row and create_event's of    *)
(* the event are two transactions).                                        *)
NewDevicesAreAnnounced ==
    faults = 0 =>
        \A i \in Rows :
            Existing(i) =>
                \/ announced[i] = 1
                \/ \E p \in Threads : call[p].op = "announce" /\ call[p].id = i

(* While no item has failed, every address that a scan in flight saw and   *)
(* has got past has a row, whatever the other scans do meanwhile           *)
(* (record_scan goes through all it discovered).                           *)
SeenIsRecorded ==
    faults = 0 =>
        \A p \in Threads :
            call[p].op = "items" =>
                \A ip \in call[p].seen \ call[p].todo :
                    \E i \in Rows : Existing(i) /\ device[i].ip = ip

(* No scan changes the operator's mark, not even one that selected the     *)
(* device before the mark was set and commits after it (set_device_known   *)
(* writes known, record_scan's UPDATE does not).                           *)
MarkSurvivesScans ==
    [][\A i \in Rows :
          Existing(i) /\ device'[i] # device[i] /\ call' # call
              => device'[i].known = device[i].known]_vars

(* A scan leaves no device online that it did not see and that was last    *)
(* seen before the cutoff ("Device appears offline" in record_scan).       *)
MissingGoesOffline ==
    [][\A p \in Threads :
          call[p] # Idle /\ call'[p] = Idle =>
              \A i \in Rows :
                  Existing(i) /\ Overdue(device[i], call[p])
                      => device'[i].status = "offline"]_vars
=============================================================================
