----------------------------- MODULE DeviceActivity -----------------------------
(***************************************************************************)
(* What managed devices report and the risk that is read from it: the      *)
(* telemetry handler of backend/api/routes.py, and calculate_device_risk   *)
(* and get_device_risk_history in backend/detection/risk.py, which every   *)
(* device view of routes.py calls.                                         *)
(*                                                                         *)
(* Both look at a window of the newest events of the whole lab: telemetry  *)
(* is a repetition if its id is in the window, and a device's risk counts  *)
(* its own high events in a window of its own.  Both read first and write  *)
(* later, with nothing in the database to stop a second writer.            *)
(*                                                                         *)
(* Who may send (authenticate_device, revocation) is in ManagedDevices;    *)
(* how alerts come and go is in AlertEngine: here a device's active alerts *)
(* are the points they add up to, which may change at any time.            *)
(***************************************************************************)
EXTENDS Integers, Sequences, FiniteSets, FiniteSetsExt

CONSTANTS
    Devices,      \* managed devices
    Reports,      \* telemetry ids
    Severe,       \* those that report something HIGH or CRITICAL
    Threads,      \* calls that can be in flight at once
    AlertPoints,  \* what the active alerts of a device may add up to
    DedupWindow,  \* events that telemetry is compared with (300)
    RiskWindow,   \* events that the risk of a device looks at (200)
    OwnWindow,    \* events of the device that it counts among them (50)
    NULL,         \* no device, no id
    MaxEvents,    \* bound: events recorded
    MaxChanges,   \* bound: changes of alerts and of being reachable
    MaxFaults     \* bound: calls that die half-way

ASSUME NullAssumption == NULL \notin Devices \cup Reports
ASSUME SevereAssumption == Severe \subseteq Reports
ASSUME PointsAssumption == AlertPoints \subseteq Nat /\ 0 \in AlertPoints
ASSUME WindowAssumption == {DedupWindow, RiskWindow, OwnWindow} \subseteq Nat \ {0}
ASSUME BoundAssumption == {MaxEvents, MaxChanges, MaxFaults} \subseteq Nat

VARIABLES
    events,     \* security_events, oldest first
    alerts,     \* points of the active alerts, per device
    offline,    \* devices that are OFFLINE
    history,    \* device_risk_snapshots per device, oldest first
    call,       \* what each thread is doing
    overlapped, \* history: devices of which two reads were in flight at once
    changes,    \* changes of alerts and of being reachable
    faults      \* calls that died

vars == <<events, alerts, offline, history, call, overlapped, changes, faults>>

---------------------------------------------------------------------------
(* Events *)

\* "seen" is history: how many events there were when the handler looked for the id.
Event == [device : Devices \cup {NULL}, id : Reports \cup {NULL}, seen : Nat]

\* Mutant: one event less.
NewestButOne(window) == {i \in DOMAIN events : i > Len(events) - window + 1}

Newest(window) == {i \in DOMAIN events : i > Len(events) - window}

Repeats(d, r) == \E i \in Newest(DedupWindow) : events[i].device = d /\ events[i].id = r

---------------------------------------------------------------------------
(* The risk of a device *)

Pictures == [alerts : AlertPoints, high : Nat, offline : BOOLEAN]

Least(a, b) == IF a < b THEN a ELSE b
Score(picture) ==
    Least(100, picture.alerts + Least(8 * picture.high, 30) + (IF picture.offline THEN 8 ELSE 0))

HighEvents(d) ==
    LET own == {i \in Newest(RiskWindow) : events[i].device = d}
        counted == {i \in own : Cardinality({j \in own : j > i}) < OwnWindow} IN
    Cardinality({i \in counted : events[i].id \in Severe})

Snapshot == [picture : Pictures, change : Int]

\* Mutant: the oldest snapshot.
Oldest(d) == IF history[d] = << >> THEN {} ELSE {history[d][1]}

\* The snapshot to compare with, if there is one.
Latest(d) == IF history[d] = << >> THEN {} ELSE {history[d][Len(history[d])]}

\* Mutant: the score stands for what it is made of.
DiffersInScore(latest, picture) == \A s \in latest : Score(s.picture) # Score(picture)

\* A snapshot is due if there is none yet or the latest one shows another picture.
Differs(latest, picture) == \A s \in latest : s.picture # picture

---------------------------------------------------------------------------
(* Calls in flight *)

Idle == [op |-> "idle"]
CallState ==
    {Idle}
    \cup [op : {"insert"}, device : Devices, id : Reports, seen : Nat]
    \cup [op : {"touch"}, device : Devices, id : Reports]
    \cup [op : {"count"}, device : Devices, alerts : AlertPoints, offline : BOOLEAN]
    \cup [op : {"compare"}, device : Devices, picture : Pictures]
    \cup [op : {"store"}, device : Devices, picture : Pictures, change : Int]

Becomes(p, c) == call' = [call EXCEPT ![p] = c]

\* The bound counts what is about to be inserted.
Room == Len(events) + Cardinality({p \in Threads : call[p].op = "insert"}) < MaxEvents

Reads(p, d) == call[p].op \in {"count", "compare", "store"} /\ call[p].device = d

---------------------------------------------------------------------------
(* managed_device_telemetry *)

\* A repetition is answered at once, and changes nothing; so is, after this, a
\* severity that is not known.
Report(p, d, r) ==
    /\ call[p] = Idle
    /\ Room
    /\ ~Repeats(d, r)
    /\ Becomes(p, [op |-> "insert", device |-> d, id |-> r, seen |-> Len(events)])
    /\ UNCHANGED <<events, alerts, offline, history, overlapped, changes, faults>>

\* create_event commits before the rules are evaluated.
Insert(p) ==
    LET c == call[p] IN
    /\ c.op = "insert"
    /\ events' = Append(events, [device |-> c.device, id |-> c.id, seen |-> c.seen])
    /\ Becomes(p, [op |-> "touch", device |-> c.device, id |-> c.id])
    /\ UNCHANGED <<alerts, offline, history, overlapped, changes, faults>>

\* The device is ACTIVE, whatever it was, and the answer leaves.
Touch(p) ==
    LET c == call[p] IN
    /\ c.op = "touch"
    /\ offline' = offline \ {c.device}
    /\ Becomes(p, Idle)
    /\ UNCHANGED <<events, alerts, history, overlapped, changes, faults>>

\* A rule raises or the backend stops between the two commits.  (Any other call that
\* dies leaves nothing behind.)
Die(p) ==
    /\ call[p].op = "touch"
    /\ faults < MaxFaults
    /\ faults' = faults + 1
    /\ Becomes(p, Idle)
    /\ UNCHANGED <<events, alerts, offline, history, overlapped, changes>>

---------------------------------------------------------------------------
(* calculate_device_risk *)

\* The device and its active alerts are read,
Read(p, d) ==
    /\ call[p] = Idle
    /\ Becomes(p, [op |-> "count", device |-> d, alerts |-> alerts[d], offline |-> d \in offline])
    /\ overlapped' = overlapped \cup {x \in {d} : \E q \in Threads : Reads(q, d)}
    /\ UNCHANGED <<events, alerts, offline, history, changes, faults>>

\* then the events,
Count(p) ==
    LET c == call[p] IN
    /\ c.op = "count"
    /\ Becomes(p, [op |-> "compare", device |-> c.device,
                   picture |-> [alerts |-> c.alerts, high |-> HighEvents(c.device), offline |-> c.offline]])
    /\ UNCHANGED <<events, alerts, offline, history, overlapped, changes, faults>>

\* then the latest snapshot, which may be what is answered.
Compare(p) ==
    LET c == call[p]
        latest == Latest(c.device)
        before == {Score(s.picture) : s \in latest} IN
    /\ c.op = "compare"
    /\ Becomes(p, IF Differs(latest, c.picture)
                  THEN [op |-> "store", device |-> c.device, picture |-> c.picture,
                        change |-> IF before = {} THEN 0 ELSE Score(c.picture) - Max(before)]
                  ELSE Idle)
    /\ UNCHANGED <<events, alerts, offline, history, overlapped, changes, faults>>

Store(p) ==
    LET c == call[p] IN
    /\ c.op = "store"
    /\ history' = [history EXCEPT ![c.device] =
                      Append(@, [picture |-> c.picture, change |-> c.change])]
    /\ Becomes(p, Idle)
    /\ UNCHANGED <<events, alerts, offline, overlapped, changes, faults>>

---------------------------------------------------------------------------
(* The rest of the lab *)

OtherEvent ==
    /\ Room
    /\ events' = Append(events, [device |-> NULL, id |-> NULL, seen |-> 0])
    /\ UNCHANGED <<alerts, offline, history, call, overlapped, changes, faults>>

AlertsChange(d, points) ==
    /\ changes < MaxChanges
    /\ changes' = changes + 1
    /\ alerts[d] # points
    /\ alerts' = [alerts EXCEPT ![d] = points]
    /\ UNCHANGED <<events, offline, history, call, overlapped, faults>>

\* mark_offline_devices
GoOffline(d) ==
    /\ changes < MaxChanges
    /\ changes' = changes + 1
    /\ d \notin offline
    /\ offline' = offline \cup {d}
    /\ UNCHANGED <<events, alerts, history, call, overlapped, faults>>

---------------------------------------------------------------------------

Init ==
    /\ events = << >>
    /\ alerts = [d \in Devices |-> 0]
    /\ offline = {}
    /\ history = [d \in Devices |-> << >>]
    /\ call = [p \in Threads |-> Idle]
    /\ overlapped = {}
    /\ changes = 0 /\ faults = 0

Goes(p) == Insert(p) \/ Touch(p) \/ Count(p) \/ Compare(p) \/ Store(p)

Next ==
    \/ \E p \in Threads : Goes(p) \/ Die(p)
    \/ \E p \in Threads, d \in Devices, r \in Reports : Report(p, d, r)
    \/ \E p \in Threads, d \in Devices : Read(p, d)
    \/ OtherEvent
    \/ \E d \in Devices, points \in AlertPoints : AlertsChange(d, points)
    \/ \E d \in Devices : GoOffline(d)

\* A call that has begun goes on.  Nobody has to look at a device.
Fairness == \A p \in Threads : WF_vars(Goes(p))

Spec == Init /\ [][Next]_vars /\ Fairness

---------------------------------------------------------------------------
(* Properties *)

(* Every variable has its type.                                            *)
TypeOK ==
    /\ events \in Seq(Event)
    /\ alerts \in [Devices -> AlertPoints]
    /\ offline \subseteq Devices /\ overlapped \subseteq Devices
    /\ history \in [Devices -> Seq(Snapshot)]
    /\ call \in [Threads -> CallState]
    /\ changes \in 0..MaxChanges /\ faults \in 0..MaxFaults

Stored(d, r) == {i \in DOMAIN events : events[i].device = d /\ events[i].id = r}

(* Telemetry is stored again only by a call that looked for its id before  *)
(* it was there, or when DedupWindow events of the lab had been recorded   *)
(* since: a retry after a lost answer, or after a call that died behind    *)
(* its first commit, adds nothing (managed_device_telemetry).              *)
RetriesAddNothing ==
    \A d \in Devices, r \in Reports : \A i, j \in Stored(d, r) :
        i < j => i > events[j].seen \/ events[j].seen - i >= DedupWindow

(* As long as reads of a device do not overlap, its history has no two     *)
(* equal neighbours and the changes add up to the score it shows now,      *)
(* whatever happens to the device between the reads (calculate_device_     *)
(* risk reads, compares and inserts without a lock).                       *)
HistoryAddsUp ==
    \A d \in Devices \ overlapped :
        LET rows == history[d] IN
        \A n \in DOMAIN rows :
            /\ n = 1 => rows[1].change = 0
            /\ n > 1 => /\ rows[n].picture # rows[n - 1].picture
                        /\ Score(rows[n].picture) = Score(rows[n - 1].picture) + rows[n].change

Shows(d) == [alerts |-> alerts[d], high |-> HighEvents(d), offline |-> d \in offline]

(* If a device is looked at again and again, its newest snapshot comes to  *)
(* show the device as it is once nothing changes any more, and stays so,   *)
(* although a slow read may store an older picture after a newer one       *)
(* (calculate_device_risk, get_device_risk_history; whether anybody looks  *)
(* is up to the clients, which read a device when its page is opened).     *)
HistoryCatchesUp ==
    \A d \in Devices :
        ([]<>\E p \in Threads : Reads(p, d)) =>
            <>[](Latest(d) # {} /\ \A s \in Latest(d) : s.picture = Shows(d))
=============================================================================
