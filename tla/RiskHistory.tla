----------------------------- MODULE RiskHistory -----------------------------
(***************************************************************************)
(* The lab risk and its history: _collect_current_risk, record_risk_       *)
(* snapshot and calculate_lab_risk in backend/detection/risk.py, and the   *)
(* two risk rules of backend/detection/rules.py that record an event.      *)
(*                                                                         *)
(* calculate_lab_risk runs in the thread of a handler: for create_event,   *)
(* which then evaluates the risk rules, and for the dashboard, which does  *)
(* not.  It reads the signals of one source after the other, then the      *)
(* latest snapshot, then the snapshot with the signature of what it has    *)
(* collected, each with a SELECT of its own, and inserts a snapshot if it  *)
(* found none.  A signature is unique: when another thread has inserted it *)
(* in the meantime, the commit fails and the assessment is abandoned.  A   *)
(* snapshot that exists is returned as it is, with the change it had then. *)
(*                                                                         *)
(* Signals of one source all weigh the same.  A source counts at most its  *)
(* cap, and a signal that finds the cap exhausted is not listed, so what   *)
(* is collected (a picture) is the number of listed signals per source.    *)
(* The cut of the lists to ten contributors and eight reasons is left out. *)
(***************************************************************************)
EXTENDS Integers, Sequences, FiniteSets, FiniteSetsExt

CONSTANTS
    Sources,      \* what the risk is collected from, e.g. ALERT and APK
    Order,        \* the sources in the order in which they are read
    Points,       \* the points of one signal, per source
    Cap,          \* SOURCE_CAPS
    MaxSignals,   \* signals a source can have at once
    Threads,      \* assessments that can be in flight at once
    Handlers,     \* the threads that record events; the others serve the dashboard
    Rise,         \* threshold of RISK_ESCALATION (12)
    MaxChanges    \* bound: changes of the lab

ASSUME OrderAssumption ==
    /\ Order \in Seq(Sources)
    /\ \A s \in Sources : \E i \in DOMAIN Order : Order[i] = s
ASSUME WeightAssumption ==
    \A s \in Sources : Points[s] \in Nat \ {0} /\ Cap[s] \in Nat
ASSUME HandlerAssumption == Handlers \subseteq Threads
ASSUME BoundAssumption == MaxSignals \in Nat /\ Rise \in Nat /\ MaxChanges \in Nat

VARIABLES
    lab,        \* the signals there are now, per source
    rows,       \* risk_snapshots, oldest first: picture, change and who inserted it
    call,       \* what each thread is doing
    log,        \* RISK_ESCALATION and RISK_RECOVERY events recorded
    last,       \* history: the score of the assessment that returned last
    changes     \* changes of the lab so far

vars == <<lab, rows, call, log, last, changes>>

---------------------------------------------------------------------------
(* The score *)

Pictures == [Sources -> 0..MaxSignals]

\* Signals that find the cap of their source exhausted are not listed.
Full(s) == (Cap[s] + Points[s] - 1) \div Points[s]
Listed == [signals \in Pictures |->
              [s \in Sources |-> IF signals[s] <= Full(s) THEN signals[s] ELSE Full(s)]]

\* What n listed signals of a source add: the last one only up to the cap.
Counted(s, n) == IF n * Points[s] <= Cap[s] THEN n * Points[s] ELSE Cap[s]

Clamp(n) == IF n > 100 THEN 100 ELSE n
Score == [picture \in Pictures |->
            Clamp(MapThenSumSet(LAMBDA s : Counted(s, picture[s]), Sources))]

Elevated(score) == score >= 25      \* risk_level is not LOW
Recovered(score) == score <= 24

---------------------------------------------------------------------------
(* Rows and calls *)

RiskEvents == {"RISK_ESCALATION", "RISK_RECOVERY"}

Empty == [s \in Sources |-> 0]

Row == [picture : Pictures, change : Int, author : Threads]

Idle == [op |-> "idle"]
CallState ==
    {Idle}
    \cup [op : {"collect"}, next : 1..(Len(Order) + 1), picture : Pictures, rules : BOOLEAN]
    \cup [op : {"lookup"}, base : Nat, picture : Pictures, rules : BOOLEAN]
    \cup [op : {"insert"}, base : Nat, picture : Pictures, rules : BOOLEAN]
    \cup [op : {"judge"}, picture : Pictures, change : Int, before : 0..100]

Becomes(p, c) == call' = [call EXCEPT ![p] = c]

Collecting(rules) == [op |-> "collect", next |-> 1, picture |-> Empty, rules |-> rules]

Judging(c, change) ==
    [op |-> "judge", picture |-> c.picture, change |-> change, before |-> last]

\* calculate_lab_risk returns: create_event goes on to the risk rules.
Returns(p, change) ==
    LET c == call[p] IN
    /\ last' = Score[c.picture]
    /\ Becomes(p, IF c.rules THEN Judging(c, change) ELSE Idle)

---------------------------------------------------------------------------
(* calculate_lab_risk *)

\* A security event, with the rules, or a look at the dashboard, without them.
Assess(p) ==
    /\ call[p] = Idle
    /\ Becomes(p, Collecting(p \in Handlers))
    /\ UNCHANGED <<lab, rows, log, last, changes>>

\* The signals of the next source are read.
Collect(p) ==
    LET c == call[p]  s == Order[c.next] IN
    /\ c.op = "collect"
    /\ c.next <= Len(Order)
    /\ Becomes(p, [op |-> "collect", next |-> c.next + 1, rules |-> c.rules,
                   picture |-> [c.picture EXCEPT ![s] = Listed[lab][s]]])
    /\ UNCHANGED <<lab, rows, log, last, changes>>

\* Mutant: the oldest snapshot is read.
OldestRow == IF rows = <<>> THEN 0 ELSE 1

LatestRow == Len(rows)

ReadLatest(p) ==
    LET c == call[p] IN
    /\ c.op = "collect"
    /\ c.next > Len(Order)
    /\ Becomes(p, [op |-> "lookup", base |-> LatestRow,
                   picture |-> c.picture, rules |-> c.rules])
    /\ UNCHANGED <<lab, rows, log, last, changes>>

\* Mutant: the signature is that of the score alone.
RowsOfScore(picture) == {i \in DOMAIN rows : Score[rows[i].picture] = Score[picture]}

RowsOf(picture) == {i \in DOMAIN rows : rows[i].picture = picture}

\* A snapshot of this picture is returned with the change it has.
ReadExisting(p) ==
    LET c == call[p] IN
    /\ c.op = "lookup"
    /\ IF RowsOf(c.picture) = {}
       THEN Becomes(p, [c EXCEPT !.op = "insert"]) /\ UNCHANGED last
       ELSE \E i \in RowsOf(c.picture) : Returns(p, rows[i].change)
    /\ UNCHANGED <<lab, rows, log, changes>>

Change(c) ==
    IF c.base = 0 THEN 0 ELSE Score[c.picture] - Score[rows[c.base].picture]

\* Mutant: the failed commit is ignored.
Ignored(p, c) == Becomes(p, IF c.rules THEN Judging(c, Change(c)) ELSE Idle)

\* The commit violates the unique signature: the exception ends the call.
Abandoned(p, c) == Becomes(p, Idle)

InsertRow(p) ==
    LET c == call[p] IN
    /\ c.op = "insert"
    /\ IF RowsOf(c.picture) = {}
       THEN /\ rows' = Append(rows, [picture |-> c.picture, change |-> Change(c),
                                     author |-> p])
            /\ Returns(p, Change(c))
       ELSE Abandoned(p, c) /\ UNCHANGED <<rows, last>>
    /\ UNCHANGED <<lab, log, changes>>

---------------------------------------------------------------------------
(* evaluate_risk_rules *)

Hits(c) ==
    {kind \in RiskEvents :
        IF kind = "RISK_ESCALATION"
        THEN c.change >= Rise /\ Elevated(Score[c.picture])
        ELSE c.change < 0 /\ Recovered(Score[c.picture])}

\* The events of the hits are committed, and then the risk is calculated anew.
Judge(p) ==
    LET c == call[p] IN
    /\ c.op = "judge"
    /\ log' = log \cup {[kind |-> k, picture |-> c.picture, change |-> c.change,
                          before |-> c.before] : k \in Hits(c)}
    /\ Becomes(p, IF Hits(c) = {} THEN Idle ELSE Collecting(FALSE))
    /\ UNCHANGED <<lab, rows, last, changes>>

---------------------------------------------------------------------------
(* Alerts, scans, devices and events come, are closed and grow old. *)
LabChanges(signals) ==
    /\ changes < MaxChanges
    /\ signals # lab
    /\ changes' = changes + 1
    /\ lab' = signals
    /\ UNCHANGED <<rows, call, log, last>>

Init ==
    /\ lab = Empty
    /\ rows = <<>>
    /\ call = [p \in Threads |-> Idle]
    /\ log = {}
    /\ last = 0
    /\ changes = 0

Step(p) == Collect(p) \/ ReadLatest(p) \/ ReadExisting(p) \/ InsertRow(p) \/ Judge(p)

Next ==
    \/ \E p \in Threads :
          \/ Assess(p)
          \/ Step(p)
    \/ \E signals \in Pictures : LabChanges(signals)

(* A handler that has begun goes on, and the dashboard asks for the risk    *)
(* again and again (dashboard.js refreshes with a timer).                   *)
Fairness ==
    /\ \A p \in Threads : WF_vars(Step(p))
    /\ \A p \in Threads \ Handlers : WF_vars(Assess(p))

Spec == Init /\ [][Next]_vars /\ Fairness
---------------------------------------------------------------------------
(* The types of the tables and of the assessments in flight. *)
TypeOK ==
    /\ lab \in Pictures
    /\ rows \in Seq(Row)
    /\ call \in [Threads -> CallState]
    /\ \A p \in Threads : call[p].op \in {"lookup", "insert"} => call[p].base <= Len(rows)
    /\ log \subseteq [kind : RiskEvents,
                      picture : Pictures, change : Int, before : 0..100]
    /\ last \in 0..100
    /\ changes \in Nat

---------------------------------------------------------------------------
(* Safety *)

(* The changes of the history add up as long as one thread writes it: a     *)
(* snapshot that the same thread inserted after another shows the very      *)
(* difference of their scores.  Only a snapshot that another thread has     *)
(* overtaken may be measured against an older one.                          *)
ChainedByOneThread ==
    \A i \in DOMAIN rows :
        IF i = 1 THEN rows[i].change = 0
        ELSE rows[i].author = rows[i-1].author =>
                rows[i].change = Score[rows[i].picture] - Score[rows[i-1].picture]

(* A recorded escalation or recovery can be looked up: the history has a    *)
(* snapshot with that score and that change, whichever thread inserted it   *)
(* and whatever became of the inserts that lost the race.                   *)
EventsAreOnRecord ==
    \A e \in log : \E i \in DOMAIN rows :
        rows[i].picture = e.picture /\ rows[i].change = e.change

---------------------------------------------------------------------------
(* Liveness *)

Current == Listed[lab]

(* What the lab looks like is on record sooner or later, once it no longer  *)
(* changes (here: after MaxChanges), even though assessments read the       *)
(* sources one by one and inserts that lose a race are abandoned.           *)
RiskIsRecorded == []<>(\E i \in DOMAIN rows : rows[i].picture = Current)

---------------------------------------------------------------------------
(* What the rules say and the code does not do *)

(* A recovery is recorded when the lab risk falls ("Records a recovery when *)
(* the lab risk falls", RULE_DEFINITIONS): the score assessed before was    *)
(* higher.                                                                  *)
RecoveryIsReal ==
    \A e \in log : e.kind = "RISK_RECOVERY" => Score[e.picture] < e.before
=============================================================================
