----------------------------- MODULE AlertEngine -----------------------------
(***************************************************************************)
(* The detection engine: security events, the rules they fire and the      *)
(* alerts the rules raise (backend/detection/engine.py, rules.py), with    *)
(* the alert routes of backend/api/routes.py.                              *)
(*                                                                         *)
(* create_event is called from every handler, in the handler's thread.  It *)
(* commits the event, evaluates the event rules, and for each hit selects  *)
(* a matching active alert and then commits either a repeat of it or a new *)
(* alert; then it counts the active alerts and may raise one alert more.   *)
(* Each SELECT sees the latest committed rows and holds no lock, so        *)
(* another call may commit between the select of upsert_alert and its      *)
(* commit.  An exception after the first commit is swallowed: what was     *)
(* committed stays, the rest is not done.                                  *)
(*                                                                         *)
(* A rule has one title, so rule and source stand for title, source and    *)
(* rule_id.  Severity, points, descriptions and metadata of an alert are   *)
(* left out, and so is the order in which two matching alerts were last    *)
(* seen: any of them may be selected.  The events RISK_ESCALATION and      *)
(* RISK_RECOVERY fire no rule and belong to the risk history.              *)
(***************************************************************************)
EXTENDS Integers, FiniteSets, FiniteSetsExt

CONSTANTS
    Alerts,              \* ids of the rows the alerts table can hold
    Kinds,               \* the kinds of events: [type, source, severity, dev]
    Threads,             \* calls that can be in flight at once
    NULL,                \* the SQL NULL: no managed_device_id, no author
    SuspiciousThreshold, \* threshold of REPEATED_SUSPICIOUS_EVENT (3)
    AuthThreshold,       \* threshold of REPEATED_AUTH_FAILURES (5)
    AlertThreshold,      \* threshold of MULTIPLE_ACTIVE_ALERTS (3)
    MaxEvents,           \* bound: events recorded
    MaxReviews,          \* bound: acknowledgements and resolutions
    MaxFaults            \* bound: calls that fail half-way

ASSUME ThreadAssumption == NULL \notin Threads
ASSUME ThresholdAssumption ==
    /\ SuspiciousThreshold \in Nat \ {0} /\ AuthThreshold \in Nat \ {0}
    /\ AlertThreshold \in Nat \ {0}
ASSUME BoundAssumption ==
    MaxEvents \in Nat /\ MaxReviews \in Nat /\ MaxFaults \in Nat

VARIABLES
    alert,        \* the alerts table
    recent,       \* events of the last 30 minutes, counted per stream
    recorded,     \* events recorded so far
    trail,        \* ALERT_ACKNOWLEDGED and ALERT_RESOLVED events, per alert
    call,         \* what each thread is doing
    reviews,      \* reviews begun so far
    faults,       \* calls that failed half-way
    author,       \* history: the thread that inserted each alert
    fired         \* history: hits that reached upsert_alert, per condition

vars == <<alert, recent, recorded, trail, call, reviews, faults, author, fired>>

---------------------------------------------------------------------------
(* The rules *)

\* RULE_DEFINITIONS that evaluate_event_rules looks at, in its order.
EventRules == <<"NEW_DEVICE", "REPEATED_SUSPICIOUS_EVENT",
                "REPEATED_AUTH_FAILURES", "HIGH_RISK_APK", "CRITICAL_APK",
                "WEBSEC_HIGH_RISK", "WEBSEC_CRITICAL", "DEVICE_OFFLINE">>
Several == "MULTIPLE_ACTIVE_ALERTS"
Rules == {EventRules[i] : i \in 1..8} \cup {Several}

SuspiciousTypes == {"AUTH_FAILURE", "RATE_LIMITED", "DEVICE_OFFLINE", "DEVICE_ONLINE"}

\* Events are counted per type and source, whatever device they come from.
Stream(e) == <<e.type, e.source>>
Streams == {Stream(e) : e \in Kinds}

Fires(rule, e) ==
    \/ rule \in {"NEW_DEVICE", "DEVICE_OFFLINE"} /\ e.type = rule
    \/ /\ rule = "REPEATED_SUSPICIOUS_EVENT"
       /\ e.type \in SuspiciousTypes
       /\ recent[Stream(e)] >= SuspiciousThreshold
    \/ /\ rule = "REPEATED_AUTH_FAILURES"
       /\ Stream(e) = <<"AUTH_FAILURE", "auth">>
       /\ recent[Stream(e)] >= AuthThreshold
    \/ /\ rule = "HIGH_RISK_APK"
       /\ e.type = "APK_SCAN_COMPLETED" /\ e.severity \in {"HIGH", "CRITICAL"}
    \/ /\ rule = "CRITICAL_APK"
       /\ e.type = "APK_SCAN_COMPLETED" /\ e.severity = "CRITICAL"
    \/ /\ rule = "WEBSEC_HIGH_RISK"
       /\ e.type = "WEBSEC_SCAN_COMPLETED" /\ e.severity = "HIGH"
    \/ /\ rule = "WEBSEC_CRITICAL"
       /\ e.type = "WEBSEC_SCAN_COMPLETED" /\ e.severity = "CRITICAL"

EventHits(e) == {EventRules[i] : i \in {j \in 1..8 : Fires(EventRules[j], e)}}

\* The hits of one evaluation are handled in the order of the rules.
IsNext(rule, rules) ==
    /\ rule \in rules
    /\ \A i, j \in 1..8 :
          EventRules[j] = rule /\ EventRules[i] \in rules => j <= i

\* The source of the alert that a hit raises.
HitSource(rule, e) ==
    CASE rule = "REPEATED_SUSPICIOUS_EVENT" -> e.source
      [] rule = "NEW_DEVICE" -> "network"
      [] rule = "REPEATED_AUTH_FAILURES" -> "auth"
      [] rule \in {"HIGH_RISK_APK", "CRITICAL_APK"} -> "apk"
      [] rule \in {"WEBSEC_HIGH_RISK", "WEBSEC_CRITICAL"} -> "websec"
      [] rule = "DEVICE_OFFLINE" -> "managed_device"
      [] OTHER -> "alerts"

---------------------------------------------------------------------------
(* Rows and calls *)

\* What an alert is about: a rule and a source.
About(rule, e) == <<rule, HitSource(rule, e)>>
Conditions == {About(rule, e) : rule \in Rules, e \in Kinds}
                 \cup {<<Several, "alerts">>}
Tags == {e.dev : e \in Kinds} \cup {NULL}

AlertRow == [status: {"ABSENT", "active", "acknowledged", "resolved"},
             condition: Conditions, dev: Tags, repeat_count: Nat,
             acknowledged: BOOLEAN, resolved: BOOLEAN]

Existing(i) == alert[i].status # "ABSENT"
Active(i) == alert[i].status = "active"
ActiveCount == Cardinality({i \in Alerts : Active(i)})

Reviews == {"acknowledged", "resolved"}

Idle == [op |-> "idle"]
CallState ==
    {Idle}
    \cup [op: {"evaluate", "assess"}, event: Kinds]
    \cup [op: {"raise"}, event: Kinds, rules: SUBSET Rules]
    \cup [op: {"insert"}, event: Kinds, rule: Rules, rules: SUBSET Rules]
    \cup [op: {"bump"}, event: Kinds, rule: Rules, rules: SUBSET Rules,
          id: Alerts, repeat_count: Nat]
    \cup [op: {"review"}, id: Alerts, status: Reviews,
          loaded: {"active", "acknowledged", "resolved"}]
    \cup [op: {"note"}, id: Alerts, status: Reviews]

Becomes(p, c) == call' = [call EXCEPT ![p] = c]

---------------------------------------------------------------------------
(* create_event *)

\* The event is committed, whatever happens next.
RecordEvent(p, e) ==
    /\ call[p] = Idle
    /\ recorded < MaxEvents
    /\ recorded' = recorded + 1
    /\ recent' = [recent EXCEPT ![Stream(e)] = @ + 1]
    /\ Becomes(p, [op |-> "evaluate", event |-> e])
    /\ UNCHANGED <<alert, trail, reviews, faults, author, fired>>

Raising(e, rules) == [op |-> "raise", event |-> e, rules |-> rules]
Assessing(e) == [op |-> "assess", event |-> e]

\* evaluate_event_rules: counts and thresholds as they are now.
EvaluateEvent(p) ==
    LET e == call[p].event  rules == EventHits(e) IN
    /\ call[p].op = "evaluate"
    /\ Becomes(p, IF rules = {} THEN Assessing(e) ELSE Raising(e, rules))
    /\ UNCHANGED <<alert, recent, recorded, trail, reviews, faults, author, fired>>

\* calculate_lab_risk and evaluate_risk_rules: all active alerts are counted,
\* those that this very rule has raised included.
AssessRisk(p) ==
    LET e == call[p].event IN
    /\ call[p].op = "assess"
    /\ Becomes(p, IF ActiveCount >= AlertThreshold THEN Raising(e, {Several}) ELSE Idle)
    /\ UNCHANGED <<alert, recent, recorded, trail, reviews, faults, author, fired>>

---------------------------------------------------------------------------
(* upsert_alert: a select, then a commit *)

\* Mutant: an event with a device looks for an alert without one.
MatchesUntagged(i, condition, dev) ==
    /\ Active(i)
    /\ alert[i].condition = condition
    /\ dev # NULL => alert[i].dev = NULL

\* An event without a device matches an alert with any.
Matches(i, condition, dev) ==
    /\ Active(i)
    /\ alert[i].condition = condition
    /\ dev # NULL => alert[i].dev = dev

SelectAlert(p, rule) ==
    LET c == call[p]  e == c.event  rest == c.rules \ {rule}
        matching == {i \in Alerts : Matches(i, About(rule, e), e.dev)} IN
    /\ c.op = "raise"
    /\ IsNext(rule, c.rules)
    /\ \/ /\ matching = {}
          /\ Becomes(p, [op |-> "insert", event |-> e, rule |-> rule, rules |-> rest])
       \/ \E i \in matching :
             Becomes(p, [op |-> "bump", event |-> e, rule |-> rule, rules |-> rest,
                         id |-> i, repeat_count |-> alert[i].repeat_count])
    /\ fired' = [fired EXCEPT ![About(rule, e)] = @ + 1]
    /\ UNCHANGED <<alert, recent, recorded, trail, reviews, faults, author>>

\* The next hit, or the assessment that follows the event's hits.
Continuation(c) ==
    IF c.rules # {} THEN Raising(c.event, c.rules)
    ELSE IF c.rule = Several THEN Idle ELSE Assessing(c.event)

NewAlert(condition, dev) ==
    [status |-> "active", condition |-> condition, dev |-> dev,
     repeat_count |-> 1, acknowledged |-> FALSE, resolved |-> FALSE]

InsertAlert(p, i) ==
    LET c == call[p] IN
    /\ c.op = "insert"
    /\ ~Existing(i)
    /\ alert' = [alert EXCEPT ![i] = NewAlert(About(c.rule, c.event), c.event.dev)]
    /\ author' = [author EXCEPT ![i] = p]
    /\ Becomes(p, Continuation(c))
    /\ UNCHANGED <<recent, recorded, trail, reviews, faults, fired>>

\* Mutant: a repeated alert is made active again.
Reactivated(row, loaded) ==
    [row EXCEPT !.repeat_count = loaded + 1, !.status = "active"]

\* Mutant: the loaded count is added to the stored one.
RepeatedTwice(row, loaded) == [row EXCEPT !.repeat_count = @ + loaded + 1]

\* repeat_count is written from the loaded value; status is not written.
Repeated(row, loaded) == [row EXCEPT !.repeat_count = loaded + 1]

BumpAlert(p) ==
    LET c == call[p] IN
    /\ c.op = "bump"
    /\ alert' = [alert EXCEPT ![c.id] = Repeated(@, c.repeat_count)]
    /\ Becomes(p, Continuation(c))
    /\ UNCHANGED <<recent, recorded, trail, reviews, faults, author, fired>>

---------------------------------------------------------------------------
(* acknowledge_alert_record and resolve_alert_record: any alert, any status *)

LoadAlert(p, i, status) ==
    /\ call[p] = Idle
    /\ Existing(i)
    /\ reviews < MaxReviews
    /\ reviews' = reviews + 1
    /\ Becomes(p, [op |-> "review", id |-> i, status |-> status,
                   loaded |-> alert[i].status])
    /\ UNCHANGED <<alert, recent, recorded, trail, faults, author, fired>>

\* Nothing is asked of the status; it is written unless it was loaded as wanted.
ReviewedRow(row, c) ==
    [row EXCEPT !.status = IF c.loaded = c.status THEN @ ELSE c.status,
                !.acknowledged = @ \/ c.status = "acknowledged",
                !.resolved = @ \/ c.status = "resolved"]

CommitReview(p) ==
    LET c == call[p] IN
    /\ c.op = "review"
    /\ alert' = [alert EXCEPT ![c.id] = ReviewedRow(@, c)]
    /\ Becomes(p, [op |-> "note", id |-> c.id, status |-> c.status])
    /\ UNCHANGED <<recent, recorded, trail, reviews, faults, author, fired>>

\* Mutant: an alert has one review event at most.
TracedOnce(c) ==
    IF \E s \in Reviews : <<s, c.id>> \in trail THEN trail
    ELSE trail \cup {<<c.status, c.id>>}

Traced(c) == trail \cup {<<c.status, c.id>>}

\* The review event, which fires no rule.
NoteReview(p) ==
    LET c == call[p] IN
    /\ c.op = "note"
    /\ trail' = Traced(c)
    /\ Becomes(p, Idle)
    /\ UNCHANGED <<alert, recent, recorded, reviews, faults, author, fired>>

---------------------------------------------------------------------------
(* The environment *)

\* An exception, which create_event swallows, or the process stops.
Fail(p) ==
    /\ call[p] # Idle
    /\ faults < MaxFaults
    /\ faults' = faults + 1
    /\ Becomes(p, Idle)
    /\ UNCHANGED <<alert, recent, recorded, trail, reviews, author, fired>>

\* Thirty minutes pass, and the events of a stream leave the window.
Forget(stream) ==
    /\ recent[stream] > 0
    /\ recent' = [recent EXCEPT ![stream] = @ - 1]
    /\ UNCHANGED <<alert, recorded, trail, call, reviews, faults, author, fired>>

NoAlert == [status |-> "ABSENT", condition |-> <<Several, "alerts">>, dev |-> NULL,
            repeat_count |-> 0, acknowledged |-> FALSE, resolved |-> FALSE]

Init ==
    /\ alert = [i \in Alerts |-> NoAlert]
    /\ recent = [s \in Streams |-> 0]
    /\ recorded = 0
    /\ trail = {}
    /\ call = [p \in Threads |-> Idle]
    /\ reviews = 0
    /\ faults = 0
    /\ author = [i \in Alerts |-> NULL]
    /\ fired = [k \in Conditions |-> 0]

Upsert(p) ==
    \/ \E rule \in Rules : SelectAlert(p, rule)
    \/ \E i \in Alerts : InsertAlert(p, i)
    \/ BumpAlert(p)

Review(p) ==
    \/ \E i \in Alerts, status \in Reviews : LoadAlert(p, i, status)
    \/ CommitReview(p)
    \/ NoteReview(p)

Next ==
    \/ \E s \in Streams : Forget(s)
    \/ \E p \in Threads :
          \/ \E e \in Kinds : RecordEvent(p, e)
          \/ EvaluateEvent(p)
          \/ AssessRisk(p)
          \/ Upsert(p)
          \/ Review(p)
          \/ Fail(p)

Spec == Init /\ [][Next]_vars
---------------------------------------------------------------------------
(* The types of the tables and of the calls in flight. *)
TypeOK ==
    /\ alert \in [Alerts -> AlertRow]
    /\ recent \in [Streams -> Nat]
    /\ recorded \in Nat
    /\ trail \subseteq Reviews \X Alerts
    /\ call \in [Threads -> CallState]
    /\ reviews \in Nat
    /\ faults \in Nat
    /\ author \in [Alerts -> Threads \cup {NULL}]
    /\ fired \in [Conditions -> Nat]

---------------------------------------------------------------------------
(* Safety *)

(* upsert_alert never sees its own duplicates: two active alerts of one     *)
(* condition and one device were inserted by different threads, each of     *)
(* which had looked before the other had committed.  So there are never     *)
(* more of them than calls in flight at once, and with one thread there are *)
(* none ("avoiding duplicate active alerts", docs/detection-engine.md).     *)
DuplicatesAreRaced ==
    \A i, j \in Alerts :
        /\ i # j /\ Active(i) /\ Active(j)
        /\ alert[i].condition = alert[j].condition
        /\ alert[i].dev = alert[j].dev
        => author[i] # author[j]

(* An alert that was acknowledged or resolved is never active again, not    *)
(* even by the commit of a repeat that had selected it while it was active. *)
ClosedStaysClosed ==
    [][\A i \in Alerts :
          alert[i].status \in Reviews => alert'[i].status \in Reviews]_vars

(* Each closed alert shows when it was closed and, as long as no call       *)
(* failed half-way, its event is recorded or is about to be                 *)
(* (acknowledge_alert_record and resolve_alert_record commit twice).        *)
StatusIsTraced ==
    \A i \in Alerts :
        /\ alert[i].status = "acknowledged" => alert[i].acknowledged
        /\ alert[i].status = "resolved" => alert[i].resolved
        /\ faults = 0 /\ alert[i].status \in Reviews =>
              \/ <<alert[i].status, i>> \in trail
              \/ \E p \in Threads :
                    call[p] = [op |-> "note", id |-> i, status |-> alert[i].status]

(* The repeat counts of the alerts of a condition never add up to more than *)
(* the hits that reached upsert_alert, in spite of lost updates, inserts by *)
(* several threads and closed alerts that are repeated.                     *)
RepeatsAreBacked ==
    \A k \in Conditions :
        MapThenSumSet(LAMBDA i : alert[i].repeat_count,
                      {i \in Alerts : Existing(i) /\ alert[i].condition = k})
           <= fired[k]
=============================================================================
