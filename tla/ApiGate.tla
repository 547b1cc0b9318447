------------------------------- MODULE ApiGate -------------------------------
(***************************************************************************)
(* The gate in front of the API: the sliding-window rate limiter and the   *)
(* check of the API key (backend/core/security.py), with the second        *)
(* buckets that some routes charge, the events that a refusal records and  *)
(* the rules that count them.                                              *)
(*                                                                         *)
(* A request charges the bucket of its path, then, if its key is wrong,    *)
(* the one bucket that a client has for wrong keys, and on some routes     *)
(* another one.  InMemoryRateLimiter.allow reads the clock BEFORE it takes *)
(* the lock, so that times may enter a bucket out of order and a thread    *)
(* may judge by a time that has passed.  A refused call is not charged.    *)
(*                                                                         *)
(* A bucket is kept as everything it ever admitted, log, and the number of *)
(* entries that have left the deque, popped: the deque is what follows.    *)
(* The authentication is enabled; public paths touch nothing.              *)
(***************************************************************************)
EXTENDS Integers, Sequences, FiniteSets

CONSTANTS
    Clients,     \* addresses that requests come from
    Threads,     \* requests in flight at once
    Routes,      \* the kinds of routes that are asked for
    Limit,       \* [Buckets -> Nat]: calls that a bucket admits in a window
    Window,      \* [Buckets -> Nat]: its length
    Lag,         \* the longest time between reading the clock and holding the lock
    Threshold,   \* [Rules -> Nat]: events that a rule wants to see
    RuleWindow,  \* how far back the rules look
    MaxTime,     \* bound: the clock
    MaxCalls,    \* bound: calls that arrive
    MaxFaults    \* bound: events that fail to be recorded

PathBuckets == {"lab-path", "pairing-path"}
Buckets == PathBuckets \cup {"auth", "pairing-request", "pairing-complete", "managed-auth"}
EventTypes == {"AUTH_FAILURE", "RATE_LIMITED"}
Rules == {"REPEATED_AUTH_FAILURES", "REPEATED_SUSPICIOUS_EVENT"}

\* The bucket that a route charges first.
FirstBucket == [lab |-> "lab-path", pairing_request |-> "pairing-path",
                pairing_complete |-> "pairing-complete", agent |-> "managed-auth"]

ASSUME RouteAssumption == Routes \subseteq DOMAIN FirstBucket
ASSUME LimitAssumption ==
    /\ Limit \in [Buckets -> Nat \ {0}]
    /\ Window \in [Buckets -> Nat]
    /\ Lag \in Nat
\* The rule must want no more than the limiter lets through, nor forget it.
ASSUME RuleAssumption ==
    /\ Threshold \in [Rules -> Nat \ {0}]
    /\ Threshold["REPEATED_AUTH_FAILURES"] <= Limit["auth"]
    /\ RuleWindow \in Nat /\ Window["auth"] + Lag <= RuleWindow
ASSUME BoundAssumption == MaxTime \in Nat /\ MaxCalls \in Nat /\ MaxFaults \in Nat

VARIABLES
    clock,       \* time.monotonic()
    log,         \* what each bucket has admitted: the time it read, and when
    popped,      \* entries that have left the deque
    call,        \* what each thread is doing
    events,      \* the times of the events of each type
    alerts,      \* the rules that have fired, with the type they counted
    calls,       \* calls that have arrived
    faults       \* events that were not recorded

vars == <<clock, log, popped, call, events, alerts, calls, faults>>

Keys == Clients \X Buckets
Idle == [stage |-> "idle"]
CallState ==
    {Idle}
    \cup [stage : {"clock"}, client : Clients, route : Routes, right : BOOLEAN, bucket : Buckets]
    \cup [stage : {"lock"}, client : Clients, route : Routes, right : BOOLEAN, bucket : Buckets,
          now : Nat]
    \cup [stage : {"record", "judge"}, client : Clients, bucket : Buckets, type : EventTypes]

Becomes(p, c) == call' = [call EXCEPT ![p] = c]

---------------------------------------------------------------------------
(* InMemoryRateLimiter *)

Charging(client, route, right, bucket) ==
    [stage |-> "clock", client |-> client, route |-> route, right |-> right, bucket |-> bucket]

Reading(c) == [stage |-> "lock", client |-> c.client, route |-> c.route, right |-> c.right,
               bucket |-> c.bucket, now |-> clock]

\* The clock of the first bucket is read as soon as the call is there.
Arrive(p, client, route, right) ==
    /\ call[p] = Idle
    /\ calls < MaxCalls
    /\ calls' = calls + 1
    /\ Becomes(p, Reading(Charging(client, route, right, FirstBucket[route])))
    /\ UNCHANGED <<clock, log, popped, events, alerts, faults>>

ReadClock(p) ==
    /\ call[p].stage = "clock"
    /\ Becomes(p, Reading(call[p]))
    /\ UNCHANGED <<clock, log, popped, events, alerts, calls, faults>>

KeyOf(c) == <<c.client, c.bucket>>

\* Mutant: an entry leaves the deque one unit too early.
OldTooEarly(k, n, now) == now - log[k][n].now >= Window[k[2]]

\* The n-th admission is out of the window for a thread that read this time.
Old(k, n, now) == now - log[k][n].now > Window[k[2]]

\* The deque ends up without its first n entries; it stops at the first one
\* that is still in the window, whatever is behind it.
Pops(k, now, n) ==
    /\ \A m \in (popped[k] + 1)..n : Old(k, m, now)
    /\ n < Len(log[k]) => ~Old(k, n + 1, now)

\* Mutant: entries that have left the deque count as well.
FullForEver(k, n) == Len(log[k]) >= Limit[k[2]]

Full(k, n) == Len(log[k]) - n >= Limit[k[2]]

Recording(c, type) ==
    [stage |-> "record", client |-> c.client, bucket |-> c.bucket, type |-> type]

\* What an admitted call does next: another bucket, the event, or its handler.
Admitted(c) ==
    IF c.bucket \in PathBuckets /\ ~c.right
        THEN Charging(c.client, c.route, c.right, "auth")
    ELSE IF c.bucket = "pairing-path"
        THEN Charging(c.client, c.route, c.right, "pairing-request")
    ELSE IF c.bucket = "auth" THEN Recording(c, "AUTH_FAILURE")
    ELSE Idle

\* The gate records its refusals, the second buckets of the routes do not.
Refused(c) ==
    IF c.bucket \in PathBuckets \cup {"auth"} THEN Recording(c, "RATE_LIMITED") ELSE Idle

\* The section under the lock.
Admit(p) ==
    LET k == KeyOf(call[p]) IN
    /\ call[p].stage = "lock"
    /\ \E n \in popped[k]..Len(log[k]) :
          /\ Pops(k, call[p].now, n)
          /\ ~Full(k, n)
          /\ popped' = [popped EXCEPT ![k] = n]
    /\ log' = [log EXCEPT ![k] = Append(@, [now |-> call[p].now, at |-> clock])]
    /\ Becomes(p, Admitted(call[p]))
    /\ UNCHANGED <<clock, events, alerts, calls, faults>>

Refuse(p) ==
    LET k == KeyOf(call[p]) IN
    /\ call[p].stage = "lock"
    /\ \E n \in popped[k]..Len(log[k]) :
          /\ Pops(k, call[p].now, n)
          /\ Full(k, n)
          /\ popped' = [popped EXCEPT ![k] = n]
    /\ Becomes(p, Refused(call[p]))
    /\ UNCHANGED <<clock, log, events, alerts, calls, faults>>

---------------------------------------------------------------------------
(* _record_auth_failure, _record_rate_limit *)

RecordEvent(p) ==
    /\ call[p].stage = "record"
    /\ events' = [events EXCEPT ![call[p].type] = Append(@, clock)]
    /\ Becomes(p, [call[p] EXCEPT !.stage = "judge"])
    /\ UNCHANGED <<clock, log, popped, alerts, calls, faults>>

\* An exception is swallowed, before or after the commit of the event.
FailEvent(p) ==
    /\ call[p].stage \in {"record", "judge"}
    /\ faults < MaxFaults
    /\ faults' = faults + 1
    /\ Becomes(p, Idle)
    /\ UNCHANGED <<clock, log, popped, events, alerts, calls>>

Recent(type) == {n \in 1..Len(events[type]) : events[type][n] >= clock - RuleWindow}

Counts(rule, type) == rule = "REPEATED_SUSPICIOUS_EVENT" \/ type = "AUTH_FAILURE"

\* Mutant: the event that is being judged does not count.
FiresLate(rule, type) == Counts(rule, type) /\ Cardinality(Recent(type)) > Threshold[rule]

Fires(rule, type) == Counts(rule, type) /\ Cardinality(Recent(type)) >= Threshold[rule]

EvaluateRules(p) ==
    LET type == call[p].type IN
    /\ call[p].stage = "judge"
    /\ alerts' = alerts \cup {<<rule, type>> : rule \in {r \in Rules : Fires(r, type)}}
    /\ Becomes(p, Idle)
    /\ UNCHANGED <<clock, log, popped, events, calls, faults>>

---------------------------------------------------------------------------

\* Time passes; a thread gets the lock within Lag.
Tick ==
    /\ clock < MaxTime
    /\ \A p \in Threads : call[p].stage = "lock" => clock < call[p].now + Lag
    /\ clock' = clock + 1
    /\ UNCHANGED <<log, popped, call, events, alerts, calls, faults>>

Init ==
    /\ clock = 0
    /\ log = [k \in Keys |-> <<>>]
    /\ popped = [k \in Keys |-> 0]
    /\ call = [p \in Threads |-> Idle]
    /\ events = [t \in EventTypes |-> <<>>]
    /\ alerts = {}
    /\ calls = 0
    /\ faults = 0

Request(p) ==
    \/ \E client \in Clients, route \in Routes, right \in BOOLEAN :
           Arrive(p, client, route, right)
    \/ ReadClock(p)
    \/ Admit(p)
    \/ Refuse(p)
    \/ RecordEvent(p)
    \/ FailEvent(p)
    \/ EvaluateRules(p)

Next == Tick \/ \E p \in Threads : Request(p)

Spec == Init /\ [][Next]_vars

---------------------------------------------------------------------------
(* Properties *)

(* Every variable has its type; no deque has lost more than it admitted,   *)
(* and a thread that waits for the lock has read the clock at most Lag ago.*)
TypeOK ==
    /\ clock \in 0..MaxTime
    /\ log \in [Keys -> Seq([now : Nat, at : Nat])]
    /\ popped \in [Keys -> Nat] /\ \A k \in Keys : popped[k] <= Len(log[k])
    /\ call \in [Threads -> CallState]
    /\ \A p \in Threads :
          call[p].stage = "lock" => call[p].now <= clock /\ clock <= call[p].now + Lag
    /\ events \in [EventTypes -> Seq(Nat)]
    /\ alerts \subseteq Rules \X EventTypes
    /\ calls \in 0..MaxCalls
    /\ faults \in 0..MaxFaults

\* What a bucket has admitted in the last d units of time.
AdmittedWithin(k, d) == {n \in 1..Len(log[k]) : clock - log[k][n].at <= d}

(* However the threads overtake each other between the clock and the lock, *)
(* a bucket never holds more than its limit, and of the calls it admitted  *)
(* none younger than the window less Lag has left it: a client gets at     *)
(* most Limit calls through in any such time (InMemoryRateLimiter.allow).  *)
AdmissionsAreBounded ==
    \A k \in Keys :
        /\ Len(log[k]) - popped[k] <= Limit[k[2]]
        /\ Cardinality(AdmittedWithin(k, Window[k[2]] - Lag)) <= Limit[k[2]]

(* A call is refused only if its bucket has really admitted Limit calls    *)
(* within the window and Lag before: refusals cost nothing, and an old     *)
(* entry that is stuck behind a younger one is never much older            *)
(* (InMemoryRateLimiter.allow).                                            *)
RefusalsAreDeserved ==
    [][\A p \in Threads :
          call[p].stage = "lock" /\ log' = log /\ call'[p] # call[p] =>
              LET k == KeyOf(call[p]) IN
              Cardinality(AdmittedWithin(k, Window[k[2]] + Lag)) >= Limit[k[2]]]_vars

(* When a client has sent so many wrong keys that the gate stops answering *)
(* 401, the alert about them has been raised, or one of them is still on   *)
(* its way to its rule: the limiter hides no attack from the rule that     *)
(* counts its events (require_api_key, REPEATED_AUTH_FAILURES).            *)
BurstRaisesAlert ==
    [][\A p \in Threads :
          call[p].stage = "lock" /\ call[p].bucket = "auth" /\ call'[p] = Refused(call[p]) =>
              \/ <<"REPEATED_AUTH_FAILURES", "AUTH_FAILURE">> \in alerts
              \/ \E q \in Threads : call[q].stage \in {"record", "judge"}
                                     /\ call[q].type = "AUTH_FAILURE"
              \/ faults > 0]_vars
=============================================================================
