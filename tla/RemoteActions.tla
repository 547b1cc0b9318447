---------------------------- MODULE RemoteActions ----------------------------
(***************************************************************************)
(* Remote actions: the dashboard requests them, the Windows agent polls,   *)
(* handles and reports them (request_managed_action, get_pending_actions   *)
(* and complete_managed_action in backend/api/routes.py; run_once and      *)
(* run_forever in agent/windows_agent.py).                                 *)
(*                                                                         *)
(* One pass of the agent is a heartbeat, a telemetry report, a poll and a  *)
(* report per polled action, one request after the other.  Any failure     *)
(* ends the pass: the agent forgets what it polled, waits for its backoff, *)
(* doubles it and begins again.  The server admits a limited number of     *)
(* agent requests per client and window (InMemoryRateLimiter), so a pass   *)
(* with many actions fails half-way, and the next passes spend the little  *)
(* that has been freed on their heartbeats.  Time is discrete; a request   *)
(* takes at least one unit, and any step may come later than it could.     *)
(*                                                                         *)
(* One agent, alone behind its address.  Its device exists and is paired;  *)
(* payloads, heartbeat ids and the events of the audit log are left out.   *)
(***************************************************************************)
EXTENDS Integers, Sequences, SequencesExt

CONSTANTS
    Actions,       \* the actions the dashboard may request, each once
    Unknown,       \* those whose action_type the agent does not know
    Limit,         \* agent requests admitted per client and window (20)
    Window,        \* the length of that window (60 s)
    Interval,      \* the agent's interval_seconds (10 to 300 s)
    MaxBackoff,    \* the longest backoff (60 s)
    Page,          \* actions returned by one poll (20)
    MaxLosses      \* bound: requests lost, answers lost, agent restarts

ASSUME ActionAssumption == Unknown \subseteq Actions
ASSUME LimitAssumption == Limit \in Nat \ {0} /\ Page \in Nat \ {0}
ASSUME TimeAssumption ==
    /\ Window \in Nat /\ Interval \in Nat \ {0}
    /\ MaxBackoff \in Nat \ {0} /\ MaxLosses \in Nat

VARIABLES
    status,        \* the remote_actions table: a status per action
    queue,         \* the requested actions, oldest first
    revoked,       \* the device has been revoked
    bucket,        \* ages of the requests the limiter remembers, oldest first
    stage,         \* the request the agent makes next
    todo,          \* the actions polled and not yet reported
    wait,          \* time until the agent goes on
    backoff,       \* the agent's backoff
    late,          \* reports the agent gave up on and the server will commit
    reports,       \* reports committed, per action
    losses         \* requests lost, answers lost and restarts so far

server == <<status, queue, revoked, late, reports>>
agent == <<stage, todo, wait, backoff>>
remoteVars == <<server, agent, bucket, losses>>

---------------------------------------------------------------------------
(* The server *)

RequestAction(a) ==
    /\ status[a] = "ABSENT"
    /\ ~revoked
    /\ status' = [status EXCEPT ![a] = "REQUESTED"]
    /\ queue' = Append(queue, a)
    /\ UNCHANGED <<revoked, late, reports, agent, bucket, losses>>

RevokeDevice ==
    /\ ~revoked
    /\ revoked' = TRUE
    /\ UNCHANGED <<status, queue, late, reports, agent, bucket, losses>>

\* What the limiter still remembers when it looks, and whether it admits.
Fresh == SelectSeq(bucket, LAMBDA age : age <= Window)
Admits == Len(Fresh) < Limit
Charge == bucket' = Append(Fresh, 0)

\* Mutant: the newest actions come first.
NewestFirst ==
    SubSeq(Reverse(queue), 1, IF Len(queue) <= Page THEN Len(queue) ELSE Page)

Pending == SubSeq(queue, 1, IF Len(queue) <= Page THEN Len(queue) ELSE Page)

\* Mutant: a report does not take the action off the pending ones.
StaysQueued(a) == queue

\* The pending actions without a.
Remaining(a) == RemoveFirst(queue, a)

\* What the agent makes of an action, by its type alone.
Result(a) == IF a \in Unknown THEN "REJECTED" ELSE "COMPLETED"

\* complete_managed_action: the status it had is not looked at.
CommitReport(a) ==
    /\ status' = [status EXCEPT ![a] = Result(a)]
    /\ queue' = Remaining(a)
    /\ reports' = [reports EXCEPT ![a] = @ + 1]

\* A report that the agent gave up on is committed after all.
CommitLate(a) ==
    /\ a \in late
    /\ late' = late \ {a}
    /\ CommitReport(a)
    /\ UNCHANGED <<revoked, agent, bucket, losses>>

---------------------------------------------------------------------------
(* The agent's pass *)

Ready == wait = 0

\* Mutant: every retry waits for the first backoff.
ConstantBackoff == 1

NextBackoff == IF backoff * 2 <= MaxBackoff THEN backoff * 2 ELSE MaxBackoff

\* The pass ends in an exception.
GiveUp ==
    /\ stage' = "heartbeat"
    /\ todo' = <<>>
    /\ wait' = 1 + backoff
    /\ backoff' = NextBackoff

\* The pass goes on with the next request...
GoOn(next, rest) ==
    /\ stage' = next
    /\ todo' = rest
    /\ wait' = 1
    /\ UNCHANGED backoff

\* ... or is done.
Rest ==
    /\ stage' = "heartbeat"
    /\ todo' = <<>>
    /\ wait' = 1 + Interval
    /\ backoff' = 1

\* 429: device_from_request admits no more requests of this client.
Refused ==
    /\ Ready
    /\ ~Admits
    /\ bucket' = Fresh
    /\ GiveUp
    /\ UNCHANGED <<server, losses>>

\* 401: the device is revoked.
Unauthorized ==
    /\ Ready
    /\ Admits
    /\ revoked
    /\ Charge
    /\ GiveUp
    /\ UNCHANGED <<server, losses>>

Served == Ready /\ Admits /\ ~revoked /\ Charge

SendHeartbeat ==
    /\ stage = "heartbeat"
    /\ Served
    /\ GoOn("telemetry", <<>>)
    /\ UNCHANGED <<server, losses>>

Telemetry ==
    /\ stage = "telemetry"
    /\ Served
    /\ GoOn("poll", <<>>)
    /\ UNCHANGED <<server, losses>>

Poll ==
    /\ stage = "poll"
    /\ Served
    /\ IF Pending = <<>> THEN Rest ELSE GoOn("report", Pending)
    /\ UNCHANGED <<server, losses>>

Report ==
    /\ stage = "report"
    /\ Served
    /\ CommitReport(Head(todo))
    /\ IF Len(todo) = 1 THEN Rest ELSE GoOn("report", Tail(todo))
    /\ UNCHANGED <<revoked, late, losses>>

Pass == Refused \/ Unauthorized \/ SendHeartbeat \/ Telemetry \/ Poll \/ Report

---------------------------------------------------------------------------
(* The environment *)

Loss == losses < MaxLosses /\ losses' = losses + 1

\* The request does not arrive.
DropRequest ==
    /\ Ready
    /\ Loss
    /\ GiveUp
    /\ UNCHANGED <<server, bucket>>

\* The request is served, and the answer lost or too late (8 s); what a report
\* commits it commits now or when the agent has long gone on.
DropAnswer ==
    /\ Served
    /\ Loss
    /\ GiveUp
    /\ \/ stage # "report" /\ UNCHANGED server
       \/ /\ stage = "report"
          /\ CommitReport(Head(todo))
          /\ UNCHANGED <<revoked, late>>
       \/ /\ stage = "report"
          /\ late' = late \cup {Head(todo)}
          /\ UNCHANGED <<status, queue, revoked, reports>>

Restart ==
    /\ Loss
    /\ stage' = "heartbeat"
    /\ todo' = <<>>
    /\ wait' = 0
    /\ backoff' = 1
    /\ UNCHANGED <<server, bucket>>

\* Ages beyond the window are all alike.
Aged(age) == IF age <= Window THEN age + 1 ELSE age

Tick ==
    /\ wait' = IF wait > 0 THEN wait - 1 ELSE 0
    /\ bucket' = [i \in DOMAIN bucket |-> Aged(bucket[i])]
    /\ UNCHANGED <<server, stage, todo, backoff, losses>>

---------------------------------------------------------------------------
RemoteInit ==
    /\ status = [a \in Actions |-> "ABSENT"]
    /\ queue = <<>>
    /\ revoked = FALSE
    /\ bucket = <<>>
    /\ stage = "heartbeat"
    /\ todo = <<>>
    /\ wait = 0
    /\ backoff = 1
    /\ late = {}
    /\ reports = [a \in Actions |-> 0]
    /\ losses = 0

RemoteNext ==
    \/ \E a \in Actions : RequestAction(a) \/ CommitLate(a)
    \/ RevokeDevice
    \/ Pass
    \/ DropRequest
    \/ DropAnswer
    \/ Restart
    \/ Tick

(* Time passes, the agent's loop takes its turn, and the server finishes    *)
(* the requests it has accepted.  Nobody has to request or revoke.          *)
Fairness ==
    /\ WF_remoteVars(Tick)
    /\ WF_remoteVars(Pass)
    /\ \A a \in Actions : WF_remoteVars(CommitLate(a))

RemoteSpec == RemoteInit /\ [][RemoteNext]_remoteVars /\ Fairness
---------------------------------------------------------------------------
(* The types of the state. *)
RemoteTypeOK ==
    /\ status \in [Actions -> {"ABSENT", "REQUESTED", "COMPLETED", "REJECTED"}]
    /\ queue \in Seq(Actions)
    /\ revoked \in BOOLEAN
    /\ bucket \in Seq(0..(Window + 1)) /\ Len(bucket) <= Limit
    /\ stage \in {"heartbeat", "telemetry", "poll", "report"}
    /\ todo \in Seq(Actions) /\ (stage = "report") = (todo # <<>>)
    /\ wait \in Nat
    /\ backoff \in 1..MaxBackoff
    /\ late \subseteq Actions
    /\ reports \in [Actions -> Nat]
    /\ losses \in 0..MaxLosses

---------------------------------------------------------------------------
(* Safety *)

Answered(a) == status[a] \in {"COMPLETED", "REJECTED"}

(* Actions are answered in the order they were requested, and an answer is  *)
(* never taken back: although complete_managed_action takes reports in any  *)
(* order and for any status, although a pass is cut short anywhere, and     *)
(* although a report given up on may be committed when the agent has long   *)
(* polled and reported again.                                               *)
AnsweredInOrder ==
    [][\A a \in Actions :
          /\ status[a] = "REQUESTED" /\ status'[a] # "REQUESTED" => a = Head(queue)
          /\ Answered(a) => status'[a] = status[a]]_status

(* An action is reported twice only if an answer was lost: each fault costs *)
(* one report too many, at most.                                            *)
ReportedOnce == \A a \in Actions : reports[a] <= 1 + losses

---------------------------------------------------------------------------
(* Liveness *)

(* Every requested action is answered, unless the device is revoked first:  *)
(* the agent gets through the rate limit with its backlog, because the      *)
(* longest backoff outlasts the limiter's window and the pending actions    *)
(* come oldest first.                                                       *)
ActionsAreAnswered ==
    \A a \in Actions : status[a] = "REQUESTED" ~> Answered(a) \/ revoked
=============================================================================
