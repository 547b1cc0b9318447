-------------------------- MODULE AlertEngineProofs --------------------------
(***************************************************************************)
(* Theorems about AlertEngine, for every set of alert ids, event kinds and *)
(* threads and for every threshold; the one that adds up repeat counts,    *)
(* Repeats, for finite sets of alert ids and threads.                      *)
(***************************************************************************)
EXTENDS AlertEngine, FiniteSetTheorems, WellFoundedInduction, TLAPS

---------------------------------------------------------------------------
(* Calls and rows *)

(* What a call in flight is made of, by its operation. *)
LEMMA CallShape ==
    ASSUME NEW c \in CallState
    PROVE  /\ c.op \in {"evaluate", "assess", "raise", "insert", "bump"}
                 => c.event \in Kinds
           /\ c.op \in {"raise", "insert", "bump"} => c.rules \subseteq Rules
           /\ c.op \in {"insert", "bump"} => c.rule \in Rules
           /\ c.op = "bump" => c.repeat_count \in Nat
           /\ c.op \in {"bump", "review", "note"} => c.id \in Alerts
           /\ c.op \in {"review", "note"} => c.status \in Reviews
  BY DEF CallState, Idle

(* The calls that the actions put in flight are calls. *)
LEMMA NewCalls ==
    /\ Idle \in CallState
    /\ \A e \in Kinds : [op |-> "evaluate", event |-> e] \in CallState
    /\ \A e \in Kinds : Assessing(e) \in CallState
    /\ \A e \in Kinds, rules \in SUBSET Rules : Raising(e, rules) \in CallState
    /\ \A e \in Kinds, rule \in Rules, rules \in SUBSET Rules :
          [op |-> "insert", event |-> e, rule |-> rule, rules |-> rules] \in CallState
    /\ \A e \in Kinds, rule \in Rules, rules \in SUBSET Rules, i \in Alerts, n \in Nat :
          [op |-> "bump", event |-> e, rule |-> rule, rules |-> rules,
           id |-> i, repeat_count |-> n] \in CallState
    /\ \A i \in Alerts, s \in Reviews, l \in {"active", "acknowledged", "resolved"} :
          [op |-> "review", id |-> i, status |-> s, loaded |-> l] \in CallState
    /\ \A i \in Alerts, s \in Reviews :
          [op |-> "note", id |-> i, status |-> s] \in CallState
  BY DEF CallState, Raising, Assessing

(* After a hit the call goes on with a call that still is one. *)
LEMMA ContinuationType ==
    ASSUME NEW c \in CallState, c.op \in {"insert", "bump"}
    PROVE  Continuation(c) \in CallState
  BY CallShape, NewCalls DEF Continuation

(* What a hit is about is a condition, and its device a tag. *)
LEMMA HitType ==
    ASSUME NEW rule \in Rules, NEW e \in Kinds
    PROVE  About(rule, e) \in Conditions /\ e.dev \in Tags
  BY DEF Conditions, Tags

(* The commits yield rows. *)
LEMMA RowUpdates ==
    ASSUME NEW row \in AlertRow, NEW n \in Nat,
           NEW s \in {"active", "acknowledged", "resolved"},
           NEW a \in BOOLEAN, NEW r \in BOOLEAN
    PROVE  /\ [row EXCEPT !.repeat_count = n] \in AlertRow
           /\ [row EXCEPT !.status = s, !.acknowledged = a, !.resolved = r] \in AlertRow
           /\ [row EXCEPT !.status = row.status, !.acknowledged = a,
                          !.resolved = r] \in AlertRow
  BY DEF AlertRow

LEMMA ReviewedType ==
    ASSUME NEW row \in AlertRow, NEW c \in CallState, c.op = "review"
    PROVE  ReviewedRow(row, c) \in AlertRow
  <1>1. c.status \in {"active", "acknowledged", "resolved"}
    BY CallShape DEF Reviews
  <1>2. row.acknowledged \in BOOLEAN /\ row.resolved \in BOOLEAN
    BY DEF AlertRow
  <1>3. CASE c.loaded = c.status
    BY <1>2, <1>3, RowUpdates, 0 \in Nat DEF ReviewedRow
  <1>4. CASE c.loaded # c.status
    BY <1>1, <1>2, <1>4, RowUpdates, 0 \in Nat DEF ReviewedRow
  <1> QED
    BY <1>3, <1>4

---------------------------------------------------------------------------
(* Type correctness *)

LEMMA TypeInit == Init => TypeOK
  BY NewCalls DEF Init, TypeOK, NoAlert, AlertRow, Conditions, Tags

LEMMA EventType ==
    ASSUME TypeOK, NEW p \in Threads,
           (\E e \in Kinds : RecordEvent(p, e)) \/ EvaluateEvent(p) \/ AssessRisk(p)
    PROVE  TypeOK'
  <1> USE DEF TypeOK, Becomes
  <1>1. ASSUME NEW e \in Kinds, RecordEvent(p, e) PROVE TypeOK'
    BY <1>1, NewCalls DEF RecordEvent, Streams
  <1>2. CASE EvaluateEvent(p)
    <2>1. call[p].event \in Kinds /\ EventHits(call[p].event) \subseteq Rules
      BY <1>2, CallShape DEF EvaluateEvent, EventHits, Rules
    <2> QED
      BY <1>2, <2>1, NewCalls DEF EvaluateEvent
  <1>3. CASE AssessRisk(p)
    <2>1. call[p].event \in Kinds /\ {Several} \subseteq Rules
      BY <1>3, CallShape DEF AssessRisk, Rules
    <2> QED
      BY <1>3, <2>1, NewCalls DEF AssessRisk
  <1> QED
    BY <1>1, <1>2, <1>3

LEMMA UpsertType ==
    ASSUME TypeOK, NEW p \in Threads, Upsert(p)
    PROVE  TypeOK'
  <1> USE DEF TypeOK, Becomes
  <1>1. ASSUME NEW rule \in Rules, SelectAlert(p, rule) PROVE TypeOK'
    <2>1. call[p].event \in Kinds /\ call[p].rules \ {rule} \in SUBSET Rules
      BY <1>1, CallShape DEF SelectAlert
    <2>2. \A i \in Alerts : alert[i].repeat_count \in Nat
      BY DEF AlertRow
    <2>3. fired' \in [Conditions -> Nat]
      BY <1>1, <2>1, HitType DEF SelectAlert
    <2>4. call' \in [Threads -> CallState]
      <3> DEFINE insert == [op |-> "insert", event |-> call[p].event, rule |-> rule,
                            rules |-> call[p].rules \ {rule}]
                 bump(i) == [op |-> "bump", event |-> call[p].event, rule |-> rule,
                             rules |-> call[p].rules \ {rule}, id |-> i,
                             repeat_count |-> alert[i].repeat_count]
      <3>1. insert \in CallState /\ \A i \in Alerts : bump(i) \in CallState
        BY <2>1, <2>2, NewCalls
      <3>2. call' = [call EXCEPT ![p] = insert]
               \/ \E i \in Alerts : call' = [call EXCEPT ![p] = bump(i)]
        BY <1>1 DEF SelectAlert
      <3> QED
        BY <3>1, <3>2
    <2> QED
      BY <1>1, <2>3, <2>4 DEF SelectAlert
  <1>2. ASSUME NEW i \in Alerts, InsertAlert(p, i) PROVE TypeOK'
    <2>1. NewAlert(About(call[p].rule, call[p].event), call[p].event.dev) \in AlertRow
      BY <1>2, CallShape, HitType DEF InsertAlert, NewAlert, AlertRow
    <2>2. Continuation(call[p]) \in CallState
      BY <1>2, ContinuationType DEF InsertAlert
    <2>3. alert' \in [Alerts -> AlertRow]
      BY <1>2, <2>1 DEF InsertAlert
    <2>4. call' \in [Threads -> CallState]
      BY <1>2, <2>2 DEF InsertAlert
    <2>5. author' \in [Alerts -> Threads \cup {NULL}]
      BY <1>2 DEF InsertAlert
    <2> QED
      BY <1>2, <2>3, <2>4, <2>5 DEF InsertAlert
  <1>3. CASE BumpAlert(p)
    <2>1. Repeated(alert[call[p].id], call[p].repeat_count) \in AlertRow
      <3>1. call[p].id \in Alerts /\ call[p].repeat_count + 1 \in Nat
        BY <1>3, CallShape DEF BumpAlert
      <3>2. alert[call[p].id] \in AlertRow
        BY <3>1
      <3> QED
        BY <3>1, <3>2 DEF Repeated, AlertRow
    <2>2. Continuation(call[p]) \in CallState
      BY <1>3, ContinuationType DEF BumpAlert
    <2> QED
      BY <1>3, <2>1, <2>2 DEF BumpAlert
  <1> QED
    BY <1>1, <1>2, <1>3 DEF Upsert

LEMMA ReviewType ==
    ASSUME TypeOK, NEW p \in Threads, Review(p)
    PROVE  TypeOK'
  <1> USE DEF TypeOK, Becomes
  <1>1. ASSUME NEW i \in Alerts, NEW s \in Reviews, LoadAlert(p, i, s) PROVE TypeOK'
    <2>1. alert[i].status \in {"active", "acknowledged", "resolved"}
      BY <1>1 DEF LoadAlert, Existing, AlertRow
    <2>2. [op |-> "review", id |-> i, status |-> s, loaded |-> alert[i].status]
             \in CallState
      BY <2>1, NewCalls
    <2> QED
      BY <1>1, <2>2 DEF LoadAlert
  <1>2. CASE CommitReview(p)
    <2>1. ReviewedRow(alert[call[p].id], call[p]) \in AlertRow
      BY <1>2, CallShape, ReviewedType DEF CommitReview
    <2> QED
      BY <1>2, <2>1, CallShape, NewCalls DEF CommitReview
  <1>3. CASE NoteReview(p)
    BY <1>3, CallShape, NewCalls DEF NoteReview, Traced
  <1> QED
    BY <1>1, <1>2, <1>3 DEF Review

LEMMA TypeStep == TypeOK /\ [Next]_vars => TypeOK'
  <1> SUFFICES ASSUME TypeOK, [Next]_vars PROVE TypeOK'
    OBVIOUS
  <1>1. CASE UNCHANGED vars
    BY <1>1 DEF vars, TypeOK
  <1>2. ASSUME NEW s \in Streams, Forget(s) PROVE TypeOK'
    BY <1>2 DEF Forget, TypeOK
  <1>3. ASSUME NEW p \in Threads, Fail(p) PROVE TypeOK'
    BY <1>3, NewCalls DEF Fail, TypeOK, Becomes
  <1> QED
    BY <1>1, <1>2, <1>3, EventType, UpsertType, ReviewType DEF Next

(* The tables and the calls in flight keep their types. *)
THEOREM TypeCorrect == Spec => []TypeOK
  BY TypeInit, TypeStep, PTL DEF Spec

---------------------------------------------------------------------------
(* How a step changes the alerts *)

(* Only an insert makes an alert active, and only of an id not used before; *)
(* no other step changes what an alert is about or who inserted it.         *)
LEMMA AlertStep ==
    ASSUME TypeOK, [Next]_vars, NEW i \in Alerts
    PROVE  \/ \E p \in Threads : InsertAlert(p, i)
           \/ /\ Existing(i) => Existing(i)'
              /\ Active(i)' => Active(i)
              /\ alert[i].status \in Reviews => alert'[i].status \in Reviews
              /\ alert'[i].condition = alert[i].condition
              /\ alert'[i].dev = alert[i].dev
              /\ author'[i] = author[i]
  <1> DEFINE Kept == /\ Existing(i) => Existing(i)'
                     /\ Active(i)' => Active(i)
                     /\ alert[i].status \in Reviews => alert'[i].status \in Reviews
                     /\ alert'[i].condition = alert[i].condition
                     /\ alert'[i].dev = alert[i].dev
                     /\ author'[i] = author[i]
  <1>1. CASE UNCHANGED <<alert, author>>
    BY <1>1 DEF Existing, Active
  <1>2. ASSUME NEW p \in Threads, NEW j \in Alerts, InsertAlert(p, j), j # i
        PROVE  Kept
    BY <1>2 DEF InsertAlert, TypeOK, Existing, Active
  <1>3. ASSUME NEW p \in Threads, BumpAlert(p)
        PROVE  Kept
    BY <1>3 DEF BumpAlert, Repeated, TypeOK, AlertRow, Existing, Active
  <1>4. ASSUME NEW p \in Threads, CommitReview(p)
        PROVE  Kept
    BY <1>4, CallShape
    DEF CommitReview, ReviewedRow, TypeOK, AlertRow, Existing, Active, Reviews
  <1> QED
    BY <1>1, <1>2, <1>3, <1>4
    DEF Next, vars, Forget, RecordEvent, EvaluateEvent, AssessRisk, Upsert,
        SelectAlert, Review, LoadAlert, NoteReview, Fail

(* An alert that was closed is never active again.                          *)
THEOREM Closing == Spec => ClosedStaysClosed
  <1>1. TypeOK /\ [Next]_vars =>
           [\A i \in Alerts :
               alert[i].status \in Reviews => alert'[i].status \in Reviews]_vars
    <2> SUFFICES ASSUME TypeOK, [Next]_vars, NEW i \in Alerts,
                        alert[i].status \in Reviews
                 PROVE  alert'[i].status \in Reviews
      OBVIOUS
    <2>1. ASSUME NEW p \in Threads PROVE ~InsertAlert(p, i)
      BY DEF InsertAlert, Existing, Reviews
    <2> QED
      BY <2>1, AlertStep
  <1> QED
    BY <1>1, TypeCorrect, PTL DEF Spec, ClosedStaysClosed

---------------------------------------------------------------------------
(* Duplicates.  The strengthening: a call that is about to insert an alert  *)
(* has inserted none of the active alerts of the same condition itself,     *)
(* because it saw none of them when it selected.                            *)

Twin(i, c) == /\ Active(i)
              /\ alert[i].condition = About(c.rule, c.event)
              /\ alert[i].dev = c.event.dev

NoOwnTwin ==
    \A p \in Threads, i \in Alerts :
        call[p].op = "insert" /\ Twin(i, call[p]) => author[i] # p

(* A step puts at most one call forward; a call is about to insert after it *)
(* only if it was before or if it has just selected and found nothing.      *)
LEMMA InsertStep ==
    ASSUME TypeOK, [Next]_vars, NEW p \in Threads, call'[p].op = "insert"
    PROVE  \/ call'[p] = call[p]
           \/ /\ UNCHANGED <<alert, author>>
              /\ \A i \in Alerts : ~Twin(i, call'[p])
  <1>1. CASE call'[p] = call[p]
    BY <1>1
  <1>2. ASSUME NEW rule \in Rules, SelectAlert(p, rule)
        PROVE  UNCHANGED <<alert, author>> /\ \A i \in Alerts : ~Twin(i, call'[p])
    BY <1>2 DEF SelectAlert, Becomes, TypeOK, Matches, Twin
  <1>3. ASSUME NEW q \in Threads, call'[p] # call[p],
               \/ \E e \in Kinds : RecordEvent(q, e)
               \/ EvaluateEvent(q) \/ AssessRisk(q) \/ Upsert(q) \/ Review(q) \/ Fail(q)
        PROVE  p = q /\ \E rule \in Rules : SelectAlert(p, rule)
    <2>1. p = q
      BY <1>3
      DEF RecordEvent, EvaluateEvent, AssessRisk, Upsert, SelectAlert, InsertAlert,
          BumpAlert, Review, LoadAlert, CommitReview, NoteReview, Fail, Becomes, TypeOK
    <2>2. ASSUME NEW c, call' = [call EXCEPT ![q] = c]
          PROVE  c.op = "insert"
      BY <2>1, <2>2 DEF TypeOK
    <2>3. Continuation(call[q]).op # "insert"
      BY DEF Continuation, Raising, Assessing, Idle
    <2>4. ASSUME NEW e \in Kinds, RecordEvent(q, e) PROVE FALSE
      BY <2>4, <2>1 DEF RecordEvent, Becomes, TypeOK
    <2>5. ~EvaluateEvent(q) /\ ~AssessRisk(q)
      BY <2>2 DEF EvaluateEvent, AssessRisk, Becomes, Raising, Assessing, Idle
    <2>6. ~BumpAlert(q) /\ \A i \in Alerts : ~InsertAlert(q, i)
      BY <2>2, <2>3 DEF BumpAlert, InsertAlert, Becomes
    <2>7. ~Review(q) /\ ~Fail(q)
      BY <2>2 DEF Review, LoadAlert, CommitReview, NoteReview, Fail, Becomes, Idle
    <2>8. Upsert(q)
      BY <1>3, <2>4, <2>5, <2>7
    <2> QED
      BY <2>1, <2>6, <2>8 DEF Upsert
  <1>4. CASE UNCHANGED vars \/ \E s \in Streams : Forget(s)
    BY <1>4 DEF vars, Forget
  <1> QED
    BY <1>1, <1>2, <1>3, <1>4 DEF Next

LEMMA DuplicatesStep ==
    TypeOK /\ NoOwnTwin /\ DuplicatesAreRaced /\ [Next]_vars => DuplicatesAreRaced'
  <1> SUFFICES ASSUME TypeOK, NoOwnTwin, DuplicatesAreRaced, [Next]_vars,
                      NEW i \in Alerts, NEW j \in Alerts, i # j,
                      Active(i)', Active(j)',
                      alert'[i].condition = alert'[j].condition,
                      alert'[i].dev = alert'[j].dev
               PROVE  author'[i] # author'[j]
    BY DEF DuplicatesAreRaced
  <1>1. ASSUME NEW k \in Alerts, NEW l \in Alerts, k # l,
               Active(k)', Active(l)', alert'[k].condition = alert'[l].condition,
               alert'[k].dev = alert'[l].dev,
               NEW p \in Threads, InsertAlert(p, k)
        PROVE  author'[k] # author'[l]
    <2>1. /\ author'[k] = p /\ author'[l] = author[l]
          /\ alert'[l] = alert[l]
          /\ alert'[k].condition = About(call[p].rule, call[p].event)
          /\ alert'[k].dev = call[p].event.dev
      BY <1>1 DEF InsertAlert, NewAlert, TypeOK
    <2>2. Twin(l, call[p])
      BY <1>1, <2>1 DEF Twin, Active
    <2> QED
      BY <1>1, <2>1, <2>2 DEF NoOwnTwin, InsertAlert
  <1>2. CASE ~\E p \in Threads : InsertAlert(p, i) \/ InsertAlert(p, j)
    BY <1>2, AlertStep DEF DuplicatesAreRaced
  <1> QED
    BY <1>1, <1>2

LEMMA NoOwnTwinStep ==
    TypeOK /\ NoOwnTwin /\ [Next]_vars => NoOwnTwin'
  <1> SUFFICES ASSUME TypeOK, NoOwnTwin, [Next]_vars,
                      NEW p \in Threads, NEW i \in Alerts,
                      call'[p].op = "insert", Twin(i, call[p])'
               PROVE  author'[i] # p
    BY DEF NoOwnTwin
  <1>1. CASE UNCHANGED <<alert, author>> /\ ~Twin(i, call'[p])
    BY <1>1 DEF Twin, Active
  <1>2. CASE call'[p] = call[p]
    <2>1. ASSUME NEW q \in Threads, InsertAlert(q, i)
          PROVE  author'[i] # p
      <3>1. call'[q].op # "insert"
        BY <2>1 DEF InsertAlert, Becomes, TypeOK, Continuation, Raising, Assessing, Idle
      <3> QED
        BY <2>1, <3>1 DEF InsertAlert, TypeOK
    <2>2. CASE /\ Active(i)' => Active(i)
               /\ alert'[i].condition = alert[i].condition
               /\ alert'[i].dev = alert[i].dev
               /\ author'[i] = author[i]
      BY <1>2, <2>2 DEF Twin, NoOwnTwin
    <2> QED
      BY <2>1, <2>2, AlertStep
  <1> QED
    BY <1>1, <1>2, InsertStep

(* Two active alerts of one condition and one device were inserted by two   *)
(* threads, whatever the number of threads, rows and events.                *)
THEOREM Duplicates == Spec => []DuplicatesAreRaced
  <1>1. Init => NoOwnTwin /\ DuplicatesAreRaced
    BY DEF Init, NoOwnTwin, DuplicatesAreRaced, Twin, Active, NoAlert, Idle
  <1>2. TypeOK /\ (NoOwnTwin /\ DuplicatesAreRaced) /\ [Next]_vars
           => (NoOwnTwin /\ DuplicatesAreRaced)'
    BY DuplicatesStep, NoOwnTwinStep
  <1> QED
    BY <1>1, <1>2, TypeCorrect, PTL DEF Spec

---------------------------------------------------------------------------
(* Reviews *)

Noting(i, status) ==
    \E p \in Threads : call[p] = [op |-> "note", id |-> i, status |-> status]

(* A note in flight stays in flight until it is on the trail, or its call   *)
(* fails.                                                                   *)
LEMMA NoteStep ==
    ASSUME TypeOK, [Next]_vars, NEW i \in Alerts, NEW s \in Reviews,
           faults' = 0, <<s, i>> \in trail \/ Noting(i, s)
    PROVE  faults = 0 /\ (<<s, i>> \in trail' \/ Noting(i, s)')
  <1> DEFINE note == [op |-> "note", id |-> i, status |-> s]
  <1>1. CASE UNCHANGED vars \/ \E t \in Streams : Forget(t)
    BY <1>1 DEF vars, Forget, Noting
  <1>2. ASSUME NEW q \in Threads, NoteReview(q) PROVE <<s, i>> \in trail' \/ Noting(i, s)'
    <2>1. CASE call[q] = note
      BY <1>2, <2>1 DEF NoteReview, Traced
    <2>2. CASE call[q] # note
      BY <1>2, <2>2 DEF NoteReview, Traced, Becomes, TypeOK, Noting
    <2> QED
      BY <2>1, <2>2
  <1>3. ASSUME NEW q \in Threads, call[q].op # "note", trail' = trail,
               \A r \in Threads \ {q} : call'[r] = call[r]
        PROVE  <<s, i>> \in trail' \/ Noting(i, s)'
    <2>1. call[q] # note
      BY <1>3
    <2> QED
      BY <1>3, <2>1 DEF Noting
  <1>4. ASSUME NEW q \in Threads, Fail(q) PROVE FALSE
    BY <1>4 DEF Fail, TypeOK
  <1>5. ASSUME NEW q \in Threads,
               \/ \E e \in Kinds : RecordEvent(q, e)
               \/ EvaluateEvent(q) \/ AssessRisk(q)
        PROVE  <<s, i>> \in trail' \/ Noting(i, s)'
    BY <1>3, <1>5 DEF RecordEvent, EvaluateEvent, AssessRisk, Idle, Becomes, TypeOK
  <1>6. ASSUME NEW q \in Threads, Upsert(q) PROVE <<s, i>> \in trail' \/ Noting(i, s)'
    <2>1. ASSUME NEW rule \in Rules, SelectAlert(q, rule)
          PROVE  <<s, i>> \in trail' \/ Noting(i, s)'
      BY <1>3, <2>1 DEF SelectAlert, Becomes, TypeOK
    <2>2. CASE BumpAlert(q) \/ \E j \in Alerts : InsertAlert(q, j)
      BY <1>3, <2>2 DEF InsertAlert, BumpAlert, Becomes, TypeOK
    <2> QED
      BY <1>6, <2>1, <2>2 DEF Upsert
  <1>7. ASSUME NEW q \in Threads, NEW j \in Alerts, NEW t \in Reviews, LoadAlert(q, j, t)
        PROVE  <<s, i>> \in trail' \/ Noting(i, s)'
    BY <1>3, <1>7 DEF LoadAlert, Idle, Becomes, TypeOK
  <1>8. ASSUME NEW q \in Threads, CommitReview(q)
        PROVE  <<s, i>> \in trail' \/ Noting(i, s)'
    BY <1>3, <1>8 DEF CommitReview, Becomes, TypeOK
  <1>9. faults = 0
    BY <1>4
    DEF Next, vars, Forget, RecordEvent, EvaluateEvent, AssessRisk, Upsert, SelectAlert,
        InsertAlert, BumpAlert, Review, LoadAlert, CommitReview, NoteReview
  <1> QED
    BY <1>1, <1>2, <1>4, <1>5, <1>6, <1>7, <1>8, <1>9 DEF Next, Review

(* A status changes only when an alert is inserted or when a review commits *)
(* it, together with its flag.                                              *)
LEMMA StatusStep ==
    ASSUME TypeOK, [Next]_vars, NEW i \in Alerts, alert'[i].status \in Reviews
    PROVE  \/ /\ alert'[i].status = alert[i].status
              /\ alert[i].acknowledged => alert'[i].acknowledged
              /\ alert[i].resolved => alert'[i].resolved
           \/ /\ Noting(i, alert[i].status)'
              /\ faults' = faults
              /\ alert'[i].status = "acknowledged" => alert'[i].acknowledged
              /\ alert'[i].status = "resolved" => alert'[i].resolved
  <1> DEFINE Same == /\ alert'[i].status = alert[i].status
                     /\ alert[i].acknowledged => alert'[i].acknowledged
                     /\ alert[i].resolved => alert'[i].resolved
  <1>1. CASE UNCHANGED alert
    BY <1>1
  <1>2. ASSUME NEW p \in Threads, NEW j \in Alerts, InsertAlert(p, j)
        PROVE  Same
    <2>1. j # i
      BY <1>2 DEF InsertAlert, NewAlert, TypeOK, Reviews
    <2> QED
      BY <1>2, <2>1 DEF InsertAlert, TypeOK
  <1>3. ASSUME NEW p \in Threads, BumpAlert(p)
        PROVE  Same
    BY <1>3 DEF BumpAlert, Repeated, TypeOK, AlertRow
  <1>4. ASSUME NEW p \in Threads, CommitReview(p), call[p].id = i,
               call[p].loaded # call[p].status
        PROVE  /\ Noting(i, alert[i].status)'
               /\ faults' = faults
               /\ alert'[i].status = "acknowledged" => alert'[i].acknowledged
               /\ alert'[i].status = "resolved" => alert'[i].resolved
    <2>1. alert'[i] = ReviewedRow(alert[i], call[p])
      BY <1>4 DEF CommitReview, TypeOK
    <2>2. alert[i] \in AlertRow
      BY DEF TypeOK
    <2>3. /\ alert'[i].status = call[p].status
          /\ alert'[i].status = "acknowledged" => alert'[i].acknowledged
          /\ alert'[i].status = "resolved" => alert'[i].resolved
      BY <1>4, <2>1, <2>2 DEF ReviewedRow, AlertRow
    <2>4. call'[p] = [op |-> "note", id |-> i, status |-> call[p].status]
      BY <1>4 DEF CommitReview, Becomes, TypeOK
    <2> QED
      BY <1>4, <2>3, <2>4 DEF CommitReview, Noting
  <1>5. ASSUME NEW p \in Threads, CommitReview(p),
               call[p].id # i \/ call[p].loaded = call[p].status
        PROVE  Same
    BY <1>5, CallShape DEF CommitReview, ReviewedRow, TypeOK, AlertRow
  <1> QED
    BY <1>1, <1>2, <1>3, <1>4, <1>5
    DEF Next, vars, Forget, RecordEvent, EvaluateEvent, AssessRisk, Upsert,
        SelectAlert, Review, LoadAlert, NoteReview, Fail

(* A closed alert shows when it was closed, and its event is on the trail   *)
(* or on its way, for any number of concurrent reviews.                     *)
THEOREM Tracing == Spec => []StatusIsTraced
  <1>1. Init => StatusIsTraced
    BY DEF Init, StatusIsTraced, NoAlert, Reviews
  <1>2. TypeOK /\ StatusIsTraced /\ [Next]_vars => StatusIsTraced'
    <2> SUFFICES ASSUME TypeOK, StatusIsTraced, [Next]_vars, NEW i \in Alerts,
                        alert'[i].status \in Reviews
                 PROVE  /\ alert'[i].status = "acknowledged" => alert'[i].acknowledged
                        /\ alert'[i].status = "resolved" => alert'[i].resolved
                        /\ faults' = 0 => \/ <<alert'[i].status, i>> \in trail'
                                          \/ Noting(i, alert[i].status)'
      BY DEF StatusIsTraced, Reviews, Noting
    <2>1. CASE /\ alert'[i].status = alert[i].status
               /\ alert[i].acknowledged => alert'[i].acknowledged
               /\ alert[i].resolved => alert'[i].resolved
      <3>1. /\ alert[i].status = "acknowledged" => alert[i].acknowledged
            /\ alert[i].status = "resolved" => alert[i].resolved
            /\ faults = 0 => \/ <<alert[i].status, i>> \in trail
                             \/ Noting(i, alert[i].status)
        BY <2>1 DEF StatusIsTraced, Noting
      <3>2. faults' = 0 => faults = 0
        <4>1. faults \in Nat /\ (faults' = faults \/ faults' = faults + 1)
          BY DEF TypeOK, Next, vars, Forget, RecordEvent, EvaluateEvent, AssessRisk,
                 Upsert, SelectAlert, InsertAlert, BumpAlert, Review, LoadAlert,
                 CommitReview, NoteReview, Fail
        <4> QED
          BY <4>1
      <3>3. faults' = 0 => \/ <<alert'[i].status, i>> \in trail'
                          \/ Noting(i, alert[i].status)'
        BY <2>1, <3>1, <3>2, NoteStep
      <3> QED
        BY <2>1, <3>1, <3>3
    <2>2. CASE ~(/\ alert'[i].status = alert[i].status
                 /\ alert[i].acknowledged => alert'[i].acknowledged
                 /\ alert[i].resolved => alert'[i].resolved)
      BY <2>2, StatusStep
    <2> QED
      BY <2>1, <2>2
  <1> QED
    BY <1>1, <1>2, TypeCorrect, PTL DEF Spec

---------------------------------------------------------------------------
(* Sums over a set, as a function of its subsets that grows by one member's *)
(* share whichever member comes last.  Induction over finite sets is done   *)
(* by looking at a smallest subset that would be wrong.                     *)

IsSum(h, S, g) ==
    /\ h \in [SUBSET S -> Int] /\ h[{}] = 0
    /\ \A s \in SUBSET S : \A x \in s : h[s] = h[s \ {x}] + g[x]

(* Sets of subsets of a finite set have a smallest one. *)
LEMMA Minimal ==
    ASSUME NEW S, IsFiniteSet(S), NEW T, T \subseteq SUBSET S, T # {}
    PROVE \E x \in T : \A y \in T : y \subseteq x => y = x
  <1>1. IsWellFoundedOn(StrictSubsetOrdering(S), FiniteSubsetsOf(S))
    BY FS_StrictSubsetOrderingWellFounded
  <1>2. T \subseteq FiniteSubsetsOf(S)
    BY FS_Subset DEF FiniteSubsetsOf
  <1>3. PICK x \in T : \A y \in T : ~ (<<y, x>> \in StrictSubsetOrdering(S))
    BY <1>1, <1>2, WFMin
  <1> QED BY <1>3 DEF StrictSubsetOrdering

(* There are such sums. *)
LEMMA SumExists ==
    ASSUME NEW S, IsFiniteSet(S), NEW g \in [S -> Int]
    PROVE  \E h : IsSum(h, S, g)
  <1> DEFINE T == {s \in SUBSET S : ~\E h : IsSum(h, s, g)}
  <1> SUFFICES T = {}
    OBVIOUS
  <1> SUFFICES ASSUME T # {} PROVE FALSE
    OBVIOUS
  <1>1. PICK s \in T : \A y \in T : y \subseteq s => y = s
    <2>1. T \subseteq SUBSET S
      OBVIOUS
    <2> HIDE DEF T
    <2> QED BY <2>1, Minimal
  <1>2. s \in SUBSET S /\ ~\E h : IsSum(h, s, g)
    OBVIOUS
  <1>3. s # {}
    <2> SUFFICES ASSUME s = {} PROVE FALSE
      OBVIOUS
    <2>1. IsSum([u \in SUBSET s |-> 0], s, g)
      BY DEF IsSum
    <2> QED BY <1>2, <2>1
  <1>4. PICK x : x \in s
    BY <1>3
  <1>5. PICK k : IsSum(k, s \ {x}, g)
    BY <1>1, <1>2, <1>4
  <1>6. g[x] \in Int
    BY <1>2, <1>4
  <1> HIDE DEF T
  <1> DEFINE h == [u \in SUBSET s |-> IF x \in u THEN k[u \ {x}] + g[x] ELSE k[u]]
  <1>7. IsSum(h, s, g)
    <2>1. \A u \in SUBSET (s \ {x}) : k[u] \in Int
      BY <1>5 DEF IsSum
    <2>2. \A u \in SUBSET s : u \ {x} \in SUBSET (s \ {x}) /\ (x \notin u => u \in SUBSET (s \ {x}))
      OBVIOUS
    <2>3. h \in [SUBSET s -> Int]
      BY <1>6, <2>1, <2>2
    <2>4. h[{}] = 0
      BY <1>5 DEF IsSum
    <2>5. ASSUME NEW u \in SUBSET s, NEW y \in u
          PROVE  h[u] = h[u \ {y}] + g[y]
      <3>1. CASE y = x
        <4>1. h[u] = k[u \ {x}] + g[x] /\ h[u \ {y}] = k[u \ {x}]
          BY <3>1, <2>5
        <4> QED BY <4>1, <3>1
      <3>2. CASE y # x /\ x \notin u
        <4>1. h[u] = k[u] /\ h[u \ {y}] = k[u \ {y}]
          BY <3>2
        <4>2. k[u] = k[u \ {y}] + g[y]
          BY <1>5, <2>2, <3>2 DEF IsSum
        <4> QED BY <4>1, <4>2
      <3>3. CASE y # x /\ x \in u
        <4>1. h[u] = k[u \ {x}] + g[x] /\ h[u \ {y}] = k[(u \ {y}) \ {x}] + g[x]
          BY <3>3
        <4>2. u \ {x} \in SUBSET (s \ {x}) /\ y \in u \ {x}
          BY <3>3
        <4>3. k[u \ {x}] = k[(u \ {x}) \ {y}] + g[y]
          BY <1>5, <4>2 DEF IsSum
        <4>4. (u \ {x}) \ {y} = (u \ {y}) \ {x}
          OBVIOUS
        <4>5. PICK a \in Int, b \in Int, c \in Int :
                 a = k[(u \ {x}) \ {y}] /\ b = g[y] /\ c = g[x]
          BY <1>2, <1>6, <2>1, <4>2
        <4>6. (a + b) + c = (a + c) + b
          OBVIOUS
        <4> HIDE DEF h
        <4> QED BY <4>1, <4>3, <4>4, <4>5, <4>6
      <3> QED BY <3>1, <3>2, <3>3
    <2> HIDE DEF h
    <2> QED BY <2>3, <2>4, <2>5 DEF IsSum
  <1> QED BY <1>2, <1>7

(* Equal shares have equal sums. *)
LEMMA SumUnique ==
    ASSUME NEW S, IsFiniteSet(S), NEW g, NEW f, NEW h, NEW k, IsSum(h, S, g), IsSum(k, S, f),
           NEW R \in SUBSET S, \A i \in R : g[i] = f[i]
    PROVE  h[R] = k[R]
  <1> DEFINE T == {s \in SUBSET R : h[s] # k[s]}
  <1> SUFFICES ASSUME T # {} PROVE FALSE
    OBVIOUS
  <1>0. IsFiniteSet(R)
    BY FS_Subset
  <1>1. PICK s \in T : \A y \in T : y \subseteq s => y = s
    <2>1. T \subseteq SUBSET R
      OBVIOUS
    <2> HIDE DEF T
    <2> QED BY <1>0, <2>1, Minimal
  <1>2. s \in SUBSET R /\ s \in SUBSET S /\ h[s] # k[s]
    OBVIOUS
  <1>3. s # {}
    BY <1>2 DEF IsSum
  <1>4. PICK x : x \in s
    BY <1>3
  <1>5. s \ {x} \notin T /\ s \ {x} \in SUBSET R
    BY <1>1, <1>4
  <1>6. h[s \ {x}] = k[s \ {x}]
    BY <1>5
  <1>7. h[s] = h[s \ {x}] + g[x] /\ k[s] = k[s \ {x}] + f[x] /\ g[x] = f[x]
    BY <1>2, <1>4 DEF IsSum
  <1> QED BY <1>2, <1>6, <1>7

(* MapThenSumSet, which takes the members as CHOOSE takes them, yields them. *)
LEMMA SumIs ==
    ASSUME NEW S, IsFiniteSet(S), NEW g, NEW h, IsSum(h, S, g), \A i \in S : g[i] \in Int,
           \A i \in S : g[i] = alert[i].repeat_count
    PROVE  MapThenSumSet(LAMBDA i : alert[i].repeat_count, S) = h[S]
  <1> DEFINE C(s) == CHOOSE x \in s : TRUE
             Sums(it) == it = [s \in SUBSET S |->
                                 IF s = {} THEN 0 ELSE alert[C(s)].repeat_count + it[s \ {C(s)}]]
  <1>1. MapThenSumSet(LAMBDA i : alert[i].repeat_count, S) = (CHOOSE it : Sums(it))[S]
    BY DEF MapThenSumSet, MapThenFoldSet
  <1>2. \A s \in SUBSET S : s # {} => C(s) \in s
    OBVIOUS
  <1> HIDE DEF C
  <1>3. ASSUME NEW s \in SUBSET S
        PROVE  h[s] = IF s = {} THEN 0 ELSE alert[C(s)].repeat_count + h[s \ {C(s)}]
    <2>1. CASE s = {}
      BY <2>1 DEF IsSum
    <2>2. CASE s # {}
      <3>1. C(s) \in s /\ C(s) \in S /\ s \ {C(s)} \in SUBSET S
        BY <1>2, <2>2
      <3>2. h[s] = h[s \ {C(s)}] + g[C(s)] /\ h[s \ {C(s)}] \in Int /\ h[s] \in Int
        BY <3>1 DEF IsSum
      <3>3. PICK a \in Int, b \in Int : a = h[s \ {C(s)}] /\ b = g[C(s)]
        BY <3>1, <3>2
      <3>4. b = alert[C(s)].repeat_count /\ h[s] = a + b /\ a + b = b + a
        BY <3>1, <3>2, <3>3
      <3> QED BY <2>2, <3>3, <3>4
    <2> QED BY <2>1, <2>2
  <1>4. Sums(h)
    BY <1>3 DEF IsSum
  <1>5. PICK it : it = (CHOOSE i : Sums(i)) /\ Sums(it)
    BY <1>4
  <1>6. it[S] = h[S]
    <2> DEFINE T == {s \in SUBSET S : it[s] # h[s]}
    <2> SUFFICES ASSUME T # {} PROVE FALSE
      OBVIOUS
    <2>1. PICK s \in T : \A y \in T : y \subseteq s => y = s
      <3>1. T \subseteq SUBSET S
        OBVIOUS
      <3> HIDE DEF T
      <3> QED BY <3>1, Minimal
    <2>2. s \in SUBSET S /\ it[s] # h[s]
      OBVIOUS
    <2>3. it[s] = IF s = {} THEN 0 ELSE alert[C(s)].repeat_count + it[s \ {C(s)}]
      BY <1>5, <2>2
    <2>4. s # {} => s \ {C(s)} \notin T
      BY <1>2, <2>1
    <2>5. s # {} => it[s \ {C(s)}] = h[s \ {C(s)}]
      BY <2>2, <2>4
    <2> HIDE DEF T
    <2> QED BY <1>3, <2>2, <2>3, <2>5
  <1> QED BY <1>1, <1>5, <1>6

(* Smaller shares of fewer members have smaller sums. *)
LEMMA SumBelow ==
    ASSUME NEW S, IsFiniteSet(S), NEW Q \in SUBSET S, NEW g \in [S -> Int], NEW e \in [Q -> Int],
           NEW h, NEW r, IsSum(h, S, g), IsSum(r, Q, e),
           \A i \in S : g[i] >= 0, \A i \in Q : e[i] <= g[i]
    PROVE  r[Q] <= h[S]
  <1> DEFINE T == {s \in SUBSET S : ~(r[s \cap Q] <= h[s])}
  <1>0. \A s \in SUBSET S : s \cap Q \in SUBSET Q /\ h[s] \in Int /\ r[s \cap Q] \in Int
    BY DEF IsSum
  <1>1. SUFFICES ASSUME T # {} PROVE FALSE
    <2>1. S \cap Q = Q /\ S \in SUBSET S
      OBVIOUS
    <2> QED BY <2>1
  <1>2. PICK s \in T : \A y \in T : y \subseteq s => y = s
    <2>1. T \subseteq SUBSET S
      OBVIOUS
    <2> HIDE DEF T
    <2> QED BY <1>1, <2>1, Minimal
  <1>3. s \in SUBSET S /\ ~(r[s \cap Q] <= h[s])
    OBVIOUS
  <1>4. s # {}
    <2> SUFFICES ASSUME s = {} PROVE FALSE
      OBVIOUS
    <2>1. s \cap Q = {} /\ h[{}] = 0 /\ r[{}] = 0
      BY DEF IsSum
    <2> QED BY <1>3, <2>1
  <1>5. PICK x : x \in s
    BY <1>4
  <1>6. s \ {x} \notin T /\ s \ {x} \in SUBSET S
    BY <1>2, <1>5
  <1>7. r[(s \ {x}) \cap Q] <= h[s \ {x}]
    BY <1>6
  <1> HIDE DEF T
  <1>8. h[s] = h[s \ {x}] + g[x] /\ g[x] \in Int /\ g[x] >= 0
    BY <1>3, <1>5 DEF IsSum
  <1>9. CASE x \in Q
    <2>1. r[s \cap Q] = r[(s \cap Q) \ {x}] + e[x]
      BY <1>0, <1>3, <1>5, <1>9 DEF IsSum
    <2>2. (s \cap Q) \ {x} = (s \ {x}) \cap Q /\ e[x] \in Int /\ e[x] <= g[x]
      BY <1>9
    <2>3. PICK a \in Int, b \in Int, c \in Int, d \in Int :
             a = r[(s \ {x}) \cap Q] /\ b = h[s \ {x}] /\ c = e[x] /\ d = g[x]
      BY <1>0, <1>6, <1>8, <2>2
    <2>4. a <= b /\ c <= d => a + c <= b + d
      OBVIOUS
    <2> QED BY <1>3, <1>7, <1>8, <2>1, <2>2, <2>3, <2>4
  <1>10. CASE x \notin Q
    <2>1. s \cap Q = (s \ {x}) \cap Q
      BY <1>10
    <2>2. PICK a \in Int, b \in Int, d \in Int :
             a = r[(s \ {x}) \cap Q] /\ b = h[s \ {x}] /\ d = g[x]
      BY <1>0, <1>6, <1>8
    <2>3. a <= b /\ d >= 0 => a <= b + d
      OBVIOUS
    <2> QED BY <1>3, <1>7, <1>8, <2>1, <2>2, <2>3
  <1> QED BY <1>9, <1>10

(* A sum whose one share grows by one grows by one. *)
LEMMA SumGrows ==
    ASSUME NEW S, IsFiniteSet(S), NEW g \in [S -> Int], NEW i \in S, NEW f,
           f[i] = g[i] + 1, \A j \in S \ {i} : g[j] = f[j],
           NEW h, NEW k, IsSum(h, S, g), IsSum(k, S, f)
    PROVE  k[S] = h[S] + 1
  <1>1. S \in SUBSET S /\ S \ {i} \in SUBSET S
    OBVIOUS
  <1>2. h[S] = h[S \ {i}] + g[i] /\ k[S] = k[S \ {i}] + f[i] /\ h[S \ {i}] \in Int
    BY <1>1 DEF IsSum
  <1>3. h[S \ {i}] = k[S \ {i}]
    BY <1>1, SumUnique
  <1>4. PICK a \in Int, b \in Int : a = h[S \ {i}] /\ b = g[i]
    BY <1>2
  <1>5. a + (b + 1) = (a + b) + 1
    OBVIOUS
  <1> QED BY <1>2, <1>3, <1>4, <1>5

---------------------------------------------------------------------------
(* Repeats.  The count of an alert is not bounded by what was counted: a    *)
(* lost update puts it back to what an older call had loaded, while a newer *)
(* one still has the greater count to write.  But each alert has a peak     *)
(* that neither its count nor any count in flight exceeds, and the peaks of *)
(* a condition and its hits on the way add up to the hits counted at most.  *)

Sent(c) == c.op \in {"insert", "bump"}
OnTheWay(k) ==
    {p \in Threads : Sent(call[p]) /\ About(call[p].rule, call[p].event) = k}

Weight(m, k) ==
    [i \in Alerts |-> IF Existing(i) /\ alert[i].condition = k THEN m[i] ELSE 0]

Peaks(m) ==
    /\ \A i \in Alerts : alert[i].repeat_count <= m[i]
    /\ \A p \in Threads : call[p].op = "bump" =>
          /\ Existing(call[p].id)
          /\ alert[call[p].id].condition = About(call[p].rule, call[p].event)
          /\ call[p].repeat_count <= m[call[p].id]

Backed(m) ==
    \A k \in Conditions : \A h :
        IsSum(h, Alerts, Weight(m, k)) => h[Alerts] + Cardinality(OnTheWay(k)) <= fired[k]

\* What is under review is there.
Reviewing == \A p \in Threads : call[p].op = "review" => Existing(call[p].id)

Booked == \E m \in [Alerts -> Nat] : Peaks(m) /\ Backed(m)

(* The books of one condition: a hit is counted when it sets out, and weighs *)
(* in the sum what it weighed on the way.                                    *)
LEMMA Books ==
    ASSUME IsFiniteSet(Alerts), IsFiniteSet(Threads),
           NEW g \in [Alerts -> Int], NEW g2, NEW A \in SUBSET Threads, NEW B,
           NEW f \in Nat, NEW f2,
           \A h : IsSum(h, Alerts, g) => h[Alerts] + Cardinality(A) <= f,
           \/ g2 = g /\ B \in SUBSET A /\ f2 = f
           \/ g2 = g /\ (\E p \in Threads : B = A \cup {p}) /\ f2 = f + 1
           \/ /\ \E i \in Alerts : g2 = [g EXCEPT ![i] = @ + 1]
              /\ \E p \in A : B = A \ {p}
              /\ f2 = f,
           NEW h2, IsSum(h2, Alerts, g2)
    PROVE  h2[Alerts] + Cardinality(B) <= f2
  <1>1. IsFiniteSet(A) /\ Cardinality(A) \in Nat
    BY FS_Subset, FS_CardinalityType
  <1>2. h2[Alerts] \in Int
    BY DEF IsSum
  <1>3. CASE g2 = g /\ B \in SUBSET A /\ f2 = f
    <2>1. Cardinality(B) <= Cardinality(A) /\ Cardinality(B) \in Nat
      BY <1>1, <1>3, FS_Subset, FS_CardinalityType
    <2>2. h2[Alerts] + Cardinality(A) <= f
      BY <1>3
    <2> QED BY <1>1, <1>2, <1>3, <2>1, <2>2
  <1>4. CASE g2 = g /\ (\E p \in Threads : B = A \cup {p}) /\ f2 = f + 1
    <2>1. Cardinality(B) <= Cardinality(A) + 1 /\ Cardinality(B) \in Nat
      <3>1. PICK p \in Threads : B = A \cup {p}
        BY <1>4
      <3>2. IsFiniteSet(B)
        BY <1>1, <3>1, FS_AddElement
      <3>3. Cardinality(B) = IF p \in A THEN Cardinality(A) ELSE Cardinality(A) + 1
        BY <1>1, <3>1, FS_AddElement
      <3> QED BY <1>1, <3>2, <3>3, FS_CardinalityType
    <2>2. h2[Alerts] + Cardinality(A) <= f
      BY <1>4
    <2> QED BY <1>1, <1>2, <1>4, <2>1, <2>2
  <1>5. CASE /\ \E i \in Alerts : g2 = [g EXCEPT ![i] = @ + 1]
             /\ \E p \in A : B = A \ {p}
             /\ f2 = f
    <2>1. Cardinality(B) = Cardinality(A) - 1
      BY <1>1, <1>5, FS_RemoveElement
    <2>2. PICK h : IsSum(h, Alerts, g)
      BY SumExists
    <2>3. h2[Alerts] = h[Alerts] + 1
      <3>1. PICK i \in Alerts : g2 = [g EXCEPT ![i] = @ + 1]
        BY <1>5
      <3>2. g2[i] = g[i] + 1 /\ \A j \in Alerts \ {i} : g[j] = g2[j]
        BY <3>1
      <3> QED BY <2>2, <3>2, SumGrows
    <2>4. h[Alerts] \in Int
      BY <2>2 DEF IsSum
    <2>5. h[Alerts] + Cardinality(A) <= f
      BY <2>2
    <2> QED BY <1>1, <1>5, <2>1, <2>3, <2>4, <2>5
  <1> QED BY <1>3, <1>4, <1>5

(* A step that neither counts a hit nor writes a count takes at most a hit   *)
(* out of flight.                                                            *)
LEMMA QuietStep ==
    ASSUME TypeOK, Reviewing, [Next]_vars, ~\E p \in Threads : Upsert(p)
    PROVE  /\ UNCHANGED fired
           /\ \A i \in Alerts : /\ Existing(i)' = Existing(i)
                                /\ alert'[i].condition = alert[i].condition
                                /\ alert'[i].repeat_count = alert[i].repeat_count
           /\ \A p \in Threads : Sent(call'[p]) => call'[p] = call[p]
  <1> DEFINE Row == /\ UNCHANGED fired
                    /\ \A i \in Alerts : /\ Existing(i)' = Existing(i)
                                         /\ alert'[i].condition = alert[i].condition
                                         /\ alert'[i].repeat_count = alert[i].repeat_count
  <1>0. ASSUME UNCHANGED <<alert, fired>> PROVE Row
    BY <1>0 DEF Existing
  <1>1. ASSUME NEW p \in Threads, NEW c, call' = [call EXCEPT ![p] = c], ~Sent(c)
        PROVE  \A q \in Threads : Sent(call'[q]) => call'[q] = call[q]
    BY <1>1 DEF TypeOK
  <1>2. CASE UNCHANGED vars \/ \E s \in Streams : Forget(s)
    BY <1>2, <1>0 DEF vars, Forget
  <1>3. ASSUME NEW p \in Threads, NEW e \in Kinds, RecordEvent(p, e)
        PROVE  Row /\ \A q \in Threads : Sent(call'[q]) => call'[q] = call[q]
    BY <1>0, <1>1, <1>3 DEF RecordEvent, Becomes, Sent
  <1>4. ASSUME NEW p \in Threads, EvaluateEvent(p) \/ AssessRisk(p)
        PROVE  Row /\ \A q \in Threads : Sent(call'[q]) => call'[q] = call[q]
    BY <1>0, <1>1, <1>4
       DEF EvaluateEvent, AssessRisk, Becomes, Sent, Raising, Assessing, Idle
  <1>5. ASSUME NEW p \in Threads, CommitReview(p)
        PROVE  Row /\ \A q \in Threads : Sent(call'[q]) => call'[q] = call[q]
    <2>1. \A q \in Threads : Sent(call'[q]) => call'[q] = call[q]
      BY <1>1, <1>5 DEF CommitReview, Becomes, Sent
    <2>2. PICK id \in Alerts : id = call[p].id
      BY <1>5, CallShape DEF CommitReview, TypeOK
    <2>3. PICK row \in AlertRow : row = ReviewedRow(alert[id], call[p])
      BY <1>5, ReviewedType DEF CommitReview, TypeOK
    <2>4. alert' = [alert EXCEPT ![id] = row]
      BY <1>5, <2>2, <2>3 DEF CommitReview
    <2>5. row.condition = alert[id].condition /\ row.repeat_count = alert[id].repeat_count
      BY <2>2, <2>3 DEF ReviewedRow, TypeOK, AlertRow
    <2>6. Existing(id)' = Existing(id)
      <3>1. Existing(id) /\ row.status # "ABSENT"
        BY <1>5, <2>2, <2>3, CallShape
           DEF Reviewing, Existing, CommitReview, ReviewedRow, TypeOK, AlertRow, Reviews
      <3> QED BY <2>4, <3>1 DEF TypeOK, Existing
    <2> QED BY <2>1, <2>2, <2>3, <2>4, <2>5, <2>6, <1>5 DEF CommitReview, TypeOK, Existing
  <1>6. ASSUME NEW p \in Threads, Review(p) \/ Fail(p), ~CommitReview(p)
        PROVE  Row /\ \A q \in Threads : Sent(call'[q]) => call'[q] = call[q]
    BY <1>0, <1>1, <1>6 DEF Review, LoadAlert, NoteReview, Fail, Becomes, Sent, Idle
  <1> QED BY <1>2, <1>3, <1>4, <1>5, <1>6 DEF Next

(* What is loaded for a review is there, and rows do not go.                 *)
LEMMA ReviewingStep == TypeOK /\ Reviewing /\ [Next]_vars => Reviewing'
  <1> SUFFICES ASSUME TypeOK, Reviewing, [Next]_vars, NEW p \in Threads, call'[p].op = "review"
               PROVE  alert'[call'[p].id].status # "ABSENT"
    BY DEF Reviewing, Existing
  <1>0. ASSUME NEW i \in Alerts, Existing(i) PROVE Existing(i)'
    BY <1>0, AlertStep DEF InsertAlert
  <1>1. ASSUME NEW i \in Alerts, call'[p].id = i, Existing(i)
        PROVE  alert'[call'[p].id].status # "ABSENT"
    BY <1>0, <1>1 DEF Existing
  <1>2. CASE call'[p] = call[p]
    <2>1. call'[p].id \in Alerts /\ Existing(call'[p].id)
      BY <1>2, CallShape DEF Reviewing, TypeOK
    <2> QED BY <1>1, <2>1
  <1>3. ASSUME NEW q \in Threads, NEW c, call' = [call EXCEPT ![q] = c], c.op # "review"
        PROVE  call'[p] = call[p]
    BY <1>3 DEF TypeOK
  <1>4. CASE UNCHANGED vars \/ \E s \in Streams : Forget(s)
    BY <1>2, <1>4 DEF vars, Forget
  <1>5. ASSUME NEW q \in Threads, NEW e \in Kinds, RecordEvent(q, e)
        PROVE  call'[p] = call[p]
    BY <1>3, <1>5 DEF RecordEvent, Becomes
  <1>6. ASSUME NEW q \in Threads, EvaluateEvent(q) \/ AssessRisk(q)
        PROVE  call'[p] = call[p]
    BY <1>3, <1>6 DEF EvaluateEvent, AssessRisk, Becomes, Raising, Assessing, Idle
  <1>7. ASSUME NEW q \in Threads, Upsert(q)
        PROVE  call'[p] = call[p]
    <2>1. Continuation(call[q]).op # "review"
      BY DEF Continuation, Raising, Assessing, Idle
    <2>2. CASE \E rule \in Rules : SelectAlert(q, rule)
      BY <1>3, <2>2 DEF SelectAlert, Becomes
    <2> QED BY <1>3, <1>7, <2>1, <2>2 DEF Upsert, InsertAlert, BumpAlert, Becomes
  <1>8. ASSUME NEW q \in Threads, CommitReview(q) \/ NoteReview(q) \/ Fail(q)
        PROVE  call'[p] = call[p]
    BY <1>3, <1>8 DEF CommitReview, NoteReview, Fail, Becomes, Idle
  <1>9. ASSUME NEW q \in Threads, NEW i \in Alerts, NEW status \in Reviews,
               LoadAlert(q, i, status), call'[p] # call[p]
        PROVE  call'[p].id = i /\ Existing(i)
    BY <1>9 DEF LoadAlert, Becomes, TypeOK
  <1> QED BY <1>1, <1>2, <1>4, <1>5, <1>6, <1>7, <1>8, <1>9 DEF Next, Review

(* What a step does to the peaks and the books of a condition.               *)
LEMMA BookStep ==
    ASSUME TypeOK, Reviewing, [Next]_vars, NEW m \in [Alerts -> Nat], Peaks(m)
    PROVE  \E n \in [Alerts -> Nat] :
              /\ Peaks(n)'
              /\ \A k \in Conditions :
                    \/ /\ Weight(n, k)' = Weight(m, k)
                       /\ OnTheWay(k)' \in SUBSET OnTheWay(k) /\ fired'[k] = fired[k]
                    \/ /\ Weight(n, k)' = Weight(m, k)
                       /\ \E p \in Threads : OnTheWay(k)' = OnTheWay(k) \cup {p}
                       /\ fired'[k] = fired[k] + 1
                    \/ /\ \E i \in Alerts : Weight(n, k)' = [Weight(m, k) EXCEPT ![i] = @ + 1]
                       /\ \E p \in OnTheWay(k) : OnTheWay(k)' = OnTheWay(k) \ {p}
                       /\ fired'[k] = fired[k]
  <1> DEFINE Goal == \E n \in [Alerts -> Nat] :
                /\ Peaks(n)'
                /\ \A k \in Conditions :
                      \/ /\ Weight(n, k)' = Weight(m, k)
                         /\ OnTheWay(k)' \in SUBSET OnTheWay(k) /\ fired'[k] = fired[k]
                      \/ /\ Weight(n, k)' = Weight(m, k)
                         /\ \E p \in Threads : OnTheWay(k)' = OnTheWay(k) \cup {p}
                         /\ fired'[k] = fired[k] + 1
                      \/ /\ \E i \in Alerts : Weight(n, k)' = [Weight(m, k) EXCEPT ![i] = @ + 1]
                         /\ \E p \in OnTheWay(k) : OnTheWay(k)' = OnTheWay(k) \ {p}
                         /\ fired'[k] = fired[k]
  <1>1. CASE ~\E p \in Threads : Upsert(p)
    <2>1. /\ UNCHANGED fired
          /\ \A i \in Alerts : /\ Existing(i)' = Existing(i)
                               /\ alert'[i].condition = alert[i].condition
                               /\ alert'[i].repeat_count = alert[i].repeat_count
          /\ \A p \in Threads : Sent(call'[p]) => call'[p] = call[p]
      BY <1>1, QuietStep
    <2>2. ASSUME NEW k \in Conditions
          PROVE  Weight(m, k)' = Weight(m, k) /\ OnTheWay(k)' \in SUBSET OnTheWay(k)
      BY <2>1 DEF Weight, OnTheWay, Sent
    <2>3. Peaks(m)'
      <3>1. \A p \in Threads : call'[p].op = "bump" => call'[p] = call[p] /\ call[p].id \in Alerts
        BY <2>1, CallShape DEF Sent, TypeOK
      <3> QED BY <2>1, <3>1 DEF Peaks
    <2> QED BY <2>1, <2>2, <2>3
  <1>2. ASSUME NEW p \in Threads, NEW rule \in Rules, SelectAlert(p, rule)
        PROVE  Goal
    <2>1. PICK e \in Kinds : e = call[p].event
      BY <1>2, CallShape DEF SelectAlert, TypeOK
    <2>2. PICK k0 \in Conditions : k0 = About(rule, e)
      BY HitType
    <2>3. /\ call[p].op = "raise" /\ alert' = alert
          /\ fired' = [fired EXCEPT ![k0] = @ + 1]
      BY <1>2, <2>1, <2>2 DEF SelectAlert
    <2>4. PICK c : /\ call' = [call EXCEPT ![p] = c]
                   /\ Sent(c) /\ c.rule = rule /\ c.event = e
                   /\ c.op = "bump" => /\ c.id \in Alerts /\ Active(c.id)
                                       /\ alert[c.id].condition = k0
                                       /\ c.repeat_count = alert[c.id].repeat_count
      BY <1>2, <2>1, <2>2 DEF SelectAlert, Becomes, Sent, Matches
    <2>5. /\ call'[p] = c /\ \A q \in Threads \ {p} : call'[q] = call[q]
          /\ ~Sent(call[p])
      BY <2>3, <2>4 DEF TypeOK, Sent
    <2>6. Peaks(m)'
      <3>1. c.op = "bump" => /\ Existing(c.id) /\ c.repeat_count <= m[c.id]
                             /\ alert[c.id].condition = About(c.rule, c.event)
        BY <2>2, <2>4 DEF Peaks, Active, Existing
      <3> QED BY <2>3, <2>4, <2>5, <3>1 DEF Peaks, Existing
    <2>7. ASSUME NEW k \in Conditions
          PROVE  /\ Weight(m, k)' = Weight(m, k)
                 /\ OnTheWay(k)' = IF k = k0 THEN OnTheWay(k) \cup {p} ELSE OnTheWay(k)
                 /\ fired'[k] = IF k = k0 THEN fired[k] + 1 ELSE fired[k]
      <3>1. Weight(m, k)' = Weight(m, k)
        BY <2>3 DEF Weight, Existing
      <3>2. OnTheWay(k)' = {q \in Threads : Sent(call'[q])
                                           /\ About(call'[q].rule, call'[q].event) = k}
        BY DEF OnTheWay, Sent, About, HitSource
      <3>3. OnTheWay(k)' = IF k = k0 THEN OnTheWay(k) \cup {p} ELSE OnTheWay(k)
        BY <2>2, <2>4, <2>5, <3>2 DEF OnTheWay
      <3>4. fired'[k] = IF k = k0 THEN fired[k] + 1 ELSE fired[k]
        BY <2>3 DEF TypeOK
      <3> QED BY <3>1, <3>3, <3>4
    <2>8. ASSUME NEW k \in Conditions
          PROVE  \/ /\ Weight(m, k)' = Weight(m, k)
                    /\ OnTheWay(k)' \in SUBSET OnTheWay(k) /\ fired'[k] = fired[k]
                 \/ /\ Weight(m, k)' = Weight(m, k)
                    /\ \E q \in Threads : OnTheWay(k)' = OnTheWay(k) \cup {q}
                    /\ fired'[k] = fired[k] + 1
      BY <2>7
    <2> QED BY <2>6, <2>8

  <1>3. ASSUME NEW p \in Threads, NEW i \in Alerts, NEW k0 \in Conditions,
               NEW n \in [Alerts -> Nat], NEW c, Sent(call[p]), ~Sent(c),
               call' = [call EXCEPT ![p] = c], UNCHANGED fired,
               k0 = About(call[p].rule, call[p].event), Peaks(n)',
               \A k \in Conditions : Weight(n, k)' =
                   IF k = k0 THEN [Weight(m, k) EXCEPT ![i] = @ + 1] ELSE Weight(m, k)
        PROVE  Goal
    <2>1. /\ call'[p] = c /\ \A q \in Threads \ {p} : call'[q] = call[q]
      BY <1>3 DEF TypeOK
    <2>2. ASSUME NEW k \in Conditions
          PROVE  /\ k = k0 => p \in OnTheWay(k)
                 /\ OnTheWay(k)' = IF k = k0 THEN OnTheWay(k) \ {p} ELSE OnTheWay(k)
      <3>1. OnTheWay(k)' = {q \in Threads : Sent(call'[q])
                                            /\ About(call'[q].rule, call'[q].event) = k}
        BY DEF OnTheWay, Sent, About, HitSource
      <3> QED BY <1>3, <2>1, <3>1 DEF OnTheWay
    <2>3. ASSUME NEW k \in Conditions
          PROVE  \/ /\ Weight(n, k)' = Weight(m, k)
                    /\ OnTheWay(k)' \in SUBSET OnTheWay(k) /\ fired'[k] = fired[k]
                 \/ /\ \E j \in Alerts : Weight(n, k)' = [Weight(m, k) EXCEPT ![j] = @ + 1]
                    /\ \E q \in OnTheWay(k) : OnTheWay(k)' = OnTheWay(k) \ {q}
                    /\ fired'[k] = fired[k]
      <3>1. CASE k = k0
        BY <1>3, <2>2, <3>1
      <3>2. CASE k # k0
        BY <1>3, <2>2, <3>2
      <3> QED BY <3>1, <3>2
    <2> QED BY <1>3, <2>3
  <1>4. ASSUME NEW p \in Threads, call[p].op \in {"insert", "bump"}
        PROVE  /\ ~Sent(Continuation(call[p]))
               /\ \E k0 \in Conditions : k0 = About(call[p].rule, call[p].event)
    <2>1. call[p].rule \in Rules /\ call[p].event \in Kinds
      BY <1>4, CallShape DEF TypeOK
    <2> QED BY <2>1, HitType DEF Sent, Continuation, Raising, Assessing, Idle
  <1>5. ASSUME NEW p \in Threads, NEW i \in Alerts, InsertAlert(p, i)
        PROVE  Goal
    <2>1. PICK k0 \in Conditions : k0 = About(call[p].rule, call[p].event)
      BY <1>4, <1>5 DEF InsertAlert
    <2>2. PICK c : c = Continuation(call[p])
      OBVIOUS
    <2>3. /\ call[p].op = "insert" /\ ~Existing(i) /\ UNCHANGED fired
          /\ call' = [call EXCEPT ![p] = c]
          /\ alert'[i] = NewAlert(k0, call[p].event.dev)
          /\ \A j \in Alerts \ {i} : alert'[j] = alert[j]
      BY <1>5, <2>1, <2>2 DEF InsertAlert, Becomes, TypeOK
    <2>4. Sent(call[p]) /\ ~Sent(c)
      BY <1>4, <2>2, <2>3 DEF Sent
    <2>5. PICK n \in [Alerts -> Nat] : n = [m EXCEPT ![i] = 1]
      OBVIOUS
    <2>6. Peaks(n)'
      <3>1. \A j \in Alerts : alert'[j].repeat_count <= n[j]
        BY <2>3, <2>5 DEF Peaks, NewAlert
      <3>2. ASSUME NEW q \in Threads, call'[q].op = "bump"
            PROVE  /\ call'[q] = call[q] /\ call[q].id \in Alerts /\ call[q].id # i
                   /\ Existing(call[q].id)
                   /\ alert[call[q].id].condition = About(call[q].rule, call[q].event)
                   /\ call[q].repeat_count <= m[call[q].id]
        <4>1. call'[q] = call[q]
          BY <2>3, <2>4, <3>2 DEF TypeOK, Sent
        <4> QED BY <2>3, <3>2, <4>1, CallShape DEF Peaks, TypeOK
      <3>3. ASSUME NEW q \in Threads, call'[q].op = "bump"
            PROVE  /\ alert'[call'[q].id].status # "ABSENT"
                   /\ alert'[call'[q].id].condition = About(call'[q].rule, call'[q].event)
                   /\ call'[q].repeat_count <= n[call'[q].id]
        BY <2>3, <2>5, <3>2, <3>3 DEF Existing
      <3> QED BY <3>1, <3>3 DEF Peaks, Existing, About, HitSource
    <2>7. ASSUME NEW k \in Conditions
          PROVE  Weight(n, k)' =
                    IF k = k0 THEN [Weight(m, k) EXCEPT ![i] = @ + 1] ELSE Weight(m, k)
      <3>1. Weight(n, k)' = [j \in Alerts |-> IF /\ alert'[j].status # "ABSENT"
                                                 /\ alert'[j].condition = k
                                              THEN n[j] ELSE 0]
        BY DEF Weight, Existing
      <3>2. /\ alert'[i].status # "ABSENT" /\ alert'[i].condition = k0 /\ n[i] = 1
            /\ \A j \in Alerts \ {i} : alert'[j] = alert[j] /\ n[j] = m[j]
        BY <2>3, <2>5 DEF NewAlert
      <3>3. alert[i].status = "ABSENT"
        BY <2>3 DEF Existing
      <3> QED BY <3>1, <3>2, <3>3 DEF Weight, Existing
    <2> QED BY <1>3, <2>1, <2>3, <2>4, <2>6, <2>7
  <1>6. ASSUME NEW p \in Threads, BumpAlert(p)
        PROVE  Goal
    <2>1. PICK k0 \in Conditions : k0 = About(call[p].rule, call[p].event)
      BY <1>4, <1>6 DEF BumpAlert
    <2>0. PICK c : c = Continuation(call[p])
      OBVIOUS
    <2>2. PICK i \in Alerts, l \in Nat : i = call[p].id /\ l = call[p].repeat_count
      BY <1>6, CallShape DEF BumpAlert, TypeOK
    <2>3. /\ call[p].op = "bump" /\ UNCHANGED fired
          /\ call' = [call EXCEPT ![p] = c]
          /\ alert'[i] = Repeated(alert[i], l)
          /\ \A j \in Alerts \ {i} : alert'[j] = alert[j]
      BY <1>6, <2>0, <2>2 DEF BumpAlert, Becomes, TypeOK
    <2>4. Sent(call[p]) /\ ~Sent(c)
      BY <1>4, <2>0, <2>3 DEF Sent
    <2>5. PICK n \in [Alerts -> Nat] : n = [m EXCEPT ![i] = @ + 1]
      <3>1. m[i] + 1 \in Nat
        OBVIOUS
      <3> QED BY <3>1
    <2>6. /\ alert'[i].status = alert[i].status /\ alert'[i].condition = alert[i].condition
          /\ alert'[i].repeat_count = l + 1 /\ alert[i].status # "ABSENT"
          /\ alert[i].condition = k0 /\ l <= m[i]
      BY <2>1, <2>2, <2>3 DEF Repeated, TypeOK, AlertRow, Peaks, Existing
    <2>7. Peaks(n)'
      <3>1. \A j \in Alerts : alert'[j].repeat_count <= n[j]
        BY <2>3, <2>5, <2>6 DEF Peaks
      <3>2. ASSUME NEW q \in Threads, call'[q].op = "bump"
            PROVE  /\ call'[q] = call[q] /\ call[q].id \in Alerts
                   /\ alert[call[q].id].status # "ABSENT"
                   /\ alert[call[q].id].condition = About(call[q].rule, call[q].event)
                   /\ call[q].repeat_count <= m[call[q].id] /\ call[q].repeat_count \in Nat
        <4>1. call'[q] = call[q]
          BY <2>3, <2>4, <3>2 DEF TypeOK, Sent
        <4> QED BY <2>3, <3>2, <4>1, CallShape DEF Peaks, TypeOK, Existing
      <3>3. \A j \in Alerts : /\ m[j] <= n[j] /\ alert'[j].status = alert[j].status
                              /\ alert'[j].condition = alert[j].condition
        BY <2>3, <2>5, <2>6
      <3>4. ASSUME NEW q \in Threads, call'[q].op = "bump"
            PROVE  /\ alert'[call'[q].id].status # "ABSENT"
                   /\ alert'[call'[q].id].condition = About(call'[q].rule, call'[q].event)
                   /\ call'[q].repeat_count <= n[call'[q].id]
        <4>1. PICK j \in Alerts, x \in Nat, y \in Nat, z \in Nat :
                 j = call[q].id /\ x = call[q].repeat_count /\ y = m[j] /\ z = n[j]
          BY <3>2, <3>4
        <4> QED BY <3>2, <3>3, <3>4, <4>1
      <3> QED BY <3>1, <3>4 DEF Peaks, Existing, About, HitSource
    <2>8. ASSUME NEW k \in Conditions
          PROVE  Weight(n, k)' =
                    IF k = k0 THEN [Weight(m, k) EXCEPT ![i] = @ + 1] ELSE Weight(m, k)
      <3>1. Weight(n, k)' = [j \in Alerts |-> IF /\ alert'[j].status # "ABSENT"
                                                 /\ alert'[j].condition = k
                                              THEN n[j] ELSE 0]
        BY DEF Weight, Existing
      <3> QED BY <2>3, <2>5, <2>6, <3>1 DEF Weight, Existing
    <2> QED BY <1>3, <2>1, <2>3, <2>4, <2>7, <2>8
  <1> QED BY <1>1, <1>2, <1>5, <1>6 DEF Upsert

(* The books stay balanced.                                                  *)
LEMMA BookedStep ==
    ASSUME IsFiniteSet(Alerts), IsFiniteSet(Threads)
    PROVE  TypeOK /\ Reviewing /\ Booked /\ [Next]_vars => Booked'
  <1> SUFFICES ASSUME TypeOK, Reviewing, [Next]_vars,
                      NEW m \in [Alerts -> Nat], Peaks(m), Backed(m)
               PROVE  Booked'
    BY DEF Booked
  <1>1. PICK n \in [Alerts -> Nat] :
                /\ Peaks(n)'
                /\ \A k \in Conditions :
                      \/ /\ Weight(n, k)' = Weight(m, k)
                         /\ OnTheWay(k)' \in SUBSET OnTheWay(k) /\ fired'[k] = fired[k]
                      \/ /\ Weight(n, k)' = Weight(m, k)
                         /\ \E p \in Threads : OnTheWay(k)' = OnTheWay(k) \cup {p}
                         /\ fired'[k] = fired[k] + 1
                      \/ /\ \E i \in Alerts : Weight(n, k)' = [Weight(m, k) EXCEPT ![i] = @ + 1]
                         /\ \E p \in OnTheWay(k) : OnTheWay(k)' = OnTheWay(k) \ {p}
                         /\ fired'[k] = fired[k]
    BY BookStep
  <1>2. ASSUME NEW k \in Conditions, NEW h, IsSum(h, Alerts, Weight(n, k)')
        PROVE  h[Alerts] + Cardinality(OnTheWay(k)') <= fired'[k]
    <2>1. PICK g \in [Alerts -> Int], A \in SUBSET Threads, f \in Nat :
             g = Weight(m, k) /\ A = OnTheWay(k) /\ f = fired[k]
      <3>1. Weight(m, k) \in [Alerts -> Int]
        BY DEF Weight
      <3>2. OnTheWay(k) \in SUBSET Threads /\ fired[k] \in Nat
        BY DEF OnTheWay, TypeOK
      <3> QED BY <3>1, <3>2
    <2>2. PICK g2 : g2 = Weight(n, k)'
      OBVIOUS
    <2>3. PICK B : B = OnTheWay(k)'
      OBVIOUS
    <2>4. PICK f2 : f2 = fired'[k]
      OBVIOUS
    <2>5. \A r : IsSum(r, Alerts, g) => r[Alerts] + Cardinality(A) <= f
      BY <2>1 DEF Backed
    <2>6. \/ g2 = g /\ B \in SUBSET A /\ f2 = f
          \/ g2 = g /\ (\E p \in Threads : B = A \cup {p}) /\ f2 = f + 1
          \/ /\ \E i \in Alerts : g2 = [g EXCEPT ![i] = @ + 1]
             /\ \E p \in A : B = A \ {p}
             /\ f2 = f
      BY <1>1, <2>1, <2>2, <2>3, <2>4
    <2>7. IsSum(h, Alerts, g2)
      BY <1>2, <2>2
    <2>8. h[Alerts] + Cardinality(B) <= f2
      BY <2>5, <2>6, <2>7, Books
    <2> QED BY <2>3, <2>4, <2>8
  <1>3. Backed(n)'
    BY <1>2 DEF Backed
  <1> QED BY <1>1, <1>3 DEF Booked

(* What is booked covers what the alerts of a condition show.                *)
LEMMA BookedCovers ==
    ASSUME IsFiniteSet(Alerts), IsFiniteSet(Threads), TypeOK, Booked
    PROVE  RepeatsAreBacked
  <1> SUFFICES ASSUME NEW k \in Conditions
               PROVE  MapThenSumSet(LAMBDA i : alert[i].repeat_count,
                                    {i \in Alerts : Existing(i) /\ alert[i].condition = k})
                         <= fired[k]
    BY DEF RepeatsAreBacked
  <1>1. PICK m \in [Alerts -> Nat] : Peaks(m) /\ Backed(m)
    BY DEF Booked
  <1> DEFINE Q == {i \in Alerts : Existing(i) /\ alert[i].condition = k}
             e == [i \in Q |-> alert[i].repeat_count]
  <1>2. Q \in SUBSET Alerts /\ e \in [Q -> Int] /\ \A i \in Q : e[i] = alert[i].repeat_count
    BY DEF TypeOK, AlertRow
  <1>3. Weight(m, k) \in [Alerts -> Int] /\ \A i \in Alerts : Weight(m, k)[i] >= 0
    BY DEF Weight
  <1>4. \A i \in Q : e[i] <= Weight(m, k)[i]
    BY <1>1 DEF Peaks, Weight
  <1> HIDE DEF Q, e
  <1>5. IsFiniteSet(Q)
    BY <1>2, FS_Subset
  <1>6. PICK h : IsSum(h, Alerts, Weight(m, k))
    BY <1>3, SumExists
  <1>7. PICK r : IsSum(r, Q, e)
    BY <1>2, <1>5, SumExists
  <1>8. r[Q] <= h[Alerts]
    BY <1>2, <1>3, <1>4, <1>6, <1>7, SumBelow
  <1>9. MapThenSumSet(LAMBDA i : alert[i].repeat_count, Q) = r[Q]
    BY <1>2, <1>5, <1>7, SumIs
  <1>10. h[Alerts] + Cardinality(OnTheWay(k)) <= fired[k]
    BY <1>1, <1>6 DEF Backed
  <1>11. IsFiniteSet(OnTheWay(k)) /\ Cardinality(OnTheWay(k)) \in Nat
    BY FS_Subset, FS_CardinalityType DEF OnTheWay
  <1>12. r[Q] \in Int /\ h[Alerts] \in Int /\ fired[k] \in Int
    BY <1>6, <1>7 DEF IsSum, TypeOK
  <1>13. r[Q] <= fired[k]
    <2>1. PICK a \in Int, b \in Int, c \in Nat, d \in Int :
             a = r[Q] /\ b = h[Alerts] /\ c = Cardinality(OnTheWay(k)) /\ d = fired[k]
      BY <1>11, <1>12
    <2>2. a <= b /\ b + c <= d => a <= d
      OBVIOUS
    <2> QED BY <1>8, <1>10, <2>1, <2>2
  <1> USE DEF Q
  <1> QED BY <1>9, <1>13

(* The repeat counts of the alerts of a condition never add up to more than  *)
(* its hits that reached upsert_alert, for any number of alerts, threads and *)
(* events and whatever updates are lost.                                     *)
THEOREM Repeats ==
    ASSUME IsFiniteSet(Alerts), IsFiniteSet(Threads)
    PROVE  Spec => []RepeatsAreBacked
  <1>1. Init => Reviewing /\ Booked
    <2> SUFFICES ASSUME Init PROVE Reviewing /\ Booked
      OBVIOUS
    <2>1. /\ \A p \in Threads : call[p].op = "idle"
          /\ \A i \in Alerts : ~Existing(i) /\ alert[i].repeat_count = 0
          /\ \A k \in Conditions : fired[k] = 0
      BY DEF Init, Idle, NoAlert, Existing
    <2>2. PICK m \in [Alerts -> Nat] : m = [i \in Alerts |-> 0]
      OBVIOUS
    <2>3. Peaks(m)
      BY <2>1, <2>2 DEF Peaks
    <2>4. ASSUME NEW k \in Conditions, NEW h, IsSum(h, Alerts, Weight(m, k))
          PROVE  h[Alerts] + Cardinality(OnTheWay(k)) <= fired[k]
      <3>1. OnTheWay(k) = {}
        BY <2>1 DEF OnTheWay, Sent
      <3>2. Cardinality(OnTheWay(k)) = 0
        BY <3>1, FS_EmptySet
      <3>3. Weight(m, k) = m
        BY <2>1, <2>2 DEF Weight
      <3>4. PICK r : r = [s \in SUBSET Alerts |-> 0]
        OBVIOUS
      <3>5. IsSum(r, Alerts, m)
        BY <2>2, <3>4 DEF IsSum
      <3>6. h[Alerts] = r[Alerts]
        BY <2>4, <3>3, <3>5, SumUnique
      <3>7. h[Alerts] = 0
        BY <3>4, <3>6
      <3> QED BY <2>1, <3>2, <3>7
    <2> QED BY <2>1, <2>2, <2>3, <2>4 DEF Reviewing, Booked, Backed
  <1>2. TypeOK /\ (Reviewing /\ Booked) /\ [Next]_vars => (Reviewing /\ Booked)'
    BY ReviewingStep, BookedStep
  <1>3. TypeOK /\ Booked => RepeatsAreBacked
    BY BookedCovers
  <1> QED BY <1>1, <1>2, <1>3, TypeCorrect, PTL DEF Spec
=============================================================================
