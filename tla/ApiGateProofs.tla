---------------------------- MODULE ApiGateProofs ----------------------------
(***************************************************************************)
(* The limiter of ApiGate keeps its promise and breaks none, for any       *)
(* clients, threads, limits, windows and any wait for the lock.            *)
(*                                                                         *)
(* What a thread pops is older than the window by the time that the thread *)
(* has read, which is at most Lag old; admissions are in the order of the  *)
(* lock, not of the times that they carry.                                 *)
(***************************************************************************)
EXTENDS ApiGate, FiniteSetTheorems, TLAPS

Entries == [now : Nat, at : Nat]
Clocks == [stage : {"clock"}, client : Clients, route : Routes, right : BOOLEAN, bucket : Buckets]
Locks == [stage : {"lock"}, client : Clients, route : Routes, right : BOOLEAN, bucket : Buckets,
          now : Nat]
Records == [stage : {"record", "judge"}, client : Clients, bucket : Buckets, type : EventTypes]

\* A deque never holds more than its limit.
Bounded(k) == Len(log[k]) - popped[k] <= Limit[k[2]]

\* An admission carries a time that was read at most Lag before it.
Stamped(k) ==
    \A n \in 1..Len(log[k]) :
        /\ log[k][n].now <= log[k][n].at
        /\ log[k][n].at <= log[k][n].now + Lag
        /\ log[k][n].at <= clock

\* Admissions are in the order in which they got the lock.
Ordered(k) == \A m, n \in 1..Len(log[k]) : m <= n => log[k][m].at <= log[k][n].at

\* What has left the deque is older than the window less Lag.
Aged(k) == \A n \in 1..popped[k] : clock - log[k][n].at > Window[k[2]] - Lag

Sound == \A k \in Keys : Bounded(k) /\ Stamped(k) /\ Ordered(k) /\ Aged(k)

IInv == TypeOK /\ Sound

---------------------------------------------------------------------------
(* Types *)

(* A call has the fields that its stage names.                             *)
LEMMA CallKinds ==
    ASSUME TypeOK, NEW p \in Threads
    PROVE  /\ call[p] \in CallState
           /\ call[p].stage = "clock" => call[p] \in Clocks
           /\ call[p].stage = "lock" => call[p] \in Locks
           /\ call[p].stage \in {"record", "judge"} => call[p] \in Records
<1>1. call[p] \in CallState
  BY DEF TypeOK
<1> QED BY <1>1 DEF CallState, Idle, Clocks, Locks, Records

(* Calls of every kind are calls.                                          *)
LEMMA Kinds ==
    /\ Idle \in CallState
    /\ Clocks \subseteq CallState
    /\ Locks \subseteq CallState
    /\ Records \subseteq CallState
BY DEF CallState, Clocks, Locks, Records

(* What a thread waits for the lock for is a bucket of its client.         *)
LEMMA KeyType ==
    ASSUME NEW c \in Locks
    PROVE  KeyOf(c) \in Keys /\ KeyOf(c)[2] = c.bucket
BY DEF KeyOf, Keys, Locks

(* The calls that charge a bucket are of their kinds.                      *)
LEMMA ChargeTypes ==
    ASSUME NEW client \in Clients, NEW route \in Routes, NEW right \in BOOLEAN, NEW b \in Buckets
    PROVE  /\ Charging(client, route, right, b) \in Clocks
           /\ clock \in Nat => Reading(Charging(client, route, right, b)) \in Locks
BY DEF Charging, Reading, Clocks, Locks

(* What follows an admission or a refusal is a call.                       *)
LEMMA FollowTypes ==
    ASSUME NEW c \in Locks
    PROVE  /\ Admitted(c) \in CallState /\ Admitted(c).stage # "lock"
           /\ Refused(c) \in CallState /\ Refused(c).stage # "lock"
<1>0. /\ c.client \in Clients /\ c.route \in Routes /\ c.right \in BOOLEAN /\ c.bucket \in Buckets
      /\ "auth" \in Buckets /\ "pairing-request" \in Buckets
  BY DEF Locks, Buckets
<1>1. /\ Charging(c.client, c.route, c.right, "auth") \in Clocks
      /\ Charging(c.client, c.route, c.right, "pairing-request") \in Clocks
  BY <1>0, ChargeTypes
<1>2. /\ Recording(c, "AUTH_FAILURE") \in Records
      /\ Recording(c, "RATE_LIMITED") \in Records
  BY <1>0 DEF Recording, Records, EventTypes
<1>3. \A x \in Clocks \cup Records : x.stage # "lock"
  BY DEF Clocks, Records
<1>4. Idle.stage # "lock"
  BY DEF Idle
<1> QED BY <1>1, <1>2, <1>3, <1>4, Kinds DEF Admitted, Refused

(* Nothing has happened yet.                                              *)
LEMMA InitType == ASSUME Init PROVE TypeOK
<1> USE BoundAssumption DEF Init
<1>1. log \in [Keys -> Seq(Entries)] /\ popped \in [Keys -> Nat]
  OBVIOUS
<1>2. \A k \in Keys : popped[k] <= Len(log[k])
  OBVIOUS
<1>3. call \in [Threads -> CallState] /\ \A p \in Threads : call[p].stage # "lock"
  BY Kinds DEF Idle
<1>4. events \in [EventTypes -> Seq(Nat)]
  OBVIOUS
<1> QED BY <1>1, <1>2, <1>3, <1>4 DEF TypeOK, Entries

(* A step that changes one call, to one that does not wait for the lock or *)
(* that has just read the clock, keeps the type of the calls.              *)
LEMMA CallStep ==
    ASSUME TypeOK, NEW p \in Threads, NEW c \in CallState, Becomes(p, c), clock' = clock,
           c.stage = "lock" => c.now = clock
    PROVE  /\ call' \in [Threads -> CallState]
           /\ \A q \in Threads :
                 call'[q].stage = "lock" => call'[q].now <= clock' /\ clock' <= call'[q].now + Lag
<1>1. /\ call \in [Threads -> CallState] /\ clock \in Nat /\ Lag \in Nat
      /\ \A q \in Threads :
            call[q].stage = "lock" => call[q].now <= clock /\ clock <= call[q].now + Lag
  BY LimitAssumption, BoundAssumption DEF TypeOK
<1>2. call' \in [Threads -> CallState]
  BY <1>1 DEF Becomes
<1>3. ASSUME NEW q \in Threads, call'[q].stage = "lock"
      PROVE  call'[q].now <= clock' /\ clock' <= call'[q].now + Lag
  <2>1. CASE q = p
    <3>1. call'[q] = c
      BY <2>1, <1>1 DEF Becomes
    <3> QED BY <3>1, <1>3, <1>1
  <2>2. CASE q # p
    <3>1. call'[q] = call[q]
      BY <2>2, <1>1 DEF Becomes
    <3> QED BY <3>1, <1>3, <1>1
  <2> QED BY <2>1, <2>2
<1> QED BY <1>2, <1>3

(* Every step of the gate keeps the types.                                 *)
LEMMA NextType == ASSUME TypeOK, [Next]_vars PROVE TypeOK'
<1>0. /\ clock \in Nat /\ Lag \in Nat /\ MaxTime \in Nat /\ MaxCalls \in Nat /\ MaxFaults \in Nat
      /\ log \in [Keys -> Seq(Entries)] /\ popped \in [Keys -> Nat]
      /\ call \in [Threads -> CallState]
  BY LimitAssumption, BoundAssumption DEF TypeOK, Entries
<1>1. ASSUME NEW p \in Threads, NEW client \in Clients, NEW route \in Routes,
             NEW right \in BOOLEAN, Arrive(p, client, route, right)
      PROVE  TypeOK'
  <2> DEFINE c == Reading(Charging(client, route, right, FirstBucket[route]))
  <2>1. FirstBucket[route] \in Buckets
    BY RouteAssumption DEF FirstBucket, Buckets, PathBuckets
  <2>2. c \in Locks /\ c.now = clock
    BY <2>1, <1>0, ChargeTypes DEF Reading
  <2>3. c \in CallState /\ Becomes(p, c) /\ clock' = clock
    BY <2>2, <1>1, Kinds DEF Arrive
  <2>4. calls' \in 0..MaxCalls
    BY <1>1, <1>0 DEF Arrive, TypeOK
  <2> HIDE DEF c
  <2> QED BY <2>2, <2>3, <2>4, <1>1, CallStep DEF Arrive, TypeOK
<1>2. ASSUME NEW p \in Threads, ReadClock(p)
      PROVE  TypeOK'
  <2> DEFINE c == Reading(call[p])
  <2>1. call[p] \in Clocks
    BY <1>2, CallKinds DEF ReadClock
  <2>2. c \in Locks /\ c.now = clock
    BY <2>1, <1>0 DEF Reading, Clocks, Locks
  <2>3. c \in CallState /\ Becomes(p, c) /\ clock' = clock
    BY <2>2, <1>2, Kinds DEF ReadClock
  <2> HIDE DEF c
  <2> QED BY <2>2, <2>3, <1>2, CallStep DEF ReadClock, TypeOK
<1>3. ASSUME NEW p \in Threads, Admit(p)
      PROVE  TypeOK'
  <2> DEFINE c == Admitted(call[p])
             k == KeyOf(call[p])
  <2>1. call[p] \in Locks /\ k \in Keys
    BY <1>3, CallKinds, KeyType DEF Admit
  <2>2. c \in CallState /\ c.stage # "lock" /\ Becomes(p, c) /\ clock' = clock
    BY <2>1, <1>3, FollowTypes DEF Admit
  <2>3. PICK n \in popped[k]..Len(log[k]) : popped' = [popped EXCEPT ![k] = n]
    BY <1>3 DEF Admit
  <2>4. log' = [log EXCEPT ![k] = Append(@, [now |-> call[p].now, at |-> clock])]
    BY <1>3 DEF Admit
  <2>5. call[p].now \in Nat /\ [now |-> call[p].now, at |-> clock] \in Entries
    BY <2>1, <1>0 DEF Locks, Entries
  <2> HIDE DEF c, k
  <2>6. log[k] \in Seq(Entries) /\ popped[k] \in Nat /\ Len(log[k]) \in Nat
    BY <2>1, <1>0
  <2>7. Append(log[k], [now |-> call[p].now, at |-> clock]) \in Seq(Entries)
    BY <2>5, <2>6
  <2>8. log' \in [Keys -> Seq(Entries)]
    BY <2>1, <2>4, <2>7, <1>0
  <2>9. popped' \in [Keys -> Nat]
    BY <2>1, <2>3, <2>6, <1>0
  <2>10. ASSUME NEW l \in Keys PROVE popped'[l] <= Len(log'[l])
    <3>1. CASE l = k
      <4>1. popped'[l] = n /\ log'[l] = Append(log[k], [now |-> call[p].now, at |-> clock])
        BY <3>1, <2>3, <2>4, <1>0
      <4>2. Len(log'[l]) = Len(log[k]) + 1
        BY <4>1, <2>6, <2>5
      <4> QED BY <4>1, <4>2, <2>6
    <3>2. CASE l # k
      BY <3>2, <2>3, <2>4, <1>0 DEF TypeOK
    <3> QED BY <3>1, <3>2
  <2> QED BY <2>2, <2>8, <2>9, <2>10, <1>3, CallStep DEF Admit, TypeOK, Entries
<1>4. ASSUME NEW p \in Threads, Refuse(p)
      PROVE  TypeOK'
  <2> DEFINE c == Refused(call[p])
             k == KeyOf(call[p])
  <2>1. call[p] \in Locks /\ k \in Keys
    BY <1>4, CallKinds, KeyType DEF Refuse
  <2>2. c \in CallState /\ c.stage # "lock" /\ Becomes(p, c) /\ clock' = clock
    BY <2>1, <1>4, FollowTypes DEF Refuse
  <2>3. PICK n \in popped[k]..Len(log[k]) : popped' = [popped EXCEPT ![k] = n]
    BY <1>4 DEF Refuse
  <2> HIDE DEF c, k
  <2>6. log[k] \in Seq(Entries) /\ popped[k] \in Nat /\ Len(log[k]) \in Nat
    BY <2>1, <1>0
  <2>9. popped' \in [Keys -> Nat]
    BY <2>1, <2>3, <2>6, <1>0
  <2>10. \A l \in Keys : popped'[l] <= Len(log[l])
    BY <2>1, <2>3, <2>6, <1>0 DEF TypeOK
  <2> QED BY <2>2, <2>9, <2>10, <1>4, CallStep DEF Refuse, TypeOK
<1>5. ASSUME NEW p \in Threads, RecordEvent(p)
      PROVE  TypeOK'
  <2> DEFINE c == [call[p] EXCEPT !.stage = "judge"]
  <2>1. call[p] \in Records
    BY <1>5, CallKinds DEF RecordEvent
  <2>2. c \in Records /\ c.stage # "lock"
    BY <2>1 DEF Records
  <2>3. c \in CallState /\ Becomes(p, c) /\ clock' = clock
    BY <2>2, <1>5, Kinds DEF RecordEvent
  <2>4. call[p].type \in EventTypes
    BY <2>1 DEF Records
  <2>5. events' \in [EventTypes -> Seq(Nat)]
    BY <2>4, <1>5, <1>0 DEF RecordEvent, TypeOK
  <2> HIDE DEF c
  <2> QED BY <2>2, <2>3, <2>5, <1>5, CallStep DEF RecordEvent, TypeOK
<1>6. ASSUME NEW p \in Threads, FailEvent(p)
      PROVE  TypeOK'
  <2>1. Idle \in CallState /\ Idle.stage # "lock"
    BY Kinds DEF Idle
  <2>2. faults' \in 0..MaxFaults
    BY <1>6, <1>0 DEF FailEvent, TypeOK
  <2> QED BY <2>1, <2>2, <1>6, CallStep DEF FailEvent, TypeOK
<1>7. ASSUME NEW p \in Threads, EvaluateRules(p)
      PROVE  TypeOK'
  <2>1. Idle \in CallState /\ Idle.stage # "lock"
    BY Kinds DEF Idle
  <2>2. call[p].type \in EventTypes
    BY <1>7, CallKinds DEF EvaluateRules, Records
  <2>3. alerts' \subseteq Rules \X EventTypes
    BY <2>2, <1>7 DEF EvaluateRules, TypeOK
  <2> QED BY <2>1, <2>3, <1>7, CallStep DEF EvaluateRules, TypeOK
<1>8. ASSUME Tick
      PROVE  TypeOK'
  <2>1. clock' \in 0..MaxTime
    BY <1>8, <1>0 DEF Tick, TypeOK
  <2>2. ASSUME NEW p \in Threads, call'[p].stage = "lock"
        PROVE  call'[p].now <= clock' /\ clock' <= call'[p].now + Lag
    <3>1. call'[p] = call[p] /\ call[p] \in Locks
      BY <1>8, <2>2, CallKinds DEF Tick
    <3>2. call[p].now \in Nat /\ call[p].now <= clock /\ clock < call[p].now + Lag
      BY <3>1, <2>2, <1>8 DEF Locks, Tick, TypeOK
    <3> QED BY <3>1, <3>2, <1>8, <1>0 DEF Tick
  <2> QED BY <2>1, <2>2, <1>8 DEF Tick, TypeOK
<1>9. CASE UNCHANGED vars
  BY <1>9 DEF vars, TypeOK
<1> QED BY <1>1, <1>2, <1>3, <1>4, <1>5, <1>6, <1>7, <1>8, <1>9 DEF Next, Request

(* The buckets, the calls in flight and the events keep their types, and a *)
(* thread that waits for the lock has read the clock at most Lag ago.      *)
THEOREM TypeCorrect == Spec => []TypeOK
BY InitType, NextType, PTL DEF Spec

---------------------------------------------------------------------------
(* Buckets *)

(* A bucket and its constants, as numbers.                                 *)
LEMMA BucketTypes ==
    ASSUME TypeOK, NEW k \in Keys
    PROVE  /\ log[k] \in Seq(Entries) /\ Len(log[k]) \in Nat /\ popped[k] \in Nat
           /\ popped[k] <= Len(log[k])
           /\ Limit[k[2]] \in Nat \ {0} /\ Window[k[2]] \in Nat /\ Lag \in Nat /\ clock \in Nat
           /\ \A n \in 1..Len(log[k]) : log[k][n].now \in Nat /\ log[k][n].at \in Nat
<1>1. log[k] \in Seq(Entries) /\ popped[k] \in Nat /\ popped[k] <= Len(log[k]) /\ clock \in Nat
  BY BoundAssumption DEF TypeOK, Entries
<1>2. k[2] \in Buckets
  BY DEF Keys
<1>3. \A n \in 1..Len(log[k]) : log[k][n] \in Entries
  BY <1>1
<1> QED BY <1>1, <1>2, <1>3, LimitAssumption DEF Entries

(* A bucket that nobody charges stays sound while time passes.             *)
LEMMA Untouched ==
    ASSUME TypeOK, NEW k \in Keys, Bounded(k), Stamped(k), Ordered(k), Aged(k),
           log'[k] = log[k], popped'[k] = popped[k], clock' \in Nat, clock <= clock'
    PROVE  Bounded(k)' /\ Stamped(k)' /\ Ordered(k)' /\ Aged(k)'
<1>1. Bounded(k)' /\ Ordered(k)'
  BY DEF Bounded, Ordered
<1>2. Stamped(k)'
  BY BucketTypes DEF Stamped
<1>3. Aged(k)'
  <2> SUFFICES ASSUME NEW n \in 1..popped[k]
               PROVE  clock' - log[k][n].at > Window[k[2]] - Lag
    BY DEF Aged
  <2>1. n \in 1..Len(log[k])
    BY BucketTypes
  <2>2. log[k][n].at \in Nat /\ clock \in Nat /\ Window[k[2]] \in Nat /\ Lag \in Nat
    BY <2>1, BucketTypes
  <2>3. clock - log[k][n].at > Window[k[2]] - Lag
    BY DEF Aged
  <2> QED BY <2>2, <2>3
<1> QED BY <1>1, <1>2, <1>3

(* Old by the time that was read, and admitted at most Lag after its own.  *)
LEMMA OldIsAged ==
    ASSUME NEW now \in Nat, NEW read \in Nat, NEW stamp \in Nat, NEW at \in Nat,
           NEW window \in Nat, NEW lag \in Nat,
           read <= now, read - stamp > window, at <= stamp + lag
    PROVE  now - at > window - lag
OBVIOUS

(* Young by the time that was read, which is at most Lag ago.              *)
LEMMA YoungIsRecent ==
    ASSUME NEW now \in Nat, NEW read \in Nat, NEW stamp \in Nat, NEW first \in Nat,
           NEW at \in Nat, NEW window \in Nat, NEW lag \in Nat,
           now <= read + lag, ~(read - stamp > window), stamp <= first, first <= at
    PROVE  now - at <= window + lag
OBVIOUS

(* What a thread may pop is older than the window less Lag: the thread has *)
(* read the clock since, and an admission follows its time by at most Lag. *)
LEMMA PopsAreAged ==
    ASSUME TypeOK, Sound, NEW p \in Threads, call[p].stage = "lock",
           NEW n \in popped[KeyOf(call[p])]..Len(log[KeyOf(call[p])]),
           Pops(KeyOf(call[p]), call[p].now, n)
    PROVE  \A m \in 1..n :
              clock - log[KeyOf(call[p])][m].at > Window[KeyOf(call[p])[2]] - Lag
<1>0. PICK k \in Keys : k = KeyOf(call[p])
  BY CallKinds, KeyType
<1>1. call[p] \in Locks
  BY CallKinds
<1>2. call[p].now \in Nat /\ call[p].now <= clock
  BY <1>1 DEF Locks, TypeOK
<1>3. Stamped(k) /\ Aged(k)
  BY <1>1 DEF Sound
<1>4. \A m \in (popped[k] + 1)..n : call[p].now - log[k][m].now > Window[k[2]]
  BY <1>0 DEF Pops, Old
<1>6. /\ Len(log[k]) \in Nat /\ popped[k] \in Nat /\ Window[k[2]] \in Nat /\ Lag \in Nat
      /\ clock \in Nat
      /\ \A m \in 1..Len(log[k]) : log[k][m].now \in Nat /\ log[k][m].at \in Nat
  BY BucketTypes
<1>5. ASSUME NEW m \in 1..n
      PROVE  clock - log[k][m].at > Window[k[2]] - Lag
  <2>1. m \in 1..Len(log[k]) /\ n \in Nat /\ m \in Nat
    BY <1>0, <1>6
  <2>2. CASE m <= popped[k]
    BY <2>1, <2>2, <1>3, <1>6 DEF Aged
  <2>3. CASE m > popped[k]
    <3>1. call[p].now - log[k][m].now > Window[k[2]]
      BY <2>1, <2>3, <1>4, <1>6
    <3>2. log[k][m].at <= log[k][m].now + Lag
      BY <2>1, <1>3 DEF Stamped
    <3>3. log[k][m].now \in Nat /\ log[k][m].at \in Nat /\ Window[k[2]] \in Nat /\ Lag \in Nat
          /\ clock \in Nat
      BY <2>1, <1>6
    <3> QED BY <3>1, <3>2, <3>3, <1>2, OldIsAged
  <2> QED BY <2>1, <2>2, <2>3, <1>6
<1> QED BY <1>0, <1>5

(* A bucket stays sound when a call is admitted to it.                     *)
LEMMA AdmittedIsSound ==
    ASSUME TypeOK, Sound, NEW p \in Threads, Admit(p)
    PROVE  Sound'
<1>1. call[p].stage = "lock" /\ call[p] \in Locks
  BY CallKinds DEF Admit
<1>0. PICK k \in Keys : k = KeyOf(call[p])
  BY <1>1, KeyType
<1>e. PICK entry \in Entries : entry = [now |-> call[p].now, at |-> clock]
  <2>1. call[p].now \in Nat /\ clock \in Nat
    BY <1>1, BoundAssumption DEF Locks, TypeOK
  <2> QED BY <2>1 DEF Entries
<1>2. /\ call[p].now \in Nat /\ call[p].now <= clock /\ clock <= call[p].now + Lag
      /\ entry.now = call[p].now /\ entry.at = clock
  BY <1>1, <1>e DEF Locks, TypeOK
<1>3. PICK n \in popped[k]..Len(log[k]) :
         Pops(k, call[p].now, n) /\ ~Full(k, n) /\ popped' = [popped EXCEPT ![k] = n]
  BY <1>0 DEF Admit
<1>4. log' = [log EXCEPT ![k] = Append(@, entry)] /\ clock' = clock
  BY <1>0, <1>e DEF Admit
<1>5. \A m \in 1..n : clock - log[k][m].at > Window[k[2]] - Lag
  BY <1>0, <1>1, <1>3, PopsAreAged
<1>6. Bounded(k) /\ Stamped(k) /\ Ordered(k) /\ Aged(k) /\ ~(Len(log[k]) - n >= Limit[k[2]])
  BY <1>3 DEF Sound, Full
<1>t. /\ log[k] \in Seq(Entries) /\ Len(log[k]) \in Nat /\ popped[k] \in Nat
      /\ popped[k] <= Len(log[k]) /\ Limit[k[2]] \in Nat /\ Window[k[2]] \in Nat
      /\ Lag \in Nat /\ clock \in Nat
      /\ \A m \in 1..Len(log[k]) : log[k][m].now \in Nat /\ log[k][m].at \in Nat
  BY BucketTypes
<1>7. log'[k] = Append(log[k], entry) /\ popped'[k] = n /\ n \in Nat
  BY <1>3, <1>4, <1>t DEF TypeOK
<1>8. /\ Len(log'[k]) = Len(log[k]) + 1
      /\ log'[k][Len(log[k]) + 1] = entry
      /\ \A m \in 1..Len(log[k]) : log'[k][m] = log[k][m]
  BY <1>7, <1>t
<1>9. ASSUME NEW m \in 1..Len(log'[k])
      PROVE  m \in 1..Len(log[k]) \/ m = Len(log[k]) + 1
  BY <1>8, <1>t
<1>10. Bounded(k)'
  BY <1>3, <1>6, <1>7, <1>8, <1>t DEF Bounded
<1>11. Stamped(k)'
  BY <1>2, <1>4, <1>6, <1>8, <1>9, <1>t DEF Stamped
<1>12. Ordered(k)'
  <2>1. \A m \in 1..Len(log[k]) : log[k][m].at <= entry.at
    BY <1>2, <1>6 DEF Stamped
  <2> SUFFICES ASSUME NEW m \in 1..Len(log'[k]), NEW j \in 1..Len(log'[k]), m <= j
               PROVE  log'[k][m].at <= log'[k][j].at
    BY DEF Ordered
  <2>2. CASE j \in 1..Len(log[k])
    <3>1. m \in 1..Len(log[k])
      BY <2>2, <1>t
    <3> QED BY <3>1, <2>2, <1>6, <1>8 DEF Ordered
  <2>3. CASE j = Len(log[k]) + 1
    <3>1. log'[k][j] = entry /\ entry.at \in Nat
      BY <2>3, <1>2, <1>8, <1>t
    <3>2. CASE m \in 1..Len(log[k])
      BY <3>1, <3>2, <2>1, <1>8
    <3>3. CASE m = Len(log[k]) + 1
      BY <3>1, <3>3, <1>8
    <3> QED BY <3>2, <3>3, <1>9
  <2> QED BY <2>2, <2>3, <1>9
<1>13. Aged(k)'
  BY <1>3, <1>4, <1>5, <1>7, <1>8, <1>t DEF Aged
<1>14. ASSUME NEW l \in Keys, l # k
       PROVE  Bounded(l)' /\ Stamped(l)' /\ Ordered(l)' /\ Aged(l)'
  <2>1. log'[l] = log[l] /\ popped'[l] = popped[l]
    BY <1>14, <1>3, <1>4 DEF TypeOK
  <2>2. Bounded(l) /\ Stamped(l) /\ Ordered(l) /\ Aged(l)
    BY DEF Sound
  <2> QED BY <2>1, <2>2, <1>4, <1>t, Untouched
<1> QED BY <1>10, <1>11, <1>12, <1>13, <1>14 DEF Sound

(* A refusal pops what is old, and admits nothing.                         *)
LEMMA RefusedIsSound ==
    ASSUME TypeOK, Sound, NEW p \in Threads, Refuse(p)
    PROVE  Sound'
<1>1. call[p].stage = "lock" /\ call[p] \in Locks
  BY CallKinds DEF Refuse
<1>0. PICK k \in Keys : k = KeyOf(call[p])
  BY <1>1, KeyType
<1>3. PICK n \in popped[k]..Len(log[k]) :
         Pops(k, call[p].now, n) /\ popped' = [popped EXCEPT ![k] = n]
  BY <1>0 DEF Refuse
<1>4. log' = log /\ clock' = clock
  BY DEF Refuse
<1>5. \A m \in 1..n : clock - log[k][m].at > Window[k[2]] - Lag
  BY <1>0, <1>1, <1>3, PopsAreAged
<1>6. Bounded(k) /\ Stamped(k) /\ Ordered(k)
  BY DEF Sound
<1>7. popped'[k] = n /\ n \in Nat /\ n >= popped[k]
  BY <1>3, BucketTypes DEF TypeOK
<1>8. Stamped(k)' /\ Ordered(k)'
  BY <1>4, <1>6 DEF Stamped, Ordered
<1>9. Bounded(k)'
  BY <1>4, <1>6, <1>7, BucketTypes DEF Bounded
<1>10. Aged(k)'
  BY <1>4, <1>5, <1>7 DEF Aged
<1>11. ASSUME NEW l \in Keys, l # k
       PROVE  Bounded(l)' /\ Stamped(l)' /\ Ordered(l)' /\ Aged(l)'
  <2>1. log'[l] = log[l] /\ popped'[l] = popped[l]
    BY <1>11, <1>3, <1>4 DEF TypeOK
  <2>2. Bounded(l) /\ Stamped(l) /\ Ordered(l) /\ Aged(l)
    BY DEF Sound
  <2> QED BY <2>1, <2>2, <1>4, BucketTypes, Untouched
<1> QED BY <1>8, <1>9, <1>10, <1>11 DEF Sound

---------------------------------------------------------------------------
(* The invariant *)

(* Empty buckets are sound.                                               *)
LEMMA InitSound == ASSUME Init PROVE Sound
<1> SUFFICES ASSUME NEW k \in Keys
             PROVE  Bounded(k) /\ Stamped(k) /\ Ordered(k) /\ Aged(k)
  BY DEF Sound
<1>1. Len(log[k]) = 0 /\ popped[k] = 0
  BY DEF Init
<1>2. Limit[k[2]] \in Nat
  BY LimitAssumption DEF Keys
<1> QED BY <1>1, <1>2 DEF Bounded, Stamped, Ordered, Aged

(* Only admissions and refusals touch a bucket, and only time ages it.     *)
LEMMA NextSound == ASSUME IInv, [Next]_vars PROVE Sound'
<1> USE DEF IInv
<1>1. ASSUME log' = log, popped' = popped, clock' \in Nat, clock <= clock'
      PROVE  Sound'
  <2> SUFFICES ASSUME NEW k \in Keys
               PROVE  Bounded(k)' /\ Stamped(k)' /\ Ordered(k)' /\ Aged(k)'
    BY DEF Sound
  <2>1. Bounded(k) /\ Stamped(k) /\ Ordered(k) /\ Aged(k)
    BY DEF Sound
  <2> QED BY <2>1, <1>1, Untouched
<1>2. clock \in Nat
  BY BoundAssumption DEF TypeOK
<1>3. ASSUME Tick PROVE Sound'
  BY <1>1, <1>2, <1>3 DEF Tick
<1>4. ASSUME NEW p \in Threads, Request(p) PROVE Sound'
  <2>1. CASE \E client \in Clients, route \in Routes, right \in BOOLEAN :
                Arrive(p, client, route, right)
    BY <2>1, <1>1, <1>2 DEF Arrive
  <2>2. CASE ReadClock(p)
    BY <2>2, <1>1, <1>2 DEF ReadClock
  <2>3. CASE Admit(p)
    BY <2>3, AdmittedIsSound
  <2>4. CASE Refuse(p)
    BY <2>4, RefusedIsSound
  <2>5. CASE RecordEvent(p)
    BY <2>5, <1>1, <1>2 DEF RecordEvent
  <2>6. CASE FailEvent(p)
    BY <2>6, <1>1, <1>2 DEF FailEvent
  <2>7. CASE EvaluateRules(p)
    BY <2>7, <1>1, <1>2 DEF EvaluateRules
  <2> QED BY <1>4, <2>1, <2>2, <2>3, <2>4, <2>5, <2>6, <2>7 DEF Request
<1>5. CASE UNCHANGED vars
  BY <1>5, <1>1, <1>2 DEF vars
<1> QED BY <1>3, <1>4, <1>5 DEF Next

(* The types and the soundness of the buckets are invariant.               *)
LEMMA Invariance == Spec => []IInv
<1>1. Init => IInv
  BY InitType, InitSound DEF IInv
<1>2. IInv /\ [Next]_vars => IInv'
  BY NextType, NextSound DEF IInv
<1> QED BY <1>1, <1>2, PTL DEF Spec

---------------------------------------------------------------------------
(* Admissions and refusals *)

(* A bucket whose deque is sound has admitted no more than its limit.      *)
LEMMA SoundIsBounded == ASSUME IInv PROVE AdmissionsAreBounded
<1> SUFFICES ASSUME NEW k \in Keys
             PROVE  /\ Len(log[k]) - popped[k] <= Limit[k[2]]
                    /\ Cardinality(AdmittedWithin(k, Window[k[2]] - Lag)) <= Limit[k[2]]
  BY DEF AdmissionsAreBounded
<1>1. TypeOK /\ Bounded(k) /\ Aged(k)
  BY DEF IInv, Sound
<1> DEFINE held == (popped[k] + 1)..Len(log[k])
           young == AdmittedWithin(k, Window[k[2]] - Lag)
<1>t. /\ Len(log[k]) \in Nat /\ popped[k] \in Nat /\ popped[k] <= Len(log[k])
      /\ Window[k[2]] \in Nat /\ Lag \in Nat /\ clock \in Nat
      /\ \A n \in 1..Len(log[k]) : log[k][n].at \in Nat
  BY <1>1, BucketTypes
<1>2. young \subseteq held
  <2> SUFFICES ASSUME NEW n \in 1..Len(log[k]), clock - log[k][n].at <= Window[k[2]] - Lag
               PROVE  n \in held
    BY DEF AdmittedWithin
  <2>1. log[k][n].at \in Nat
    BY <1>t
  <2>2. CASE n \in 1..popped[k]
    <3>1. clock - log[k][n].at > Window[k[2]] - Lag
      BY <2>2, <1>1 DEF Aged
    <3>2. clock - log[k][n].at \in Int /\ Window[k[2]] - Lag \in Int
      BY <2>1, <1>t
    <3> QED BY <3>1, <3>2
  <2>3. CASE n \notin 1..popped[k]
    BY <2>3, <1>t
  <2> QED BY <2>2, <2>3
<1>3. IsFiniteSet(held) /\ Cardinality(held) = Len(log[k]) - popped[k]
  <2>1. popped[k] + 1 \in Int /\ Len(log[k]) \in Int
    BY <1>t
  <2>2. /\ IsFiniteSet(held)
        /\ Cardinality(held) = IF popped[k] + 1 > Len(log[k]) THEN 0
                               ELSE Len(log[k]) - (popped[k] + 1) + 1
    BY <2>1, FS_Interval
  <2> HIDE DEF held
  <2> QED BY <2>2, <1>t
<1> HIDE DEF held, young
<1>4. /\ IsFiniteSet(young) /\ Cardinality(young) <= Cardinality(held)
      /\ Cardinality(young) \in Nat /\ Cardinality(held) \in Nat
  BY <1>2, <1>3, FS_Subset, FS_CardinalityType
<1> QED BY <1>1, <1>3, <1>4, BucketTypes DEF Bounded, young

(* However the threads overtake each other between the clock and the lock, *)
(* no bucket holds more than its limit, and no client gets more calls      *)
(* through in any time of the window less Lag (InMemoryRateLimiter.allow). *)
THEOREM Admissions == Spec => []AdmissionsAreBounded
<1>1. IInv => AdmissionsAreBounded
  BY SoundIsBounded
<1> QED BY <1>1, Invariance, PTL

\* A step that refuses the call of a thread.
Deserved(p) ==
    call[p].stage = "lock" /\ log' = log /\ call'[p] # call[p] =>
        LET k == KeyOf(call[p]) IN
        Cardinality(AdmittedWithin(k, Window[k[2]] + Lag)) >= Limit[k[2]]

(* What is left in a full deque is young, by the order of the admissions.  *)
LEMMA FullIsYoung ==
    ASSUME IInv, NEW p \in Threads, Refuse(p)
    PROVE  Deserved(p)
<1> USE DEF IInv
<1>1. call[p].stage = "lock" /\ call[p] \in Locks
  BY CallKinds DEF Refuse
<1>0. PICK k \in Keys : k = KeyOf(call[p])
  BY <1>1, KeyType
<1>t. /\ Len(log[k]) \in Nat /\ popped[k] \in Nat
      /\ Limit[k[2]] \in Nat \ {0} /\ Window[k[2]] \in Nat /\ Lag \in Nat /\ clock \in Nat
      /\ \A n \in 1..Len(log[k]) : log[k][n].now \in Nat /\ log[k][n].at \in Nat
  BY BucketTypes
<1> DEFINE young == AdmittedWithin(k, Window[k[2]] + Lag)
<1>2. call[p].now \in Nat /\ call[p].now <= clock /\ clock <= call[p].now + Lag
  BY <1>1 DEF Locks, TypeOK
<1>3. PICK n \in popped[k]..Len(log[k]) : Pops(k, call[p].now, n) /\ Full(k, n)
  BY <1>0 DEF Refuse
<1>4. Len(log[k]) - n >= Limit[k[2]] /\ n \in Nat /\ n < Len(log[k])
  BY <1>3, <1>t DEF Full
<1>5. ~(call[p].now - log[k][n + 1].now > Window[k[2]])
  BY <1>3, <1>4 DEF Pops, Old
<1>6. Stamped(k) /\ Ordered(k)
  BY DEF Sound
<1>7. (n + 1)..Len(log[k]) \subseteq young
  <2> SUFFICES ASSUME NEW m \in (n + 1)..Len(log[k])
               PROVE  m \in 1..Len(log[k]) /\ clock - log[k][m].at <= Window[k[2]] + Lag
    BY DEF AdmittedWithin
  <2>1. m \in 1..Len(log[k]) /\ n + 1 \in 1..Len(log[k]) /\ n + 1 <= m
    BY <1>4, <1>t
  <2>2. log[k][n + 1].at <= log[k][m].at /\ log[k][n + 1].now <= log[k][n + 1].at
    BY <2>1, <1>6 DEF Ordered, Stamped
  <2>3. /\ log[k][n + 1].now \in Nat /\ log[k][n + 1].at \in Nat /\ log[k][m].at \in Nat
        /\ Window[k[2]] \in Nat /\ Lag \in Nat /\ clock \in Nat
    BY <2>1, <1>t
  <2> DEFINE stamp == log[k][n + 1].now
             first == log[k][n + 1].at
             at == log[k][m].at
             read == call[p].now
             window == Window[k[2]]
  <2>4. /\ stamp \in Nat /\ first \in Nat /\ at \in Nat /\ read \in Nat /\ window \in Nat
        /\ clock \in Nat /\ Lag \in Nat
        /\ clock <= read + Lag /\ ~(read - stamp > window) /\ stamp <= first /\ first <= at
    BY <2>2, <2>3, <1>2, <1>5
  <2> HIDE DEF stamp, first, at, read, window
  <2>5. clock - at <= window + Lag
    BY <2>4, YoungIsRecent
  <2> QED BY <2>1, <2>5 DEF at, window
<1>8. /\ IsFiniteSet(1..Len(log[k]))
      /\ Cardinality((n + 1)..Len(log[k])) = Len(log[k]) - n
  <2>1. n + 1 \in Int /\ Len(log[k]) \in Int /\ 1 \in Int
    BY <1>4, <1>t
  <2>2. /\ IsFiniteSet(1..Len(log[k]))
        /\ Cardinality((n + 1)..Len(log[k])) = IF n + 1 > Len(log[k]) THEN 0
                                               ELSE Len(log[k]) - (n + 1) + 1
    BY <2>1, FS_Interval
  <2> DEFINE size == Cardinality((n + 1)..Len(log[k]))
  <2>3. size = IF n + 1 > Len(log[k]) THEN 0 ELSE Len(log[k]) - (n + 1) + 1
    BY <2>2
  <2> HIDE DEF size
  <2>4. size = Len(log[k]) - n
    BY <2>3, <1>4, <1>t
  <2> QED BY <2>2, <2>4 DEF size
<1>9. young \subseteq 1..Len(log[k])
  BY DEF AdmittedWithin
<1> HIDE DEF young
<1>10. /\ IsFiniteSet(young) /\ Cardinality(young) \in Nat
       /\ Cardinality((n + 1)..Len(log[k])) <= Cardinality(young)
  BY <1>7, <1>8, <1>9, FS_Subset, FS_CardinalityType
<1> QED BY <1>0, <1>4, <1>8, <1>10, <1>t DEF Deserved, young

(* A call is refused only if its bucket has admitted Limit calls within    *)
(* the window and Lag before (InMemoryRateLimiter.allow).                  *)
THEOREM Refusals == Spec => RefusalsAreDeserved
<1>1. ASSUME IInv, [Next]_vars
      PROVE  \A p \in Threads : Deserved(p)
  <2> SUFFICES ASSUME NEW p \in Threads, call[p].stage = "lock", log' = log, call'[p] # call[p]
               PROVE  Deserved(p)
    BY DEF Deserved
  <2>1. TypeOK /\ call \in [Threads -> CallState]
    BY <1>1 DEF IInv, TypeOK
  <2>2. CASE Tick
    BY <2>2 DEF Tick
  <2>3. ASSUME NEW q \in Threads, q # p, Request(q)
        PROVE  call'[p] = call[p]
    BY <2>1, <2>3 DEF Request, Arrive, ReadClock, Admit, Refuse, RecordEvent, FailEvent,
                      EvaluateRules, Becomes
  <2>4. CASE Request(p)
    <3>1. call[p] # Idle /\ ~Admit(p)
      <4>1. call[p] \in Locks /\ KeyOf(call[p]) \in Keys
        BY <2>1, CallKinds, KeyType
      <4>2. ASSUME Admit(p) PROVE FALSE
        <5>1. log'[KeyOf(call[p])] = Append(log[KeyOf(call[p])], [now |-> call[p].now, at |-> clock])
          BY <4>1, <4>2, <2>1 DEF Admit, TypeOK
        <5>2. log[KeyOf(call[p])] \in Seq(Entries) /\ [now |-> call[p].now, at |-> clock] \in Entries
          BY <4>1, <2>1, BucketTypes DEF Locks, Entries
        <5>3. Len(log'[KeyOf(call[p])]) = Len(log[KeyOf(call[p])]) + 1
          BY <5>1, <5>2
        <5> QED BY <5>2, <5>3
      <4> QED BY <4>2 DEF Idle
    <3>2. Refuse(p)
      BY <2>4, <3>1 DEF Request, Arrive, ReadClock, RecordEvent, FailEvent, EvaluateRules
    <3> QED BY <3>2, <1>1, FullIsYoung
  <2>5. CASE UNCHANGED vars
    BY <2>5 DEF vars
  <2> QED BY <1>1, <2>2, <2>3, <2>4, <2>5 DEF Next
<1> QED BY <1>1, Invariance, PTL DEF Spec, RefusalsAreDeserved, Deserved

---------------------------------------------------------------------------
(* The alert about wrong keys *)

Wrong == "AUTH_FAILURE"
TheAlert == <<"REPEATED_AUTH_FAILURES", Wrong>>

\* A thread is about to record a wrong key, or to let the rules judge it.
Lodging(q) == call[q].stage = "record" /\ call[q].type = Wrong
Judging(q) == call[q].stage = "judge" /\ call[q].type = Wrong

\* The rule does not see enough wrong keys.
Few == ~(Cardinality(Recent(Wrong)) >= Threshold["REPEATED_AUTH_FAILURES"])

\* Enough wrong keys have raised the alert, or the last of them is being judged.
Judged == faults > 0 \/ (\E q \in Threads : Judging(q)) \/ TheAlert \in alerts \/ Few

\* x is the event of the n-th admission to the bucket, or the thread that has
\* still to record it.
Stands(x, n, k) ==
    \/ \E m \in 1..Len(events[Wrong]) :
           x = <<"event", m>> /\ events[Wrong][m] >= log[k][n].at
    \/ \E q \in Threads : x = <<"thread", q>> /\ Lodging(q)

\* No two admissions of a client with a wrong key share an event.
Traces(f, k) ==
    /\ \A m, n \in 1..Len(log[k]) : f[m] = f[n] => m = n
    /\ \A n \in 1..Len(log[k]) : Stands(f[n], n, k)
Traced(k) == \E f : Traces(f, k)

AuthKeys == {k \in Keys : k[2] = "auth"}
Accounted == faults > 0 \/ \A k \in AuthKeys : Traced(k)

(* Only a wrong key that was admitted is recorded as one.                  *)
LEMMA WhatIsLodged ==
    ASSUME NEW c \in Locks
    PROVE  /\ ~(Refused(c).stage = "record" /\ Refused(c).type = Wrong)
           /\ c.bucket # "auth" =>
                 ~(Admitted(c).stage = "record" /\ Admitted(c).type = Wrong)
           /\ c.bucket = "auth" =>
                 Admitted(c).stage = "record" /\ Admitted(c).type = Wrong
           /\ Admitted(c).stage # "judge" /\ Refused(c).stage # "judge"
BY DEF Refused, Admitted, Recording, Charging, Idle, Wrong, PathBuckets, Locks

(* Steps that touch neither the bucket nor the events keep every trace, if *)
(* nobody who is about to record gives up.                                 *)
LEMMA TraceKept ==
    ASSUME NEW k, NEW f, Traces(f, k), log'[k] = log[k], events'[Wrong] = events[Wrong],
           \A q \in Threads : Lodging(q) => Lodging(q)'
    PROVE  Traces(f, k)'
BY DEF Traces, Stands

(* An admission is traced to the thread that made it.                      *)
LEMMA TraceOfAdmitted ==
    ASSUME TypeOK, Sound, NEW p \in Threads, Admit(p),
           \A k \in AuthKeys : Traced(k)
    PROVE  \A k \in AuthKeys : Traced(k)'
<1>1. call[p].stage = "lock" /\ call[p] \in Locks
  BY CallKinds DEF Admit
<1>2. PICK a \in Keys : a = KeyOf(call[p]) /\ a[2] = call[p].bucket
  BY <1>1, KeyType
<1>3. PICK entry \in Entries : entry = [now |-> call[p].now, at |-> clock]
  <2>1. call[p].now \in Nat /\ clock \in Nat
    BY <1>1, BoundAssumption DEF Locks, TypeOK
  <2> QED BY <2>1 DEF Entries
<1>4. log' = [log EXCEPT ![a] = Append(@, entry)] /\ events' = events
  BY <1>2, <1>3 DEF Admit
<1>5. call'[p] = Admitted(call[p]) /\ \A q \in Threads \ {p} : call'[q] = call[q]
  BY DEF Admit, Becomes, TypeOK
<1>6. \A q \in Threads : Lodging(q) => q # p /\ Lodging(q)'
  BY <1>1, <1>5 DEF Lodging
<1> SUFFICES ASSUME NEW k \in AuthKeys
             PROVE  Traced(k)'
  OBVIOUS
<1>7. k \in Keys /\ k[2] = "auth"
  BY DEF AuthKeys
<1>8. PICK f : Traces(f, k)
  BY DEF Traced
<1>9. CASE k # a
  <2>1. log'[k] = log[k]
    BY <1>4, <1>7, <1>9 DEF TypeOK
  <2> QED BY <2>1, <1>4, <1>6, <1>8, TraceKept DEF Traced
<1>10. CASE k = a
  <2>1. /\ log[k] \in Seq(Entries) /\ Len(log[k]) \in Nat
        /\ log'[k] = Append(log[k], entry)
    BY <1>2, <1>4, <1>10, BucketTypes DEF TypeOK
  <2>2. PICK last \in Nat : last = Len(log[k])
    BY <2>1
  <2>3. /\ Len(log'[k]) = last + 1
        /\ \A n \in 1..last : log'[k][n] = log[k][n]
    BY <2>1, <2>2
  <2>4. Lodging(p)'
    BY <1>1, <1>2, <1>5, <1>7, <1>10, WhatIsLodged DEF Lodging
  <2> DEFINE g == [n \in 1..(last + 1) |-> IF n = last + 1 THEN <<"thread", p>> ELSE f[n]]
  <2>5. \A n \in 1..last : g[n] = f[n] /\ f[n] # <<"thread", p>> /\ Stands(g[n], n, k)'
    <3> SUFFICES ASSUME NEW n \in 1..last
                 PROVE  g[n] = f[n] /\ f[n] # <<"thread", p>> /\ Stands(g[n], n, k)'
      OBVIOUS
    <3>1. g[n] = f[n]
      OBVIOUS
    <3>2. Stands(f[n], n, k)
      BY <1>8, <2>2 DEF Traces
    <3>3. f[n] # <<"thread", p>>
      BY <3>2, <1>6 DEF Stands
    <3> HIDE DEF g
    <3>4. Stands(g[n], n, k)'
      BY <3>1, <3>2, <2>3, <1>4, <1>6 DEF Stands
    <3> QED BY <3>1, <3>3, <3>4
  <2>6. g[last + 1] = <<"thread", p>>
    OBVIOUS
  <2> HIDE DEF g
  <2>7. \A n \in 1..(last + 1) : n \in 1..last \/ n = last + 1
    OBVIOUS
  <2>8. \A m, n \in 1..last : f[m] = f[n] => m = n
    BY <1>8, <2>2 DEF Traces
  <2>9. \A m, n \in 1..(last + 1) : g[m] = g[n] => m = n
    BY <2>5, <2>6, <2>7, <2>8
  <2>10. \A n \in 1..(last + 1) : Stands(g[n], n, k)'
    BY <2>4, <2>5, <2>6, <2>7 DEF Stands
  <2>11. Traces(g, k)'
    BY <2>3, <2>9, <2>10 DEF Traces
  <2> QED BY <2>11 DEF Traced
<1> QED BY <1>9, <1>10

(* The event takes over from the thread that has recorded it; it is not    *)
(* older than the admission.                                               *)
LEMMA TraceOfRecorded ==
    ASSUME TypeOK, Sound, NEW p \in Threads, RecordEvent(p),
           \A k \in AuthKeys : Traced(k)
    PROVE  \A k \in AuthKeys : Traced(k)'
<1>1. call[p].stage = "record" /\ call[p] \in Records
  BY CallKinds DEF RecordEvent
<1>2. log' = log /\ events' = [events EXCEPT ![call[p].type] = Append(@, clock)]
  BY DEF RecordEvent
<1>3. /\ call'[p] = [call[p] EXCEPT !.stage = "judge"]
      /\ \A q \in Threads \ {p} : call'[q] = call[q]
  BY DEF RecordEvent, Becomes, TypeOK
<1> SUFFICES ASSUME NEW k \in AuthKeys
             PROVE  Traced(k)'
  OBVIOUS
<1>4. k \in Keys
  BY DEF AuthKeys
<1>5. PICK f : Traces(f, k)
  BY DEF Traced
<1>6. CASE call[p].type # Wrong
  <2>1. events'[Wrong] = events[Wrong]
    BY <1>1, <1>2, <1>6 DEF Records, Wrong, EventTypes, TypeOK
  <2>2. \A q \in Threads : Lodging(q) => Lodging(q)'
    BY <1>3, <1>6 DEF Lodging
  <2> QED BY <2>1, <2>2, <1>2, <1>5, TraceKept DEF Traced
<1>7. CASE call[p].type = Wrong
  <2>1. /\ events[Wrong] \in Seq(Nat) /\ clock \in Nat
        /\ events'[Wrong] = Append(events[Wrong], clock)
    BY <1>2, <1>7, BoundAssumption DEF TypeOK, Wrong, EventTypes
  <2>2. PICK last \in Nat : last = Len(events[Wrong])
    BY <2>1
  <2>3. /\ Len(events'[Wrong]) = last + 1 /\ events'[Wrong][last + 1] = clock
        /\ \A m \in 1..last : events'[Wrong][m] = events[Wrong][m]
    BY <2>1, <2>2
  <2>4. PICK held \in Nat : held = Len(log[k])
    BY <1>4, BucketTypes
  <2>5. \A n \in 1..held : clock >= log[k][n].at
    BY <1>4, <2>1, <2>4, BucketTypes DEF Sound, Stamped
  <2>6. /\ \A m, n \in 1..held : f[m] = f[n] => m = n
        /\ \A n \in 1..held : Stands(f[n], n, k)
    BY <1>5, <2>4 DEF Traces
  <2> DEFINE g == [n \in 1..held |-> IF f[n] = <<"thread", p>> THEN <<"event", last + 1>> ELSE f[n]]
  <2>7. /\ \A n \in 1..held : f[n] = <<"thread", p>> => g[n] = <<"event", last + 1>>
        /\ \A n \in 1..held : f[n] # <<"thread", p>> => g[n] = f[n]
    OBVIOUS
  <2> HIDE DEF g
  <2>8. \A n \in 1..held : f[n] # <<"event", last + 1>>
    <3>1. ASSUME NEW n \in 1..held, f[n] = <<"event", last + 1>>
          PROVE  FALSE
      <4>1. Stands(f[n], n, k)
        BY <2>6
      <4>2. PICK m \in 1..last : f[n] = <<"event", m>>
        BY <4>1, <3>1, <2>2 DEF Stands
      <4>3. m = last + 1
        BY <4>2, <3>1
      <4> QED BY <4>3
    <3> QED BY <3>1
  <2>9. \A m, n \in 1..held : g[m] = g[n] => m = n
    BY <2>6, <2>7, <2>8
  <2>10. ASSUME NEW n \in 1..held
         PROVE  Stands(g[n], n, k)'
    <3>1. CASE f[n] = <<"thread", p>>
      <4>1. last + 1 \in 1..Len(events'[Wrong]) /\ events'[Wrong][last + 1] >= log'[k][n].at
        BY <2>3, <2>5, <1>2
      <4> QED BY <4>1, <3>1, <2>7 DEF Stands
    <3>2. CASE f[n] # <<"thread", p>>
      <4>1. g[n] = f[n] /\ Stands(f[n], n, k)
        BY <3>2, <2>6, <2>7
      <4>2. ASSUME NEW m \in 1..last, f[n] = <<"event", m>>, events[Wrong][m] >= log[k][n].at
            PROVE  Stands(g[n], n, k)'
        <5>1. m \in 1..Len(events'[Wrong]) /\ events'[Wrong][m] >= log'[k][n].at
          BY <4>2, <2>3, <1>2
        <5> QED BY <5>1, <4>1, <4>2 DEF Stands
      <4>3. ASSUME NEW q \in Threads, f[n] = <<"thread", q>>, Lodging(q)
            PROVE  Stands(g[n], n, k)'
        <5>1. q # p /\ call'[q] = call[q]
          BY <4>3, <3>2, <1>3
        <5>2. Lodging(q)'
          BY <5>1, <4>3 DEF Lodging
        <5> QED BY <5>2, <4>1, <4>3 DEF Stands
      <4> QED BY <4>1, <4>2, <4>3, <2>2 DEF Stands
    <3> QED BY <3>1, <3>2
  <2>11. Traces(g, k)'
    BY <2>4, <2>9, <2>10, <1>2 DEF Traces
  <2> QED BY <2>11 DEF Traced
<1> QED BY <1>6, <1>7

(* Nothing has been admitted at first.                                     *)
LEMMA InitAccounted == ASSUME Init PROVE Accounted
<1> SUFFICES ASSUME NEW k \in Keys
             PROVE  Traced(k)
  BY DEF Accounted, AuthKeys
<1>1. Len(log[k]) = 0
  BY DEF Init
<1>2. Traces(<<>>, k)
  BY <1>1 DEF Traces
<1> QED BY <1>2 DEF Traced

(* Every step keeps the traces, or is a fault.                             *)
LEMMA NextAccounted == ASSUME IInv, Accounted, [Next]_vars PROVE Accounted'
<1>0. TypeOK /\ Sound /\ call \in [Threads -> CallState] /\ faults \in Nat
  BY BoundAssumption DEF IInv, TypeOK
<1>1. faults > 0 => faults' > 0
  <2>1. faults' = faults \/ faults' = faults + 1
    BY DEF Next, vars, Tick, Request, Arrive, ReadClock, Admit, Refuse, RecordEvent, FailEvent,
           EvaluateRules
  <2> QED BY <2>1, <1>0
<1> SUFFICES ASSUME \A k \in AuthKeys : Traced(k), ~(faults' > 0)
             PROVE  \A k \in AuthKeys : Traced(k)'
  <2>1. AuthKeys' = AuthKeys
    BY DEF AuthKeys
  <2> QED BY <2>1, <1>1 DEF Accounted
<1>2. ASSUME log' = log, events' = events, \A q \in Threads : Lodging(q) => Lodging(q)'
      PROVE  \A k \in AuthKeys : Traced(k)'
  BY <1>2, TraceKept DEF Traced
<1>3. CASE Tick \/ UNCHANGED vars
  BY <1>2, <1>3 DEF Tick, vars, Lodging
<1>4. ASSUME NEW p \in Threads, log' = log, events' = events, ~Lodging(p),
             \A q \in Threads \ {p} : call'[q] = call[q]
      PROVE  \A k \in AuthKeys : Traced(k)'
  BY <1>2, <1>4 DEF Lodging
<1>5. ASSUME NEW p \in Threads, Request(p)
      PROVE  \A k \in AuthKeys : Traced(k)'
  <2>1. CASE \E client \in Clients, route \in Routes, right \in BOOLEAN :
                Arrive(p, client, route, right)
    BY <2>1, <1>0, <1>4 DEF Arrive, Becomes, Idle, Lodging
  <2>2. CASE ReadClock(p)
    BY <2>2, <1>0, <1>4 DEF ReadClock, Becomes, Lodging
  <2>3. CASE Admit(p)
    BY <2>3, <1>0, TraceOfAdmitted
  <2>4. CASE Refuse(p)
    BY <2>4, <1>0, <1>4 DEF Refuse, Becomes, Lodging
  <2>5. CASE RecordEvent(p)
    BY <2>5, <1>0, TraceOfRecorded
  <2>6. CASE FailEvent(p)
    BY <2>6, <1>0 DEF FailEvent
  <2>7. CASE EvaluateRules(p)
    BY <2>7, <1>0, <1>4 DEF EvaluateRules, Becomes, Lodging
  <2> QED BY <1>5, <2>1, <2>2, <2>3, <2>4, <2>5, <2>6, <2>7 DEF Request
<1> QED BY <1>3, <1>5 DEF Next

(* Time only takes events out of the rule's sight.                         *)
LEMMA FewerWithTime == ASSUME TypeOK, Few, Tick PROVE Few'
<1>0. /\ events[Wrong] \in Seq(Nat) /\ events' = events
      /\ clock \in Nat /\ clock' = clock + 1 /\ RuleWindow \in Nat
      /\ Threshold["REPEATED_AUTH_FAILURES"] \in Nat
  BY BoundAssumption, RuleAssumption DEF Tick, TypeOK, Wrong, EventTypes, Rules
<1>1. PICK old : old = Recent(Wrong)
  OBVIOUS
<1>2. PICK new : new = Recent(Wrong)'
  OBVIOUS
<1>3. new \subseteq old
  <2> SUFFICES ASSUME NEW n \in new
               PROVE  n \in old
    OBVIOUS
  <2>1. n \in 1..Len(events[Wrong]) /\ events[Wrong][n] >= clock' - RuleWindow
    BY <1>0, <1>2 DEF Recent
  <2>2. events[Wrong][n] \in Nat
    BY <1>0, <2>1
  <2>3. events[Wrong][n] >= clock - RuleWindow
    BY <1>0, <2>1, <2>2
  <2> QED BY <1>1, <2>1, <2>3 DEF Recent
<1>4. IsFiniteSet(old)
  <2>1. 1 \in Int /\ Len(events[Wrong]) \in Int
    BY <1>0
  <2>2. IsFiniteSet(1..Len(events[Wrong]))
    BY <2>1, FS_Interval
  <2>3. old \subseteq 1..Len(events[Wrong])
    BY <1>1 DEF Recent
  <2> QED BY <2>2, <2>3, FS_Subset
<1>5. /\ Cardinality(new) <= Cardinality(old)
      /\ Cardinality(new) \in Nat /\ Cardinality(old) \in Nat
  BY <1>3, <1>4, FS_Subset, FS_CardinalityType
<1>6. ~(Cardinality(old) >= Threshold["REPEATED_AUTH_FAILURES"])
  BY <1>1 DEF Few
<1>7. ~(Cardinality(new) >= Threshold["REPEATED_AUTH_FAILURES"])
  BY <1>0, <1>5, <1>6
<1> QED BY <1>2, <1>7 DEF Few

(* A rule that judges a wrong key raises the alert, or does not see enough.*)
LEMMA JudgedByRule ==
    ASSUME NEW p \in Threads, EvaluateRules(p), Judging(p)
    PROVE  TheAlert \in alerts' \/ Few
BY DEF EvaluateRules, Judging, Fires, Counts, Few, TheAlert, Wrong, Rules

(* The rule has judged the wrong keys, or is about to.                     *)
LEMMA NextJudged == ASSUME IInv, Judged, [Next]_vars PROVE Judged'
<1>0. TypeOK /\ call \in [Threads -> CallState] /\ faults \in Nat
  BY BoundAssumption DEF IInv, TypeOK
<1>1. faults > 0 => faults' > 0
  <2>1. faults' = faults \/ faults' = faults + 1
    BY DEF Next, vars, Tick, Request, Arrive, ReadClock, Admit, Refuse, RecordEvent, FailEvent,
           EvaluateRules
  <2> QED BY <2>1, <1>0
<1>2. TheAlert \in alerts => TheAlert \in alerts'
  BY DEF Next, vars, Tick, Request, Arrive, ReadClock, Admit, Refuse, RecordEvent, FailEvent,
         EvaluateRules
<1>3. CASE Tick
  <2>1. Few => Few'
    BY <1>0, <1>3, FewerWithTime
  <2> QED BY <2>1, <1>1, <1>2, <1>3 DEF Judged, Judging, Tick
<1>4. CASE UNCHANGED vars
  BY <1>4 DEF vars, Judged, Judging, Few, Recent
<1>5. ASSUME events'[Wrong] = events[Wrong], clock' = clock
      PROVE  Few => Few'
  BY <1>5 DEF Few, Recent
<1>6. ASSUME NEW p \in Threads, events'[Wrong] = events[Wrong], clock' = clock, ~Judging(p),
             \A q \in Threads \ {p} : call'[q] = call[q]
      PROVE  Judged'
  <2>1. \A q \in Threads : Judging(q) => Judging(q)'
    BY <1>6 DEF Judging
  <2> QED BY <2>1, <1>1, <1>2, <1>5, <1>6 DEF Judged
<1>7. ASSUME NEW p \in Threads, Request(p)
      PROVE  Judged'
  <2>1. CASE \E client \in Clients, route \in Routes, right \in BOOLEAN :
                Arrive(p, client, route, right)
    BY <2>1, <1>0, <1>6 DEF Arrive, Becomes, Idle, Judging
  <2>2. CASE ReadClock(p)
    BY <2>2, <1>0, <1>6 DEF ReadClock, Becomes, Judging
  <2>3. CASE Admit(p)
    BY <2>3, <1>0, <1>6 DEF Admit, Becomes, Judging
  <2>4. CASE Refuse(p)
    BY <2>4, <1>0, <1>6 DEF Refuse, Becomes, Judging
  <2>5. CASE RecordEvent(p)
    <3>1. call[p].stage = "record" /\ call[p] \in Records
      BY <2>5, <1>0, CallKinds DEF RecordEvent
    <3>2. call' = [call EXCEPT ![p] = [call[p] EXCEPT !.stage = "judge"]] /\ clock' = clock
          /\ events' = [events EXCEPT ![call[p].type] = Append(@, clock)]
      BY <2>5 DEF RecordEvent, Becomes
    <3>3. CASE call[p].type = Wrong
      <4>1. Judging(p)'
        BY <3>1, <3>2, <3>3, <1>0 DEF Judging, Records
      <4> QED BY <4>1 DEF Judged
    <3>4. CASE call[p].type # Wrong
      <4>1. events'[Wrong] = events[Wrong]
        BY <3>1, <3>2, <3>4, <1>0 DEF Records, Wrong, EventTypes, TypeOK
      <4> QED BY <4>1, <3>1, <3>2, <1>0, <1>6 DEF Judging
    <3> QED BY <3>3, <3>4
  <2>6. CASE FailEvent(p)
    BY <2>6, <1>0 DEF FailEvent, Judged
  <2>7. CASE EvaluateRules(p)
    <3>1. CASE Judging(p)
      <4>1. TheAlert \in alerts' \/ Few
        BY <2>7, <3>1, JudgedByRule
      <4>2. Few => Few'
        BY <2>7, <1>5 DEF EvaluateRules
      <4> QED BY <4>1, <4>2 DEF Judged
    <3>2. CASE ~Judging(p)
      BY <2>7, <3>2, <1>0, <1>6 DEF EvaluateRules, Becomes
    <3> QED BY <3>1, <3>2
  <2> QED BY <1>7, <2>1, <2>2, <2>3, <2>4, <2>5, <2>6, <2>7 DEF Request
<1> QED BY <1>3, <1>4, <1>7 DEF Next

(* At first there is nothing to judge.                                     *)
LEMMA InitJudged == ASSUME Init PROVE Judged
<1>1. Recent(Wrong) = {}
  BY DEF Init, Recent, Wrong, EventTypes
<1>2. Cardinality(Recent(Wrong)) = 0
  BY <1>1, FS_EmptySet
<1>3. Threshold["REPEATED_AUTH_FAILURES"] \in Nat \ {0}
  BY RuleAssumption DEF Rules
<1> QED BY <1>2, <1>3 DEF Judged, Few

(* An event that is not older than a recent admission is in sight.         *)
LEMMA RecentIsSeen ==
    ASSUME NEW now \in Nat, NEW at \in Nat, NEW when \in Nat,
           NEW window \in Nat, NEW lag \in Nat, NEW sight \in Nat,
           now - at <= window + lag, when >= at, window + lag <= sight
    PROVE  when >= now - sight
OBVIOUS

(* When no wrong key waits to be recorded, the rule sees as many of them   *)
(* as a bucket has admitted within the window and the wait for the lock.   *)
LEMMA SeesTheAdmitted ==
    ASSUME IInv, NEW k \in AuthKeys, Traced(k), \A q \in Threads : ~Lodging(q)
    PROVE  /\ Cardinality(AdmittedWithin(k, Window[k[2]] + Lag)) <= Cardinality(Recent(Wrong))
           /\ Cardinality(AdmittedWithin(k, Window[k[2]] + Lag)) \in Nat
           /\ Cardinality(Recent(Wrong)) \in Nat
<1>0. TypeOK /\ k \in Keys /\ k[2] = "auth"
  BY DEF IInv, AuthKeys
<1>1. /\ events[Wrong] \in Seq(Nat) /\ clock \in Nat /\ RuleWindow \in Nat
      /\ Window["auth"] \in Nat /\ Lag \in Nat /\ Window["auth"] + Lag <= RuleWindow
  BY <1>0, BucketTypes, RuleAssumption DEF TypeOK, Wrong, EventTypes
<1>2. PICK f : Traces(f, k)
  BY DEF Traced
<1>3. PICK young : young = AdmittedWithin(k, Window[k[2]] + Lag)
  OBVIOUS
<1>4. PICK seen : seen = Recent(Wrong)
  OBVIOUS
<1>5. ASSUME NEW n \in young
      PROVE  n \in 1..Len(log[k]) /\ \E m \in seen : f[n] = <<"event", m>>
  <2>1. n \in 1..Len(log[k]) /\ clock - log[k][n].at <= Window["auth"] + Lag
    BY <1>0, <1>3 DEF AdmittedWithin
  <2>a. Stands(f[n], n, k)
    BY <1>2, <2>1 DEF Traces
  <2>2. PICK m \in 1..Len(events[Wrong]) :
           f[n] = <<"event", m>> /\ events[Wrong][m] >= log[k][n].at
    BY <2>a DEF Stands
  <2>b. events[Wrong][m] \in Nat
    BY <1>1, <2>2
  <2>c. log[k][n].at \in Nat
    BY <1>0, <2>1, BucketTypes
  <2>3. log[k][n].at \in Nat /\ events[Wrong][m] \in Nat
    BY <2>b, <2>c
  <2>4. PICK at \in Nat, when \in Nat : at = log[k][n].at /\ when = events[Wrong][m]
    BY <2>3
  <2>5. when >= clock - RuleWindow
    <3>1. clock - at <= Window["auth"] + Lag /\ when >= at
      BY <2>1, <2>2, <2>4
    <3> QED BY <3>1, <1>1, RecentIsSeen
  <2> QED BY <2>1, <2>2, <2>4, <2>5, <1>4 DEF Recent
<1> DEFINE g == [n \in young |-> CHOOSE m \in seen : f[n] = <<"event", m>>]
<1>6. \A n \in young : g[n] \in seen /\ f[n] = <<"event", g[n]>>
  BY <1>5
<1>7. g \in [young -> seen] /\ DOMAIN g = young
  BY <1>6
<1> HIDE DEF g
<1>8. \A m, n \in young : g[m] = g[n] => m = n
  BY <1>2, <1>5, <1>6 DEF Traces
<1>9. g \in Injection(young, seen)
  BY <1>7, <1>8 DEF Injection, IsInjective
<1>10. IsFiniteSet(seen)
  <2>1. 1 \in Int /\ Len(events[Wrong]) \in Int
    BY <1>1
  <2>2. IsFiniteSet(1..Len(events[Wrong]))
    BY <2>1, FS_Interval
  <2>3. seen \subseteq 1..Len(events[Wrong])
    BY <1>4 DEF Recent
  <2> QED BY <2>2, <2>3, FS_Subset
<1>11. IsFiniteSet(young) /\ Cardinality(young) <= Cardinality(seen)
  BY <1>9, <1>10, FS_Injection
<1>12. Cardinality(young) \in Nat /\ Cardinality(seen) \in Nat
  BY <1>10, <1>11, FS_CardinalityType
<1> QED BY <1>3, <1>4, <1>11, <1>12

(* A thread's own step that leaves its refusal behind is the refusal.      *)
LEMMA OnlyRefuseRefuses ==
    ASSUME TypeOK, NEW p \in Threads, [Next]_vars,
           call[p].stage = "lock", call[p].bucket = "auth", call'[p] = Refused(call[p])
    PROVE  Refuse(p) /\ log' = log /\ call'[p] # call[p]
<1>1. call[p] \in Locks /\ call \in [Threads -> CallState]
  BY CallKinds DEF TypeOK
<1>2. call'[p].stage = "record" /\ call'[p].type = "RATE_LIMITED"
  BY DEF Refused, Recording
<1>3. call'[p] # call[p]
  BY <1>2
<1>4. ~Tick /\ ~UNCHANGED vars
  BY <1>3 DEF Tick, vars
<1>5. ASSUME NEW q \in Threads, q # p, Request(q)
      PROVE  call'[p] = call[p]
  BY <1>1, <1>5 DEF Request, Arrive, ReadClock, Admit, Refuse, RecordEvent, FailEvent,
                    EvaluateRules, Becomes
<1>6. Request(p)
  BY <1>3, <1>4, <1>5 DEF Next
<1>7. ~Admit(p)
  <2>1. ASSUME Admit(p) PROVE FALSE
    <3>1. call'[p] = Admitted(call[p])
      BY <2>1, <1>1 DEF Admit, Becomes
    <3>2. call'[p].type = Wrong
      BY <3>1, <1>1, WhatIsLodged
    <3> QED BY <3>2, <1>2 DEF Wrong
  <2> QED BY <2>1
<1>8. Refuse(p)
  BY <1>6, <1>7 DEF Request, Arrive, ReadClock, RecordEvent, FailEvent, EvaluateRules, Idle
<1> QED BY <1>3, <1>8 DEF Refuse

\* What the alert's property says of one thread.
Raised(p) ==
    call[p].stage = "lock" /\ call[p].bucket = "auth" /\ call'[p] = Refused(call[p]) =>
        \/ <<"REPEATED_AUTH_FAILURES", "AUTH_FAILURE">> \in alerts
        \/ \E q \in Threads : call[q].stage \in {"record", "judge"}
                               /\ call[q].type = "AUTH_FAILURE"
        \/ faults > 0

(* A bucket for wrong keys that is full has shown the rule enough of them. *)
LEMMA RefusalRaises ==
    ASSUME IInv, Accounted, Judged, [Next]_vars, NEW p \in Threads
    PROVE  Raised(p)
<1> SUFFICES ASSUME call[p].stage = "lock", call[p].bucket = "auth",
                    call'[p] = Refused(call[p]), ~(faults > 0),
                    \A q \in Threads : ~Lodging(q) /\ ~Judging(q)
             PROVE  TheAlert \in alerts
  BY DEF Raised, TheAlert, Wrong, Lodging, Judging
<1>1. TypeOK /\ call[p] \in Locks
  BY CallKinds DEF IInv
<1>2. Refuse(p) /\ log' = log /\ call'[p] # call[p]
  BY <1>1, OnlyRefuseRefuses
<1>3. PICK k \in Keys : k = KeyOf(call[p]) /\ k[2] = "auth"
  BY <1>1, KeyType
<1>4. Cardinality(AdmittedWithin(k, Window[k[2]] + Lag)) >= Limit["auth"]
  BY <1>2, <1>3, FullIsYoung DEF Deserved
<1>5. k \in AuthKeys /\ Traced(k)
  BY <1>3 DEF AuthKeys, Accounted
<1>6. /\ Cardinality(AdmittedWithin(k, Window[k[2]] + Lag)) <= Cardinality(Recent(Wrong))
      /\ Cardinality(AdmittedWithin(k, Window[k[2]] + Lag)) \in Nat
      /\ Cardinality(Recent(Wrong)) \in Nat
  BY <1>5, SeesTheAdmitted
<1>7. /\ Threshold["REPEATED_AUTH_FAILURES"] \in Nat /\ Limit["auth"] \in Nat
      /\ Threshold["REPEATED_AUTH_FAILURES"] <= Limit["auth"]
  BY RuleAssumption, LimitAssumption DEF Rules, Buckets
<1>8. PICK admitted \in Nat, seen \in Nat :
         /\ admitted = Cardinality(AdmittedWithin(k, Window[k[2]] + Lag))
         /\ seen = Cardinality(Recent(Wrong))
  BY <1>6
<1>9. seen >= Threshold["REPEATED_AUTH_FAILURES"]
  BY <1>4, <1>6, <1>7, <1>8
<1> QED BY <1>8, <1>9 DEF Judged, Few

(* When a client has sent so many wrong keys that the gate stops answering *)
(* 401, the alert about them has been raised, or one of them is still on   *)
(* its way to its rule (require_api_key, REPEATED_AUTH_FAILURES).          *)
THEOREM Bursts == Spec => BurstRaisesAlert
<1>1. Init => Accounted /\ Judged
  BY InitAccounted, InitJudged
<1>2. IInv /\ Accounted /\ Judged /\ [Next]_vars => Accounted' /\ Judged'
  BY NextAccounted, NextJudged
<1>3. ASSUME IInv, Accounted, Judged, [Next]_vars
      PROVE  \A p \in Threads : Raised(p)
  BY <1>3, RefusalRaises
<1> QED BY <1>1, <1>2, <1>3, Invariance, PTL DEF Spec, BurstRaisesAlert, Raised
=============================================================================
