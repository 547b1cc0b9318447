------------------------ MODULE ManagedDevicesProofs ------------------------
(***************************************************************************)
(* Theorems about ManagedDevices, for every set of devices, codes, tokens, *)
(* heartbeat ids and threads and for every duration.                       *)
(***************************************************************************)
EXTENDS ManagedDevices, TLAPS

---------------------------------------------------------------------------
(* What a call in flight is made of, by its operation. *)
LEMMA CallShape ==
    ASSUME NEW c \in CallState
    PROVE  /\ c.op \in {"expire", "register"} => c.code \in Codes /\ c.dev \in Devices
           /\ c.op \in {"heartbeat", "telemetry", "touch", "revoke", "rotate"}
                 => c.dev \in Devices
           /\ c.op \in {"register", "heartbeat", "touch", "revoke", "rotate"}
                 => c.now \in Int
           /\ c.op = "heartbeat" =>
                 c.beat \in Beats /\ c.status \in {"OFFLINE", "ACTIVE"}
           /\ c.op = "markOffline" => c.devs \subseteq Devices
           /\ c.op = "revoke" => c.credential \in Tokens \cup {NULL}
           /\ c.op = "announce" => /\ c.type \in EventTypes
                                   /\ c.devs \subseteq Devices \cup {NULL}
  BY DEF CallState, Idle

(* The calls that the actions put in flight are calls. *)
LEMMA NewCalls ==
    /\ Idle \in CallState
    /\ \A type \in EventTypes, devs \in SUBSET (Devices \cup {NULL}) :
          Announce(type, devs) \in CallState
    /\ \A c \in Codes, d \in Devices :
          [op |-> "expire", code |-> c, dev |-> d] \in CallState
    /\ \A c \in Codes, d \in Devices, n \in Int :
          [op |-> "register", code |-> c, dev |-> d, now |-> n] \in CallState
    /\ \A d \in Devices, b \in Beats, n \in Int, s \in {"OFFLINE", "ACTIVE"} :
          [op |-> "heartbeat", dev |-> d, beat |-> b, now |-> n, status |-> s]
             \in CallState
    /\ \A d \in Devices : [op |-> "telemetry", dev |-> d] \in CallState
    /\ \A d \in Devices, n \in Int :
          [op |-> "touch", dev |-> d, now |-> n] \in CallState
    /\ \A devs \in SUBSET Devices :
          [op |-> "markOffline", devs |-> devs] \in CallState
    /\ \A d \in Devices, n \in Int, t \in Tokens \cup {NULL} :
          [op |-> "revoke", dev |-> d, now |-> n, credential |-> t] \in CallState
    /\ \A d \in Devices, n \in Int :
          [op |-> "rotate", dev |-> d, now |-> n] \in CallState
  BY DEF CallState, Announce

(* The column updates that the commits make yield rows. *)
LEMMA RowUpdates ==
    ASSUME NEW row \in DeviceRow, NEW n \in Int, NEW t \in Tokens \cup {NULL}
    PROVE  /\ [row EXCEPT !.last_seen = n, !.status = "ACTIVE"] \in DeviceRow
           /\ [row EXCEPT !.last_seen = n, !.status = row.status] \in DeviceRow
           /\ [row EXCEPT !.credential_hash = t,
                          !.credential_expires_at = n] \in DeviceRow
           /\ [row EXCEPT !.status = "REVOKED", !.pairing_status = "REVOKED",
                          !.revoked_at = n, !.credential_hash = t] \in DeviceRow
           /\ row.credential_hash \in Tokens \cup {NULL}
  BY DEF DeviceRow, Time

---------------------------------------------------------------------------
(* Type correctness *)

LEMMA SessionUpdates ==
    ASSUME NEW row \in SessionRow, NEW n \in Int
    PROVE  /\ [row EXCEPT !.status = "EXPIRED"] \in SessionRow
           /\ [row EXCEPT !.status = "USED", !.used_at = n] \in SessionRow
  BY DEF SessionRow, Time

LEMMA TypeInit == Init => TypeOK
  BY NullAssumption, NewCalls
  DEF Init, TypeOK, NoDevice, NoSession, DeviceRow, SessionRow, Time

LEMMA PairingType ==
    ASSUME TypeOK, NEW p \in Threads, PairingStep(p)
    PROVE  TypeOK'
  <1> USE NewCalls, DurationAssumption DEF TypeOK, Time, contacts
  <1>1. ASSUME NEW c \in Codes, NEW d \in Devices \cup {NULL},
               RequestPairing(p, c, d)
        PROVE  TypeOK'
    BY <1>1 DEF RequestPairing, Begins, SessionRow, EventTypes
  <1>2. ASSUME NEW c \in Codes, NEW d \in Devices, CompletePairing(p, c, d)
        PROVE  TypeOK'
    BY <1>2 DEF CompletePairing, Begins, EventTypes, tables
  <1>3. CASE CommitExpired(p)
    <2>1. call[p].code \in Codes /\ call[p].dev \in Devices
      BY <1>3, CallShape DEF CommitExpired
    <2>2. [session[call[p].code] EXCEPT !.status = "EXPIRED"] \in SessionRow
      BY <2>1, SessionUpdates
    <2>3. Announce("DEVICE_PAIRING_FAILED", {call[p].dev}) \in CallState
      BY <2>1 DEF EventTypes
    <2> QED
      BY <1>3, <2>1, <2>2, <2>3 DEF CommitExpired, Becomes
  <1>4. ASSUME NEW t \in Tokens, CommitRegister(p, t)
        PROVE  TypeOK'
    <2> DEFINE c == call[p].code
               d == call[p].dev
               now == call[p].now
    <2>1. c \in Codes /\ d \in Devices /\ now \in Int
      BY <1>4, CallShape DEF CommitRegister
    <2>2. PairedRow(t, now) \in DeviceRow
      BY <2>1 DEF PairedRow, DeviceRow
    <2>3. [session[c] EXCEPT !.status = "USED", !.used_at = now] \in SessionRow
      BY <2>1, SessionUpdates
    <2>4. Announce("DEVICE_PAIRED", {d}) \in CallState
      BY <2>1 DEF EventTypes
    <2> QED
      BY <1>4, <2>1, <2>2, <2>3, <2>4 DEF CommitRegister, Becomes
  <1>5. CASE RegisterConflict(p)
    BY <1>5 DEF RegisterConflict, Becomes, tables
  <1> QED
    BY <1>1, <1>2, <1>3, <1>4, <1>5 DEF PairingStep

(* The history of contacts keeps its type.                                  *)
LEMMA ContactType ==
    ASSUME TypeOK, NEW d \in Devices, NEW n \in Int, Contact(d, n)
    PROVE  heard' \in [Devices -> Time] /\ delay' \in [Devices -> Int]
  BY DEF TypeOK, Contact, Time

LEMMA AgentType ==
    ASSUME TypeOK, NEW p \in Threads, AgentStep(p)
    PROVE  TypeOK'
  <1> USE NewCalls DEF TypeOK, Time, contacts
  <1>1. ASSUME NEW d \in Devices, NEW t \in issued, RefuseDevice(p, d, t)
        PROVE  TypeOK'
    BY <1>1 DEF RefuseDevice, Begins, EventTypes, tables
  <1>2. ASSUME NEW d \in Devices, NEW t \in issued, NEW b \in Beats,
               StartHeartbeat(p, d, t, b)
        PROVE  TypeOK'
    <2>1. device[d].status \in {"OFFLINE", "ACTIVE"}
      BY <1>2 DEF StartHeartbeat, Authenticates, Registered, DeviceRow
    <2> QED
      BY <1>2, <2>1 DEF StartHeartbeat, Begins, tables
  <1>3. ASSUME NEW d \in Devices, NEW t \in issued, StartTelemetry(p, d, t)
        PROVE  TypeOK'
    BY <1>3 DEF StartTelemetry, Begins, tables
  <1>4. CASE CommitHeartbeat(p)
    <2> DEFINE d == call[p].dev
               b == call[p].beat
    <2>1. d \in Devices /\ b \in Beats /\ call[p].now \in Int
      BY <1>4, CallShape DEF CommitHeartbeat
    <2>2. HeardRow(device[d], call[p].now, call[p].status = "OFFLINE")
             \in DeviceRow
      <3>1. device[d] \in DeviceRow
        BY <2>1
      <3>2. CASE call[p].status = "OFFLINE"
        BY <2>1, <3>1, <3>2, RowUpdates DEF HeardRow
      <3>3. CASE call[p].status # "OFFLINE"
        BY <2>1, <3>1, <3>3, RowUpdates DEF HeardRow
      <3> QED
        BY <3>2, <3>3
    <2>3. stored' \in [Devices \X Beats -> Nat]
      BY <1>4, <2>1 DEF CommitHeartbeat
    <2>4. Announce("DEVICE_ONLINE", {d}) \in CallState
      BY <2>1 DEF EventTypes
    <2>5. device' \in [Devices -> DeviceRow]
      BY <1>4, <2>1, <2>2 DEF CommitHeartbeat
    <2>6. call' \in [Threads -> CallState]
      BY <1>4, <2>4 DEF CommitHeartbeat, Becomes
    <2>7. heard' \in [Devices -> Time] /\ delay' \in [Devices -> Int]
      BY <1>4, <2>1, ContactType DEF CommitHeartbeat
    <2> QED
      BY <1>4, <2>3, <2>5, <2>6, <2>7 DEF CommitHeartbeat
  <1>5. CASE HeartbeatConflict(p)
    BY <1>5 DEF HeartbeatConflict, Becomes, tables
  <1>6. CASE CommitTelemetry(p)
    BY <1>6, CallShape DEF CommitTelemetry, Becomes, Recorded, EventTypes
  <1>7. CASE CommitTouch(p)
    <2>1. call[p].dev \in Devices /\ call[p].now \in Int
      BY <1>7, CallShape DEF CommitTouch
    <2>2. [device[call[p].dev] EXCEPT !.last_seen = call[p].now + UtcOffset,
                                     !.status = "ACTIVE"] \in DeviceRow
      <3>1. call[p].now + UtcOffset \in Int
        BY <2>1, OffsetAssumption
      <3> QED
        BY <2>1, <3>1, RowUpdates
    <2>3. heard' \in [Devices -> Time] /\ delay' \in [Devices -> Int]
      BY <1>7, <2>1, ContactType DEF CommitTouch
    <2> QED
      BY <1>7, <2>1, <2>2, <2>3 DEF CommitTouch, Becomes
  <1> QED
    BY <1>1, <1>2, <1>3, <1>4, <1>5, <1>6, <1>7 DEF AgentStep

LEMMA OfflineType ==
    ASSUME TypeOK, NEW p \in Threads, OfflineStep(p)
    PROVE  TypeOK'
  <1> USE NewCalls DEF TypeOK, contacts
  <1>1. CASE StartOfflineCheck(p)
    BY <1>1 DEF StartOfflineCheck, Begins, tables
  <1>2. CASE CommitOffline(p)
    <2>1. call[p].devs \subseteq Devices
      BY <1>2, CallShape DEF CommitOffline
    <2>2. \A d \in Devices : [device[d] EXCEPT !.status = "OFFLINE"] \in DeviceRow
      BY DEF DeviceRow
    <2>3. Announce("DEVICE_OFFLINE", call[p].devs) \in CallState
      BY <2>1 DEF EventTypes
    <2> QED
      BY <1>2, <2>2, <2>3 DEF CommitOffline, Becomes
  <1> QED
    BY <1>1, <1>2 DEF OfflineStep

LEMMA AdminType ==
    ASSUME TypeOK, NEW p \in Threads, AdminStep(p)
    PROVE  TypeOK'
  <1> USE NewCalls, OffsetAssumption, DurationAssumption DEF TypeOK, Time, contacts
  <1>1. ASSUME NEW d \in Devices, StartRevoke(p, d)
        PROVE  TypeOK'
    <2>1. device[d].credential_hash \in Tokens \cup {NULL} /\ LocalNow \in Int
      BY DEF LocalNow, DeviceRow
    <2> QED
      BY <1>1, <2>1 DEF StartRevoke, Begins, tables
  <1>2. ASSUME NEW d \in Devices, StartRotate(p, d)
        PROVE  TypeOK'
    BY <1>2 DEF StartRotate, Begins, tables, LocalNow
  <1>3. CASE CommitRevoke(p)
    <2>1. call[p].dev \in Devices /\ call[p].now \in Int
      BY <1>3, CallShape DEF CommitRevoke
    <2>2. RevokedRow(device[call[p].dev], call[p]) \in DeviceRow
      BY <2>1, RowUpdates DEF RevokedRow
    <2>3. Announce("DEVICE_REVOKED", {call[p].dev}) \in CallState
      BY <2>1 DEF EventTypes
    <2> QED
      BY <1>3, <2>1, <2>2, <2>3 DEF CommitRevoke, Becomes
  <1>4. ASSUME NEW t \in Tokens, CommitRotate(p, t)
        PROVE  TypeOK'
    <2>1. call[p].dev \in Devices /\ call[p].now \in Int
      BY <1>4, CallShape DEF CommitRotate
    <2>2. [device[call[p].dev] EXCEPT
             !.credential_hash = t,
             !.credential_expires_at = call[p].now + CredentialTTL] \in DeviceRow
      <3>1. call[p].now + CredentialTTL \in Int
        BY <2>1
      <3> QED
        BY <2>1, <3>1, RowUpdates
    <2>3. Announce("DEVICE_CREDENTIAL_ROTATED", {call[p].dev}) \in CallState
      BY <2>1 DEF EventTypes
    <2> QED
      BY <1>4, <2>1, <2>2, <2>3 DEF CommitRotate, Becomes
  <1> QED
    BY <1>1, <1>2, <1>3, <1>4 DEF AdminStep

LEMMA SharedType ==
    ASSUME TypeOK, NEW p \in Threads
    PROVE  /\ \A d \in Devices \cup {NULL} : RecordEvent(p, d) => TypeOK'
           /\ Die(p) => TypeOK'
  <1> USE NewCalls DEF TypeOK, contacts
  <1>1. ASSUME NEW d \in Devices \cup {NULL}, RecordEvent(p, d)
        PROVE  TypeOK'
    BY <1>1, CallShape DEF RecordEvent, Becomes, Recorded
  <1>2. CASE Die(p)
    BY <1>2 DEF Die, Becomes, tables
  <1> QED
    BY <1>1, <1>2

LEMMA TypeStep == TypeOK /\ [Next]_vars => TypeOK'
  <1> SUFFICES ASSUME TypeOK, [Next]_vars PROVE TypeOK'
    OBVIOUS
  <1>1. CASE Tick
    BY <1>1 DEF Tick, TypeOK, tables, contacts
  <1>2. CASE UNCHANGED vars
    BY <1>2 DEF vars, TypeOK, contacts
  <1> QED
    BY <1>1, <1>2, PairingType, AgentType, OfflineType, AdminType, SharedType
    DEF Next

(* The tables and the calls in flight keep their types. *)
THEOREM TypeCorrect == Spec => []TypeOK
  BY TypeInit, TypeStep, PTL DEF Spec

---------------------------------------------------------------------------
(* The inductive invariant.  RevocationIsFinal and the refinement hold      *)
(* because a row is created whole, because a revocation writes revoked_at   *)
(* and pairing_status together, and because a call that is about to write   *)
(* to a row has seen that row.                                              *)

RowConsistent(d) ==
    /\ ~Registered(d) => device[d] = NoDevice
    /\ Revoked(d) => device[d].pairing_status = "REVOKED"
    /\ Registered(d) /\ ~Revoked(d) => device[d].credential_hash \in issued
    /\ device[d].status = "ACTIVE" => device[d].last_seen # NULL

CallConsistent(p) ==
    /\ call[p].op \in {"heartbeat", "telemetry", "touch", "revoke", "rotate"}
          => Registered(call[p].dev)
    /\ call[p].op = "markOffline" => \A d \in call[p].devs : Registered(d)
    /\ call[p].op = "revoke" /\ call[p].credential = NULL => Revoked(call[p].dev)

Consistent == /\ \A d \in Devices : RowConsistent(d)
              /\ \A p \in Threads : CallConsistent(p)

LEMMA ConsistentInit == Init => Consistent
  BY DEF Init, Consistent, RowConsistent, CallConsistent, Registered, Revoked,
         NoDevice, Idle

(* The steps that write to the device table; all others leave it alone. *)
DeviceWrite(p) ==
    \/ \E t \in Tokens : CommitRegister(p, t)
    \/ CommitHeartbeat(p)
    \/ CommitTouch(p)
    \/ CommitOffline(p)
    \/ CommitRevoke(p)
    \/ \E t \in Tokens : CommitRotate(p, t)

LEMMA DeviceWriters ==
    ASSUME [Next]_vars
    PROVE  UNCHANGED <<device, issued>> \/ \E p \in Threads : DeviceWrite(p)
  <1>1. CASE Tick
    BY <1>1 DEF Tick, tables
  <1>2. CASE UNCHANGED vars
    BY <1>2 DEF vars
  <1>3. ASSUME NEW p \in Threads, PairingStep(p)
        PROVE  UNCHANGED <<device, issued>> \/ DeviceWrite(p)
    BY <1>3 DEF PairingStep, DeviceWrite, RequestPairing, CompletePairing,
                CommitExpired, RegisterConflict, tables
  <1>4. ASSUME NEW p \in Threads, AgentStep(p)
        PROVE  UNCHANGED <<device, issued>> \/ DeviceWrite(p)
    BY <1>4 DEF AgentStep, DeviceWrite, RefuseDevice, StartHeartbeat,
                HeartbeatConflict, StartTelemetry, CommitTelemetry, tables
  <1>5. ASSUME NEW p \in Threads, OfflineStep(p)
        PROVE  UNCHANGED <<device, issued>> \/ DeviceWrite(p)
    BY <1>5 DEF OfflineStep, DeviceWrite, StartOfflineCheck, tables
  <1>6. ASSUME NEW p \in Threads, AdminStep(p)
        PROVE  UNCHANGED <<device, issued>> \/ DeviceWrite(p)
    BY <1>6 DEF AdminStep, DeviceWrite, StartRevoke, StartRotate, tables
  <1>7. ASSUME NEW p \in Threads,
               Die(p) \/ \E d \in Devices \cup {NULL} : RecordEvent(p, d)
        PROVE  UNCHANGED <<device, issued>>
    BY <1>7 DEF Die, RecordEvent, tables
  <1> QED
    BY <1>1, <1>2, <1>3, <1>4, <1>5, <1>6, <1>7 DEF Next

(* What a write does to one row: it is left alone, created, or keeps its    *)
(* registration and its revocation.                                         *)
LEMMA RowStep ==
    ASSUME TypeOK, Consistent, [Next]_vars, NEW d \in Devices
    PROVE  /\ Registered(d) => Registered(d)'
           /\ Revoked(d) => Revoked(d)'
           /\ RowConsistent(d)'
  <1> USE NullAssumption DEF RowConsistent, Registered, Revoked
  <1>0. RowConsistent(d) /\ device[d] \in DeviceRow /\ issued \subseteq Tokens
    BY DEF Consistent, TypeOK
  <1>1. CASE UNCHANGED <<device, issued>>
    BY <1>0, <1>1
  <1>2. ASSUME NEW p \in Threads, NEW t \in Tokens, CommitRegister(p, t)
        PROVE  /\ Registered(d) => Registered(d)'
               /\ Revoked(d) => Revoked(d)'
               /\ RowConsistent(d)'
    BY <1>0, <1>2, CallShape DEF CommitRegister, PairedRow, TypeOK, NoDevice
  <1>3. ASSUME NEW p \in Threads, CommitHeartbeat(p)
        PROVE  /\ Registered(d) => Registered(d)'
               /\ Revoked(d) => Revoked(d)'
               /\ RowConsistent(d)'
    BY <1>0, <1>3, CallShape
    DEF CommitHeartbeat, HeardRow, TypeOK, Consistent, CallConsistent, DeviceRow
  <1>4. ASSUME NEW p \in Threads, CommitTouch(p)
        PROVE  /\ Registered(d) => Registered(d)'
               /\ Revoked(d) => Revoked(d)'
               /\ RowConsistent(d)'
    BY <1>0, <1>4, CallShape, OffsetAssumption
    DEF CommitTouch, TypeOK, Consistent, CallConsistent, DeviceRow
  <1>5. ASSUME NEW p \in Threads, CommitOffline(p)
        PROVE  /\ Registered(d) => Registered(d)'
               /\ Revoked(d) => Revoked(d)'
               /\ RowConsistent(d)'
    BY <1>0, <1>5 DEF CommitOffline, Consistent, CallConsistent, DeviceRow
  <1>6. ASSUME NEW p \in Threads, CommitRevoke(p)
        PROVE  /\ Registered(d) => Registered(d)'
               /\ Revoked(d) => Revoked(d)'
               /\ RowConsistent(d)'
    BY <1>0, <1>6, CallShape
    DEF CommitRevoke, RevokedRow, TypeOK, Consistent, CallConsistent, DeviceRow
  <1>7. ASSUME NEW p \in Threads, NEW t \in Tokens, CommitRotate(p, t)
        PROVE  /\ Registered(d) => Registered(d)'
               /\ Revoked(d) => Revoked(d)'
               /\ RowConsistent(d)'
    BY <1>0, <1>7, CallShape
    DEF CommitRotate, TypeOK, Consistent, CallConsistent, DeviceRow
  <1> QED
    BY <1>1, <1>2, <1>3, <1>4, <1>5, <1>6, <1>7, DeviceWriters DEF DeviceWrite

(* A call changes only by its own thread's step, and a step that puts a     *)
(* call in flight has read the rows that call will write to.                *)
HasRead(c) ==
    /\ c.op \in {"heartbeat", "telemetry", "touch", "revoke", "rotate"}
          => Registered(c.dev)
    /\ c.op = "markOffline" => \A d \in c.devs : Registered(d)
    /\ c.op = "revoke" /\ c.credential = NULL => Revoked(c.dev)

LEMMA CallStep ==
    ASSUME TypeOK, Consistent, [Next]_vars, NEW q \in Threads
    PROVE  call'[q] = call[q] \/ HasRead(call'[q])
  <1> USE DEF HasRead, Begins, Becomes, Announce, Idle, TypeOK
  <1>1. CASE Tick
    BY <1>1 DEF Tick
  <1>2. CASE UNCHANGED vars
    BY <1>2 DEF vars
  <1>3. ASSUME NEW p \in Threads, PairingStep(p)
        PROVE  call'[q] = call[q] \/ HasRead(call'[q])
    BY <1>3 DEF PairingStep, RequestPairing, CompletePairing, CommitExpired,
                CommitRegister, RegisterConflict
  <1>4. ASSUME NEW p \in Threads, AgentStep(p)
        PROVE  call'[q] = call[q] \/ HasRead(call'[q])
    <2>1. CASE CommitTelemetry(p)
      BY <2>1 DEF CommitTelemetry, Consistent, CallConsistent
    <2>2. CASE CommitHeartbeat(p) \/ HeartbeatConflict(p) \/ CommitTouch(p)
      BY <2>2 DEF CommitHeartbeat, HeartbeatConflict, CommitTouch
    <2>3. ASSUME NEW d \in Devices, NEW t \in issued, RefuseDevice(p, d, t)
          PROVE  call'[q] = call[q] \/ HasRead(call'[q])
      BY <2>3 DEF RefuseDevice
    <2>4. ASSUME NEW d \in Devices, NEW t \in issued, NEW b \in Beats,
                 StartHeartbeat(p, d, t, b)
          PROVE  call'[q] = call[q] \/ HasRead(call'[q])
      BY <2>4 DEF StartHeartbeat, Authenticates
    <2>5. ASSUME NEW d \in Devices, NEW t \in issued, StartTelemetry(p, d, t)
          PROVE  call'[q] = call[q] \/ HasRead(call'[q])
      BY <2>5 DEF StartTelemetry, Authenticates
    <2> QED
      BY <1>4, <2>1, <2>2, <2>3, <2>4, <2>5 DEF AgentStep
  <1>5. ASSUME NEW p \in Threads, OfflineStep(p)
        PROVE  call'[q] = call[q] \/ HasRead(call'[q])
    BY <1>5 DEF OfflineStep, StartOfflineCheck, CommitOffline, Stale, Registered
  <1>6. ASSUME NEW p \in Threads, AdminStep(p)
        PROVE  call'[q] = call[q] \/ HasRead(call'[q])
    <2>1. ASSUME NEW d \in Devices, StartRevoke(p, d)
          PROVE  call'[q] = call[q] \/ HasRead(call'[q])
      <3>1. Registered(d) /\ ~Revoked(d) => device[d].credential_hash # NULL
        BY NullAssumption DEF Consistent, RowConsistent
      <3> QED
        BY <2>1, <3>1 DEF StartRevoke
    <2>2. ASSUME NEW d \in Devices, StartRotate(p, d)
          PROVE  call'[q] = call[q] \/ HasRead(call'[q])
      BY <2>2 DEF StartRotate
    <2>3. CASE CommitRevoke(p)
      BY <2>3 DEF CommitRevoke
    <2>4. ASSUME NEW t \in Tokens, CommitRotate(p, t)
          PROVE  call'[q] = call[q] \/ HasRead(call'[q])
      BY <2>4 DEF CommitRotate
    <2> QED
      BY <1>6, <2>1, <2>2, <2>3, <2>4 DEF AdminStep
  <1>7. ASSUME NEW p \in Threads,
               Die(p) \/ \E d \in Devices \cup {NULL} : RecordEvent(p, d)
        PROVE  call'[q] = call[q] \/ HasRead(call'[q])
    BY <1>7 DEF Die, RecordEvent
  <1> QED
    BY <1>1, <1>2, <1>3, <1>4, <1>5, <1>6, <1>7 DEF Next

LEMMA ConsistentStep == TypeOK /\ Consistent /\ [Next]_vars => Consistent'
  <1> SUFFICES ASSUME TypeOK, Consistent, [Next]_vars PROVE Consistent'
    OBVIOUS
  <1>1. \A d \in Devices : RowConsistent(d)'
    BY RowStep
  <1>2. ASSUME NEW p \in Threads
        PROVE  CallConsistent(p)'
    <2>1. HasRead(call'[p])
      BY CallStep DEF HasRead, Consistent, CallConsistent
    <2>2. call'[p] \in CallState
      BY TypeStep DEF TypeOK
    <2>3. \A d \in Devices : /\ Registered(d) => Registered(d)'
                             /\ Revoked(d) => Revoked(d)'
      BY RowStep
    <2>4. /\ call'[p].op \in {"heartbeat", "telemetry", "touch", "revoke", "rotate"}
                => call'[p].dev \in Devices
          /\ call'[p].op = "markOffline" => call'[p].devs \subseteq Devices
      BY <2>2, CallShape
    <2> QED
      BY <2>1, <2>3, <2>4 DEF HasRead, CallConsistent
  <1> QED
    BY <1>1, <1>2 DEF Consistent

LEMMA Invariance == Spec => [](TypeOK /\ Consistent)
  <1>1. Init => TypeOK /\ Consistent
    BY TypeInit, ConsistentInit
  <1>2. (TypeOK /\ Consistent) /\ [Next]_vars => (TypeOK /\ Consistent)'
    BY TypeStep, ConsistentStep
  <1> QED
    BY <1>1, <1>2, PTL DEF Spec

(* No device is ACTIVE without a last_seen that the offline check can age.  *)
THEOREM ActiveDevicesAreMonitored == Spec => []ActiveIsMonitored
  <1>1. Consistent => ActiveIsMonitored
    BY DEF Consistent, RowConsistent, ActiveIsMonitored
  <1> QED
    BY <1>1, Invariance, PTL

---------------------------------------------------------------------------
(* Revocation *)

(* No step lets an agent call of a revoked device in. *)
LEMMA NoAdmission ==
    ASSUME TypeOK, [Next]_vars, NEW d \in Devices, Revoked(d),
           NEW q \in Threads, Admitted(q, d)'
    PROVE  Admitted(q, d)
  <1> USE DEF Admitted, Begins, Becomes, Announce, Idle, TypeOK
  <1>1. CASE Tick
    BY <1>1 DEF Tick
  <1>2. CASE UNCHANGED vars
    BY <1>2 DEF vars
  <1>3. ASSUME NEW p \in Threads, PairingStep(p)
        PROVE  Admitted(q, d)
    BY <1>3 DEF PairingStep, RequestPairing, CompletePairing, CommitExpired,
                CommitRegister, RegisterConflict
  <1>4. ASSUME NEW p \in Threads, AgentStep(p)
        PROVE  Admitted(q, d)
    <2>1. CASE CommitTelemetry(p)
      BY <2>1 DEF CommitTelemetry
    <2>2. CASE CommitHeartbeat(p) \/ HeartbeatConflict(p) \/ CommitTouch(p)
      BY <2>2 DEF CommitHeartbeat, HeartbeatConflict, CommitTouch
    <2>3. ASSUME NEW e \in Devices, NEW t \in issued, RefuseDevice(p, e, t)
          PROVE  Admitted(q, d)
      BY <2>3 DEF RefuseDevice
    <2>4. ASSUME NEW e \in Devices, NEW t \in issued, NEW b \in Beats,
                 StartHeartbeat(p, e, t, b)
          PROVE  Admitted(q, d)
      BY <2>4 DEF StartHeartbeat, Authenticates
    <2>5. ASSUME NEW e \in Devices, NEW t \in issued, StartTelemetry(p, e, t)
          PROVE  Admitted(q, d)
      BY <2>5 DEF StartTelemetry, Authenticates
    <2> QED
      BY <1>4, <2>1, <2>2, <2>3, <2>4, <2>5 DEF AgentStep
  <1>5. ASSUME NEW p \in Threads, OfflineStep(p)
        PROVE  Admitted(q, d)
    BY <1>5 DEF OfflineStep, StartOfflineCheck, CommitOffline
  <1>6. ASSUME NEW p \in Threads, AdminStep(p)
        PROVE  Admitted(q, d)
    <2>1. ASSUME NEW e \in Devices, StartRevoke(p, e) \/ StartRotate(p, e)
          PROVE  Admitted(q, d)
      BY <2>1 DEF StartRevoke, StartRotate
    <2>2. CASE CommitRevoke(p)
      BY <2>2 DEF CommitRevoke
    <2>3. ASSUME NEW t \in Tokens, CommitRotate(p, t)
          PROVE  Admitted(q, d)
      BY <2>3 DEF CommitRotate
    <2> QED
      BY <1>6, <2>1, <2>2, <2>3 DEF AdminStep
  <1>7. ASSUME NEW p \in Threads,
               Die(p) \/ \E e \in Devices \cup {NULL} : RecordEvent(p, e)
        PROVE  Admitted(q, d)
    <2>1. CASE Die(p)
      BY <2>1 DEF Die
    <2>2. ASSUME NEW e \in Devices \cup {NULL}, RecordEvent(p, e)
          PROVE  Admitted(q, d)
      BY <2>2 DEF RecordEvent
    <2> QED
      BY <1>7, <2>1, <2>2
  <1> QED
    BY <1>1, <1>2, <1>3, <1>4, <1>5, <1>6, <1>7 DEF Next

(* From the commit of its revocation on, a device stays revoked and none of *)
(* its calls is let through, whatever races with the revocation.            *)
THEOREM Revocation == Spec => RevocationIsFinal
  <1>1. TypeOK /\ Consistent /\ (TypeOK /\ Consistent)' /\ [Next]_vars =>
           [\A d \in Devices : Revoked(d) =>
               /\ Revoked(d)'
               /\ device'[d].pairing_status = "REVOKED"
               /\ \A p \in Threads : Admitted(p, d)' => Admitted(p, d)]_vars
    <2> SUFFICES ASSUME TypeOK, Consistent, Consistent', [Next]_vars,
                        NEW d \in Devices, Revoked(d)
                 PROVE  /\ Revoked(d)'
                        /\ device'[d].pairing_status = "REVOKED"
                        /\ \A p \in Threads : Admitted(p, d)' => Admitted(p, d)
      OBVIOUS
    <2>1. Revoked(d)'
      BY RowStep
    <2>2. device'[d].pairing_status = "REVOKED"
      BY <2>1 DEF Consistent, RowConsistent
    <2>3. \A p \in Threads : Admitted(p, d)' => Admitted(p, d)
      BY NoAdmission
    <2> QED
      BY <2>1, <2>2, <2>3
  <1> QED
    BY <1>1, Invariance, PTL DEF Spec, RevocationIsFinal

---------------------------------------------------------------------------
(* Refinement *)

LEMMA AuthorizationInit == Init => Authorization!Init
  BY NullAssumption
  DEF Init, Authorization!Init, phase, accepts, Registered, Revoked, NoDevice

(* A commit that changes neither whether a row exists, nor revoked_at, nor  *)
(* the credential is a stuttering step of DeviceAuthorization.              *)
LEMMA PresenceStutters ==
    ASSUME TypeOK, Consistent, NEW p \in Threads,
           CommitHeartbeat(p) \/ CommitTouch(p) \/ CommitOffline(p)
    PROVE  UNCHANGED <<phase, accepts, issued>>
  <1> USE DEF phase, accepts, Registered, Revoked
  <1>1. \A d \in Devices : device[d] \in DeviceRow
    BY DEF TypeOK
  <1>2. CASE CommitHeartbeat(p)
    <2>1. \A d \in Devices : /\ Registered(d) <=> Registered(d)'
                             /\ device'[d].revoked_at = device[d].revoked_at
                             /\ device'[d].credential_hash = device[d].credential_hash
      BY <1>1, <1>2, CallShape
      DEF CommitHeartbeat, HeardRow, TypeOK, Consistent, CallConsistent, DeviceRow
    <2> QED
      BY <1>2, <2>1 DEF CommitHeartbeat
  <1>3. CASE CommitTouch(p)
    <2>1. \A d \in Devices : /\ Registered(d) <=> Registered(d)'
                             /\ device'[d].revoked_at = device[d].revoked_at
                             /\ device'[d].credential_hash = device[d].credential_hash
      BY <1>1, <1>3, CallShape
      DEF CommitTouch, TypeOK, Consistent, CallConsistent, DeviceRow
    <2> QED
      BY <1>3, <2>1 DEF CommitTouch
  <1>4. CASE CommitOffline(p)
    <2>1. \A d \in Devices : /\ Registered(d) <=> Registered(d)'
                             /\ device'[d].revoked_at = device[d].revoked_at
                             /\ device'[d].credential_hash = device[d].credential_hash
      BY <1>1, <1>4 DEF CommitOffline, Consistent, CallConsistent, DeviceRow
    <2> QED
      BY <1>4, <2>1 DEF CommitOffline
  <1> QED
    BY <1>2, <1>3, <1>4

LEMMA RegisterGrants ==
    ASSUME TypeOK, Consistent, NEW p \in Threads, NEW t \in Tokens,
           CommitRegister(p, t)
    PROVE  Authorization!Grant(call[p].dev, t)
  <1> DEFINE d == call[p].dev
  <1>1. d \in Devices
    BY CallShape DEF CommitRegister, TypeOK
  <1>2. device' = [device EXCEPT ![d] = PairedRow(t, call[p].now)]
    BY DEF CommitRegister
  <1>3. phase' = [phase EXCEPT ![d] = "paired"]
    BY <1>1, <1>2 DEF phase, Registered, Revoked, PairedRow, TypeOK
  <1>4. accepts' = [accepts EXCEPT ![d] = t]
    BY <1>1, <1>2 DEF accepts, Revoked, PairedRow, TypeOK
  <1>5. phase[d] = "unpaired"
    BY <1>1 DEF CommitRegister, phase
  <1> QED
    BY <1>3, <1>4, <1>5 DEF CommitRegister, Authorization!Grant

LEMMA RevokeWithdraws ==
    ASSUME TypeOK, Consistent, NEW p \in Threads, CommitRevoke(p)
    PROVE  \/ Authorization!Withdraw(call[p].dev)
           \/ UNCHANGED <<phase, accepts, issued>>
  <1> DEFINE d == call[p].dev
  <1>1. d \in Devices /\ call[p].now \in Int
    BY CallShape DEF CommitRevoke, TypeOK
  <1>2. Registered(d)
    BY DEF CommitRevoke, Consistent, CallConsistent
  <1>3. device' = [device EXCEPT ![d] = RevokedRow(device[d], call[p])]
    BY DEF CommitRevoke
  <1>4. \A e \in Devices : device'[e] = IF e = d THEN RevokedRow(device[d], call[p])
                                                 ELSE device[e]
    BY <1>1, <1>3 DEF TypeOK
  <1>5. device[d] \in DeviceRow
    BY <1>1 DEF TypeOK
  <1>6. RevokedRow(device[d], call[p]).revoked_at # NULL
        /\ RevokedRow(device[d], call[p]).status = "REVOKED"
    BY <1>1, <1>5, NullAssumption DEF RevokedRow, DeviceRow
  <1>7. phase' = [phase EXCEPT ![d] = "revoked"]
    BY <1>1, <1>4, <1>6 DEF phase, Registered, Revoked
  <1>8. accepts' = [accepts EXCEPT ![d] = NULL]
    BY <1>1, <1>4, <1>6 DEF accepts, Revoked
  <1>9. CASE Revoked(d)
    <2>1. phase[d] = "revoked" /\ accepts[d] = NULL
      BY <1>1, <1>2, <1>9 DEF phase, accepts
    <2>2. phase' = phase /\ accepts' = accepts
      BY <1>7, <1>8, <2>1 DEF phase, accepts
    <2> QED
      BY <2>2 DEF CommitRevoke
  <1>10. CASE ~Revoked(d)
    <2>1. phase[d] = "paired"
      BY <1>1, <1>2, <1>10 DEF phase
    <2> QED
      BY <1>7, <1>8, <2>1 DEF CommitRevoke, Authorization!Withdraw
  <1> QED
    BY <1>9, <1>10

LEMMA RotateReplaces ==
    ASSUME TypeOK, Consistent, NEW p \in Threads, NEW t \in Tokens,
           CommitRotate(p, t)
    PROVE  \/ Authorization!Replace(call[p].dev, t)
           \/ Authorization!Waste(call[p].dev, t)
  <1> DEFINE d == call[p].dev
             row == [device[d] EXCEPT
                       !.credential_hash = t,
                       !.credential_expires_at = call[p].now + CredentialTTL]
  <1>1. d \in Devices
    BY CallShape DEF CommitRotate, TypeOK
  <1>2. Registered(d)
    BY DEF CommitRotate, Consistent, CallConsistent
  <1>3. \A e \in Devices : device'[e] = IF e = d THEN row ELSE device[e]
    BY <1>1 DEF CommitRotate, TypeOK
  <1>4. /\ row.status = device[d].status
        /\ row.revoked_at = device[d].revoked_at
        /\ row.credential_hash = t
    BY <1>1 DEF TypeOK, DeviceRow
  <1> HIDE DEF row
  <1>5. phase' = phase
    BY <1>1, <1>3, <1>4 DEF phase, Registered, Revoked
  <1>6. accepts' = [accepts EXCEPT ![d] = IF Revoked(d) THEN NULL ELSE t]
    BY <1>1, <1>3, <1>4 DEF accepts, Revoked
  <1>7. CASE Revoked(d)
    <2>1. phase[d] = "revoked" /\ accepts[d] = NULL
      BY <1>1, <1>2, <1>7 DEF phase, accepts
    <2>2. accepts' = accepts
      BY <1>6, <1>7, <2>1 DEF accepts
    <2> QED
      BY <1>5, <2>1, <2>2 DEF CommitRotate, Authorization!Waste
  <1>8. CASE ~Revoked(d)
    <2>1. phase[d] = "paired"
      BY <1>1, <1>2, <1>8 DEF phase
    <2> QED
      BY <1>5, <1>6, <1>8, <2>1 DEF CommitRotate, Authorization!Replace
  <1> QED
    BY <1>7, <1>8

LEMMA AuthorizationStep ==
    TypeOK /\ Consistent /\ [Next]_vars => [Authorization!Next]_<<phase, accepts, issued>>
  <1> SUFFICES ASSUME TypeOK, Consistent, [Next]_vars
               PROVE  Authorization!Next \/ UNCHANGED <<phase, accepts, issued>>
    OBVIOUS
  <1>1. CASE UNCHANGED <<device, issued>>
    BY <1>1 DEF phase, accepts, Registered, Revoked
  <1>2. ASSUME NEW p \in Threads, DeviceWrite(p)
        PROVE  Authorization!Next \/ UNCHANGED <<phase, accepts, issued>>
    <2>1. CASE call[p].op \in {"register", "revoke", "rotate"}
      <3>1. call[p].dev \in Devices
        BY <2>1, CallShape DEF TypeOK
      <3> QED
        BY <1>2, <3>1, PresenceStutters, RegisterGrants, RevokeWithdraws,
           RotateReplaces
        DEF DeviceWrite, Authorization!Next
    <2>2. CASE call[p].op \notin {"register", "revoke", "rotate"}
      BY <1>2, <2>2, PresenceStutters
      DEF DeviceWrite, CommitRegister, CommitRevoke, CommitRotate
    <2> QED
      BY <2>1, <2>2
  <1> QED
    BY <1>1, <1>2, DeviceWriters

(* ManagedDevices implements DeviceAuthorization: through every             *)
(* interleaving a device is granted a token once, tokens are never reused   *)
(* and none is in force for a revoked device.                               *)
THEOREM Refinement == Spec => ImplementsAuthorization
  <1>1. TypeOK /\ Consistent /\ [Next]_vars => [Authorization!Next]_Authorization!vars
    BY AuthorizationStep DEF Authorization!vars
  <1> QED
    BY <1>1, AuthorizationInit, Invariance, PTL
    DEF Spec, ImplementsAuthorization, Authorization!Spec
---------------------------------------------------------------------------
(* Heartbeats *)

LEMMA StoredWriters ==
    ASSUME [Next]_vars
    PROVE  UNCHANGED stored \/ \E p \in Threads : CommitHeartbeat(p)
  <1>1. CASE Tick \/ UNCHANGED vars
    BY <1>1 DEF Tick, tables, vars
  <1>2. ASSUME NEW p \in Threads, PairingStep(p)
        PROVE  UNCHANGED stored
    BY <1>2 DEF PairingStep, RequestPairing, CompletePairing, CommitExpired,
                CommitRegister, RegisterConflict, tables
  <1>3. ASSUME NEW p \in Threads, AgentStep(p)
        PROVE  UNCHANGED stored \/ CommitHeartbeat(p)
    BY <1>3 DEF AgentStep, RefuseDevice, StartHeartbeat, StartTelemetry,
                HeartbeatConflict, CommitTelemetry, CommitTouch, tables
  <1>4. ASSUME NEW p \in Threads, OfflineStep(p) \/ AdminStep(p)
        PROVE  UNCHANGED stored
    BY <1>4 DEF OfflineStep, StartOfflineCheck, CommitOffline, AdminStep,
                StartRevoke, StartRotate, CommitRevoke, CommitRotate, tables
  <1>5. ASSUME NEW p \in Threads,
               Die(p) \/ \E d \in Devices \cup {NULL} : RecordEvent(p, d)
        PROVE  UNCHANGED stored
    BY <1>5 DEF Die, RecordEvent, tables
  <1> QED
    BY <1>1, <1>2, <1>3, <1>4, <1>5 DEF Next

(* A retry that races with the heartbeat it repeats is not stored again.    *)
THEOREM HeartbeatsAreStoredOnce == Spec => []HeartbeatStoredOnce
  <1>1. Init => HeartbeatStoredOnce
    BY DEF Init, HeartbeatStoredOnce
  <1>2. TypeOK /\ HeartbeatStoredOnce /\ [Next]_vars => HeartbeatStoredOnce'
    <2> SUFFICES ASSUME TypeOK, HeartbeatStoredOnce, [Next]_vars
                 PROVE  HeartbeatStoredOnce'
      OBVIOUS
    <2>1. CASE UNCHANGED stored
      BY <2>1 DEF HeartbeatStoredOnce
    <2>2. ASSUME NEW p \in Threads, CommitHeartbeat(p)
          PROVE  HeartbeatStoredOnce'
      <3>1. <<call[p].dev, call[p].beat>> \in Devices \X Beats
        BY <2>2, CallShape DEF CommitHeartbeat, TypeOK
      <3> QED
        BY <2>2, <3>1 DEF CommitHeartbeat, NewHeartbeat, HeartbeatStoredOnce, TypeOK
    <2> QED
      BY <2>1, <2>2, StoredWriters
  <1> QED
    BY <1>1, <1>2, TypeCorrect, PTL DEF Spec

---------------------------------------------------------------------------
(* Pairing codes *)

LEMMA SessionWriters ==
    ASSUME [Next]_vars
    PROVE  \/ UNCHANGED session
           \/ \E p \in Threads, c \in Codes, d \in Devices \cup {NULL} :
                 RequestPairing(p, c, d)
           \/ \E p \in Threads : CommitExpired(p)
           \/ \E p \in Threads, t \in Tokens : CommitRegister(p, t)
  <1>1. CASE Tick \/ UNCHANGED vars
    BY <1>1 DEF Tick, tables, vars
  <1>2. ASSUME NEW p \in Threads, PairingStep(p)
        PROVE  \/ UNCHANGED session
               \/ \E c \in Codes, d \in Devices \cup {NULL} :
                     RequestPairing(p, c, d)
               \/ CommitExpired(p)
               \/ \E t \in Tokens : CommitRegister(p, t)
    BY <1>2 DEF PairingStep, CompletePairing, RegisterConflict, tables
  <1>3. ASSUME NEW p \in Threads, AgentStep(p)
        PROVE  UNCHANGED session
    BY <1>3 DEF AgentStep, RefuseDevice, StartHeartbeat, StartTelemetry,
                CommitHeartbeat, HeartbeatConflict, CommitTelemetry, CommitTouch,
                tables
  <1>4. ASSUME NEW p \in Threads, OfflineStep(p) \/ AdminStep(p)
        PROVE  UNCHANGED session
    BY <1>4 DEF OfflineStep, StartOfflineCheck, CommitOffline, AdminStep,
                StartRevoke, StartRotate, CommitRevoke, CommitRotate, tables
  <1>5. ASSUME NEW p \in Threads,
               Die(p) \/ \E d \in Devices \cup {NULL} : RecordEvent(p, d)
        PROVE  UNCHANGED session
    BY <1>5 DEF Die, RecordEvent, tables
  <1> QED
    BY <1>1, <1>2, <1>3, <1>4, <1>5 DEF Next

(* A session row is never deleted, keeps the device it is meant for, and is *)
(* used before or after a call writes EXPIRED over its status.              *)
Issued(c) == session[c].status # "ABSENT"
Used(c) == session[c].used_at # NULL
MeantFor(c) == session[c].intended_device_id

(* A code that a complete_pairing call holds has been issued, and a call    *)
(* that is about to register a device found its code to fit.                *)
HoldsCode(c) ==
    /\ c.op \in {"expire", "register"} => Issued(c.code)
    /\ c.op = "register" => MeantFor(c.code) \in {NULL, c.dev}

CodesConsistent ==
    /\ \A c \in Codes : Used(c) => Issued(c)
    /\ \A p \in Threads : HoldsCode(call[p])

(* What a step does to one session row. *)
LEMMA SessionStep ==
    ASSUME TypeOK, CodesConsistent, [Next]_vars, NEW c \in Codes
    PROVE  /\ Issued(c) => Issued(c)' /\ MeantFor(c)' = MeantFor(c)
           /\ Used(c) => Used(c)'
           /\ Used(c)' => Issued(c)'
           /\ Used(c)' /\ ~Used(c) =>
                 \E p \in Threads, t \in Tokens :
                    CommitRegister(p, t) /\ call[p].code = c
  <1> USE NullAssumption DEF Issued, Used, MeantFor
  <1>0. session[c] \in SessionRow /\ (Used(c) => Issued(c))
    BY DEF TypeOK, CodesConsistent
  <1>1. CASE UNCHANGED session
    BY <1>0, <1>1
  <1>2. ASSUME NEW p \in Threads, NEW x \in Codes, NEW d \in Devices \cup {NULL},
               RequestPairing(p, x, d)
        PROVE  /\ Issued(c) => Issued(c)' /\ MeantFor(c)' = MeantFor(c)
               /\ Used(c) => Used(c)'
               /\ Used(c)' => Issued(c)' /\ Used(c)
    BY <1>0, <1>2 DEF RequestPairing, TypeOK
  <1>3. ASSUME NEW p \in Threads, CommitExpired(p)
        PROVE  /\ Issued(c) => Issued(c)' /\ MeantFor(c)' = MeantFor(c)
               /\ Used(c) => Used(c)'
               /\ Used(c)' => Issued(c)' /\ Used(c)
    <2>1. \A x \in Codes : session'[x] = IF x = call[p].code
                                         THEN [session[x] EXCEPT !.status = "EXPIRED"]
                                         ELSE session[x]
      BY <1>3 DEF CommitExpired, TypeOK
    <2> QED
      BY <1>0, <2>1 DEF SessionRow
  <1>4. ASSUME NEW p \in Threads, NEW t \in Tokens, CommitRegister(p, t)
        PROVE  /\ Issued(c) => Issued(c)' /\ MeantFor(c)' = MeantFor(c)
               /\ Used(c) => Used(c)'
               /\ Used(c)' => Issued(c)' /\ (Used(c) \/ call[p].code = c)
    <2>1. call[p].now # NULL
      BY <1>4, CallShape DEF CommitRegister, TypeOK
    <2>2. \A x \in Codes : session'[x] =
             IF x = call[p].code
             THEN [session[x] EXCEPT !.status = "USED", !.used_at = call[p].now]
             ELSE session[x]
      BY <1>4 DEF CommitRegister, TypeOK
    <2> QED
      BY <1>0, <2>1, <2>2 DEF SessionRow
  <1> QED
    BY <1>1, <1>2, <1>3, <1>4, SessionWriters

(* A call takes a code up only after it has read it: as issued, and to      *)
(* register a device as unused and as fitting that device.                  *)
LEMMA CodeRead ==
    ASSUME TypeOK, [Next]_vars, NEW q \in Threads, call'[q] # call[q]
    PROVE  /\ call'[q].op \in {"expire", "register"} =>
                 call'[q].code \in Codes /\ Issued(call'[q].code)
           /\ call'[q].op = "register" =>
                 /\ ~Used(call'[q].code)
                 /\ MeantFor(call'[q].code) \in {NULL, call'[q].dev}
  <1> DEFINE Read == /\ call'[q].op \in {"expire", "register"} =>
                           call'[q].code \in Codes /\ Issued(call'[q].code)
                     /\ call'[q].op = "register" =>
                           /\ ~Used(call'[q].code)
                           /\ MeantFor(call'[q].code) \in {NULL, call'[q].dev}
  <1> USE DEF Issued, Used, MeantFor, Begins, Becomes, Announce, Idle, TypeOK
  <1>1. CASE Tick \/ UNCHANGED vars
    BY <1>1 DEF Tick, vars
  <1>2. ASSUME NEW p \in Threads, PairingStep(p)
        PROVE  Read
    <2>1. ASSUME NEW c \in Codes, NEW d \in Devices, CompletePairing(p, c, d)
          PROVE  Read
      BY <2>1 DEF CompletePairing, PairingVerdict, KnownCode, FreshCode,
                  UnusedCode, CodeFits
    <2>2. ASSUME NEW c \in Codes, NEW d \in Devices \cup {NULL},
                 RequestPairing(p, c, d)
          PROVE  Read
      BY <2>2 DEF RequestPairing
    <2>3. CASE CommitExpired(p) \/ RegisterConflict(p)
      BY <2>3 DEF CommitExpired, RegisterConflict
    <2>4. ASSUME NEW t \in Tokens, CommitRegister(p, t)
          PROVE  Read
      BY <2>4 DEF CommitRegister
    <2> QED
      BY <1>2, <2>1, <2>2, <2>3, <2>4 DEF PairingStep
  <1>3. ASSUME NEW p \in Threads, AgentStep(p)
        PROVE  Read
    <2>1. ASSUME NEW d \in Devices, NEW t \in issued,
                 RefuseDevice(p, d, t) \/ StartTelemetry(p, d, t)
          PROVE  Read
      BY <2>1 DEF RefuseDevice, StartTelemetry
    <2>2. ASSUME NEW d \in Devices, NEW t \in issued, NEW b \in Beats,
                 StartHeartbeat(p, d, t, b)
          PROVE  Read
      BY <2>2 DEF StartHeartbeat
    <2>3. CASE CommitHeartbeat(p) \/ HeartbeatConflict(p)
      BY <2>3 DEF CommitHeartbeat, HeartbeatConflict
    <2>4. CASE CommitTelemetry(p) \/ CommitTouch(p)
      BY <2>4 DEF CommitTelemetry, CommitTouch
    <2> QED
      BY <1>3, <2>1, <2>2, <2>3, <2>4 DEF AgentStep
  <1>4. ASSUME NEW p \in Threads, OfflineStep(p) \/ AdminStep(p)
        PROVE  Read
    <2>1. CASE StartOfflineCheck(p) \/ CommitOffline(p)
      BY <2>1 DEF StartOfflineCheck, CommitOffline
    <2>2. ASSUME NEW d \in Devices, StartRevoke(p, d) \/ StartRotate(p, d)
          PROVE  Read
      BY <2>2 DEF StartRevoke, StartRotate
    <2>3. CASE CommitRevoke(p)
      BY <2>3 DEF CommitRevoke
    <2>4. ASSUME NEW t \in Tokens, CommitRotate(p, t)
          PROVE  Read
      BY <2>4 DEF CommitRotate
    <2> QED
      BY <1>4, <2>1, <2>2, <2>3, <2>4 DEF OfflineStep, AdminStep
  <1>5. ASSUME NEW p \in Threads,
               Die(p) \/ \E d \in Devices \cup {NULL} : RecordEvent(p, d)
        PROVE  Read
    BY <1>5 DEF Die, RecordEvent
  <1> QED
    BY <1>1, <1>2, <1>3, <1>4, <1>5 DEF Next

LEMMA CodesInit == Init => CodesConsistent
  BY DEF Init, CodesConsistent, HoldsCode, Used, NoSession, Idle

LEMMA CodesStep == TypeOK /\ CodesConsistent /\ [Next]_vars => CodesConsistent'
  <1> SUFFICES ASSUME TypeOK, CodesConsistent, [Next]_vars
               PROVE  CodesConsistent'
    OBVIOUS
  <1>1. ASSUME NEW p \in Threads
        PROVE  HoldsCode(call[p])'
    <2>1. /\ call'[p].op \in {"expire", "register"} =>
                call'[p].code \in Codes /\ Issued(call'[p].code)
          /\ call'[p].op = "register" =>
                MeantFor(call'[p].code) \in {NULL, call'[p].dev}
      <3>1. CASE call'[p] = call[p]
        BY <3>1, CallShape DEF CodesConsistent, HoldsCode, TypeOK
      <3>2. CASE call'[p] # call[p]
        BY <3>2, CodeRead
      <3> QED
        BY <3>1, <3>2
    <2>2. \A c \in Codes : Issued(c) => Issued(c)' /\ MeantFor(c)' = MeantFor(c)
      BY SessionStep
    <2> QED
      BY <2>1, <2>2 DEF HoldsCode, Issued, MeantFor
  <1>2. \A c \in Codes : Used(c)' => Issued(c)'
    BY SessionStep
  <1> QED
    BY <1>1, <1>2 DEF CodesConsistent

(* A device comes into the table by the commit of complete_pairing alone.   *)
LEMMA Registers ==
    ASSUME TypeOK, Consistent, [Next]_vars, NEW d \in Devices,
           ~Registered(d), Registered(d)'
    PROVE  \E p \in Threads, t \in Tokens :
              CommitRegister(p, t) /\ call[p].dev = d
  <1> USE DEF Registered
  <1>1. PICK p \in Threads : DeviceWrite(p)
    BY DeviceWriters
  <1>2. CASE \E t \in Tokens : CommitRegister(p, t)
    BY <1>2 DEF CommitRegister, TypeOK
  <1>3. CASE CommitHeartbeat(p) \/ CommitTouch(p)
    BY <1>3 DEF CommitHeartbeat, CommitTouch, TypeOK, Consistent, CallConsistent
  <1>4. CASE CommitOffline(p)
    BY <1>4 DEF CommitOffline, TypeOK, Consistent, CallConsistent
  <1>5. CASE CommitRevoke(p) \/ \E t \in Tokens : CommitRotate(p, t)
    BY <1>5 DEF CommitRevoke, CommitRotate, TypeOK, Consistent, CallConsistent
  <1> QED
    BY <1>1, <1>2, <1>3, <1>4, <1>5 DEF DeviceWrite

LEMMA PairingInit == Init => PairingMatchesCodes
  BY DEF Init, PairingMatchesCodes, Registered, NoDevice, NoSession

(* The commit that uses a code registers the device it fits.                *)
LEMMA RegisterMatches ==
    ASSUME TypeOK, CodesConsistent, NEW p \in Threads, NEW t \in Tokens,
           CommitRegister(p, t)
    PROVE  \E c \in Codes, d \in Devices :
              /\ c = call[p].code /\ d = call[p].dev
              /\ Used(c)' /\ MeantFor(c)' \in {NULL, d}
              /\ Registered(d)'
  <1>1. call[p].code \in Codes /\ call[p].dev \in Devices /\ call[p].now # NULL
    BY NullAssumption, CallShape DEF CommitRegister, TypeOK
  <1>2. PICK c \in Codes, d \in Devices : c = call[p].code /\ d = call[p].dev
    BY <1>1
  <1>3. session'[c] = [session[c] EXCEPT !.status = "USED", !.used_at = call[p].now]
    BY <1>2 DEF CommitRegister, TypeOK
  <1>4. session[c] \in SessionRow
    BY DEF TypeOK
  <1>5. MeantFor(c) \in {NULL, d}
    BY <1>2 DEF CodesConsistent, HoldsCode, CommitRegister
  <1>6. device'[d] = PairedRow(t, call[p].now)
    BY <1>2 DEF CommitRegister, TypeOK
  <1>7. Used(c)' /\ MeantFor(c)' \in {NULL, d}
    BY <1>1, <1>3, <1>4, <1>5 DEF SessionRow, Used, MeantFor
  <1>8. Registered(d)'
    BY <1>6 DEF Registered, PairedRow
  <1> QED
    BY <1>2, <1>7, <1>8

(* A used code closes the pairing it belongs to: a step keeps devices and   *)
(* codes matched.                                                           *)
LEMMA PairingMatchStep ==
    TypeOK /\ Consistent /\ CodesConsistent /\ PairingMatchesCodes /\ [Next]_vars
       => PairingMatchesCodes'
  <1> SUFFICES ASSUME TypeOK, Consistent, CodesConsistent, PairingMatchesCodes,
                      [Next]_vars
               PROVE  PairingMatchesCodes'
    OBVIOUS
  <1>1. ASSUME NEW d \in Devices, Registered(d)'
        PROVE  \E c \in Codes : Used(c)' /\ MeantFor(c)' \in {NULL, d}
    <2>1. CASE Registered(d)
      <3>1. PICK c \in Codes : Used(c) /\ MeantFor(c) \in {NULL, d}
        BY <2>1 DEF PairingMatchesCodes, Used, MeantFor
      <3>2. Issued(c)
        BY <3>1 DEF CodesConsistent
      <3> QED
        BY <3>1, <3>2, SessionStep
    <2>2. CASE ~Registered(d)
      BY <1>1, <2>2, Registers, RegisterMatches
    <2> QED
      BY <2>1, <2>2
  <1>2. ASSUME NEW c \in Codes, Used(c)', MeantFor(c)' # NULL
        PROVE  \E d \in Devices : d = MeantFor(c)' /\ Registered(d)'
    <2>1. CASE Used(c)
      <3>1. Issued(c)
        BY <2>1 DEF CodesConsistent
      <3>2. MeantFor(c)' = MeantFor(c)
        BY <3>1, SessionStep
      <3>3. MeantFor(c) \in Devices
        BY <1>2, <3>2 DEF MeantFor, TypeOK, SessionRow
      <3>4. PICK d \in Devices : d = MeantFor(c)
        BY <3>3
      <3>5. Registered(d)
        BY <1>2, <2>1, <3>2, <3>4 DEF PairingMatchesCodes, Used, MeantFor
      <3> QED
        BY <3>2, <3>4, <3>5, RowStep
    <2>2. CASE ~Used(c)
      <3>1. PICK p \in Threads, t \in Tokens :
               CommitRegister(p, t) /\ call[p].code = c
        BY <1>2, <2>2, SessionStep
      <3> QED
        BY <1>2, <3>1, RegisterMatches
    <2> QED
      BY <2>1, <2>2
  <1>3. \A c \in Codes : Used(c)' /\ MeantFor(c)' # NULL =>
           \E d \in Devices : d = session'[c].intended_device_id
                              /\ device'[d].status # "ABSENT"
    BY <1>2 DEF MeantFor, Registered
  <1> QED
    BY <1>1, <1>3 DEF PairingMatchesCodes, Used, MeantFor, Registered

LEMMA PairingInvariance == Spec => [](CodesConsistent /\ PairingMatchesCodes)
  <1>1. Init => CodesConsistent /\ PairingMatchesCodes
    BY CodesInit, PairingInit
  <1>2. TypeOK /\ Consistent /\ (CodesConsistent /\ PairingMatchesCodes) /\ [Next]_vars
           => (CodesConsistent /\ PairingMatchesCodes)'
    BY CodesStep, PairingMatchStep
  <1> QED
    BY <1>1, <1>2, Invariance, PTL DEF Spec

(* Every device in the table came in through a used code that fits it, and  *)
(* every used code that was meant for a device brought that device in.      *)
THEOREM DevicesMatchCodes == Spec => []PairingMatchesCodes
  BY PairingInvariance, PTL

(* Only a complete_pairing call that had read a code before it was used can *)
(* still register a device with it.                                         *)
THEOREM UsedCodesAreClosed == Spec => UsedCodeIsClosed
  <1>1. TypeOK /\ [Next]_vars =>
           [\A c \in Codes, p \in Threads :
               /\ session[c].used_at # NULL
               /\ call'[p].op = "register" /\ call'[p].code = c
               => call[p] = call'[p]]_vars
    BY CodeRead DEF Used
  <1> QED
    BY <1>1, TypeCorrect, PTL DEF Spec, UsedCodeIsClosed

---------------------------------------------------------------------------
(* What the offline check compares *)

LEMMA HeardWriters ==
    ASSUME [Next]_vars
    PROVE  UNCHANGED contacts
           \/ \E p \in Threads : CommitHeartbeat(p) \/ CommitTouch(p)
  <1>1. CASE Tick \/ UNCHANGED vars
    BY <1>1 DEF Tick, tables, vars
  <1>2. ASSUME NEW p \in Threads, PairingStep(p)
        PROVE  UNCHANGED contacts
    BY <1>2 DEF PairingStep, RequestPairing, CompletePairing, CommitExpired,
                CommitRegister, RegisterConflict
  <1>3. ASSUME NEW p \in Threads, AgentStep(p)
        PROVE  UNCHANGED contacts \/ CommitHeartbeat(p) \/ CommitTouch(p)
    BY <1>3 DEF AgentStep, RefuseDevice, StartHeartbeat, StartTelemetry,
                HeartbeatConflict, CommitTelemetry
  <1>4. ASSUME NEW p \in Threads, OfflineStep(p) \/ AdminStep(p)
        PROVE  UNCHANGED contacts
    BY <1>4 DEF OfflineStep, StartOfflineCheck, CommitOffline, AdminStep,
                StartRevoke, StartRotate, CommitRevoke, CommitRotate
  <1>5. ASSUME NEW p \in Threads,
               Die(p) \/ \E d \in Devices \cup {NULL} : RecordEvent(p, d)
        PROVE  UNCHANGED contacts
    BY <1>5 DEF Die, RecordEvent
  <1> QED
    BY <1>1, <1>2, <1>3, <1>4, <1>5 DEF Next

(* A call that is about to commit a contact has just read the clock, or was *)
(* about to do so before the step.                                          *)
LEMMA ContactRead ==
    ASSUME TypeOK, [Next]_vars, NEW q \in Threads,
           call'[q].op \in {"heartbeat", "touch"}
    PROVE  call'[q] = call[q] \/ call'[q].now = clock
  <1> USE DEF Begins, Becomes, Announce, Idle, TypeOK
  <1>1. CASE Tick \/ UNCHANGED vars
    BY <1>1 DEF Tick, vars
  <1>2. ASSUME NEW p \in Threads, PairingStep(p)
        PROVE  call'[q] = call[q]
    BY <1>2 DEF PairingStep, RequestPairing, CompletePairing, CommitExpired,
                CommitRegister, RegisterConflict
  <1>3. ASSUME NEW p \in Threads, AgentStep(p)
        PROVE  call'[q] = call[q] \/ call'[q].now = clock
    <2>1. ASSUME NEW d \in Devices, NEW t \in issued,
                 RefuseDevice(p, d, t) \/ StartTelemetry(p, d, t)
          PROVE  call'[q] = call[q]
      BY <2>1 DEF RefuseDevice, StartTelemetry
    <2>2. ASSUME NEW d \in Devices, NEW t \in issued, NEW b \in Beats,
                 StartHeartbeat(p, d, t, b)
          PROVE  call'[q] = call[q] \/ call'[q].now = clock
      BY <2>2 DEF StartHeartbeat
    <2>3. CASE CommitHeartbeat(p) \/ HeartbeatConflict(p)
      BY <2>3 DEF CommitHeartbeat, HeartbeatConflict
    <2>4. CASE CommitTelemetry(p) \/ CommitTouch(p)
      BY <2>4 DEF CommitTelemetry, CommitTouch
    <2> QED
      BY <1>3, <2>1, <2>2, <2>3, <2>4 DEF AgentStep
  <1>4. ASSUME NEW p \in Threads, OfflineStep(p)
        PROVE  call'[q] = call[q]
    BY <1>4 DEF OfflineStep, StartOfflineCheck, CommitOffline
  <1>5. ASSUME NEW p \in Threads, AdminStep(p)
        PROVE  call'[q] = call[q]
    <2>1. ASSUME NEW d \in Devices, StartRevoke(p, d) \/ StartRotate(p, d)
          PROVE  call'[q] = call[q]
      BY <2>1 DEF StartRevoke, StartRotate
    <2>2. CASE CommitRevoke(p)
      BY <2>2 DEF CommitRevoke
    <2>3. ASSUME NEW t \in Tokens, CommitRotate(p, t)
          PROVE  call'[q] = call[q]
      BY <2>3 DEF CommitRotate
    <2> QED
      BY <1>5, <2>1, <2>2, <2>3 DEF AdminStep
  <1>6. ASSUME NEW p \in Threads,
               Die(p) \/ \E d \in Devices \cup {NULL} : RecordEvent(p, d)
        PROVE  call'[q] = call[q]
    BY <1>6 DEF Die, RecordEvent
  <1> QED
    BY <1>1, <1>2, <1>3, <1>4, <1>5, <1>6 DEF Next

(* The clock does not go back.                                              *)
LEMMA ClockStep ==
    ASSUME TypeOK, [Next]_vars
    PROVE  clock' \in {clock, clock + 1}
  BY DEF Next, Tick, vars, PairingStep, RequestPairing, CompletePairing,
         CommitExpired, CommitRegister, RegisterConflict, AgentStep, RefuseDevice,
         StartHeartbeat, StartTelemetry, CommitHeartbeat, HeartbeatConflict,
         CommitTelemetry, CommitTouch, OfflineStep, StartOfflineCheck, CommitOffline,
         AdminStep, StartRevoke, StartRotate, CommitRevoke, CommitRotate,
         RecordEvent, Die

(* Contacts carry times of the past: those that were committed and those    *)
(* that a call is about to commit.                                          *)
ContactsPast ==
    /\ \A d \in Devices : heard[d] # NULL => heard[d] <= clock
    /\ \A p \in Threads : call[p].op \in {"heartbeat", "touch"} => call[p].now <= clock

LEMMA ContactsInit == Init => ContactsPast
  BY DEF Init, ContactsPast, Idle

(* What a commit of a contact does to the history.                          *)
LEMMA ContactEffect ==
    ASSUME TypeOK, NEW p \in Threads, CommitHeartbeat(p) \/ CommitTouch(p)
    PROVE  \E d \in Devices, n \in Int :
              /\ d = call[p].dev /\ n = call[p].now
              /\ call[p].op \in {"heartbeat", "touch"}
              /\ Contact(d, n) /\ clock' = clock
  BY CallShape DEF CommitHeartbeat, CommitTouch, TypeOK

LEMMA ContactsStep ==
    ASSUME TypeOK, ContactsPast, [Next]_vars
    PROVE  ContactsPast'
  <1> USE NullAssumption
  <1>1. clock \in Int /\ clock' \in Int /\ clock <= clock'
    BY ClockStep DEF TypeOK
  <1>2. ASSUME NEW p \in Threads, call'[p].op \in {"heartbeat", "touch"}
        PROVE  call'[p].now <= clock'
    <2>1. CASE call'[p] = call[p]
      <3>1. call[p].now <= clock /\ call[p].now \in Int
        BY <1>2, <2>1, CallShape DEF ContactsPast, TypeOK
      <3> QED
        BY <1>1, <2>1, <3>1
    <2>2. CASE call'[p].now = clock
      BY <1>1, <2>2
    <2> QED
      BY <1>2, <2>1, <2>2, ContactRead
  <1>3. ASSUME NEW d \in Devices, heard'[d] # NULL
        PROVE  heard'[d] <= clock'
    <2>1. CASE UNCHANGED contacts
      BY <1>1, <1>3, <2>1 DEF ContactsPast, TypeOK, Time, contacts
    <2>2. ASSUME NEW p \in Threads, CommitHeartbeat(p) \/ CommitTouch(p)
          PROVE  heard'[d] <= clock'
      <3>1. PICK e \in Devices, n \in Int :
                /\ e = call[p].dev /\ n = call[p].now
                /\ call[p].op \in {"heartbeat", "touch"}
                /\ Contact(e, n) /\ clock' = clock
        BY <2>2, ContactEffect
      <3>2. n <= clock
        BY <3>1 DEF ContactsPast
      <3>3. heard'[d] \in {heard[d], n}
        BY <3>1 DEF Contact, TypeOK
      <3> QED
        BY <1>3, <3>1, <3>2, <3>3 DEF ContactsPast
    <2> QED
      BY <2>1, <2>2, HeardWriters
  <1> QED
    BY <1>2, <1>3 DEF ContactsPast

(* Telemetry leaves local time in last_seen, a heartbeat true time: on a    *)
(* host whose local time is not behind UTC the column is behind the latest  *)
(* contact by no more than the time that an overtaken one took.             *)
LastSeenNotBehind ==
    \A d \in Devices : device[d].last_seen # NULL =>
        heard[d] # NULL /\ heard[d] <= device[d].last_seen + delay[d]

LEMMA LastSeenInit == Init => LastSeenNotBehind
  BY DEF Init, LastSeenNotBehind, NoDevice

LEMMA NotBehind ==
    ASSUME NEW n \in Int, UtcOffset >= 0
    PROVE  n <= n + UtcOffset /\ n <= n
  BY OffsetAssumption

(* An overtaken contact is as old as its delay, and what overtook it is not *)
(* of the future.                                                           *)
LEMMA DelayCovers ==
    ASSUME NEW n \in Int, NEW s \in Int, NEW h \in Int, NEW c \in Int,
           n <= s, h <= c
    PROVE  h <= s + (c - n) /\ n <= s + 0
  OBVIOUS

(* Every write to the device table keeps the column from falling behind.    *)
LEMMA LastSeenStep ==
    ASSUME UtcOffset >= 0, TypeOK, Consistent, ContactsPast, LastSeenNotBehind,
           [Next]_vars
    PROVE  LastSeenNotBehind'
  <1> USE NullAssumption
  <1>1. CASE UNCHANGED <<device, contacts>>
    BY <1>1 DEF LastSeenNotBehind, contacts
  <1>2. ASSUME NEW p \in Threads, CommitHeartbeat(p) \/ CommitTouch(p)
        PROVE  LastSeenNotBehind'
    <2>1. PICK d \in Devices, n \in Int :
              /\ d = call[p].dev /\ n = call[p].now
              /\ call[p].op \in {"heartbeat", "touch"}
              /\ Contact(d, n) /\ clock' = clock
      BY <1>2, ContactEffect
    <2>2. n # NULL /\ heard \in [Devices -> Time] /\ delay \in [Devices -> Int]
      BY DEF TypeOK
    <2>3. device'[d].last_seen \in {n, n + UtcOffset}
      <3>1. device[d] \in DeviceRow /\ device \in [Devices -> DeviceRow]
        BY DEF TypeOK
      <3>2. CASE CommitHeartbeat(p)
        BY <2>1, <3>1, <3>2 DEF CommitHeartbeat, HeardRow, DeviceRow
      <3>3. CASE CommitTouch(p)
        BY <2>1, <3>1, <3>3 DEF CommitTouch, DeviceRow
      <3> QED
        BY <1>2, <3>2, <3>3
    <2>4. PICK s \in Int : s = device'[d].last_seen /\ n <= s
      BY <2>3, NotBehind, OffsetAssumption
    <2>5. \A e \in Devices \ {d} : device'[e] = device[e]
      BY <1>2, <2>1 DEF CommitHeartbeat, CommitTouch, TypeOK
    <2>6. \A e \in Devices \ {d} : heard'[e] = heard[e] /\ delay'[e] = delay[e]
      BY <2>1, <2>2 DEF Contact
    <2>7. heard'[d] # NULL /\ heard'[d] <= s + delay'[d]
      <3>1. CASE Overtaken(d, n)
        <4>1. heard'[d] = heard[d] /\ delay'[d] = clock - n /\ heard[d] # NULL
          BY <2>1, <2>2, <3>1 DEF Contact, Overtaken
        <4>2. heard[d] \in Int /\ clock \in Int /\ heard[d] <= clock
          BY <2>2, <4>1 DEF ContactsPast, TypeOK, Time
        <4> QED
          BY <2>4, <4>1, <4>2, DelayCovers
      <3>2. CASE ~Overtaken(d, n)
        <4>1. heard'[d] = n /\ delay'[d] = 0
          BY <2>1, <2>2, <3>2 DEF Contact
        <4> QED
          BY <2>2, <2>4, <4>1
      <3> QED
        BY <3>1, <3>2
    <2> QED
      BY <2>4, <2>5, <2>6, <2>7 DEF LastSeenNotBehind
  <1>3. ASSUME NEW p \in Threads, UNCHANGED contacts,
               \/ \E t \in Tokens : CommitRegister(p, t) \/ CommitRotate(p, t)
               \/ CommitOffline(p)
               \/ CommitRevoke(p)
        PROVE  LastSeenNotBehind'
    <2> SUFFICES ASSUME NEW d \in Devices
                 PROVE  device'[d].last_seen \in {NULL, device[d].last_seen}
      BY <1>3 DEF LastSeenNotBehind, contacts
    <2>1. device[d] \in DeviceRow
      BY DEF TypeOK
    <2>2. CASE \E t \in Tokens : CommitRegister(p, t)
      BY <2>1, <2>2 DEF CommitRegister, PairedRow, TypeOK
    <2>3. CASE CommitOffline(p)
      BY <2>1, <2>3 DEF CommitOffline, DeviceRow
    <2>4. CASE CommitRevoke(p)
      BY <2>1, <2>4 DEF CommitRevoke, RevokedRow, DeviceRow, TypeOK
    <2>5. CASE \E t \in Tokens : CommitRotate(p, t)
      BY <2>1, <2>5 DEF CommitRotate, DeviceRow, TypeOK
    <2> QED
      BY <1>3, <2>2, <2>3, <2>4, <2>5
  <1> QED
    BY <1>1, <1>2, <1>3, DeviceWriters, HeardWriters DEF DeviceWrite

(* The devices about to be marked offline were selected as stale.           *)
LEMMA OfflineSelection ==
    ASSUME TypeOK, [Next]_vars, NEW q \in Threads,
           call'[q].op = "markOffline", call[q].op # "markOffline"
    PROVE  \A d \in call'[q].devs : d \in Devices /\ Stale(d)
  <1> DEFINE Selected == \A d \in call'[q].devs : d \in Devices /\ Stale(d)
  <1> USE DEF Begins, Becomes, Announce, Idle, TypeOK
  <1>1. CASE Tick \/ UNCHANGED vars
    BY <1>1 DEF Tick, vars
  <1>2. ASSUME NEW p \in Threads, PairingStep(p)
        PROVE  FALSE
    BY <1>2 DEF PairingStep, RequestPairing, CompletePairing, CommitExpired,
                CommitRegister, RegisterConflict
  <1>3. ASSUME NEW p \in Threads, AgentStep(p)
        PROVE  FALSE
    <2>1. ASSUME NEW d \in Devices, NEW t \in issued,
                 RefuseDevice(p, d, t) \/ StartTelemetry(p, d, t)
          PROVE  FALSE
      BY <2>1 DEF RefuseDevice, StartTelemetry
    <2>2. ASSUME NEW d \in Devices, NEW t \in issued, NEW b \in Beats,
                 StartHeartbeat(p, d, t, b)
          PROVE  FALSE
      BY <2>2 DEF StartHeartbeat
    <2>3. CASE CommitHeartbeat(p) \/ HeartbeatConflict(p)
      BY <2>3 DEF CommitHeartbeat, HeartbeatConflict
    <2>4. CASE CommitTelemetry(p) \/ CommitTouch(p)
      BY <2>4 DEF CommitTelemetry, CommitTouch
    <2> QED
      BY <1>3, <2>1, <2>2, <2>3, <2>4 DEF AgentStep
  <1>4. ASSUME NEW p \in Threads, OfflineStep(p)
        PROVE  Selected
    BY <1>4 DEF OfflineStep, StartOfflineCheck, CommitOffline
  <1>5. ASSUME NEW p \in Threads, AdminStep(p)
        PROVE  FALSE
    <2>1. ASSUME NEW d \in Devices, StartRevoke(p, d) \/ StartRotate(p, d)
          PROVE  FALSE
      BY <2>1 DEF StartRevoke, StartRotate
    <2>2. CASE CommitRevoke(p)
      BY <2>2 DEF CommitRevoke
    <2>3. ASSUME NEW t \in Tokens, CommitRotate(p, t)
          PROVE  FALSE
      BY <2>3 DEF CommitRotate
    <2> QED
      BY <1>5, <2>1, <2>2, <2>3 DEF AdminStep
  <1>6. ASSUME NEW p \in Threads,
               Die(p) \/ \E d \in Devices \cup {NULL} : RecordEvent(p, d)
        PROVE  FALSE
    BY <1>6 DEF Die, RecordEvent
  <1> QED
    BY <1>1, <1>2, <1>3, <1>4, <1>5, <1>6 DEF Next

(* On a host whose local time is UTC or ahead of it, the offline check      *)
(* selects only devices from which nothing was heard for OfflineAfter, but  *)
(* for the delay of a contact that was overtaken, whichever of heartbeat    *)
(* and telemetry overtook which.                                            *)
THEOREM OfflineCheckIsRight ==
    ASSUME UtcOffset >= 0
    PROVE  Spec => OnlyTheSilentAreMarked
  <1>1. Spec => []ContactsPast
    <2>1. TypeOK /\ ContactsPast /\ [Next]_vars => ContactsPast'
      BY ContactsStep
    <2> QED
      BY <2>1, ContactsInit, TypeCorrect, PTL DEF Spec
  <1>2. Spec => []LastSeenNotBehind
    <2>1. TypeOK /\ Consistent /\ ContactsPast /\ LastSeenNotBehind /\ [Next]_vars
             => LastSeenNotBehind'
      BY LastSeenStep
    <2> QED
      BY <1>1, <2>1, LastSeenInit, Invariance, PTL DEF Spec
  <1>3. TypeOK /\ LastSeenNotBehind /\ [Next]_vars =>
           [\A p \in Threads, d \in Devices : Selects(p, d) =>
               heard[d] # NULL /\ heard[d] < clock - OfflineAfter + delay[d]]_vars
    <2> SUFFICES ASSUME TypeOK, LastSeenNotBehind, [Next]_vars, NEW q \in Threads,
                        NEW d \in Devices, Selects(q, d)
                 PROVE  heard[d] # NULL /\ heard[d] < clock - OfflineAfter + delay[d]
      OBVIOUS
    <2>1. Stale(d)
      BY OfflineSelection DEF Selects
    <2>2. PICK h \in Int, s \in Int, c \in Int, w \in Int :
              /\ h = heard[d] /\ s = device[d].last_seen /\ c = clock /\ w = delay[d]
              /\ h <= s + w /\ s < c - OfflineAfter
      BY <2>1 DEF LastSeenNotBehind, Stale, TypeOK, DeviceRow, Time
    <2>3. h < c - OfflineAfter + w
      BY <2>2, DurationAssumption
    <2> QED
      BY <2>2, <2>3, NullAssumption
  <1> QED
    BY <1>2, <1>3, TypeCorrect, PTL DEF Spec, OnlyTheSilentAreMarked

---------------------------------------------------------------------------
(* The audit trail *)

(* No step removes an event, and while no call dies an announced event      *)
(* stays announced until it is recorded.                                    *)
LEMMA EventStep ==
    ASSUME TypeOK, [Next]_vars, NEW type \in Watched, NEW d \in Devices
    PROVE  /\ <<type, d>> \in events => <<type, d>> \in events'
           /\ faults' \in {faults, faults + 1}
           /\ faults' = faults /\ WillRecord(type, d) =>
                 <<type, d>> \in events' \/ WillRecord(type, d)'
  <1> DEFINE Kept ==
               /\ <<type, d>> \in events => <<type, d>> \in events'
               /\ faults' \in {faults, faults + 1}
               /\ faults' = faults /\ WillRecord(type, d) =>
                     <<type, d>> \in events' \/ WillRecord(type, d)'
  <1>0. ASSUME NEW p \in Threads, call[p].op # "announce",
               \A q \in Threads \ {p} : call'[q] = call[q], faults' = faults,
               <<type, d>> \in events => <<type, d>> \in events'
        PROVE  Kept
    BY <1>0 DEF WillRecord
  <1> USE DEF Begins, Becomes, Idle, TypeOK
  <1>1. CASE Tick \/ UNCHANGED vars
    BY <1>1 DEF Tick, vars, tables, WillRecord
  <1>2. ASSUME NEW p \in Threads, PairingStep(p)
        PROVE  Kept
    <2>1. ASSUME NEW c \in Codes, NEW x \in Devices \cup {NULL},
                 RequestPairing(p, c, x)
          PROVE  Kept
      BY <1>0, <2>1 DEF RequestPairing
    <2>2. ASSUME NEW c \in Codes, NEW x \in Devices, CompletePairing(p, c, x)
          PROVE  Kept
      BY <1>0, <2>2 DEF CompletePairing, tables
    <2>3. CASE CommitExpired(p)
      BY <1>0, <2>3 DEF CommitExpired
    <2>4. ASSUME NEW t \in Tokens, CommitRegister(p, t)
          PROVE  Kept
      BY <1>0, <2>4 DEF CommitRegister
    <2>5. CASE RegisterConflict(p)
      BY <1>0, <2>5 DEF RegisterConflict, tables
    <2> QED
      BY <1>2, <2>1, <2>2, <2>3, <2>4, <2>5 DEF PairingStep
  <1>3. ASSUME NEW p \in Threads, AgentStep(p)
        PROVE  Kept
    <2>1. ASSUME NEW x \in Devices, NEW t \in issued,
                 RefuseDevice(p, x, t) \/ StartTelemetry(p, x, t)
          PROVE  Kept
      BY <1>0, <2>1 DEF RefuseDevice, StartTelemetry, tables
    <2>2. ASSUME NEW x \in Devices, NEW t \in issued, NEW b \in Beats,
                 StartHeartbeat(p, x, t, b)
          PROVE  Kept
      BY <1>0, <2>2 DEF StartHeartbeat, tables
    <2>3. CASE CommitHeartbeat(p)
      BY <1>0, <2>3 DEF CommitHeartbeat
    <2>4. CASE HeartbeatConflict(p)
      BY <1>0, <2>4 DEF HeartbeatConflict, tables
    <2>5. CASE CommitTelemetry(p)
      BY <1>0, <2>5 DEF CommitTelemetry, Recorded
    <2>6. CASE CommitTouch(p)
      BY <1>0, <2>6 DEF CommitTouch
    <2> QED
      BY <1>3, <2>1, <2>2, <2>3, <2>4, <2>5, <2>6 DEF AgentStep
  <1>4. ASSUME NEW p \in Threads, OfflineStep(p) \/ AdminStep(p)
        PROVE  Kept
    <2>1. CASE StartOfflineCheck(p)
      BY <1>0, <2>1 DEF StartOfflineCheck, tables
    <2>2. CASE CommitOffline(p)
      BY <1>0, <2>2 DEF CommitOffline
    <2>3. ASSUME NEW x \in Devices, StartRevoke(p, x) \/ StartRotate(p, x)
          PROVE  Kept
      BY <1>0, <2>3 DEF StartRevoke, StartRotate, tables
    <2>4. CASE CommitRevoke(p)
      BY <1>0, <2>4 DEF CommitRevoke
    <2>5. ASSUME NEW t \in Tokens, CommitRotate(p, t)
          PROVE  Kept
      BY <1>0, <2>5 DEF CommitRotate
    <2> QED
      BY <1>4, <2>1, <2>2, <2>3, <2>4, <2>5 DEF OfflineStep, AdminStep
  <1>5. ASSUME NEW p \in Threads, NEW x \in Devices \cup {NULL}, RecordEvent(p, x)
        PROVE  Kept
    <2>1. events \subseteq events' /\ faults' = faults
      BY <1>5 DEF RecordEvent, Recorded
    <2>2. ASSUME WillRecord(type, d)
          PROVE  <<type, d>> \in events' \/ WillRecord(type, d)'
      <3>1. PICK q \in Threads : /\ call[q].op = "announce"
                                 /\ call[q].type = type
                                 /\ d \in call[q].devs
        BY <2>2 DEF WillRecord
      <3>2. CASE q # p
        BY <1>5, <3>1, <3>2 DEF RecordEvent, WillRecord, TypeOK
      <3>3. CASE q = p /\ x = d
        BY <1>5, <3>1, <3>3 DEF RecordEvent, Recorded
      <3>4. CASE q = p /\ x # d
        <4>1. call'[p] = Announce(type, call[p].devs \ {x})
          BY <1>5, <3>1, <3>4 DEF RecordEvent, TypeOK
        <4> QED
          BY <3>1, <3>4, <4>1 DEF WillRecord, Announce
      <3> QED
        BY <3>2, <3>3, <3>4
    <2> QED
      BY <2>1, <2>2
  <1>6. ASSUME NEW p \in Threads, Die(p)
        PROVE  Kept
    <2>1. faults' = faults + 1 /\ faults \in Nat /\ events' = events
      BY <1>6 DEF Die, TypeOK, tables
    <2> QED
      BY <2>1
  <1> QED
    BY <1>1, <1>2, <1>3, <1>4, <1>5, <1>6 DEF Next

(* A device is revoked by the commit of its revocation alone.               *)
LEMMA Revokes ==
    ASSUME TypeOK, Consistent, [Next]_vars, NEW d \in Devices,
           ~Revoked(d), Revoked(d)'
    PROVE  \E p \in Threads : CommitRevoke(p) /\ call[p].dev = d
  <1> USE DEF Revoked
  <1>0. device[d] \in DeviceRow
    BY DEF TypeOK
  <1>1. PICK p \in Threads : DeviceWrite(p)
    BY DeviceWriters
  <1>2. CASE \E t \in Tokens : CommitRegister(p, t)
    BY <1>2 DEF CommitRegister, PairedRow, TypeOK
  <1>3. CASE CommitHeartbeat(p)
    BY <1>0, <1>3 DEF CommitHeartbeat, HeardRow, TypeOK, DeviceRow
  <1>4. CASE CommitTouch(p)
    BY <1>0, <1>4 DEF CommitTouch, TypeOK, DeviceRow
  <1>5. CASE CommitOffline(p)
    BY <1>0, <1>5 DEF CommitOffline, DeviceRow
  <1>6. CASE \E t \in Tokens : CommitRotate(p, t)
    BY <1>0, <1>6 DEF CommitRotate, TypeOK, DeviceRow
  <1>7. CASE CommitRevoke(p)
    BY <1>7 DEF CommitRevoke, TypeOK
  <1> QED
    BY <1>1, <1>2, <1>3, <1>4, <1>5, <1>6, <1>7 DEF DeviceWrite

(* The call that commits a pairing or a revocation goes on to announce it.  *)
LEMMA CommitsAnnounce ==
    ASSUME TypeOK, NEW p \in Threads, NEW d \in Devices, call[p].dev = d
    PROVE  /\ CommitRevoke(p) => WillRecord("DEVICE_REVOKED", d)'
           /\ \A t \in Tokens :
                 CommitRegister(p, t) => WillRecord("DEVICE_PAIRED", d)'
  <1>1. ASSUME NEW type, Becomes(p, Announce(type, {d}))
        PROVE  WillRecord(type, d)'
    <2>1. call'[p] = Announce(type, {d})
      BY <1>1 DEF Becomes, TypeOK
    <2> QED
      BY <2>1 DEF WillRecord, Announce
  <1> QED
    BY <1>1 DEF CommitRevoke, CommitRegister

(* When the events of pairings and revocations are kept, none of them is    *)
(* missing: as long as no call died half-way, each is recorded or about to  *)
(* be, whichever calls overlap.                                             *)
THEOREM AuditTrailIsComplete ==
    ASSUME {"DEVICE_PAIRED", "DEVICE_REVOKED"} \subseteq Watched
    PROVE  Spec => []AuditTrail
  <1>1. Init => AuditTrail
    BY DEF Init, AuditTrail, Registered, Revoked, NoDevice
  <1>2. TypeOK /\ Consistent /\ AuditTrail /\ [Next]_vars => AuditTrail'
    <2> SUFFICES ASSUME TypeOK, Consistent, AuditTrail, [Next]_vars, faults' = 0,
                        NEW d \in Devices
                 PROVE  /\ Registered(d)' => \/ <<"DEVICE_PAIRED", d>> \in events'
                                             \/ WillRecord("DEVICE_PAIRED", d)'
                        /\ Revoked(d)' => \/ <<"DEVICE_REVOKED", d>> \in events'
                                          \/ WillRecord("DEVICE_REVOKED", d)'
      BY DEF AuditTrail
    <2>1. "DEVICE_PAIRED" \in Watched /\ "DEVICE_REVOKED" \in Watched
      OBVIOUS
    <2>2. faults' \in {faults, faults + 1}
      BY <2>1, EventStep
    <2>3. faults = 0
      BY <2>2 DEF TypeOK
    <2>4. ASSUME ~Registered(d), Registered(d)'
          PROVE  WillRecord("DEVICE_PAIRED", d)'
      BY <2>4, Registers, CommitsAnnounce
    <2>5. ASSUME ~Revoked(d), Revoked(d)'
          PROVE  WillRecord("DEVICE_REVOKED", d)'
      BY <2>5, Revokes, CommitsAnnounce
    <2>6. Registered(d) => \/ <<"DEVICE_PAIRED", d>> \in events'
                           \/ WillRecord("DEVICE_PAIRED", d)'
      BY <2>1, <2>2, <2>3, EventStep DEF AuditTrail
    <2>7. Revoked(d) => \/ <<"DEVICE_REVOKED", d>> \in events'
                        \/ WillRecord("DEVICE_REVOKED", d)'
      BY <2>1, <2>2, <2>3, EventStep DEF AuditTrail
    <2> QED
      BY <2>4, <2>5, <2>6, <2>7
  <1> QED
    BY <1>1, <1>2, Invariance, PTL DEF Spec
=============================================================================
