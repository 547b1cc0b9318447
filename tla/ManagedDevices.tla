--------------------------- MODULE ManagedDevices ---------------------------
(***************************************************************************)
(* The managed-device service: pairing, authentication, heartbeats,        *)
(* telemetry, the offline check, revocation and credential rotation        *)
(* (backend/managed/service.py and its routes in backend/api/routes.py).   *)
(*                                                                         *)
(* Every handler is a plain function that FastAPI runs in a thread pool,   *)
(* with a database session of its own.  A SELECT sees the latest committed *)
(* rows and holds no lock; nothing is written before db.commit(), and      *)
(* SQLite serialises commits.  A call is therefore one read step followed  *)
(* by one step per commit, and between two steps any other call may        *)
(* commit.  call[p] is what thread p remembers between its steps: the      *)
(* columns it loaded, and what it is about to commit.                      *)
(*                                                                         *)
(* The ORM writes a column only when it was assigned a value that differs  *)
(* from the loaded one, and updates a row by its primary key alone.  So a  *)
(* commit may overwrite, without noticing, a column that another call has  *)
(* changed since it was loaded, and may leave unwritten a column that it   *)
(* believes to hold the wanted value already.                              *)
(*                                                                         *)
(* Not here: rate limits (a refused call reads nothing), payload size      *)
(* checks, alerts and risk raised by an event, and the remote actions.     *)
(***************************************************************************)
EXTENDS Integers, FiniteSets

CONSTANTS
    Devices,          \* identities a device may pair under
    Codes,            \* pairing codes that secrets.token_urlsafe can return
    Tokens,           \* device tokens that secrets.token_urlsafe can return
    Beats,            \* heartbeat ids that agents choose
    Threads,          \* worker threads: calls that can be in flight at once
    NULL,             \* the SQL NULL
    PairingTTL,       \* managed_device_pairing_ttl_seconds
    CredentialTTL,    \* managed_device_credential_ttl_days
    OfflineAfter,     \* managed_device_offline_after_seconds
    UtcOffset,        \* datetime.now() - utc_now(), the host's time zone
    Handlers,         \* bound: the handlers that are called
    Watched,          \* bound: the kinds of events that are kept
    MaxTime,          \* bound: the clock stops here
    MaxFaults         \* bound: calls that die half-way

ASSUME NullAssumption == NULL \notin Devices \cup Codes \cup Tokens \cup Int
ASSUME DurationAssumption ==
    PairingTTL \in Nat /\ CredentialTTL \in Nat /\ OfflineAfter \in Nat
ASSUME OffsetAssumption == UtcOffset \in Int
ASSUME BoundAssumption == MaxTime \in Nat /\ MaxFaults \in Nat

VARIABLES
    clock,            \* utc_now()
    device,           \* the managed_devices table, a row per device_id
    session,          \* the pairing_sessions table, a row per code
    stored,           \* the device_heartbeats table: rows per <<device, id>>
    events,           \* the security_events table: <<event_type, device>>
    issued,           \* tokens generated so far: the next one is new
    call,             \* what each thread is doing
    faults,           \* how many calls have died half-way
    heard,            \* history: true time of the latest contact committed
    delay             \* history: how long the last one took, if overtaken

tables == <<device, session, stored, events>>
contacts == <<heard, delay>>
vars == <<clock, device, session, stored, events, issued, call, faults, contacts>>

---------------------------------------------------------------------------
(* Rows *)

Time == Int \cup {NULL}

DeviceRow == [status: {"ABSENT", "OFFLINE", "ACTIVE", "REVOKED"},
              pairing_status: {"PAIRED", "REVOKED"},
              credential_hash: Tokens \cup {NULL},
              credential_expires_at: Time,
              last_seen: Time,
              revoked_at: Time]

NoDevice == [status |-> "ABSENT", pairing_status |-> "PAIRED",
             credential_hash |-> NULL, credential_expires_at |-> NULL,
             last_seen |-> NULL, revoked_at |-> NULL]

SessionRow == [status: {"ABSENT", "ACTIVE", "USED", "EXPIRED"},
               intended_device_id: Devices \cup {NULL},
               expires_at: Time,
               used_at: Time]

NoSession == [status |-> "ABSENT", intended_device_id |-> NULL,
              expires_at |-> NULL, used_at |-> NULL]

EventTypes == {"DEVICE_PAIRING_REQUESTED", "DEVICE_PAIRED",
               "DEVICE_PAIRING_FAILED", "DEVICE_AUTH_FAILURE",
               "DEVICE_ONLINE", "DEVICE_OFFLINE", "DEVICE_REVOKED",
               "DEVICE_CREDENTIAL_ROTATED", "TELEMETRY"}

Registered(d) == device[d].status # "ABSENT"
Revoked(d) == device[d].revoked_at # NULL
LocalNow == clock + UtcOffset       \* datetime.now(), naive local time

(* Calls in flight.  The times are those the handler took before its commit. *)

Idle == [op |-> "idle"]

CallState ==
    {Idle}
    \cup [op: {"expire"}, code: Codes, dev: Devices]
    \cup [op: {"register"}, code: Codes, dev: Devices, now: Int]
    \cup [op: {"heartbeat"}, dev: Devices, beat: Beats, now: Int,
          status: {"OFFLINE", "ACTIVE"}]
    \cup [op: {"telemetry"}, dev: Devices]
    \cup [op: {"touch"}, dev: Devices, now: Int]
    \cup [op: {"markOffline"}, devs: SUBSET Devices]
    \cup [op: {"revoke"}, dev: Devices, credential: Tokens \cup {NULL}, now: Int]
    \cup [op: {"rotate"}, dev: Devices, now: Int]
    \cup [op: {"announce"}, type: EventTypes, devs: SUBSET (Devices \cup {NULL})]

\* create_event is committed after the change it reports, by a commit per device.
Announce(type, devs) == [op |-> "announce", type |-> type, devs |-> devs]

Begins(p, handler, c) ==
    /\ handler \in Handlers
    /\ call[p] = Idle
    /\ call' = [call EXCEPT ![p] = c]

Becomes(p, c) == call' = [call EXCEPT ![p] = c]

\* Mutant: an event is dropped when the device has one of any type already.
RecordedOncePerDevice(type, d) ==
    events' = IF type \in Watched /\ \A e \in events : e[2] # d
              THEN events \cup {<<type, d>>} ELSE events

Recorded(type, d) ==
    events' = IF type \in Watched THEN events \cup {<<type, d>>} ELSE events

---------------------------------------------------------------------------
(* Pairing *)

\* create_pairing_session: a fresh code, bound to a device id or to none.
RequestPairing(p, c, bound) ==
    /\ session[c].status = "ABSENT"
    /\ Begins(p, "pair", Announce("DEVICE_PAIRING_REQUESTED", {bound}))
    /\ session' = [session EXCEPT ![c] =
                     [status |-> "ACTIVE", intended_device_id |-> bound,
                      expires_at |-> clock + PairingTTL, used_at |-> NULL]]
    /\ UNCHANGED <<clock, device, stored, events, issued, faults, contacts>>

KnownCode(c) == session[c].status = "ACTIVE"
FreshCode(c) == session[c].expires_at > clock
UnusedCode(c) == session[c].used_at = NULL

\* Mutant: a code may be completed by any device.
CodeFitsAny(c, d) == TRUE
CodeFits(c, d) == session[c].intended_device_id \in {NULL, d}

\* The checks complete_pairing makes on the rows it selected, in its order.
PairingVerdict(c, d) ==
    IF ~KnownCode(c) THEN "unknown"
    ELSE IF ~FreshCode(c) THEN "expired"
    ELSE IF UnusedCode(c) /\ CodeFits(c, d) /\ ~Registered(d) THEN "pairs"
    ELSE "refused"

CompletePairing(p, c, d) ==
    /\ \/ /\ PairingVerdict(c, d) \in {"unknown", "refused"}
          /\ Begins(p, "pair", Announce("DEVICE_PAIRING_FAILED", {d}))
       \/ /\ PairingVerdict(c, d) = "expired"
          /\ Begins(p, "pair", [op |-> "expire", code |-> c, dev |-> d])
       \/ /\ PairingVerdict(c, d) = "pairs"
          /\ Begins(p, "pair", [op |-> "register", code |-> c, dev |-> d,
                                now |-> clock])
    /\ UNCHANGED <<clock, tables, issued, faults, contacts>>

CommitExpired(p) ==
    /\ call[p].op = "expire"
    /\ session' = [session EXCEPT ![call[p].code] = [@ EXCEPT !.status = "EXPIRED"]]
    /\ Becomes(p, Announce("DEVICE_PAIRING_FAILED", {call[p].dev}))
    /\ UNCHANGED <<clock, device, stored, events, issued, faults, contacts>>

PairedRow(t, now) ==
    [status |-> "OFFLINE", pairing_status |-> "PAIRED", credential_hash |-> t,
     credential_expires_at |-> now + CredentialTTL,
     last_seen |-> NULL, revoked_at |-> NULL]

\* The new device and the used code, in one commit.
CommitRegister(p, t) ==
    LET c == call[p].code  d == call[p].dev  now == call[p].now IN
    /\ call[p].op = "register"
    /\ ~Registered(d)
    /\ t \notin issued
    /\ issued' = issued \cup {t}
    /\ device' = [device EXCEPT ![d] = PairedRow(t, now)]
    /\ session' = [session EXCEPT ![c] = [@ EXCEPT !.status = "USED",
                                                   !.used_at = now]]
    /\ Becomes(p, Announce("DEVICE_PAIRED", {d}))
    /\ UNCHANGED <<clock, stored, events, faults, contacts>>

\* device_id is unique: the second insert fails, and with it the whole commit.
RegisterConflict(p) ==
    /\ call[p].op = "register"
    /\ Registered(call[p].dev)
    /\ Becomes(p, Idle)
    /\ UNCHANGED <<clock, tables, issued, faults, contacts>>

---------------------------------------------------------------------------
(* Agent calls *)

\* Mutant: authentication trusts the status column alone.
AuthenticatesByStatus(d, t) ==
    /\ Registered(d)
    /\ device[d].status # "REVOKED"
    /\ device[d].credential_hash = t
    /\ device[d].credential_expires_at > clock

\* Mutant: authentication does not look at the revocation at all.
AuthenticatesByToken(d, t) ==
    /\ Registered(d)
    /\ device[d].credential_hash = t
    /\ device[d].credential_expires_at > clock

\* authenticate_device
Authenticates(d, t) ==
    /\ Registered(d)
    /\ ~Revoked(d)
    /\ device[d].status # "REVOKED"
    /\ device[d].credential_hash = t
    /\ device[d].credential_expires_at > clock

\* device_from_request refuses the call and records it.
RefuseDevice(p, d, t) ==
    /\ ~Authenticates(d, t)
    /\ Begins(p, "auth", Announce("DEVICE_AUTH_FAILURE", {d}))
    /\ UNCHANGED <<clock, tables, issued, faults, contacts>>

\* A heartbeat id already stored for the device changes nothing.
StartHeartbeat(p, d, t, b) ==
    /\ Authenticates(d, t)
    /\ stored[<<d, b>>] = 0
    /\ Begins(p, "heartbeat", [op |-> "heartbeat", dev |-> d, beat |-> b,
                               now |-> clock, status |-> device[d].status])
    /\ UNCHANGED <<clock, tables, issued, faults, contacts>>

\* Mutant: the index on heartbeat_id is not unique.
AnyHeartbeat(d, b) == TRUE

\* heartbeat_id, which includes the device, is unique.
NewHeartbeat(d, b) == stored[<<d, b>>] = 0

\* The status column is written only if it was loaded as OFFLINE.
HeardRow(row, now, was_offline) ==
    [row EXCEPT !.last_seen = now,
                !.status = IF was_offline THEN "ACTIVE" ELSE @]

\* An older contact may be committed after a younger one.
Overtaken(d, now) == heard[d] # NULL /\ now < heard[d]

Contact(d, now) ==
    /\ heard' = [heard EXCEPT ![d] = IF Overtaken(d, now) THEN @ ELSE now]
    /\ delay' = [delay EXCEPT ![d] = IF Overtaken(d, now) THEN clock - now ELSE 0]

CommitHeartbeat(p) ==
    LET d == call[p].dev  was_offline == call[p].status = "OFFLINE" IN
    /\ call[p].op = "heartbeat"
    /\ NewHeartbeat(d, call[p].beat)
    /\ stored' = [stored EXCEPT ![<<d, call[p].beat>>] = @ + 1]
    /\ device' = [device EXCEPT ![d] = HeardRow(@, call[p].now, was_offline)]
    /\ Contact(d, call[p].now)
    /\ Becomes(p, IF was_offline THEN Announce("DEVICE_ONLINE", {d}) ELSE Idle)
    /\ UNCHANGED <<clock, session, events, issued, faults>>

\* The insert of a concurrent retry fails, and with it the whole commit.
HeartbeatConflict(p) ==
    /\ call[p].op = "heartbeat"
    /\ ~NewHeartbeat(call[p].dev, call[p].beat)
    /\ Becomes(p, Idle)
    /\ UNCHANGED <<clock, tables, issued, faults, contacts>>

StartTelemetry(p, d, t) ==
    /\ Authenticates(d, t)
    /\ Begins(p, "telemetry", [op |-> "telemetry", dev |-> d])
    /\ UNCHANGED <<clock, tables, issued, faults, contacts>>

\* The event is committed first, which expires the loaded device...
CommitTelemetry(p) ==
    /\ call[p].op = "telemetry"
    /\ Recorded("TELEMETRY", call[p].dev)
    /\ Becomes(p, [op |-> "touch", dev |-> call[p].dev, now |-> clock])
    /\ UNCHANGED <<clock, device, session, stored, issued, faults, contacts>>

\* ...so that status and last_seen are always written, last_seen in local time.
CommitTouch(p) ==
    LET d == call[p].dev IN
    /\ call[p].op = "touch"
    /\ device' = [device EXCEPT ![d] =
                    [@ EXCEPT !.last_seen = call[p].now + UtcOffset,
                              !.status = "ACTIVE"]]
    /\ Contact(d, call[p].now)
    /\ Becomes(p, Idle)
    /\ UNCHANGED <<clock, session, stored, events, issued, faults>>

---------------------------------------------------------------------------
(* The offline check, run by the monitor and by two dashboard routes *)

\* Mutant: a device is stale one instant too early.
StaleTooEarly(d) ==
    /\ device[d].status = "ACTIVE"
    /\ device[d].last_seen # NULL
    /\ device[d].last_seen <= clock - OfflineAfter

Stale(d) ==
    /\ device[d].status = "ACTIVE"
    /\ device[d].last_seen # NULL
    /\ device[d].last_seen < clock - OfflineAfter

StartOfflineCheck(p) ==
    LET stale == {d \in Devices : Stale(d)} IN
    /\ stale # {}
    /\ Begins(p, "offline", [op |-> "markOffline", devs |-> stale])
    /\ UNCHANGED <<clock, tables, issued, faults, contacts>>

CommitOffline(p) ==
    LET devs == call[p].devs IN
    /\ call[p].op = "markOffline"
    /\ device' = [d \in Devices |->
                    IF d \in devs THEN [device[d] EXCEPT !.status = "OFFLINE"]
                                  ELSE device[d]]
    /\ Becomes(p, Announce("DEVICE_OFFLINE", devs))
    /\ UNCHANGED <<clock, session, stored, events, issued, faults, contacts>>

---------------------------------------------------------------------------
(* Administration: both handlers look at the status column alone *)

StartRevoke(p, d) ==
    /\ Registered(d)
    /\ device[d].status # "REVOKED"
    /\ Begins(p, "revoke", [op |-> "revoke", dev |-> d, now |-> LocalNow,
                            credential |-> device[d].credential_hash])
    /\ UNCHANGED <<clock, tables, issued, faults, contacts>>

\* Mutant: the revocation is kept in the status column only.
RevokedRowUndated(row, c) ==
    [row EXCEPT !.status = "REVOKED", !.pairing_status = "REVOKED",
                !.credential_hash = NULL]

\* credential_hash is cleared unless it was loaded as NULL.
RevokedRow(row, c) ==
    [row EXCEPT !.status = "REVOKED", !.pairing_status = "REVOKED",
                !.revoked_at = c.now,
                !.credential_hash = IF c.credential = NULL THEN @ ELSE NULL]

CommitRevoke(p) ==
    LET d == call[p].dev IN
    /\ call[p].op = "revoke"
    /\ device' = [device EXCEPT ![d] = RevokedRow(@, call[p])]
    /\ Becomes(p, Announce("DEVICE_REVOKED", {d}))
    /\ UNCHANGED <<clock, session, stored, events, issued, faults, contacts>>

StartRotate(p, d) ==
    /\ Registered(d)
    /\ device[d].status # "REVOKED"
    /\ Begins(p, "rotate", [op |-> "rotate", dev |-> d, now |-> LocalNow])
    /\ UNCHANGED <<clock, tables, issued, faults, contacts>>

CommitRotate(p, t) ==
    LET d == call[p].dev IN
    /\ call[p].op = "rotate"
    /\ t \notin issued
    /\ issued' = issued \cup {t}
    /\ device' = [device EXCEPT ![d] =
                    [@ EXCEPT !.credential_hash = t,
                              !.credential_expires_at = call[p].now + CredentialTTL]]
    /\ Becomes(p, Announce("DEVICE_CREDENTIAL_ROTATED", {d}))
    /\ UNCHANGED <<clock, session, stored, events, faults, contacts>>

---------------------------------------------------------------------------
(* Shared steps and the environment *)

\* create_event, one commit per device that the call reports on.
RecordEvent(p, d) ==
    /\ call[p].op = "announce"
    /\ d \in call[p].devs
    /\ Recorded(call[p].type, d)
    /\ Becomes(p, IF call[p].devs = {d} THEN Idle
                  ELSE Announce(call[p].type, call[p].devs \ {d}))
    /\ UNCHANGED <<clock, device, session, stored, issued, faults, contacts>>

\* A commit fails ("database is locked") or the process stops: the call is over.
Die(p) ==
    /\ call[p] # Idle
    /\ faults < MaxFaults
    /\ faults' = faults + 1
    /\ Becomes(p, Idle)
    /\ UNCHANGED <<clock, tables, issued, contacts>>

Tick ==
    /\ clock < MaxTime
    /\ clock' = clock + 1
    /\ UNCHANGED <<tables, issued, call, faults, contacts>>

---------------------------------------------------------------------------
Init ==
    /\ clock = 0
    /\ device = [d \in Devices |-> NoDevice]
    /\ session = [c \in Codes |-> NoSession]
    /\ stored = [x \in Devices \X Beats |-> 0]
    /\ events = {}
    /\ issued = {}
    /\ call = [p \in Threads |-> Idle]
    /\ faults = 0
    /\ heard = [d \in Devices |-> NULL]
    /\ delay = [d \in Devices |-> 0]

PairingStep(p) ==
    \/ \E c \in Codes, d \in Devices :
          RequestPairing(p, c, d) \/ CompletePairing(p, c, d)
    \/ \E c \in Codes : RequestPairing(p, c, NULL)
    \/ CommitExpired(p)
    \/ \E t \in Tokens : CommitRegister(p, t)
    \/ RegisterConflict(p)

AgentStep(p) ==
    \/ \E d \in Devices, t \in issued :
          \/ RefuseDevice(p, d, t)
          \/ \E b \in Beats : StartHeartbeat(p, d, t, b)
          \/ StartTelemetry(p, d, t)
    \/ CommitHeartbeat(p)
    \/ HeartbeatConflict(p)
    \/ CommitTelemetry(p)
    \/ CommitTouch(p)

OfflineStep(p) == StartOfflineCheck(p) \/ CommitOffline(p)

AdminStep(p) ==
    \/ \E d \in Devices : StartRevoke(p, d) \/ StartRotate(p, d)
    \/ CommitRevoke(p)
    \/ \E t \in Tokens : CommitRotate(p, t)

Next ==
    \/ Tick
    \/ \E p \in Threads :
          \/ PairingStep(p)
          \/ AgentStep(p)
          \/ OfflineStep(p)
          \/ AdminStep(p)
          \/ \E d \in Devices \cup {NULL} : RecordEvent(p, d)
          \/ Die(p)

Spec == Init /\ [][Next]_vars
---------------------------------------------------------------------------
(* The types of the tables and of the calls in flight. *)
TypeOK ==
    /\ clock \in Int
    /\ device \in [Devices -> DeviceRow]
    /\ session \in [Codes -> SessionRow]
    /\ stored \in [Devices \X Beats -> Nat]
    /\ events \subseteq EventTypes \X (Devices \cup {NULL})
    /\ issued \subseteq Tokens
    /\ call \in [Threads -> CallState]
    /\ faults \in Nat
    /\ heard \in [Devices -> Time]
    /\ delay \in [Devices -> Int]

---------------------------------------------------------------------------
(* Safety *)

\* An agent call that authentication let through and that is not over yet.
Admitted(p, d) ==
    call[p].op \in {"heartbeat", "telemetry", "touch"} /\ call[p].dev = d

(* Revocation is final whatever races with it: a call in flight may put     *)
(* ACTIVE or OFFLINE back into the status column and a rotation may store a *)
(* new credential, but revoked_at and pairing_status stay, and from the     *)
(* commit of the revocation on no further call of the device is let         *)
(* through, with any token (authenticate_device).                           *)
RevocationIsFinal ==
    [][\A d \in Devices : Revoked(d) =>
          /\ Revoked(d)'
          /\ device'[d].pairing_status = "REVOKED"
          /\ \A p \in Threads : Admitted(p, d)' => Admitted(p, d)]_vars

(* Devices and codes agree, however complete_pairing calls interleave and   *)
(* whatever an expiry writes over a used session: every registered device   *)
(* came in through a used code that was not meant for another device, and   *)
(* the device for which a used code was meant is registered.                *)
PairingMatchesCodes ==
    /\ \A d \in Devices : Registered(d) =>
          \E c \in Codes : /\ session[c].used_at # NULL
                           /\ session[c].intended_device_id \in {NULL, d}
    /\ \A c \in Codes :
          session[c].used_at # NULL /\ session[c].intended_device_id # NULL =>
             Registered(session[c].intended_device_id)

(* Once a code has been used no later complete_pairing gets as far as       *)
(* registering a device with it: only calls that had read it before can.    *)
UsedCodeIsClosed ==
    [][\A c \in Codes, p \in Threads :
          /\ session[c].used_at # NULL
          /\ call'[p].op = "register" /\ call'[p].code = c
          => call[p] = call'[p]]_vars

(* A heartbeat id is stored at most once for a device, however often and    *)
(* concurrently the agent retries it (record_heartbeat checks, then         *)
(* inserts; the unique index decides).                                      *)
HeartbeatStoredOnce == \A x \in Devices \X Beats : stored[x] <= 1

(* Every device shown as ACTIVE has a last_seen the offline check can age:  *)
(* none stays ACTIVE forever for want of one (mark_offline_devices skips    *)
(* rows whose last_seen is NULL).                                           *)
ActiveIsMonitored ==
    \A d \in Devices :
        device[d].status = "ACTIVE" => device[d].last_seen # NULL

\* Thread p has just selected device d for the offline check.
Selects(p, d) ==
    /\ call'[p].op = "markOffline" /\ call[p].op # "markOffline"
    /\ d \in call'[p].devs

(* The offline check selects a device only if nothing has been heard from   *)
(* it for OfflineAfter.  A contact that commits behind a younger one sets   *)
(* last_seen back, and then the check may come too early, but by no more    *)
(* than the time that contact took from its clock reading to its commit     *)
(* (record_heartbeat, managed_device_telemetry, mark_offline_devices).      *)
OnlyTheSilentAreMarked ==
    [][\A p \in Threads, d \in Devices : Selects(p, d) =>
          heard[d] # NULL /\ heard[d] < clock - OfflineAfter + delay[d]]_vars

\* Some call still has to record the event for the device.
WillRecord(type, d) ==
    \E p \in Threads : /\ call[p].op = "announce"
                       /\ call[p].type = type
                       /\ d \in call[p].devs

(* As long as no call died half-way, each pairing and each revocation has   *)
(* its security event, or the call that committed it is about to record it  *)
(* (docs/phase5.md: they "are represented by security events").             *)
AuditTrail ==
    faults = 0 => \A d \in Devices :
        /\ Registered(d) => \/ <<"DEVICE_PAIRED", d>> \in events
                            \/ WillRecord("DEVICE_PAIRED", d)
        /\ Revoked(d) => \/ <<"DEVICE_REVOKED", d>> \in events
                         \/ WillRecord("DEVICE_REVOKED", d)

---------------------------------------------------------------------------
(* Refinement: the credential life cycle of DeviceAuthorization *)

phase == [d \in Devices |-> IF ~Registered(d) THEN "unpaired"
                            ELSE IF Revoked(d) THEN "revoked" ELSE "paired"]
accepts == [d \in Devices |-> IF Revoked(d) THEN NULL
                              ELSE device[d].credential_hash]

Authorization == INSTANCE DeviceAuthorization WITH spent <- issued

(* The tables, read through phase and accepts, only ever move the way       *)
(* DeviceAuthorization allows: one grant per device, replacement by a token *)
(* never used before, and no credential in force after a revocation, even   *)
(* one that a racing rotation stores afterwards.                            *)
ImplementsAuthorization == Authorization!Spec

---------------------------------------------------------------------------
(* What the documentation says and the code does not do *)

(* A pairing code is one-time (docs/device-pairing.md: "one-time-use"): no  *)
(* more devices are registered than codes were used.                        *)
OneDevicePerCode ==
    Cardinality({d \in Devices : Registered(d)})
       <= Cardinality({c \in Codes : session[c].used_at # NULL})

(* Only the silent go OFFLINE (docs/phase5.md: "After                       *)
(* CCC_DEVICE_OFFLINE_AFTER_SECONDS without a heartbeat it becomes          *)
(* OFFLINE"), without the delay that OnlyTheSilentAreMarked grants.         *)
SilenceIsExact ==
    [][\A p \in Threads, d \in Devices : Selects(p, d) =>
          heard[d] # NULL /\ heard[d] < clock - OfflineAfter]_vars

(* After its revocation a device is refused rotation ("Device is revoked.", *)
(* rotate_managed_device_credential).                                       *)
RevokedIsNotRotated ==
    [][\A p \in Threads, d \in Devices :
          Revoked(d) /\ call'[p].op = "rotate" /\ call'[p].dev = d
             => call[p] = call'[p]]_vars
=============================================================================
