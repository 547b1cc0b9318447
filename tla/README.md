# Cyber Command Center: TLA+ models, checks and proofs

Cyber Command Center is a local security lab: a FastAPI backend on SQLite, a
dashboard, a Windows agent on managed devices and an Android companion.  This
directory holds TLA+ specifications of the parts whose correctness depends on
the order in which concurrent requests, retries and failures happen, the TLC
configurations that check them on small instances, and TLAPS proofs of the
properties that matter most.

All paths below are relative to `src/`.

## 1. The system

| component | state | operations | talks to |
|---|---|---|---|
| managed devices (`backend/managed`, `backend/models/managed_device.py`, `backend/api/routes.py` 745-1044) | tables `managed_devices`, `pairing_sessions`, `device_heartbeats` | request and complete a pairing, authenticate, heartbeat, telemetry, offline check, revoke, rotate | events through `create_event`; called by agent, dashboard and the offline monitor |
| remote actions (`backend/api/routes.py` 937-999, `agent/windows_agent.py`) | table `remote_actions`; the agent's loop and backoff | request, poll, report | agent over HTTP, rate limiter |
| detection engine (`backend/detection/engine.py`, `rules.py`) | tables `security_events`, `alerts`, `detection_rules` | `create_event`, `upsert_alert`, acknowledge, resolve | called from every handler; calls the lab risk |
| lab risk (`backend/detection/risk.py`) | table `risk_snapshots` | collect, record a snapshot, risk rules | reads alerts, scans, devices, events |
| device telemetry and device risk (`backend/api/routes.py` 1016-1044, `backend/detection/risk.py` 302-366) | table `device_risk_snapshots`, telemetry ids in the events | report, calculate the risk of a device | the newest events of the lab; called from every device view |
| network monitor (`backend/network/monitor.py`) | table `devices` | discover, `record_scan`, mark as known | `create_event` |
| rate limiter and API key (`backend/core/security.py`) | buckets in memory, under a lock | allow, record a refusal | every route; `create_event` |
| Windows agent (`agent/`) | device id file, DPAPI token file | pair, one pass, loop | the backend over HTTP |
| application life cycle (`backend/main.py`, `backend/managed/monitor.py`) | the monitor task and its stop event | start, poll, stop | offline check |
| database (`backend/database`) | schema version, backup files | synchronise columns, back up, restore | the SQLite file |
| timeline, configuration, logging | none after start-up | read, parse, format | |
| APK Guard, WebSec Lab, Hash Lab | one row per scan (Hash Lab: none) | analyse an upload, a URL, a password | `create_event` |
| dashboard (`frontend/static/dashboard.js`) | page, token, filters, one content area, banner and indicator | render the page, poll, search, change, save a token | the API |
| Android companion | client-side only | poll and render | the API |

What makes the behaviour hard: handlers are plain functions in a thread pool,
each with a database session of its own.  A SELECT sees what is committed and
locks nothing, writes appear at `commit`, the ORM writes only the columns whose
value differs from the loaded one and finds the row by its primary key alone.
So every handler is a check followed, later, by a write, and there are few
unique columns to decide races.  `create_event` commits several times and
swallows its own failures.  The dashboard is one thread, but each of its renderings
asks, waits and then writes into the same content area.  Agents retry over HTTP without idempotent ids, with
a backoff against a rate limit they share.

What makes each component correct, in short:

- managed devices: a revocation is final; a code admits one device; a heartbeat
  is stored once; only silent devices go offline; what happened is in the audit
  trail.
- remote actions: each requested action is answered, in order, once.
- alerts: one active alert per condition; a closed alert stays closed, and its
  closing is on record; counts are backed by events.
- risk: history adds up; escalations and recoveries can be looked up and mean
  what they say; the present picture gets recorded.
- network: a device per address, announced once; marks survive; missing devices
  go offline.
- dashboard: what the newest rendering writes is about the page, filter and token of
  now and contains the user's own changes; errors are explained; an open page gets
  to the present.
- device telemetry and risk: a retry adds no event; the history of a device adds up
  and gets to the present.
- rate limiter and API key: no more than the limit gets through, what is refused is
  refused for a reason, and refusals do not hide what they are about.
- Windows agent: a machine has one identity; an agent that is registered holds its
  credential, and one that holds it is heard.
- database maintenance: no crash loses the database, a reported backup is whole.
- application life cycle: a backend that is told to stop ends.

`PROJECT.json` lists the hazards of this code line by line, with the properties
that would catch each of them, and a note where the code permits a part of the
hazard, which the property then leaves out by its premise.

## 2. The modules

| module | models | instances |
|---|---|---|
| `ManagedDevices` | every handler of the managed-device service | `MCManagedDevices`: `devices`, `revoked_rotation` |
| `DeviceAuthorization` | the abstract life cycle of a credential; `ManagedDevices` implements it | property `ImplementsAuthorization` |
| `RemoteActions` | dashboard, server, rate limiter and agent loop together | `MCRemoteActions`: `remote_actions` |
| `AlertEngine` | `create_event`, the event rules, `upsert_alert`, reviews | `MCAlertEngine`: `alerts` |
| `RiskHistory` | `_collect_current_risk`, `record_risk_snapshot`, `calculate_lab_risk`, the risk rules that record events | `MCRiskHistory`: `risk_history` |
| `NetworkMonitor` | `record_scan`, `set_device_known` | `MCNetworkMonitor`: `network` |
| `DeviceActivity` | `managed_device_telemetry`, `calculate_device_risk`, `get_device_risk_history` | `MCDeviceActivity`: `device_activity` |
| `ApiGate` | `InMemoryRateLimiter`, `require_api_key`, the second buckets of routes, the rules about refusals | `MCApiGate`: `api_gate` |
| `AgentPairing` | the files and processes of the agent, and the server that pairs, rotates and revokes | `MCAgentPairing`: `agent_pairing` |
| `Maintenance` | backups and restores, SQLite's journal, the backend with its monitor and lifespan | `MCMaintenance`: `maintenance`, `restored_journal` |
| `Dashboard` | the rendering, polling and listeners of `dashboard.js`, over an abstract backend | `MCDashboard`: `dashboard` |
| `*Proofs` | theorems about the module of that name; `AgentProofs` is about `AgentPairing` and `RemoteActions`, `BackgroundProofs` about `NetworkMonitor` and `Maintenance`; so the specifications of `RemoteActions` and `Maintenance` are called `RemoteSpec` and `DatabaseSpec` | |

In the modules of the backend but `RemoteActions` a call in flight is `call[p]` (in `Maintenance`,
`command[p]`): the stage that thread `p` has reached and what it remembers, that is, the columns it loaded and
what it is about to commit.  One step reads, every commit is one step of its own,
and everything between two steps may happen.  The tables are functions from
keys to rows.  Operators whose comment begins with "Mutant" are not used by the
specification: they are faulty variants of the definition that follows them, to
show that the properties notice.

**ManagedDevices.**  `StartHeartbeat`, `StartTelemetry`, `StartOfflineCheck`,
`StartRevoke`, `StartRotate` and `CompletePairing` are the reads, up to the first
commit, with every early return; `Commit...` are the commits;
`HeartbeatConflict` and `RegisterConflict` are the commits that a unique column
refuses; `RecordEvent` is `create_event`'s first commit; `Die` ends a call between
two commits.  `CommitHeartbeat` writes `status` only if the loaded one was not
`ACTIVE` already, as the ORM does.  `CommitTouch` and `CommitRotate` use
`datetime.now()`, `UtcOffset` away from the clock that the offline check uses.
`heard` and `delay` are history variables: when the latest contact of a device was,
and, if the last contact to commit is an older one (a heartbeat reads the clock when it
looks for a repetition and commits later), how long it took.

**RemoteActions.**  The agent's `Pass` sends the next request of `run_once`;
`DropRequest` and `DropAnswer` are timeouts before and after the server acted, the
latter also leaving a report to be committed later (`CommitLate`); `Restart` is a
crash of the agent.  `Fresh`, `Admits` and `Charge` are the limiter's deque.

**AlertEngine.**  `RecordEvent`, `EvaluateEvent`, `SelectAlert`, `InsertAlert`,
`BumpAlert`, `AssessRisk` follow `create_event` and `upsert_alert` through their
commits; `LoadAlert`, `CommitReview`, `NoteReview` are acknowledgement and resolution;
`Fail` is the exception that `create_event` swallows; `Forget` lets events leave the
30-minute window.

**RiskHistory.**  `Collect` reads one source, `ReadLatest` and `ReadExisting` are the
two SELECTs of `record_risk_snapshot`, `InsertRow` its commit, which fails if the
signature exists by then; `Judge` is `evaluate_risk_rules` with the commit of its
events.  The module uses closed forms for what a capped source adds;
`MCRiskHistory` checks (`ScoreAgrees`) that they are what `_append_contribution`
computes signal by signal, for all weights up to 40, caps up to 36 and four
signals.

**NetworkMonitor.**  `SelectDevice`, `InsertDevice`, `AnnounceDevice`, `UpdateDevice`
record one address; `FailItem` is the rollback of an item; `FinishScan` is the loop
over devices that were not seen, where the comparison of times raises
(`ComparisonRaises`).

**DeviceActivity.**  `Report` is the telemetry handler up to its insert, with the look
for its id among the newest `DedupWindow` events; `Insert` is the first commit of
`create_event` and `Touch` the handler's own, between which `Die` may come.  `Read`,
`Count`, `Compare` and `Store` are the four looks at the database of
`calculate_device_risk`: the device with its alerts, the events, the latest snapshot,
and the insert.  `Score` has the points of the code.  `AlertsChange`, `GoOffline` and
`OtherEvent` stand for the modules that are about these.

**ApiGate.**  `Arrive` and `ReadClock` read the clock of `allow`, `Admit` and `Refuse`
are its section under the lock, and `Admitted` and `Refused` say what
`require_api_key` does next: another bucket, an event, or nothing.  A deque is kept as
everything that it admitted and the number that has left it, so that properties can
speak of the past; `Pops` says how many are left, with the loop's habit of stopping at
the first entry that is young enough.  `RecordEvent`, `EvaluateRules` and `FailEvent`
are the event of a refusal and the two rules that count it.

**AgentPairing.**  `FindId`, `DrawId`, `WriteId`, `PutId`, `MissId` are `device_id`, with
its temporary file; `Start` and `ShowId` are `main`; `CompletePairing`,
`RefusePairing`, `LoseAnswer`, `LoseRequest` are the ends of the pairing request, whose
server side is one step here; `SaveToken`, `PutToken` and `MissToken` are
`SecretStore.save`, with a temporary file of its own that two processes may share;
`Beat` and `Heartbeat` the loop.  `Kill` may come between any two.  Identities, codes
and credentials are numbered in the order in which they are drawn.

**Maintenance.**  A file holds the number of the commit whose data it has, or is
absent, empty, torn or broken; `journal` says what SQLite would roll it back to, and
`Opened` what comes of that.  `StartBackup` and `StartRestore` are the checks,
`Connect` is `sqlite3.connect`, which leaves a file of no pages that nobody has locked,
`BeginCopy` and `EndCopy` are `Connection.backup`, `FinishBackup` and `FinishRestore` the
verification and `os.replace`; `FailCommand` is the `finally`, which `KillCommand` is
without.  `StartServer` is `init_db`; `BeginCheck`, `EndCheck`, `MonitorStops`,
`GiveUpWaiting`, `Exit` are the monitor and the lifespan, whose wait may give up while
the check's thread lives on (`"orphaned"`).  `promised` and `past` are history
variables: what the live database should hold, and has held.

**Dashboard.**  What runs between two awaits is one step.  `Render` is
`renderCurrentPage` up to its first await; `Open`, `SaveToken`, `Choose` and `Poll` are
the listeners and the timer that call it, `Search` calls a page's function without
it, `Change` is a PATCH or POST and `FinishChange` its answer, after which the page
that is open by then is rendered.  `AskStats` is the second request of the overview,
`Show` the end of a rendering, in the content area whatever page is open by then.
The backend is the version of its data and its key; `Handle` serves a request at
some moment between its sending and its answer, `FailRequest` makes it fail (a
refusal by the rate limiter, too).  Authentication is enabled.  `latest` and `own`
are history variables: which rendering is the newest, and which version the user's
last confirmed change made.

## 3. The runs

Passing runs:

| run | question | bounds |
|---|---|---|
| `devices` | do revocation, heartbeats, the offline check, the credential life cycle, codes and audit trail survive every interleaving of the handlers? | 2 devices, 2 codes (bound and unbound), 3 tokens, 1 heartbeat id, 2 threads, clock to 2, 1 call dies; `Focus` |
| `alerts` | which duplicates, lost updates and half-done calls are possible, and what holds in spite of them? | 5 kinds of events, 4 alerts, 2 threads, 2 events, 2 reviews, 1 failure, thresholds 2 |
| `remote_actions` | does the agent answer everything in spite of the rate limit and lost messages? | 2 actions (one unknown to the agent), 4 requests per 9 units, backoff to 8, page of 2, 1 fault |
| `risk_history` | does the history add up, does it cover the events, and does it get to the present? | 2 sources, 2 threads of which one judges, 2 changes of the lab |
| `dashboard` | what can the user see when pages, filters, tokens, changes and polls overlap? | 4 pages (one of each kind), 2 requests, 2 tokens, 2 filter values, 1 change of the data, 1 failure |
| `network` | what do overlapping scans and failing items leave in the table? | 2 addresses, 3 rows, 2 scans, 1 failure, clock to 1 |
| `device_activity` | do retries add events, does the history of a device add up and catch up? | 1 device, 1 report, 2 threads, 3 events, windows of 1 and 2 events, 1 change of alerts or of being reachable, 1 call dies |
| `api_gate` | what gets through a limiter whose clock is read outside its lock, and is a burst of wrong keys noticed? | 1 client, 2 threads, 2 kinds of routes, 3 calls, limits 3 and 2, windows 1 and 2, a wait of 1 for the lock, clock to 3, 1 event lost |
| `agent_pairing` | do identity and credential survive kills, lost messages and two processes at once? | 2 processes, 2 identities, 2 codes, 2 credentials, 1 rotation, 1 fault |
| `maintenance` | what do killed and failing commands, and a killed backend, leave in the files? | 2 backup paths, 2 commands at once, 2 commits, 1 kill, 1 exception |

Each bound is the smallest at which the hazard can happen with room to spare:
two threads make every check-then-commit race, one fault separates any two
commits of a call, three tokens let a rotation follow a pairing and race with
another, a clock to 2 lets a code expire between the read and the commit of a
completion, three rows let one of two addresses be inserted twice, thresholds of
2 let the repeated rules fire within two events.  `Focus` in `devices` leaves out the product of two questions that do not meet:
either one device does everything (and a call dies before the clock reaches its
last value), or two devices with two codes pair and are revoked.  In `device_activity` a window of one event lets a report leave it behind a
single other event, as 300 do.  In `api_gate` the wait for the lock is as
long as the window, so that times enter a bucket out of order and an old entry gets
stuck; three calls exceed the smaller limits, and the threshold of the rule is
the limit for wrong keys, as in the code (5 and 5), of which `RuleAssumption` asks no more.
Two backup paths let a restore read one file while a backup writes the other, two
commits of the backend tell an old backup from the present.
In `dashboard` two requests can
overtake each other in every pair of kinds, with one change of the data to tell an
old answer from a new one.  In `remote_actions` the budget of
4 is less than a pass with two reports needs (5), so a backlog always meets the
limit, as 20 requests a minute meet a page of 20 actions; the window of 9 is
longer than the interval and one more than the longest backoff, as in the code
(60 s against 60 s, counted inclusively).  Symmetry is used for safety only.
`CHECK_DEADLOCK FALSE` is set where the bounds on the clock, the events and the
faults may leave nothing to do.

Runs that show a disagreement between the code and what it, its tests or its
documentation says:

| run | property | what happens |
|---|---|---|
| `revoked_rotation` | `RevokedIsNotRotated` | a heartbeat in flight overwrites `REVOKED`; rotation (and `request_managed_action`) look at `status` alone and accept the revoked device.  Authentication looks at `revoked_at` and stays closed (`RevocationIsFinal`) |
| `restored_journal` | `RestoredIsServed` | a backend that is killed in a commit leaves a journal; a restore replaces the database and not the journal, and the next start rolls it back into the restored file.  With real SQLite the result is "database disk image is malformed".  Otherwise restores are safe (`LiveIsPromised`) |

Five more disagreements are stated as definitions of the modules, without a run.
Each is shown by a configuration of one property:

| definition | in | how to see it |
|---|---|---|
| `OneDevicePerCode` | `ManagedDevices` | `devices.cfg` with this INVARIANT and no `Focus`: two concurrent completions of one unbound code register two devices, against `docs/device-pairing.md:21` |
| `OnlyTheSilentAreMarked` | `ManagedDevices` | `devices.cfg` with this PROPERTY and `UtcOffset <- WestOfUtc`: telemetry stores local time, the offline check compares with UTC, and a device is marked in the instant it was heard |
| `SilenceIsExact` | `ManagedDevices` | `devices.cfg` with this PROPERTY: telemetry commits after a heartbeat has read the clock and before it commits its older time, which sets `last_seen` back, and the device is marked although the telemetry is younger than the limit (`docs/phase5.md`: "After `CCC_DEVICE_OFFLINE_AFTER_SECONDS` without a heartbeat").  `OnlyTheSilentAreMarked` says by how much at most |
| `RecoveryIsReal` | `RiskHistory` | `risk_history.cfg` with one thread and this INVARIANT: a snapshot with the same signature is returned with its old change, and a recovery is recorded although the risk did not fall |
| `MissingGoesOffline` | `NetworkMonitor` | `network.cfg` with this PROPERTY, `OneIp`, `OneRow`, one thread and `MaxTime = 2` (the first time at which a device can be overdue): times are compared without and with zone, the exception is logged (`network/monitor.py:205`), and no device goes offline |

More disagreements were met and have no run.  Two concurrent events of one condition
select no active alert and both insert one, against `docs/detection-engine.md:3`
(`DuplicatesAreRaced` says how far that goes).  With data in the lab and without a
valid token, `renderOverview` reads `stats.overall_lab_risk` of a `stats` that is null
(`dashboard.js:210`), so the overview that "remains public" (`dashboard.js:568`) ends in
"API error" (`Outcome`).  A late answer of an older
rendering overwrites the newer page and stays until the next poll, and on `settings`
and `hashlab`, which are not polled, until the user does something; whatever is being
typed on a polled page is lost with every poll.  A heartbeat that loaded
`ACTIVE` does not write the column, so an offline check that commits in between
leaves the device `OFFLINE` with a fresh heartbeat (`docs/phase5.md:97`).
`MULTIPLE_ACTIVE_ALERTS` is tagged with the device of whichever event came last,
so one condition of the lab has an alert per device.  Telemetry that is repeated after 300 other events, or while
its first report is in flight, is stored again, although `docs/security-model.md:10`
promises replay protection (`RetriesAddNothing` says how far it goes).  An agent whose pairing
answer is lost, or whose credential was rotated, has no way back: its token file keeps
`main` from pairing, the server answers 409 to its identity, and nothing takes a rotated
credential (`docs/phase5.md:31`: "An admin can rotate them").  A file of no pages passes
`verify_sqlite_file`, and `sqlite3.connect` makes one of a destination before
`backup()` locks it (`database/maintenance.py:31` and 33).  So a restore of a path whose
backup has just begun, or has failed or been killed in between, puts an empty database in
place; `ReportedBackupsRestore` says that this does not happen to a backup that was
reported.  A backup that a second command of the
same destination overtakes is verified and reported before the second has written it.
`RATE_LIMITS["/api/pairing/complete"]` is used by no route, nor is `service._is_rate_limited`,
and the refusals of the routes' second buckets record no event.
The thresholds
`CCC_AUTH_FAILURE_*` of `docs/detection-engine.md` and the threshold 8 of
`RISK_RECOVERY` are not what the rules use.

## 4. Fairness

Six properties need it.  `ActionsAreAnswered` assumes that time passes, that
the agent's loop takes its turn (`run_forever` is a loop without another exit than
its stop event) and that the server finishes requests it accepted.  Nobody is
assumed to request, revoke, lose or restart anything, and faults are bounded.
`RiskIsRecorded` assumes that a thread that began an assessment goes on, which the
thread pool does, and that the dashboard asks again, which its timer does every
15 seconds (`dashboard.js`).  Handlers of events need not come.
`LivePagesCatchUp` assumes that the backend handles every request, that every
answer, be it an error, reaches the browser and is processed, and that the timer
fires.  Strong fairness of `Poll` stands for a timer that never waits: only the
model bounds the requests in flight, so a poll that finds both in use must not be
skipped for ever.  Nothing is assumed of the user.
`HolderIsHeard` assumes that a process of the agent that runs takes its next step and
that the server answers; starts, kills, rotations and losses are nobody's duty, and
faults are bounded.  `HistoryCatchesUp` assumes only that a call that has begun goes on.
Nothing in the repository reads a device again and again (the Android app does when its
page is opened), so the property says what comes of it if somebody does.  `StopEnds` assumes that a commit and a check end, that the monitor
looks at its stop event when its wait ends, and that a process whose threads have ended
exits; the wait need not give up.

## 5. The proofs

`tlapm` checks every theorem for all values of the constants under the named
assumptions (`NullAssumption`, `BoundAssumption`, ...), which TLC evaluates on the
instances.  So the theorems hold for any number of devices, codes, threads, alerts,
clients, backups, faults and kills, and any thresholds, limits and times.  Every
invariant and action property of the passing runs, the refinement included, is stated
by a theorem; what is left to TLC is listed at the end.

| theorem | states | argument |
|---|---|---|
| `ManagedDevicesProofs!TypeCorrect` | `TypeOK` | inductive as it stands |
| `...!ActiveDevicesAreMonitored` | `ActiveIsMonitored` | with `Consistent`: a row with `revoked_at` has `pairing_status` REVOKED and no row is ACTIVE without `last_seen`, and a call in flight has read a row that is still registered |
| `...!Revocation` | `RevocationIsFinal` | the same invariant: no commit writes `revoked_at` back to NULL, and no call is admitted when it is set |
| `...!Refinement` | `ImplementsAuthorization` | each commit of a registration, revocation or rotation is a step of `DeviceAuthorization`, every other step a stutter |
| `...!HeartbeatsAreStoredOnce` | `HeartbeatStoredOnce` | inductive with `TypeOK`: the unique column turns the second insert into a conflict |
| `...!DevicesMatchCodes`, `UsedCodesAreClosed` | `PairingMatchesCodes`, `UsedCodeIsClosed` | `CodesConsistent`: a used code was issued, and a call that is about to register found its code meant for nobody or for its own device.  Whom a code is meant for never changes, so it still fits at the commit, although `EXPIRED` may have been written over the session since |
| `...!OfflineCheckIsRight` | `OnlyTheSilentAreMarked` | `ContactsPast`: a contact in flight has read a time of the past; `LastSeenNotBehind`: `last_seen` is behind the latest contact by no more than the delay of an older one that committed after it.  Telemetry writes local time and heartbeats true time, so for a host at or ahead of UTC |
| `...!AuditTrailIsComplete` | `AuditTrail` | with `Consistent`: the commit of a pairing or revocation leaves a call that will record it, and only its death, a fault, keeps it from that |
| `AlertEngineProofs!TypeCorrect`, `Closing`, `Duplicates`, `Tracing` | `TypeOK`, `ClosedStaysClosed`, `DuplicatesAreRaced`, `StatusIsTraced` | `NoOwnTwin`: a thread that is about to insert has inserted no active alert of that condition and device itself; nobody else can make its earlier alert active again |
| `...!Repeats` | `RepeatsAreBacked` | `Booked`, below; for finitely many alerts and threads |
| `RiskHistoryProofs!Chaining`, `Recording` | `ChainedByOneThread`, `EventsAreOnRecord` | `BaseIsFresh`: what a thread read is never older than its own last insert; `JudgedIsOnRecord`: what is judged is in the history |
| `BackgroundProofs!TypeCorrect`, `Duplicates`, `Marks` | `TypeOK`, `DuplicatesAreRaced`, `MarkSurvivesScans` | `InFlight`: a scan about to insert has inserted no row of that address, one about to announce owns a row that has no event yet |
| `...!Announcements` | `NewDevicesAreAnnounced` | the same invariant: without faults the commit of a row is followed by its event, by the thread that wrote it |
| `...!Completeness` | `SeenIsRecorded` | `PassedAreRecorded`: every address that a scan has behind it has a row, or is the one that it is about to insert; rows are never deleted |
| `...!Live`, `Whole`, `Trusted` | `LiveIsPromised`, `BackupsAreWhole`, `ReportedBackupsRestore` of `Maintenance` | `DInv`, below |
| `...!Undisturbed` | `RestoredIsServed` while no process was killed | `DInv` again: the finding of `restored_journal` needs a kill |
| `DashboardProofs!TypeCorrect`, `Newest`, `OwnWrites`, `Errors` | `TypeOK`, `NewestIsRight`, `ReadsOwnWrites`, `ErrorsAreExplained` | `Pending`: what will be said of the newest content holds of its request already, as nothing changes page, filter or token without starting another rendering; `StatusIsOfOverview` carries it from the first request of the overview to the second |
| `ApiGateProofs!TypeCorrect`, `Admissions`, `Refusals` | `TypeOK`, `AdmissionsAreBounded`, `RefusalsAreDeserved` | `Sound`: admissions are in the order of the lock (`Ordered`), each with a time read at most `Lag` before (`Stamped`), and what was popped is older than the window less `Lag` (`Aged`); so the calls of a younger age are all among those still in the deque, and those in a full deque are all young enough |
| `...!Bursts` | `BurstRaisesAlert` | `Accounted` and `Judged`, below |
| `AgentProofs!TypeCorrect`, `Identity`, `Explained` | `TypeOK`, `OneIdentity`, `StrandedIsExplained` | `Alone`: as long as no two processes have drawn at once, who draws finds nothing in the file and its own identity in the temporary one, so nobody has an identity yet (`NobodyYet`); `SavedIsCurrent`: a credential about to be saved is that of its device until a rotation; `SavesAlone`: only one process saves, and the temporary file is its own; `Wanting`: who is to pair has a code |
| `...!Reports` | `ReportedOnce` of `RemoteActions` | `Budget`: the reports of an action, one that the server may still commit, and one for as long as the action waits with server or agent, are together at most one more than the faults |
| `...!Answers` | `AnsweredInOrder` of `RemoteActions` | `InOrder`: the agent's list is answered up to some action and from there on the head of the server's queue, and a report that comes late is that of the queue's first action or of one that is answered |
| `DeviceActivityProofs!TypeCorrect`, `Retries`, `Chaining` | `TypeOK`, `RetriesAddNothing`, `HistoryAddsUp` | `Sought`: every copy of a report about to be inserted is outside its window or newer than its look; `Single` and `Due`: while reads do not overlap only one thread reads a device, and what it is about to store continues the history |

Four of these need more than a look at the action that could break them.

*The counts of repeated alerts* (`Repeats`).  The repeat count of one alert is bounded by
nothing that can be read off the state: a lost update puts it back to what an older call
had loaded, while a newer call still has the greater count to write.  `Booked` says that
each alert has a peak, which neither its count nor any count in flight exceeds, and that
the peaks of a condition and its hits on the way add up to the hits counted at most.
Each step keeps some assignment of peaks: an insert starts one at 1, a bump raises one by
1 and takes its hit off the way.  A sum over a set is a function of its subsets that grows
by one member's share (`IsSum`); that it exists, is unique and grows by what one
summand grows (`SumExists`, `SumUnique`, `SumGrows`) is shown by looking at a smallest
subset that would be wrong, which well-foundedness of the strict subsets of a finite set
provides without an induction rule.

*Wrong keys* (`Bursts`).  `Accounted` says that every admission to the bucket for wrong keys
has an event, no older than itself and shared with no other admission, or a thread that
is about to record it; `Judged` that enough of those events within the rule's window have
raised the alert, unless the last is still to be judged.  A refusal means a full bucket
of young admissions, so at least as many young events as the rule asks for.

*What a file opens as* (`Live`, `Whole`, `Trusted`).  `DInv` has the types, who may write when
(`Processes`), what holds unless a restore went over a database with a stale journal
(`Right`: the live file opens as promised although it may be torn, as its journal
then leads back; a torn copy has its journal; what a backup has copied and is about to
verify opens as a state of the past, and so does what a restore has copied from a
reported backup), that such a restore still has a reported source (`Trusts`), and what
holds while nothing was killed (`Calm`: no journal without a commit).  Commits, kills, copies over each other's targets and
`os.replace` are each shown to keep it.

*Answers in order* (`Answers`).  The list that the agent polled is not a part of the
server's queue once an answer is lost; the number of its entries that are answered
already is what the proof carries along.

The hypotheses that single theorems add to the modules' assumptions:

| hypothesis | of | why it is justified |
|---|---|---|
| `UtcOffset >= 0` | `OfflineCheckIsRight` | it is false for hosts west of UTC, where the code marks devices that were just heard (section 3) |
| `Watched` has `DEVICE_PAIRED` and `DEVICE_REVOKED` | `AuditTrailIsComplete` | the model keeps only the events in `Watched`, the code keeps all |
| `Alerts` and `Threads` are finite | `Repeats` | a database file and a thread pool; a sum needs it |

`TypeOK` of `NetworkMonitor` bounds the announcements of a row, so it is not
inductive without `InFlight`.  `DInv` (with two kills) and `Booked` (with peaks as a
history) were checked by TLC before they were proved.

Model-checked only:

- The six liveness properties, `RiskIsRecorded`, `LivePagesCatchUp`, `HolderIsHeard`,
  `HistoryCatchesUp`, `ActionsAreAnswered` and `StopEnds`: fairness needs ENABLED, which
  `tlapm` does not reason about.
- `RemoteTypeOK` (the limiter's bound is the length of a `SelectSeq`) and
  `DatabaseTypeOK`, which no run names as a property; `RemoteTypes` and `FileTypes` are what
  the proofs need of them.
- The computed scores of `RiskHistory`, a fold over the sources, and that its closed
  forms agree with the loop (`ScoreAgrees`, for bounded weights and caps).

`ActiveIsMonitored`, `UsedCodeIsClosed` and the `TypeOK` of `AlertEngine`, `ApiGate`,
`AgentPairing` and `DeviceActivity` are proved and not part of a run; the `TypeOK` of the
other modules is a definition that the configurations name where it says more than types.

## 6. What is abstracted or left out

- Payloads, names, messages, severities, points of alerts, cooldown times and
  metadata, except where a rule looks at them.
- The rate limits in front of the managed-device routes: a refused call reads and
  writes nothing.  The limiter is in `ApiGate` and, as the agents meet it, in
  `RemoteActions`.
- The ageing of signals and the cut of a picture to ten contributors and eight reasons
  (two pictures that differ only behind the cut are one to the code).
- In `DeviceActivity`, who may report (`ManagedDevices`) and how alerts come and go
  (`AlertEngine`).  In `AgentPairing`, the races inside the server's handlers
  (`ManagedDevices`) and the encryption of the credential.
- In `Maintenance`, more than one restore at a time and restores while the backend runs:
  the guide excludes both and the code checks neither.  The additive columns and the
  schema version of `init_db`.
- Discovery, APK, web and hash analysis: I/O or pure functions of their input.
- Of the dashboard: markup, the two forms of HashLab (they write their own fields and
  render nothing), the disabling of pressed buttons (the next rendering brings
  enabled ones), and search fields and network filters as data (they hide rows when
  the rows are written).
- Timeline, configuration, logging and the Android app: they keep nothing that
  another part relies on.

## 7. Plan

Done, in this order: `DeviceAuthorization` and `ManagedDevices` with their proofs,
`AlertEngine`, `RemoteActions`, `RiskHistory`, `NetworkMonitor`, `Dashboard`, then
`ApiGate`, `Maintenance`, `AgentPairing` and `DeviceActivity`, and theorems for every
invariant and action property that a run checks.

Next:

1. `DatabaseTypeOK`, `RemoteTypeOK` and `TypeOK` of `RiskHistory`.
2. The scores of `RiskHistory`: that the closed forms of `ScoreAgrees` are what the loop
   computes for every number of signals, by the smallest counterexample as in `Repeats`.
3. The bucket of `RemoteActions` as an instance of `ApiGate`.
4. `Companion`: the Android app's navigation stack and its worker threads, which append
   to one content area and refresh pages without their parameters.
