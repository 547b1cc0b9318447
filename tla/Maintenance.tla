----------------------------- MODULE Maintenance -----------------------------
(***************************************************************************)
(* The database file and those who touch it: the backend with its request  *)
(* handlers and its offline monitor (backend/main.py, managed/monitor.py), *)
(* and the operator's backups and restores (database/maintenance.py,       *)
(* scripts/database_maintenance.py).                                       *)
(*                                                                         *)
(* SQLite (external) keeps the pages that a transaction overwrites in a    *)
(* journal beside the file, found by the file's name.  A process that is   *)
(* killed in a commit leaves both, and whoever opens the file next rolls   *)
(* it back.  quick_check finds nothing wrong with a file of no pages,      *)
(* which is what opening a file that is absent makes of it.                *)
(* Any process may be killed between two steps; the operator stops the     *)
(* backend before a restore and does one restore at a time, as the guide   *)
(* asks (docs/database-backup-restore.md).                                 *)
(***************************************************************************)
EXTENDS Integers, FiniteSets

CONSTANTS
    Backups,     \* paths of backup files
    Commands,     \* maintenance commands that run at once
    MaxVersion,  \* bound: commits of the backend
    MaxKills,    \* bound: processes that are killed
    MaxRaised    \* bound: commands that raise half-way

ASSUME CommitAssumption == MaxVersion \in Nat /\ MaxKills \in Nat /\ MaxRaised \in Nat
ASSUME PathAssumption == Backups \cap {"live", "temp"} = {}

VARIABLES
    file,        \* what each path holds
    journal,     \* what the journal beside it would roll it back to
    server,      \* the backend process
    monitor,     \* its offline monitor
    writing,     \* which of its threads is in the middle of a commit
    version,     \* commits so far
    command,     \* the maintenance commands
    promised,    \* history: what the live database is supposed to hold
    past,        \* history: what it has been supposed to hold so far
    mispaired,   \* history: a restore has put its file beside another one's journal
    reported,    \* history: backups that were reported as done
    kills,       \* processes killed
    raised       \* commands that raised

backendVars == <<server, monitor, writing, version>>
historyVars == <<promised, past, mispaired, reported>>
databaseVars == <<file, journal, backendVars, command, historyVars, kills, raised>>

---------------------------------------------------------------------------
(* SQLite *)

\* A file holds the lab's data as of a commit (0: the tables, and no data), or
\* one of these.  Torn: some pages of a transaction that has not ended.
ABSENT == -1
EMPTY == -2
TORN == -3
BROKEN == -4
Data == 0..MaxVersion
Contents == Data \cup {ABSENT, EMPTY, TORN, BROKEN}
Files == {"live", "temp"} \cup Backups

Exists(f) == file[f] # ABSENT

\* What a file holds once it has been opened.
Opened(f) ==
    IF ~Exists(f) THEN ABSENT
    ELSE IF journal[f] = ABSENT THEN file[f]
    ELSE IF file[f] \in {TORN, journal[f]} THEN journal[f]
    ELSE IF file[f] = EMPTY THEN EMPTY
    ELSE BROKEN

Copying(c, f) == c.op = "copying" /\ c.target = f

\* Nobody else is in the middle of a transaction on it.
Unlocked(f) ==
    /\ f = "live" => writing = "nobody"
    /\ \A q \in Commands : ~Copying(command[q], f)

---------------------------------------------------------------------------
(* Maintenance commands *)

NoCommand == [op |-> "idle"]
Kinds == {"backup", "restore"}
Stages == {"begin", "open", "copying", "finish"}
\* "trusted" is history: the source was a reported backup when the restore began.
CommandState ==
    {NoCommand} \cup [op : Stages, kind : Kinds, source : Files, target : Files,
                 replace : BOOLEAN, trusted : BOOLEAN]

Proceed(p, c) == command' = [command EXCEPT ![p] = c]
Promise(content) == promised' = content /\ past' = past \cup {content}
At(c, op) == [c EXCEPT !.op = op]
Restoring == \E q \in Commands : command[q] # NoCommand /\ command[q].kind = "restore"

NewDestination(d) == ~Exists(d)

\* verify_sqlite_file(source), then the check of the destination.
StartBackup(p, d) ==
    /\ command[p] = NoCommand
    /\ Exists("live") /\ Unlocked("live")
    /\ file' = [file EXCEPT !["live"] = Opened("live")]
    /\ journal' = [journal EXCEPT !["live"] = ABSENT]
    /\ Proceed(p, IF NewDestination(d)
                  THEN [op |-> "begin", kind |-> "backup", source |-> "live", target |-> d,
                        replace |-> FALSE, trusted |-> FALSE]
                  ELSE NoCommand)
    /\ UNCHANGED <<backendVars, historyVars, kills, raised>>

StartRestore(p, s, replace) ==
    /\ command[p] = NoCommand
    /\ ~Restoring /\ server = "down"
    /\ Exists(s) /\ Unlocked(s)
    /\ file' = [file EXCEPT ![s] = Opened(s)]
    /\ journal' = [journal EXCEPT ![s] = ABSENT]
    /\ Proceed(p, IF (Exists("live") => replace) /\ ~Exists("temp")
                  THEN [op |-> "begin", kind |-> "restore", source |-> s, target |-> "temp",
                        replace |-> replace, trusted |-> s \in reported]
                  ELSE NoCommand)
    /\ UNCHANGED <<backendVars, historyVars, kills, raised>>

\* The file a copy is written into.  Mutant: the live file itself.
WrittenInPlace(c) == IF c.kind = "restore" THEN "live" ELSE c.target
Written(c) == c.target

\* What the copy would be rolled back to.  Mutants: the file is cut off first;
\* it is copied as any file, without a transaction.
CutOff(t) == EMPTY
CopiedAsBytes(t) == ABSENT
Before(t) == Opened(t)

\* sqlite3.connect: a destination that is absent becomes a file of no pages, on
\* which nobody has a lock.
Connect(p) ==
    LET t == Written(command[p]) IN
    /\ command[p].op = "begin"
    /\ file' = [file EXCEPT ![t] = IF @ = ABSENT THEN EMPTY ELSE @]
    /\ Proceed(p, [At(command[p], "open") EXCEPT !.target = t])
    /\ UNCHANGED <<journal, backendVars, historyVars, kills, raised>>

\* Connection.backup overwrites the destination in one transaction.
BeginCopy(p) ==
    LET t == command[p].target IN
    /\ command[p].op = "open"
    /\ Unlocked(t)
    /\ journal' = [journal EXCEPT ![t] = Before(t)]
    /\ file' = [file EXCEPT ![t] = TORN]
    /\ Proceed(p, At(command[p], "copying"))
    /\ UNCHANGED <<backendVars, historyVars, kills, raised>>

\* The pages of the source are read under one lock.
EndCopy(p) ==
    LET s == command[p].source
        t == command[p].target
    IN
    /\ command[p].op = "copying"
    /\ Unlocked(s)
    /\ Exists(s)
    /\ file' = [file EXCEPT ![s] = Opened(s), ![t] = Opened(s)]
    /\ journal' = [journal EXCEPT ![s] = ABSENT, ![t] = ABSENT]
    /\ Proceed(p, At(command[p], "finish"))
    /\ UNCHANGED <<backendVars, historyVars, kills, raised>>

\* verify_sqlite_file(destination)
FinishBackup(p) ==
    /\ command[p].op = "finish" /\ command[p].kind = "backup"
    /\ Unlocked(command[p].target)
    /\ reported' = reported \cup {command[p].target}
    /\ Proceed(p, NoCommand)
    /\ UNCHANGED <<file, journal, backendVars, promised, past, mispaired, kills, raised>>

\* The journal that the replaced file had is found by the file put in its place.
StaleJournal(f) == journal[f] # ABSENT

\* verify_sqlite_file(temporary), os.replace
FinishRestore(p) ==
    /\ command[p].op = "finish" /\ command[p].kind = "restore"
    /\ Exists("live") => command[p].replace
    /\ file' = [file EXCEPT !["live"] = file["temp"], !["temp"] = ABSENT]
    /\ Promise(file["temp"])
    /\ mispaired' = (mispaired \/ StaleJournal("live"))
    /\ Proceed(p, NoCommand)
    /\ UNCHANGED <<journal, backendVars, reported, kills, raised>>

\* An exception rolls the transaction back; a restore removes its file as well.
FailCommand(p) ==
    LET t == command[p].target
        rolled == command[p].op = "copying"
    IN
    /\ command[p] # NoCommand
    /\ raised < MaxRaised
    /\ raised' = raised + 1
    /\ file' = [file EXCEPT ![t] = IF command[p].kind = "restore" THEN ABSENT
                                   ELSE IF rolled THEN Opened(t) ELSE @]
    /\ journal' = [journal EXCEPT ![t] = IF rolled THEN ABSENT ELSE @]
    /\ Proceed(p, NoCommand)
    /\ UNCHANGED <<backendVars, historyVars, kills>>

KillCommand(p) ==
    /\ command[p] # NoCommand
    /\ kills < MaxKills
    /\ kills' = kills + 1
    /\ Proceed(p, NoCommand)
    /\ UNCHANGED <<file, journal, backendVars, historyVars, raised>>

\* The operator deletes the temporary file that a killed restore has left.
CleanUp ==
    /\ Exists("temp") /\ ~Restoring
    /\ file' = [file EXCEPT !["temp"] = ABSENT]
    /\ UNCHANGED <<journal, backendVars, command, historyVars, kills, raised>>

---------------------------------------------------------------------------
(* The backend *)

\* init_db: what has no tables gets them; a broken file may be noticed or not.
StartServer ==
    LET found == Opened("live")
        fresh == found \in {ABSENT, EMPTY}
    IN
    /\ server = "down" /\ ~Restoring
    /\ Unlocked("live")
    /\ file' = [file EXCEPT !["live"] = IF fresh THEN 0 ELSE found]
    /\ journal' = [journal EXCEPT !["live"] = ABSENT]
    /\ IF fresh THEN Promise(0) ELSE UNCHANGED <<promised, past>>
    /\ \/ server' = "up" /\ monitor' = "waiting"
       \/ found = BROKEN /\ UNCHANGED <<server, monitor>>
    /\ UNCHANGED <<writing, version, command, mispaired, reported, kills, raised>>

\* A handler, or the check of the monitor, commits.
MayCommit(w) ==
    \/ w = "handler" /\ server = "up"
    \/ w = "check" /\ monitor \in {"checking", "orphaned"}

BeginCommit(w) ==
    /\ writing = "nobody" /\ MayCommit(w)
    /\ version < MaxVersion
    /\ writing' = w
    /\ journal' = [journal EXCEPT !["live"] = file["live"]]
    /\ file' = [file EXCEPT !["live"] = TORN]
    /\ UNCHANGED <<server, monitor, version, command, historyVars, kills, raised>>

EndCommit ==
    /\ writing # "nobody"
    /\ writing' = "nobody"
    /\ version' = version + 1
    /\ file' = [file EXCEPT !["live"] = version + 1]
    /\ journal' = [journal EXCEPT !["live"] = ABSENT]
    /\ Promise(version + 1)
    /\ UNCHANGED <<server, monitor, command, mispaired, reported, kills, raised>>

\* monitor_managed_devices: a check in a thread, then a wait; the stop event is
\* looked at before every check.  Mutant: it is not looked at.
ChecksForEver == monitor = "waiting" /\ server # "down"
ChecksAgain == monitor = "waiting" /\ server = "up"

BeginCheck ==
    /\ ChecksAgain
    /\ monitor' = "checking"
    /\ UNCHANGED <<file, journal, server, writing, version, command, historyVars, kills, raised>>

EndCheck ==
    /\ monitor \in {"checking", "orphaned"}
    /\ writing # "check"
    /\ monitor' = IF monitor = "checking" THEN "waiting" ELSE "off"
    /\ UNCHANGED <<file, journal, server, writing, version, command, historyVars, kills, raised>>

\* The server has answered its requests and leaves its lifespan.
StopServer ==
    /\ server = "up" /\ writing # "handler"
    /\ server' = "stopping"
    /\ UNCHANGED <<file, journal, monitor, writing, version, command, historyVars, kills, raised>>

MonitorStops ==
    /\ server = "stopping" /\ monitor = "waiting"
    /\ monitor' = "off"
    /\ UNCHANGED <<file, journal, server, writing, version, command, historyVars, kills, raised>>

\* wait_for gives up after five seconds: the task is cancelled, its thread is not.
GiveUpWaiting ==
    /\ server = "stopping" /\ monitor = "checking"
    /\ monitor' = "orphaned"
    /\ UNCHANGED <<file, journal, server, writing, version, command, historyVars, kills, raised>>

\* The process ends when the threads of its executor have ended.
Exit ==
    /\ server = "stopping" /\ monitor = "off"
    /\ server' = "down"
    /\ UNCHANGED <<file, journal, monitor, writing, version, command, historyVars, kills, raised>>

KillServer ==
    /\ server # "down"
    /\ kills < MaxKills
    /\ kills' = kills + 1
    /\ server' = "down" /\ monitor' = "off" /\ writing' = "nobody"
    /\ UNCHANGED <<file, journal, version, command, historyVars, raised>>

---------------------------------------------------------------------------

DatabaseInit ==
    /\ file = [f \in Files |-> IF f = "live" THEN 0 ELSE ABSENT]
    /\ journal = [f \in Files |-> ABSENT]
    /\ server = "down" /\ monitor = "off" /\ writing = "nobody"
    /\ version = 0
    /\ command = [p \in Commands |-> NoCommand]
    /\ promised = 0 /\ past = {0} /\ mispaired = FALSE /\ reported = {}
    /\ kills = 0 /\ raised = 0

Command(p) ==
    \/ \E d \in Backups : StartBackup(p, d)
    \/ \E s \in Backups, replace \in BOOLEAN : StartRestore(p, s, replace)
    \/ Connect(p)
    \/ BeginCopy(p)
    \/ EndCopy(p)
    \/ FinishBackup(p)
    \/ FinishRestore(p)
    \/ FailCommand(p)
    \/ KillCommand(p)

Monitor == BeginCheck \/ EndCheck \/ MonitorStops \/ GiveUpWaiting

Backend ==
    \/ StartServer
    \/ \E w \in {"handler", "check"} : BeginCommit(w)
    \/ EndCommit
    \/ Monitor
    \/ StopServer
    \/ Exit
    \/ KillServer

DatabaseNext == CleanUp \/ Backend \/ \E p \in Commands : Command(p)

\* A commit ends, a check ends, the loop looks at its stop event, a process that
\* has nothing left to do exits.
Fairness ==
    /\ WF_databaseVars(EndCommit)
    /\ WF_databaseVars(EndCheck)
    /\ WF_databaseVars(MonitorStops)
    /\ WF_databaseVars(Exit)

DatabaseSpec == DatabaseInit /\ [][DatabaseNext]_databaseVars /\ Fairness

---------------------------------------------------------------------------
(* Properties *)

(* Every variable has its type.                                            *)
DatabaseTypeOK ==
    /\ file \in [Files -> Contents]
    /\ journal \in [Files -> Contents \ {TORN}]
    /\ server \in {"down", "up", "stopping"}
    /\ monitor \in {"off", "waiting", "checking", "orphaned"}
    /\ writing \in {"nobody", "handler", "check"}
    /\ version \in Data
    /\ command \in [Commands -> CommandState]
    /\ promised \in past /\ past \subseteq Contents
    /\ mispaired \in BOOLEAN
    /\ reported \subseteq Backups
    /\ kills \in 0..MaxKills
    /\ raised \in 0..MaxRaised

(* Whatever is killed in whatever step, the live database opens as the     *)
(* last commit that was confirmed or the last restore that was reported:   *)
(* a restore that does not get to its end changes nothing.  The exception  *)
(* is a restore over a database whose backend was killed in a commit       *)
(* (restore_sqlite_file, os.replace).                                      *)
LiveIsPromised == mispaired \/ Opened("live") = promised

(* A backup that was reported as done opens as something that the live     *)
(* database has held, even if another command of the same destination has  *)
(* overtaken the check and dies while it writes (backup_sqlite_file).      *)
BackupsAreWhole == mispaired \/ \A d \in reported : Opened(d) \in past

(* A restore that begins from a backup reported as done never puts         *)
(* anything in place that the live database has not held, although another *)
(* backup of the same path may be opening, writing or dying in it between  *)
(* the check of the file and its copy (verify_sqlite_file,                 *)
(* restore_sqlite_file).                                                   *)
ReportedBackupsRestore ==
    [][\A p \in Commands :
          command[p] # NoCommand /\ command[p].trusted /\ command'[p] = NoCommand =>
             mispaired \/ promised' \in past]_databaseVars

(* A backend that was told to stop gets to its end, even when the wait for *)
(* its monitor times out (_make_lifespan, monitor_managed_devices).        *)
StopEnds == server = "stopping" ~> server = "down"

(* What the restore has verified is what the live database then opens as   *)
(* ("Restore writes and verifies a temporary database before replacement"). *)
RestoredIsServed == Opened("live") = promised
=============================================================================
