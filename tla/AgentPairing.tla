----------------------------- MODULE AgentPairing -----------------------------
(***************************************************************************)
(* How an agent gets and keeps its identity and its credential: the        *)
(* processes of agent/windows_agent.py on one machine, the two files they  *)
(* share (device-id, and the token file of agent/credential_store.py), and *)
(* the side of the server that hands a credential out once                 *)
(* (complete_pairing in backend/managed/service.py, rotation and           *)
(* revocation in backend/api/routes.py; each is one step here, and the     *)
(* races between them are those of ManagedDevices).                        *)
(*                                                                         *)
(* Both files are written beside their place and then put there.  A        *)
(* process may be killed between any two steps, a request or its answer    *)
(* may be lost, and nothing keeps two processes from running at once: the  *)
(* guide has the operator show the identity before the first pairing       *)
(* (docs/device-pairing.md).  A failed pairing ends the process.           *)
(***************************************************************************)
EXTENDS Integers, Sequences

CONSTANTS
    Procs,       \* processes of the agent
    NULL,        \* nothing
    MaxIds,      \* bound: identities drawn
    MaxCodes,    \* bound: pairing codes created
    MaxTokens,   \* bound: credentials issued
    MaxFaults,   \* bound: messages lost and processes killed
    MaxRotations \* bound: credentials rotated

ASSUME NullAssumption == NULL \notin Nat
ASSUME BoundAssumption == {MaxIds, MaxCodes, MaxTokens, MaxFaults, MaxRotations} \subseteq Nat

VARIABLES
    idFile,      \* what device-id holds
    idTmp,       \* what device-id.tmp holds
    tokenFile,   \* what agent-token.dpapi holds
    tokenTmp,    \* what agent-token.dpapi.tmp holds
    proc,        \* what each process is doing
    drawn,       \* how many identities have been drawn
    session,     \* the pairing sessions of the server, by their codes
    device,      \* the managed devices of the server
    issued,      \* how many credentials have been issued
    shown,       \* identities that --show-device-id has printed
    heard,       \* devices whose heartbeat was accepted
    overlapped,  \* history: two processes have drawn an identity at once
    faults,      \* messages lost and processes killed
    rotations    \* credentials rotated

agentVars == <<idFile, idTmp, tokenFile, tokenTmp, drawn, shown, overlapped>>
serverVars == <<session, device, issued, heard, rotations>>
vars == <<agentVars, serverVars, proc, faults>>

---------------------------------------------------------------------------
(* Types *)

\* What is drawn at random never repeats: the n-th draw is the number n.
Ids == 1..MaxIds
Codes == 1..MaxCodes
Tokens == 1..MaxTokens

\* What an identity is wanted for.
Goals == {"show", "pair", "log", "beat"}
Off == [op |-> "off"]
ProcState ==
    {Off}
    \cup [op : {"look"}, goal : Goals, code : Codes \cup {NULL}]
    \cup [op : {"write", "replace"}, goal : Goals, code : Codes \cup {NULL}, id : Ids]
    \cup [op : {"ask"}, code : Codes, id : Ids]
    \cup [op : {"save", "put"}, id : Ids, token : Tokens]
    \cup [op : {"loop"}]
    \cup [op : {"send"}, id : Ids, token : Tokens]

\* Used and expired sessions are refused alike.
SessionState == [open : BOOLEAN, bound : Ids \cup {NULL}]
Closed == [open |-> FALSE, bound |-> NULL]

NoDevice == [status |-> "ABSENT"]
Revoked == [status |-> "REVOKED"]
DeviceState == {NoDevice} \cup {Revoked} \cup [status : {"PAIRED"}, token : Tokens]

Becomes(p, s) == proc' = [proc EXCEPT ![p] = s]
Looking(goal, code) == [op |-> "look", goal |-> goal, code |-> code]
Paired(id) == device[id].status = "PAIRED"

---------------------------------------------------------------------------
(* WindowsAgent.device_id *)

\* What a process does once it has the identity.
Proceed(p, s, id) ==
    /\ \/ s.goal = "show" /\ Becomes(p, Off) /\ shown' = shown \cup {id}
       \/ s.goal = "pair" /\ Becomes(p, [op |-> "ask", code |-> s.code, id |-> id])
                          /\ UNCHANGED shown
       \/ s.goal = "log" /\ Becomes(p, [op |-> "loop"]) /\ UNCHANGED shown
       \/ s.goal = "beat" /\ UNCHANGED shown
          /\ Becomes(p, IF tokenFile = NULL THEN [op |-> "loop"]
                        ELSE [op |-> "send", id |-> id, token |-> tokenFile])

FindId(p) ==
    /\ proc[p].op = "look"
    /\ idFile # NULL
    /\ Proceed(p, proc[p], idFile)
    /\ UNCHANGED <<idFile, idTmp, tokenFile, tokenTmp, drawn, overlapped, serverVars, faults>>

Drawing(q) == proc[q].op \in {"write", "replace"}

DrawId(p) ==
    /\ proc[p].op = "look"
    /\ idFile = NULL
    /\ drawn < MaxIds
    /\ drawn' = drawn + 1
    /\ overlapped' = (overlapped \/ \E q \in Procs \ {p} : Drawing(q))
    /\ Becomes(p, [op |-> "write", goal |-> proc[p].goal, code |-> proc[p].code, id |-> drawn'])
    /\ UNCHANGED <<idFile, idTmp, tokenFile, tokenTmp, shown, serverVars, faults>>

WriteId(p) ==
    /\ proc[p].op = "write"
    /\ idTmp' = proc[p].id
    /\ Becomes(p, [proc[p] EXCEPT !.op = "replace"])
    /\ UNCHANGED <<idFile, tokenFile, tokenTmp, drawn, shown, overlapped, serverVars, faults>>

\* Mutant: the identity is not put in its place.
PutIdNowhere(p) ==
    /\ proc[p].op = "replace"
    /\ Proceed(p, proc[p], proc[p].id)
    /\ UNCHANGED <<idFile, idTmp, tokenFile, tokenTmp, drawn, overlapped, serverVars, faults>>

\* os.replace takes whatever is in device-id.tmp by now, and the process goes on
\* with the identity that it drew.
PutId(p) ==
    /\ proc[p].op = "replace"
    /\ idTmp # NULL
    /\ idFile' = idTmp
    /\ idTmp' = NULL
    /\ Proceed(p, proc[p], proc[p].id)
    /\ UNCHANGED <<tokenFile, tokenTmp, drawn, overlapped, serverVars, faults>>

\* Mutant: the move is tried until it succeeds.
MissIdForEver(p) ==
    /\ proc[p].op = "replace"
    /\ idTmp = NULL
    /\ UNCHANGED vars

\* Another process has taken it, or is writing it, and Windows does not move a file
\* that is open: os.replace raises, which only the loop survives.
MissId(p) ==
    /\ proc[p].op = "replace"
    /\ idTmp = NULL \/ \E q \in Procs \ {p} : proc[q].op = "write"
    /\ Becomes(p, IF proc[p].goal = "beat" THEN [op |-> "loop"] ELSE Off)
    /\ UNCHANGED <<agentVars, serverVars, faults>>

---------------------------------------------------------------------------
(* main, pair, run_forever *)

ShowId(p) ==
    /\ proc[p] = Off
    /\ Becomes(p, Looking("show", NULL))
    /\ UNCHANGED <<agentVars, serverVars, faults>>

WantsPairing(code) == code # NULL /\ tokenFile = NULL

Start(p, code) ==
    /\ proc[p] = Off
    /\ Becomes(p, IF WantsPairing(code) THEN Looking("pair", code) ELSE Looking("log", NULL))
    /\ UNCHANGED <<agentVars, serverVars, faults>>

\* SecretStore.save: the temporary file, then os.replace of what is in it by now.
SaveToken(p) ==
    /\ proc[p].op = "save"
    /\ tokenTmp' = proc[p].token
    /\ Becomes(p, [proc[p] EXCEPT !.op = "put"])
    /\ UNCHANGED <<idFile, idTmp, tokenFile, drawn, shown, overlapped, serverVars, faults>>

PutToken(p) ==
    /\ proc[p].op = "put"
    /\ tokenTmp # NULL
    /\ tokenFile' = tokenTmp
    /\ tokenTmp' = NULL
    /\ Becomes(p, Looking("log", NULL))
    /\ UNCHANGED <<idFile, idTmp, drawn, shown, overlapped, serverVars, faults>>

\* As in MissId, but pair does not survive it.
MissToken(p) ==
    /\ proc[p].op = "put"
    /\ tokenTmp = NULL \/ \E q \in Procs \ {p} : proc[q].op = "save"
    /\ Becomes(p, Off)
    /\ UNCHANGED <<agentVars, serverVars, faults>>

Beat(p) ==
    /\ proc[p].op = "loop"
    /\ Becomes(p, Looking("beat", NULL))
    /\ UNCHANGED <<agentVars, serverVars, faults>>

\* The process is killed, or stopped.
Kill(p) ==
    /\ proc[p] # Off
    /\ faults < MaxFaults
    /\ faults' = faults + 1
    /\ Becomes(p, Off)
    /\ UNCHANGED <<agentVars, serverVars>>

---------------------------------------------------------------------------
(* The server *)

\* Mutant: a device that is registered already gets another credential.
FitsAgain(code, id) ==
    /\ session[code].open
    /\ session[code].bound \in {NULL, id}

\* complete_pairing: the code is good, meant for this device, and it is new.
Fits(code, id) ==
    /\ session[code].open
    /\ session[code].bound \in {NULL, id}
    /\ device[id] = NoDevice

Register(code, id) ==
    /\ issued < MaxTokens
    /\ issued' = issued + 1
    /\ session' = [session EXCEPT ![code] = Closed]
    /\ device' = [device EXCEPT ![id] = [status |-> "PAIRED", token |-> issued']]

CompletePairing(p) ==
    LET s == proc[p] IN
    /\ s.op = "ask"
    /\ Fits(s.code, s.id)
    /\ Register(s.code, s.id)
    /\ Becomes(p, [op |-> "save", id |-> s.id, token |-> issued'])
    /\ UNCHANGED <<agentVars, heard, rotations, faults>>

\* 401, 403, 409: the exception leaves main.
RefusePairing(p) ==
    /\ proc[p].op = "ask"
    /\ ~Fits(proc[p].code, proc[p].id)
    /\ Becomes(p, Off)
    /\ UNCHANGED <<agentVars, serverVars, faults>>

\* The answer is lost: the device is registered, and the process ends.
LoseAnswer(p) ==
    LET s == proc[p] IN
    /\ s.op = "ask"
    /\ faults < MaxFaults
    /\ faults' = faults + 1
    /\ Fits(s.code, s.id)
    /\ Register(s.code, s.id)
    /\ Becomes(p, Off)
    /\ UNCHANGED <<agentVars, heard, rotations>>

\* A request that does not arrive: pairing ends the process, the loop goes on.
LoseRequest(p) ==
    /\ proc[p].op \in {"ask", "send"}
    /\ faults < MaxFaults
    /\ faults' = faults + 1
    /\ Becomes(p, IF proc[p].op = "ask" THEN Off ELSE [op |-> "loop"])
    /\ UNCHANGED <<agentVars, serverVars>>

\* authenticate_device
Accepts(id, t) == Paired(id) /\ device[id].token = t

Heartbeat(p) ==
    LET s == proc[p] IN
    /\ s.op = "send"
    /\ heard' = IF Accepts(s.id, s.token) THEN heard \cup {s.id} ELSE heard
    /\ Becomes(p, [op |-> "loop"])
    /\ UNCHANGED <<agentVars, session, device, issued, rotations, faults>>

\* The administrator: a code, bound to an identity that was shown or to none.
RequestPairing(bound) ==
    /\ Len(session) < MaxCodes
    /\ session' = Append(session, [open |-> TRUE, bound |-> bound])
    /\ UNCHANGED <<agentVars, device, issued, heard, rotations, proc, faults>>

ExpireCode(code) ==
    /\ session[code].open
    /\ session' = [session EXCEPT ![code] = Closed]
    /\ UNCHANGED <<agentVars, device, issued, heard, rotations, proc, faults>>

Revoke(id) ==
    /\ Paired(id)
    /\ device' = [device EXCEPT ![id] = Revoked]
    /\ UNCHANGED <<agentVars, session, issued, heard, rotations, proc, faults>>

\* The new credential goes to the administrator; the agent has no use for it.
Rotate(id) ==
    /\ Paired(id)
    /\ rotations < MaxRotations
    /\ issued < MaxTokens
    /\ issued' = issued + 1
    /\ device' = [device EXCEPT ![id].token = issued']
    /\ rotations' = rotations + 1
    /\ UNCHANGED <<agentVars, session, heard, proc, faults>>

---------------------------------------------------------------------------

Init ==
    /\ idFile = NULL /\ idTmp = NULL /\ tokenFile = NULL /\ tokenTmp = NULL
    /\ proc = [p \in Procs |-> Off]
    /\ drawn = 0 /\ shown = {} /\ overlapped = FALSE
    /\ session = << >>
    /\ device = [id \in Ids |-> NoDevice]
    /\ issued = 0 /\ heard = {}
    /\ faults = 0 /\ rotations = 0

\* What a process that runs does next, with what the server does for it.
Step(p) ==
    \/ FindId(p)
    \/ DrawId(p)
    \/ WriteId(p)
    \/ PutId(p)
    \/ MissId(p)
    \/ SaveToken(p)
    \/ PutToken(p)
    \/ MissToken(p)
    \/ Beat(p)
    \/ CompletePairing(p)
    \/ RefusePairing(p)
    \/ Heartbeat(p)

Fault(p) == Kill(p) \/ LoseRequest(p) \/ LoseAnswer(p)

Operator ==
    \/ \E p \in Procs : ShowId(p)
    \/ \E p \in Procs, code \in DOMAIN session \cup {NULL} : Start(p, code)
    \/ \E bound \in shown \cup {NULL} : RequestPairing(bound)
    \/ \E code \in DOMAIN session : ExpireCode(code)
    \/ \E id \in Ids : Revoke(id)
    \/ \E id \in Ids : Rotate(id)

Next == Operator \/ \E p \in Procs : Step(p) \/ Fault(p)

\* A process that runs goes on, and the server answers it.
Spec == Init /\ [][Next]_vars /\ \A p \in Procs : WF_vars(Step(p))

---------------------------------------------------------------------------
(* Properties *)

(* Every variable has its type.                                            *)
TypeOK ==
    /\ idFile \in Ids \cup {NULL} /\ idTmp \in Ids \cup {NULL}
    /\ tokenFile \in Tokens \cup {NULL} /\ tokenTmp \in Tokens \cup {NULL}
    /\ proc \in [Procs -> ProcState]
    /\ drawn \in 0..MaxIds /\ shown \subseteq Ids /\ heard \subseteq Ids
    /\ session \in Seq(SessionState) /\ Len(session) <= MaxCodes
    /\ device \in [Ids -> DeviceState]
    /\ issued \in 0..MaxTokens
    /\ overlapped \in BOOLEAN
    /\ faults \in 0..MaxFaults /\ rotations \in 0..MaxRotations

(* Unless two processes drew an identity at the same time, the machine has *)
(* one for ever: the one that was shown, whatever device was registered    *)
(* from here and whatever a process is about to send, carry what the file  *)
(* says, over every kill and restart (device_id, docs/device-pairing.md).  *)
OneIdentity ==
    ~overlapped =>
        /\ shown \subseteq {idFile}
        /\ \A id \in Ids : device[id] # NoDevice => id = idFile
        /\ \A p \in Procs : proc[p].op \in {"ask", "save", "put", "send"} => proc[p].id = idFile

(* A device that is registered, and whose agent neither holds its          *)
(* credential nor is about to save it, has lost it to a message, a killed  *)
(* process, a rotation or a second identity: the pairing itself leaves     *)
(* nobody without a credential (pair, main, SecretStore.save).             *)
StrandedIsExplained ==
    \A id \in Ids :
        Paired(id) =>
            \/ idFile = id /\ tokenFile = device[id].token
            \/ \E p \in Procs : proc[p].op \in {"save", "put"} /\ proc[p].token = device[id].token
            \/ faults + rotations > 0
            \/ overlapped

Holds(id) == idFile = id /\ Accepts(id, tokenFile)
Running(p) == proc[p] # Off /\ ~(proc[p].op \in {"look", "write", "replace"} /\ proc[p].goal = "show")

(* An agent that holds the credential of its device and runs is heard,     *)
(* unless its process ends or the administrator takes the credential away  *)
(* (run_forever, heartbeat).                                               *)
HolderIsHeard ==
    \A id \in Ids, p \in Procs :
        Holds(id) /\ Running(p) ~> id \in heard \/ ~Holds(id) \/ ~Running(p)
=============================================================================
