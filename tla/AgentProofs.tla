----------------------------- MODULE AgentProofs -----------------------------
(***************************************************************************)
(* The agent: its identity and its credential (AgentPairing), for any      *)
(* number of processes, codes, credentials, kills and lost messages; and,  *)
(* at the end, the actions it answers (RemoteActions), for any backlog,    *)
(* limits and faults.                                                      *)
(*                                                                         *)
(* Unless two processes draw at once, the one that draws finds nothing in  *)
(* the file and has the temporary file to itself (Alone), so that nobody   *)
(* else has an identity yet.  A credential that is about to be saved is    *)
(* that of its device until it is rotated (SavedIsCurrent), and whoever    *)
(* saves one has the temporary file to itself (SavesAlone).                *)
(*                                                                         *)
(* Each action has a budget of reports (Budget): one, and one per fault;   *)
(* a report that is still to come counts.  What the agent has polled is    *)
(* answered up to some action, and from there on the beginning of what is  *)
(* pending (InOrder).                                                      *)
(***************************************************************************)
EXTENDS AgentPairing, RemoteActions, TLAPS

Looks == [op : {"look"}, goal : Goals, code : Codes \cup {NULL}]
Draws == [op : {"write", "replace"}, goal : Goals, code : Codes \cup {NULL}, id : Ids]
Asks == [op : {"ask"}, code : Codes, id : Ids]
Saves == [op : {"save", "put"}, id : Ids, token : Tokens]
Loop == [op |-> "loop"]
Sends == [op : {"send"}, id : Ids, token : Tokens]

\* A look for the identity that is to pair has a code.
Wanting == \A p \in Procs :
              proc[p].op \in {"look", "write", "replace"} /\ proc[p].goal = "pair" => proc[p].code \in Codes

\* Who draws is the only one, and what it has written is its own.
Alone ==
    ~overlapped =>
        \A p \in Procs :
            Drawing(p) =>
                /\ idFile = NULL
                /\ \A q \in Procs : Drawing(q) => q = p
                /\ proc[p].op = "replace" => idTmp = proc[p].id

\* A credential that is about to be saved belongs to its device.
SavedIsCurrent ==
    \A p \in Procs :
        proc[p].op \in {"save", "put"} =>
            /\ device[proc[p].id] # NoDevice
            /\ rotations = 0 /\ Paired(proc[p].id) => device[proc[p].id].token = proc[p].token

Saving(p) == proc[p].op \in {"save", "put"}

\* Who saves is the only one, and what it has written is its own.
SavesAlone ==
    ~overlapped =>
        \A p \in Procs :
            Saving(p) =>
                /\ \A q \in Procs : Saving(q) => q = p
                /\ proc[p].op = "put" => tokenTmp = proc[p].token

Typed == TypeOK /\ Wanting

---------------------------------------------------------------------------
(* Types *)

(* A process has the fields that its op names.                             *)
LEMMA ProcKinds ==
    ASSUME TypeOK, NEW p \in Procs
    PROVE  /\ proc[p] \in ProcState
           /\ proc[p].op = "look" => proc[p] \in Looks
           /\ proc[p].op \in {"write", "replace"} => proc[p] \in Draws
           /\ proc[p].op = "ask" => proc[p] \in Asks
           /\ proc[p].op \in {"save", "put"} => proc[p] \in Saves
           /\ proc[p].op = "send" => proc[p] \in Sends
<1>1. proc[p] \in ProcState
  BY DEF TypeOK
<1> QED BY <1>1 DEF ProcState, Off, Looks, Draws, Asks, Saves, Sends

(* Processes of every kind are processes.                                  *)
LEMMA Kinds ==
    /\ Off \in ProcState /\ Loop \in ProcState
    /\ Looks \subseteq ProcState /\ Draws \subseteq ProcState /\ Asks \subseteq ProcState
    /\ Saves \subseteq ProcState /\ Sends \subseteq ProcState
BY DEF ProcState, Looks, Draws, Asks, Saves, Loop, Sends

(* The bounds are numbers, and nothing is not one.                         *)
LEMMA Numbers ==
    /\ MaxIds \in Nat /\ MaxCodes \in Nat /\ MaxTokens \in Nat /\ MaxFaults \in Nat
    /\ MaxRotations \in Nat
    /\ NULL \notin Ids /\ NULL \notin Codes /\ NULL \notin Tokens
BY BoundAssumption, NullAssumption DEF Ids, Codes, Tokens

\* What a process that has its identity does is a process, and it does not draw.
Settled(s) ==
    /\ s \in ProcState
    /\ s.op \notin {"write", "replace", "save", "put", "look"}

(* Proceed ends the search for the identity.                               *)
LEMMA ProceedStep ==
    ASSUME Typed, NEW p \in Procs, NEW id \in Ids, proc[p].op \in {"look", "write", "replace"},
           Proceed(p, proc[p], id)
    PROVE  \E s \in ProcState :
              /\ Becomes(p, s) /\ Settled(s)
              /\ s.op \in {"ask", "send"} => s.id = id
              /\ shown' \in {shown, shown \cup {id}}
<1> USE DEF Typed
<1>1. CASE proc[p].goal = "show"
  <2>1. Becomes(p, Off) /\ shown' = shown \cup {id}
    BY <1>1 DEF Proceed
  <2>2. Off \in ProcState /\ Off.op = "off"
    BY Kinds DEF Off
  <2> QED BY <2>1, <2>2 DEF Settled
<1>2. CASE proc[p].goal = "pair"
  <2> DEFINE s == [op |-> "ask", code |-> proc[p].code, id |-> id]
  <2>1. Becomes(p, s) /\ shown' = shown
    BY <1>2 DEF Proceed
  <2>2. proc[p].code \in Codes
    BY <1>2 DEF Wanting
  <2>3. s \in Asks /\ s.op = "ask" /\ s.id = id
    BY <2>2 DEF Asks
  <2> HIDE DEF s
  <2> QED BY <2>1, <2>3, Kinds DEF Settled
<1>3. CASE proc[p].goal = "log"
  <2>1. Becomes(p, Loop) /\ shown' = shown
    BY <1>3 DEF Proceed, Loop
  <2>2. Loop \in ProcState /\ Loop.op = "loop"
    BY Kinds DEF Loop
  <2> QED BY <2>1, <2>2 DEF Settled
<1>4. CASE proc[p].goal = "beat"
  <2> DEFINE s == IF tokenFile = NULL THEN Loop ELSE [op |-> "send", id |-> id, token |-> tokenFile]
  <2>1. Becomes(p, s) /\ shown' = shown
    BY <1>4 DEF Proceed, Loop
  <2>2. tokenFile = NULL \/ tokenFile \in Tokens
    BY DEF TypeOK
  <2>3. s = Loop \/ (s \in Sends /\ s.op = "send" /\ s.id = id)
    BY <2>2 DEF Sends
  <2>4. Loop \in ProcState /\ Loop.op = "loop"
    BY Kinds DEF Loop
  <2> HIDE DEF s
  <2> QED BY <2>1, <2>3, <2>4, Kinds DEF Settled
<1> QED BY <1>1, <1>2, <1>3, <1>4, ProcKinds DEF Proceed

(* The machine starts with no process and the server with no device.       *)
LEMMA InitTyped == ASSUME Init PROVE Typed
<1>1. NoDevice \in DeviceState /\ Off \in ProcState /\ Off.op = "off"
  BY Kinds DEF DeviceState, Off
<1>2. session \in Seq(SessionState) /\ Len(session) = 0
  BY DEF Init
<1>3. proc \in [Procs -> ProcState] /\ device \in [Ids -> DeviceState]
  BY <1>1 DEF Init
<1>5. /\ idFile \in Ids \cup {NULL} /\ idTmp \in Ids \cup {NULL}
      /\ tokenFile \in Tokens \cup {NULL} /\ tokenTmp \in Tokens \cup {NULL}
      /\ shown \subseteq Ids /\ heard \subseteq Ids
      /\ overlapped \in BOOLEAN
  BY DEF Init
<1>6. /\ drawn \in 0..MaxIds /\ issued \in 0..MaxTokens /\ faults \in 0..MaxFaults
      /\ rotations \in 0..MaxRotations
  BY Numbers DEF Init
<1>7. Len(session) <= MaxCodes
  BY <1>2, Numbers
<1>8. TypeOK
  BY <1>2, <1>3, <1>5, <1>6, <1>7 DEF TypeOK
<1>4. Wanting
  BY <1>1 DEF Init, Wanting
<1> QED BY <1>4, <1>8 DEF Typed

(* A step that changes one process keeps the type of the processes.        *)
LEMMA ProcStep ==
    ASSUME Typed, NEW p \in Procs, NEW s \in ProcState, Becomes(p, s),
           s.op \in {"look", "write", "replace"} /\ s.goal = "pair" => s.code \in Codes
    PROVE  /\ proc' \in [Procs -> ProcState]
           /\ Wanting'
           /\ proc'[p] = s
           /\ \A q \in Procs : q # p => proc'[q] = proc[q]
<1>1. proc \in [Procs -> ProcState]
  BY DEF Typed, TypeOK
<1>2. /\ proc' \in [Procs -> ProcState]
      /\ proc'[p] = s
      /\ \A q \in Procs : q # p => proc'[q] = proc[q]
  BY <1>1 DEF Becomes
<1> QED BY <1>2 DEF Wanting, Typed

(* The bookkeeping of a server that has a session or a device less or more. *)
LEMMA Registering ==
    ASSUME Typed, NEW code \in Codes, NEW id \in Ids, Fits(code, id), Register(code, id)
    PROVE  /\ session' \in Seq(SessionState) /\ Len(session') <= MaxCodes
           /\ issued' \in Tokens /\ issued' \in 0..MaxTokens
           /\ device' \in [Ids -> DeviceState]
           /\ device' = [device EXCEPT ![id] = [status |-> "PAIRED", token |-> issued']]
           /\ device[id] = NoDevice
           /\ device'[id].status = "PAIRED" /\ device'[id].token = issued'
<1> USE DEF Typed
<1>1. /\ session \in Seq(SessionState) /\ Len(session) <= MaxCodes
      /\ issued \in 0..MaxTokens /\ device \in [Ids -> DeviceState]
  BY DEF TypeOK
<1>2. Closed \in SessionState
  BY DEF Closed, SessionState
<1>7. session' = [session EXCEPT ![code] = Closed]
  BY DEF Register
<1>3. session' \in Seq(SessionState) /\ Len(session') <= MaxCodes
  <2>1. CASE code \in DOMAIN session
    BY <2>1, <1>1, <1>2, <1>7
  <2>2. CASE code \notin DOMAIN session
    <3>1. session' = session
      BY <2>2, <1>1, <1>7
    <3> QED BY <3>1, <1>1
  <2> QED BY <2>1, <2>2
<1>4. issued' \in Tokens /\ issued' \in 0..MaxTokens
  BY <1>1, Numbers DEF Register, Tokens
<1>5. [status |-> "PAIRED", token |-> issued'] \in DeviceState
  BY <1>4 DEF DeviceState
<1>6. device' = [device EXCEPT ![id] = [status |-> "PAIRED", token |-> issued']]
  BY DEF Register
<1> QED BY <1>1, <1>3, <1>4, <1>5, <1>6 DEF Fits

(* Every step of a process and of its server keeps the types.              *)
LEMMA StepTyped == ASSUME Typed, NEW p \in Procs, Step(p) \/ Fault(p) PROVE Typed'
<1> USE DEF Typed
<1>0. TypeOK /\ proc[p] \in ProcState
  BY ProcKinds
<1>1. ASSUME FindId(p) PROVE Typed'
  <2>1. idFile \in Ids /\ Proceed(p, proc[p], idFile) /\ proc[p].op = "look"
    BY <1>1 DEF FindId, TypeOK
  <2>2. PICK s \in ProcState :
           Becomes(p, s) /\ Settled(s) /\ shown' \in {shown, shown \cup {idFile}}
    BY <2>1, ProceedStep
  <2>3. proc' \in [Procs -> ProcState] /\ Wanting'
    BY <2>2, ProcStep DEF Settled
  <2> QED BY <2>1, <2>2, <2>3, <1>1 DEF FindId, TypeOK, serverVars
<1>2. ASSUME DrawId(p) PROVE Typed'
  <2> DEFINE s == [op |-> "write", goal |-> proc[p].goal, code |-> proc[p].code, id |-> drawn']
  <2>1. proc[p] \in Looks
    BY <1>2, ProcKinds DEF DrawId
  <2>2. drawn' \in Ids /\ drawn' \in 0..MaxIds
    BY <1>2, Numbers DEF DrawId, TypeOK, Ids
  <2>3. s \in Draws /\ s.goal = proc[p].goal /\ s.code = proc[p].code
    BY <2>1, <2>2 DEF Draws, Looks
  <2>4. Becomes(p, s) /\ (s.goal = "pair" => s.code \in Codes)
    BY <1>2, <2>3 DEF DrawId, Wanting
  <2> HIDE DEF s
  <2>5. proc' \in [Procs -> ProcState] /\ Wanting'
    BY <2>3, <2>4, Kinds, ProcStep
  <2>6. overlapped' \in BOOLEAN
    BY <1>2 DEF DrawId
  <2> QED BY <2>2, <2>5, <2>6, <1>2 DEF DrawId, TypeOK, serverVars
<1>3. ASSUME WriteId(p) PROVE Typed'
  <2> DEFINE s == [proc[p] EXCEPT !.op = "replace"]
  <2>1. proc[p] \in Draws
    BY <1>3, ProcKinds DEF WriteId
  <2>2. s \in Draws /\ s.goal = proc[p].goal /\ s.code = proc[p].code /\ proc[p].id \in Ids
    BY <2>1 DEF Draws
  <2>3. Becomes(p, s) /\ (s.goal = "pair" => s.code \in Codes)
    BY <1>3, <2>2 DEF WriteId, Wanting
  <2> HIDE DEF s
  <2>4. proc' \in [Procs -> ProcState] /\ Wanting'
    BY <2>2, <2>3, Kinds, ProcStep
  <2> QED BY <2>2, <2>4, <1>3 DEF WriteId, TypeOK, serverVars
<1>4. ASSUME PutId(p) PROVE Typed'
  <2>1. proc[p].id \in Ids /\ Proceed(p, proc[p], proc[p].id) /\ proc[p].op = "replace"
    BY <1>4, ProcKinds DEF PutId, Draws
  <2>2. PICK s \in ProcState :
           Becomes(p, s) /\ Settled(s) /\ shown' \in {shown, shown \cup {proc[p].id}}
    BY <2>1, ProceedStep
  <2>3. proc' \in [Procs -> ProcState] /\ Wanting'
    BY <2>2, ProcStep DEF Settled
  <2> QED BY <2>1, <2>2, <2>3, <1>4 DEF PutId, TypeOK, serverVars
<1>5. ASSUME NEW s \in ProcState, Becomes(p, s), s.op \notin {"look", "write", "replace"},
             UNCHANGED <<idFile, idTmp, drawn, shown, overlapped, session, device, issued, rotations>>,
             tokenFile' \in Tokens \cup {NULL}, tokenTmp' \in Tokens \cup {NULL},
             heard' \subseteq Ids, faults' \in 0..MaxFaults
      PROVE  Typed'
  <2>1. proc' \in [Procs -> ProcState] /\ Wanting'
    BY <1>5, ProcStep
  <2> QED BY <2>1, <1>5 DEF TypeOK
<1>6. /\ Off \in ProcState /\ Off.op = "off" /\ Loop \in ProcState /\ Loop.op = "loop"
      /\ tokenFile \in Tokens \cup {NULL} /\ tokenTmp \in Tokens \cup {NULL}
      /\ heard \subseteq Ids /\ faults \in 0..MaxFaults
  BY Kinds DEF Off, Loop, TypeOK
<1>7. CASE MissId(p)
  BY <1>5, <1>6, <1>7 DEF MissId, Loop, agentVars, serverVars
<1>8. CASE SaveToken(p)
  <2>1. proc[p] \in Saves
    BY <1>8, ProcKinds DEF SaveToken
  <2>2. /\ [proc[p] EXCEPT !.op = "put"] \in Saves /\ [proc[p] EXCEPT !.op = "put"].op = "put"
        /\ proc[p].token \in Tokens
    BY <2>1 DEF Saves
  <2> QED BY <2>2, <1>5, <1>6, <1>8, Kinds DEF SaveToken, serverVars
<1>9. ASSUME NEW goal \in {"log", "beat"}, Becomes(p, Looking(goal, NULL)),
             tokenFile' \in Tokens \cup {NULL}, tokenTmp' \in Tokens \cup {NULL},
             UNCHANGED <<idFile, idTmp, drawn, shown, overlapped, serverVars, faults>>
      PROVE  Typed'
  <2>1. Looking(goal, NULL) \in Looks /\ Looking(goal, NULL).goal # "pair"
    BY DEF Looks, Looking, Goals
  <2>2. proc' \in [Procs -> ProcState] /\ Wanting'
    BY <2>1, <1>9, Kinds, ProcStep
  <2> QED BY <2>2, <1>9 DEF TypeOK, serverVars
<1>10. CASE PutToken(p)
  BY <1>6, <1>9, <1>10 DEF PutToken
<1>18. CASE MissToken(p)
  BY <1>5, <1>6, <1>18 DEF MissToken, agentVars, serverVars
<1>11. CASE Beat(p)
  BY <1>9, <1>6, <1>11 DEF Beat, agentVars
<1>12. ASSUME CompletePairing(p) PROVE Typed'
  <2> DEFINE s == [op |-> "save", id |-> proc[p].id, token |-> issued']
  <2>1. proc[p] \in Asks /\ proc[p].code \in Codes /\ proc[p].id \in Ids
    BY <1>12, ProcKinds DEF CompletePairing, Asks
  <2>2. /\ session' \in Seq(SessionState) /\ Len(session') <= MaxCodes
        /\ issued' \in Tokens /\ issued' \in 0..MaxTokens
        /\ device' \in [Ids -> DeviceState]
    BY <2>1, <1>12, Registering DEF CompletePairing
  <2>3. s \in Saves /\ s.op = "save" /\ Becomes(p, s)
    BY <2>1, <2>2, <1>12 DEF Saves, CompletePairing
  <2> HIDE DEF s
  <2>4. proc' \in [Procs -> ProcState] /\ Wanting'
    BY <2>3, Kinds, ProcStep
  <2> QED BY <2>2, <2>4, <1>12 DEF CompletePairing, TypeOK, agentVars
<1>13. CASE RefusePairing(p)
  BY <1>5, <1>6, <1>13 DEF RefusePairing, agentVars, serverVars
<1>14. CASE Heartbeat(p)
  <2>1. heard' \subseteq Ids
    BY <1>14, <1>6, ProcKinds DEF Heartbeat, Sends
  <2> QED BY <2>1, <1>5, <1>6, <1>14 DEF Heartbeat, Loop, agentVars
<1>15. CASE Kill(p)
  <2>1. faults' \in 0..MaxFaults
    BY <1>15, <1>6, Numbers DEF Kill
  <2> QED BY <2>1, <1>5, <1>6, <1>15 DEF Kill, agentVars, serverVars
<1>16. CASE LoseRequest(p)
  <2>1. faults' \in 0..MaxFaults
    BY <1>16, <1>6, Numbers DEF LoseRequest
  <2> QED BY <2>1, <1>5, <1>6, <1>16 DEF LoseRequest, Loop, agentVars, serverVars
<1>17. ASSUME LoseAnswer(p) PROVE Typed'
  <2>1. proc[p] \in Asks /\ proc[p].code \in Codes /\ proc[p].id \in Ids
    BY <1>17, ProcKinds DEF LoseAnswer, Asks
  <2>2. /\ session' \in Seq(SessionState) /\ Len(session') <= MaxCodes
        /\ issued' \in Tokens /\ issued' \in 0..MaxTokens
        /\ device' \in [Ids -> DeviceState]
    BY <2>1, <1>17, Registering DEF LoseAnswer
  <2>3. faults' \in 0..MaxFaults
    BY <1>17, <1>6, Numbers DEF LoseAnswer
  <2>4. proc' \in [Procs -> ProcState] /\ Wanting'
    BY <1>17, <1>6, ProcStep DEF LoseAnswer
  <2> QED BY <2>2, <2>3, <2>4, <1>17 DEF LoseAnswer, TypeOK, agentVars
<1> QED BY <1>1, <1>2, <1>3, <1>4, <1>7, <1>8, <1>10, <1>11, <1>12, <1>13, <1>14, <1>15, <1>16,
           <1>17, <1>18 DEF Step, Fault

(* Neither does the operator or the administrator break them.              *)
LEMMA OperatorTyped == ASSUME Typed, Operator PROVE Typed'
<1> USE DEF Typed
<1>1. ASSUME NEW p \in Procs, ShowId(p) PROVE Typed'
  <2>1. Looking("show", NULL) \in Looks /\ Looking("show", NULL).goal # "pair"
    BY DEF Looks, Looking, Goals
  <2>2. proc' \in [Procs -> ProcState] /\ Wanting'
    BY <2>1, <1>1, Kinds, ProcStep DEF ShowId
  <2> QED BY <2>2, <1>1 DEF ShowId, TypeOK, agentVars, serverVars
<1>2. ASSUME NEW p \in Procs, NEW code \in DOMAIN session \cup {NULL}, Start(p, code) PROVE Typed'
  <2> DEFINE s == IF WantsPairing(code) THEN Looking("pair", code) ELSE Looking("log", NULL)
  <2>1. code = NULL \/ code \in Codes
    BY Numbers DEF TypeOK, Codes
  <2>2. s \in Looks /\ (s.goal = "pair" => s.code \in Codes)
    BY <2>1 DEF Looks, Looking, Goals, WantsPairing
  <2>3. Becomes(p, s)
    BY <1>2 DEF Start
  <2> HIDE DEF s
  <2>4. proc' \in [Procs -> ProcState] /\ Wanting'
    BY <2>2, <2>3, Kinds, ProcStep
  <2> QED BY <2>4, <1>2 DEF Start, TypeOK, agentVars, serverVars
<1>3. ASSUME NEW bound \in shown \cup {NULL}, RequestPairing(bound) PROVE Typed'
  <2>1. [open |-> TRUE, bound |-> bound] \in SessionState
    BY DEF TypeOK, SessionState
  <2>2. session \in Seq(SessionState) /\ Len(session) < MaxCodes /\ MaxCodes \in Nat
        /\ session' = Append(session, [open |-> TRUE, bound |-> bound])
    BY <1>3, Numbers DEF RequestPairing, TypeOK
  <2>3. session' \in Seq(SessionState) /\ Len(session') <= MaxCodes
    BY <2>1, <2>2
  <2> QED BY <2>3, <1>3 DEF RequestPairing, TypeOK, Wanting, agentVars
<1>4. ASSUME NEW code \in DOMAIN session, ExpireCode(code) PROVE Typed'
  <2>1. Closed \in SessionState
    BY DEF Closed, SessionState
  <2>2. session \in Seq(SessionState) /\ Len(session) <= MaxCodes
        /\ session' = [session EXCEPT ![code] = Closed]
    BY <1>4 DEF ExpireCode, TypeOK
  <2>3. session' \in Seq(SessionState) /\ Len(session') <= MaxCodes
    BY <2>1, <2>2
  <2> QED BY <2>3, <1>4 DEF ExpireCode, TypeOK, Wanting, agentVars
<1>5. ASSUME NEW id \in Ids, Revoke(id) PROVE Typed'
  <2>1. device' \in [Ids -> DeviceState]
    BY <1>5 DEF Revoke, TypeOK, DeviceState
  <2> QED BY <2>1, <1>5 DEF Revoke, TypeOK, Wanting, agentVars
<1>6. ASSUME NEW id \in Ids, Rotate(id) PROVE Typed'
  <2>1. issued' \in Tokens /\ issued' \in 0..MaxTokens /\ rotations' \in 0..MaxRotations
    BY <1>6, Numbers DEF Rotate, TypeOK, Tokens
  <2>2. device[id] \in [status : {"PAIRED"}, token : Tokens]
    BY <1>6 DEF Rotate, Paired, TypeOK, DeviceState, NoDevice, Revoked
  <2>3. [device[id] EXCEPT !.token = issued'] \in DeviceState
    BY <2>1, <2>2 DEF DeviceState
  <2>4. device' \in [Ids -> DeviceState]
    BY <2>3, <1>6 DEF Rotate, TypeOK
  <2> QED BY <2>1, <2>4, <1>6 DEF Rotate, TypeOK, Wanting, agentVars
<1> QED BY <1>1, <1>2, <1>3, <1>4, <1>5, <1>6 DEF Operator

(* Every step keeps the types.                                            *)
LEMMA NextTyped == ASSUME Typed, [Next]_vars PROVE Typed'
<1>1. CASE UNCHANGED vars
  BY <1>1 DEF vars, agentVars, serverVars, Typed, TypeOK, Wanting
<1> QED BY <1>1, StepTyped, OperatorTyped DEF Next

---------------------------------------------------------------------------
(* Identities and credentials *)

Safe == Alone /\ OneIdentity /\ SavedIsCurrent /\ SavesAlone /\ StrandedIsExplained

(* Nothing has been drawn, registered or shown.                            *)
LEMMA InitSafe == ASSUME Init PROVE Safe
<1>1. \A p \in Procs : proc[p] = Off /\ proc[p].op = "off"
  BY DEF Init, Off
<1>2. \A id \in Ids : device[id] = NoDevice /\ ~Paired(id)
  BY DEF Init, Paired, NoDevice
<1>3. Alone /\ SavedIsCurrent /\ SavesAlone
  BY <1>1 DEF Alone, SavedIsCurrent, SavesAlone, Drawing, Saving
<1>4. OneIdentity
  BY <1>1, <1>2 DEF Init, OneIdentity
<1>5. StrandedIsExplained
  BY <1>2 DEF StrandedIsExplained
<1> QED BY <1>3, <1>4, <1>5 DEF Safe

(* Numbers that sum to nothing are nothing.                                *)
LEMMA Nothing ==
    ASSUME NEW f \in Nat, NEW g \in Nat, NEW r \in Nat, g >= f, ~(g + r > 0)
    PROVE  f = 0 /\ g = 0 /\ r = 0 /\ ~(f + r > 0)
OBVIOUS

(* A process that takes no identity but that of the file, and loses no     *)
(* credential without a fault, disturbs nothing.                           *)
LEMMA Quiet ==
    ASSUME Typed, Safe, NEW p \in Procs, NEW s \in ProcState, Becomes(p, s),
           s.op \notin {"write", "replace"},
           s.op \in {"ask", "send"} => s.id = idFile,
           s.op \in {"save", "put"} =>
              proc[p].op \in {"save", "put"} /\ s.id = proc[p].id /\ s.token = proc[p].token,
           proc[p].op \in {"save", "put"} => s.op \in {"save", "put"} \/ faults' > 0 \/ overlapped,
           s.op = "put" => tokenTmp' = s.token,
           s.op # "put" => tokenTmp' = tokenTmp,
           faults' \in Nat, faults' >= faults, shown' \in {shown, shown \cup {idFile}},
           UNCHANGED <<idFile, idTmp, tokenFile, overlapped, device, rotations>>
    PROVE  Safe'
<1>1. /\ proc'[p] = s
      /\ \A q \in Procs : q # p => proc'[q] = proc[q]
  BY DEF Becomes, Typed, TypeOK
<1>2. faults \in Nat /\ rotations \in Nat
  BY Numbers DEF Typed, TypeOK
<1>3. Alone'
  BY <1>1 DEF Safe, Alone, Drawing
<1>4. OneIdentity'
  BY <1>1 DEF Safe, OneIdentity
<1>5. SavedIsCurrent'
  BY <1>1 DEF Safe, SavedIsCurrent, Paired
<1>7. SavesAlone'
  BY <1>1 DEF Safe, SavesAlone, Saving
<1>6. StrandedIsExplained'
  <2> SUFFICES ASSUME NEW id \in Ids, Paired(id)', ~overlapped', ~(faults' + rotations' > 0),
                      ~(idFile' = id /\ tokenFile' = (device[id].token)')
               PROVE  \E q \in Procs : /\ proc'[q].op \in {"save", "put"}
                                       /\ proc'[q].token = device'[id].token
    BY Zenon DEF StrandedIsExplained
  <2>1. ~(faults' + rotations > 0)
    OBVIOUS
  <2>2. faults' = 0 /\ rotations = 0 /\ ~(faults + rotations > 0)
    BY <1>2, <2>1, Nothing
  <2>3. ~(faults' > 0)
    BY <2>2
  <2>4. PICK q \in Procs : proc[q].op \in {"save", "put"} /\ proc[q].token = device[id].token
    BY <2>2 DEF Safe, StrandedIsExplained, Paired
  <2> QED BY <1>1, <2>3, <2>4
<1> QED BY <1>3, <1>4, <1>5, <1>6, <1>7 DEF Safe

(* Who draws an identity alone finds that nobody has one.                  *)
LEMMA NobodyYet ==
    ASSUME Typed, Safe, ~overlapped, idFile = NULL
    PROVE  /\ shown = {}
           /\ \A id \in Ids : device[id] = NoDevice
           /\ \A q \in Procs : proc[q].op \notin {"ask", "save", "put", "send"}
<1>1. NULL \notin Ids
  BY Numbers
<1>2. shown = {} /\ \A id \in Ids : device[id] = NoDevice
  BY <1>1 DEF Safe, OneIdentity, Typed, TypeOK
<1>3. ASSUME NEW q \in Procs, proc[q].op \in {"ask", "save", "put", "send"} PROVE FALSE
  <2>1. proc[q].id = NULL
    BY <1>3 DEF Safe, OneIdentity
  <2>2. proc[q].id \in Ids
    BY <1>3, ProcKinds DEF Typed, Asks, Saves, Sends
  <2> QED BY <2>1, <2>2, <1>1
<1> QED BY <1>2, <1>3

(* The search for the identity, and what the process does with the         *)
(* credential that it got.                                                 *)
LEMMA AgentSafe ==
    ASSUME Typed, Safe, NEW p \in Procs,
           \/ FindId(p) \/ DrawId(p) \/ WriteId(p) \/ PutId(p) \/ MissId(p)
           \/ SaveToken(p) \/ PutToken(p) \/ MissToken(p) \/ Beat(p)
    PROVE  Safe'
<1>0. proc \in [Procs -> ProcState] /\ faults \in Nat /\ rotations \in Nat
  BY Numbers DEF Typed, TypeOK
<1>1. CASE FindId(p)
  <2>1. idFile \in Ids /\ Proceed(p, proc[p], idFile) /\ proc[p].op = "look"
    BY <1>1 DEF FindId, Typed, TypeOK
  <2>2. PICK s \in ProcState :
           /\ Becomes(p, s) /\ Settled(s)
           /\ s.op \in {"ask", "send"} => s.id = idFile
           /\ shown' \in {shown, shown \cup {idFile}}
    BY <2>1, ProceedStep
  <2> QED BY <2>1, <2>2, <1>0, <1>1, Quiet DEF Settled, FindId, serverVars
<1>2. CASE DrawId(p)
  <2> DEFINE s == [op |-> "write", goal |-> proc[p].goal, code |-> proc[p].code, id |-> drawn']
  <2>1. /\ proc'[p].op = "write"
        /\ \A q \in Procs : q # p => proc'[q] = proc[q]
        /\ proc[p].op = "look"
    BY <1>0, <1>2 DEF DrawId, Becomes
  <2>2. /\ overlapped' = (overlapped \/ \E q \in Procs \ {p} : Drawing(q))
        /\ UNCHANGED <<idFile, idTmp, tokenFile, tokenTmp, shown, device, rotations, faults>>
        /\ idFile = NULL
    BY <1>2 DEF DrawId, serverVars
  <2>3. Alone'
    BY <2>1, <2>2 DEF Alone, Drawing
  <2>4. OneIdentity' /\ SavedIsCurrent'
    BY <2>1, <2>2 DEF Safe, OneIdentity, SavedIsCurrent, Paired
  <2>5. StrandedIsExplained'
    BY <2>1, <2>2 DEF Safe, StrandedIsExplained, Paired
  <2>6. SavesAlone'
    BY <2>1, <2>2 DEF Safe, SavesAlone, Saving
  <2> QED BY <2>3, <2>4, <2>5, <2>6 DEF Safe
<1>3. CASE WriteId(p)
  <2>1. proc[p] \in Draws /\ proc[p].op = "write"
    BY <1>3, ProcKinds DEF WriteId, Typed
  <2>2. /\ proc'[p].op = "replace" /\ proc'[p].id = proc[p].id
        /\ \A q \in Procs : q # p => proc'[q] = proc[q]
    BY <2>1, <1>0, <1>3 DEF WriteId, Becomes, Draws
  <2>3. /\ UNCHANGED <<idFile, tokenFile, tokenTmp, shown, overlapped, device, rotations, faults>>
        /\ idTmp' = proc[p].id
    BY <1>3 DEF WriteId, serverVars
  <2>4. Alone'
    BY <2>1, <2>2, <2>3 DEF Safe, Alone, Drawing
  <2>5. OneIdentity' /\ SavedIsCurrent'
    BY <2>1, <2>2, <2>3 DEF Safe, OneIdentity, SavedIsCurrent, Paired
  <2>6. StrandedIsExplained'
    BY <2>1, <2>2, <2>3 DEF Safe, StrandedIsExplained, Paired
  <2>7. SavesAlone'
    BY <2>1, <2>2, <2>3 DEF Safe, SavesAlone, Saving
  <2> QED BY <2>4, <2>5, <2>6, <2>7 DEF Safe
<1>4. CASE PutId(p)
  <2>1. proc[p].id \in Ids /\ Proceed(p, proc[p], proc[p].id) /\ proc[p].op = "replace"
    BY <1>4, ProcKinds DEF PutId, Draws, Typed
  <2>2. PICK s \in ProcState :
           /\ Becomes(p, s) /\ Settled(s)
           /\ s.op \in {"ask", "send"} => s.id = proc[p].id
           /\ shown' \in {shown, shown \cup {proc[p].id}}
    BY <2>1, ProceedStep
  <2>3. proc'[p] = s /\ \A q \in Procs : q # p => proc'[q] = proc[q]
    BY <2>2, <1>0 DEF Becomes
  <2>4. /\ UNCHANGED <<tokenFile, tokenTmp, overlapped, device, rotations, faults>>
        /\ idFile' = idTmp
    BY <1>4 DEF PutId, serverVars
  <2>5. ~overlapped => /\ idFile = NULL /\ idTmp = proc[p].id
                       /\ \A q \in Procs : Drawing(q) => q = p
    BY <2>1 DEF Safe, Alone, Drawing
  <2>6. Alone'
    BY <2>2, <2>3, <2>4, <2>5 DEF Alone, Drawing, Settled
  <2>7. OneIdentity'
    BY <2>2, <2>3, <2>4, <2>5, NobodyYet DEF OneIdentity, Settled
  <2>8. SavedIsCurrent'
    BY <2>1, <2>2, <2>3, <2>4 DEF Safe, SavedIsCurrent, Paired, Settled
  <2>9. ~overlapped => \A id \in Ids : ~Paired(id)
    BY <2>5, NobodyYet DEF Paired, NoDevice
  <2>10. StrandedIsExplained'
    BY <2>4, <2>9 DEF StrandedIsExplained, Paired
  <2>11. SavesAlone'
    BY <2>1, <2>2, <2>3, <2>4 DEF Safe, SavesAlone, Saving, Settled
  <2> QED BY <2>6, <2>7, <2>8, <2>10, <2>11 DEF Safe
<1>5. Off \in ProcState /\ Off.op = "off" /\ Loop \in ProcState /\ Loop.op = "loop"
  BY Kinds DEF Off, Loop
<1>6. CASE MissId(p)
  <2>1. PICK s \in {Off, Loop} : Becomes(p, s)
    BY <1>6 DEF MissId, Loop
  <2> QED BY <2>1, <1>0, <1>5, <1>6, Quiet DEF MissId, agentVars, serverVars
<1>7. CASE SaveToken(p)
  <2> DEFINE s == [proc[p] EXCEPT !.op = "put"]
  <2>1. proc[p] \in Saves /\ Becomes(p, s)
    BY <1>7, ProcKinds DEF SaveToken, Typed
  <2>2. s \in Saves /\ s.op = "put" /\ s.id = proc[p].id /\ s.token = proc[p].token
    BY <2>1 DEF Saves
  <2>3. /\ proc[p].op = "save" /\ tokenTmp' = proc[p].token
        /\ UNCHANGED <<idFile, idTmp, tokenFile, shown, overlapped, serverVars, faults>>
    BY <1>7 DEF SaveToken
  <2> HIDE DEF s
  <2> QED BY <2>1, <2>2, <2>3, <1>0, Kinds, Quiet DEF serverVars
<1>8. CASE PutToken(p)
  <2>1. /\ proc'[p].op = "look" /\ tokenFile' = tokenTmp /\ proc[p].op = "put"
        /\ \A q \in Procs : q # p => proc'[q] = proc[q]
    BY <1>0, <1>8 DEF PutToken, Becomes, Looking
  <2>2. UNCHANGED <<idFile, idTmp, shown, overlapped, device, rotations, faults>>
    BY <1>8 DEF PutToken, serverVars
  <2>3. Alone' /\ OneIdentity' /\ SavedIsCurrent'
    BY <2>1, <2>2 DEF Safe, Alone, Drawing, OneIdentity, SavedIsCurrent, Paired
  <2>4. proc[p].id \in Ids
    BY <2>1, ProcKinds DEF Typed, Saves
  <2>5. ASSUME NEW id \in Ids, Paired(id), ~overlapped, rotations = 0
        PROVE  idFile = id /\ proc[p].token = device[id].token
    <3>1. device[proc[p].id] # NoDevice
      BY <2>1 DEF Safe, SavedIsCurrent
    <3>2. id = idFile /\ proc[p].id = idFile
      BY <2>1, <2>4, <2>5, <3>1 DEF Safe, OneIdentity, Paired, NoDevice
    <3> QED BY <2>1, <2>5, <3>2 DEF Safe, SavedIsCurrent
  <2>6. rotations = 0 \/ faults + rotations > 0
    BY <1>0
  <2>8. ~overlapped => tokenFile' = proc[p].token /\ \A q \in Procs : Saving(q) => q = p
    BY <2>1 DEF Safe, SavesAlone, Saving
  <2>7. StrandedIsExplained'
    BY <2>1, <2>2, <2>5, <2>6, <2>8 DEF StrandedIsExplained, Paired
  <2>9. SavesAlone'
    BY <2>1, <2>2, <2>8 DEF SavesAlone, Saving
  <2> QED BY <2>3, <2>7, <2>9 DEF Safe
<1>10. CASE MissToken(p)
  <2>1. /\ proc[p].op = "put" /\ Becomes(p, Off) /\ UNCHANGED <<agentVars, serverVars, faults>>
        /\ tokenTmp = NULL \/ \E q \in Procs \ {p} : proc[q].op = "save"
    BY <1>10 DEF MissToken
  <2>2. proc[p].token \in Tokens
    BY <2>1, ProcKinds DEF Typed, Saves
  <2>3. overlapped
    BY <2>1, <2>2, Numbers DEF Safe, SavesAlone, Saving
  <2> QED BY <2>1, <2>3, <1>0, <1>5, Quiet DEF agentVars, serverVars
<1>9. CASE Beat(p)
  <2>1. Looking("beat", NULL) \in ProcState /\ Looking("beat", NULL).op = "look"
    BY Kinds DEF Looks, Looking, Goals
  <2>2. Becomes(p, Looking("beat", NULL)) /\ proc[p].op = "loop"
        /\ UNCHANGED <<agentVars, serverVars, faults>>
    BY <1>9 DEF Beat
  <2> QED BY <2>1, <2>2, <1>0, Quiet DEF agentVars, serverVars
<1> QED BY <1>1, <1>2, <1>3, <1>4, <1>6, <1>7, <1>8, <1>9, <1>10

(* What the server answers, and what is lost on the way.                   *)
LEMMA ServerSafe ==
    ASSUME Typed, Safe, NEW p \in Procs,
           CompletePairing(p) \/ RefusePairing(p) \/ Heartbeat(p) \/ Fault(p)
    PROVE  Safe'
<1>0. proc \in [Procs -> ProcState] /\ faults \in Nat /\ rotations \in Nat
  BY Numbers DEF Typed, TypeOK
<1>1. Off \in ProcState /\ Off.op = "off" /\ Loop \in ProcState /\ Loop.op = "loop"
  BY Kinds DEF Off, Loop
<1>2. CASE RefusePairing(p)
  BY <1>0, <1>1, <1>2, Quiet DEF RefusePairing, agentVars, serverVars
<1>3. CASE Heartbeat(p)
  BY <1>0, <1>1, <1>3, Quiet DEF Heartbeat, agentVars, Loop
<1>4. CASE Kill(p)
  <2>1. faults' \in Nat /\ faults' >= faults /\ faults' > 0
    BY <1>0, <1>4 DEF Kill
  <2> QED BY <2>1, <1>1, <1>4, Quiet DEF Kill, agentVars, serverVars
<1>5. CASE LoseRequest(p)
  <2>1. faults' \in Nat /\ faults' >= faults
    BY <1>0, <1>5 DEF LoseRequest
  <2>2. PICK s \in {Off, Loop} : Becomes(p, s)
    BY <1>5 DEF LoseRequest, Loop
  <2> QED BY <2>1, <2>2, <1>1, <1>5, Quiet DEF LoseRequest, agentVars, serverVars
\* A device that is registered is that of a process which has the identity.
<1>6. ASSUME NEW s \in ProcState, Becomes(p, s), proc[p].op = "ask",
             Fits(proc[p].code, proc[p].id), Register(proc[p].code, proc[p].id),
             UNCHANGED <<idFile, idTmp, tokenFile, tokenTmp, shown, overlapped, rotations>>,
             faults' \in Nat, faults' >= faults,
             \/ s = Off /\ faults' > 0
             \/ s.op = "save" /\ s.id = proc[p].id /\ s.token = issued'
      PROVE  Safe'
  <2>1. proc[p].code \in Codes /\ proc[p].id \in Ids
    BY <1>6, ProcKinds DEF Typed, Asks
  <2>2. /\ device[proc[p].id] = NoDevice
        /\ device'[proc[p].id].status = "PAIRED" /\ device'[proc[p].id].token = issued'
        /\ \A id \in Ids : id # proc[p].id => device'[id] = device[id]
    <3>1. /\ device[proc[p].id] = NoDevice
          /\ device'[proc[p].id].status = "PAIRED" /\ device'[proc[p].id].token = issued'
          /\ device' = [device EXCEPT ![proc[p].id] = [status |-> "PAIRED", token |-> issued']]
      BY <1>6, <2>1, Registering
    <3> QED BY <3>1 DEF Typed, TypeOK
  <2>3. proc'[p] = s /\ \A q \in Procs : q # p => proc'[q] = proc[q]
    BY <1>0, <1>6 DEF Becomes
  <2>4. s.op \in {"off", "save"}
    BY <1>1, <1>6
  <2>5. Alone'
    BY <2>3, <2>4, <1>6 DEF Safe, Alone, Drawing
  <2>6. ~overlapped => proc[p].id = idFile
    BY <1>6 DEF Safe, OneIdentity
  <2>7. OneIdentity'
    BY <2>2, <2>3, <2>4, <2>6, <1>1, <1>6 DEF Safe, OneIdentity
  <2>8. SavedIsCurrent'
    <3> SUFFICES ASSUME NEW q \in Procs, proc'[q].op \in {"save", "put"}
                 PROVE  /\ device'[proc'[q].id] # NoDevice
                        /\ rotations = 0 /\ device'[proc'[q].id].status = "PAIRED"
                              => device'[proc'[q].id].token = proc'[q].token
      BY <1>6 DEF SavedIsCurrent, Paired
    <3>1. CASE q = p
      BY <3>1, <2>2, <2>3, <1>1, <1>6 DEF NoDevice
    <3>2. CASE q # p
      <4>1. proc'[q] = proc[q] /\ proc[q].id \in Ids /\ device[proc[q].id] # NoDevice
        BY <3>2, <2>3, ProcKinds DEF Safe, SavedIsCurrent, Typed, Saves
      <4>2. device'[proc[q].id] = device[proc[q].id]
        BY <4>1, <2>2
      <4> QED BY <4>1, <4>2 DEF Safe, SavedIsCurrent, Paired
    <3> QED BY <3>1, <3>2
  <2>9. StrandedIsExplained'
    <3> SUFFICES ASSUME NEW id \in Ids, Paired(id)', ~overlapped', ~(faults' + rotations' > 0),
                        ~(idFile' = id /\ tokenFile' = (device[id].token)')
                 PROVE  \E q \in Procs : /\ proc'[q].op \in {"save", "put"}
                                         /\ proc'[q].token = device'[id].token
      BY Zenon DEF StrandedIsExplained
    <3>1. rotations' = rotations /\ ~overlapped
      BY <1>6
    <3>2. faults' = 0 /\ ~(faults + rotations > 0)
      BY <1>0, <1>6, <3>1, Nothing
    <3>3. CASE id = proc[p].id
      BY <3>2, <3>3, <2>2, <2>3, <1>6
    <3>4. CASE id # proc[p].id
      <4>1. PICK q \in Procs : proc[q].op \in {"save", "put"} /\ proc[q].token = device[id].token
        BY <3>1, <3>2, <3>4, <2>2, <1>6 DEF Safe, StrandedIsExplained, Paired
      <4> QED BY <4>1, <3>4, <2>2, <2>3, <1>6
    <3> QED BY <3>3, <3>4
  <2>10. ASSUME NEW q \in Procs, Saving(q) PROVE overlapped
    <3>1. device[proc[q].id] # NoDevice /\ proc[q].op \in {"save", "put"}
      BY <2>10 DEF Safe, SavedIsCurrent, Saving
    <3>2. ~overlapped => proc[q].id = idFile
      BY <3>1 DEF Safe, OneIdentity
    <3> QED BY <3>1, <3>2, <2>2, <2>6
  <2>11. SavesAlone'
    BY <2>3, <2>4, <2>10, <1>6 DEF SavesAlone, Saving
  <2> QED BY <2>5, <2>7, <2>8, <2>9, <2>11 DEF Safe
<1>7. CASE CompletePairing(p)
  <2> DEFINE s == [op |-> "save", id |-> proc[p].id, token |-> issued']
  <2>1. /\ proc[p].op = "ask" /\ Becomes(p, s)
        /\ Fits(proc[p].code, proc[p].id) /\ Register(proc[p].code, proc[p].id)
        /\ UNCHANGED <<agentVars, rotations, faults>>
    BY <1>7 DEF CompletePairing
  <2>2. proc[p].code \in Codes /\ proc[p].id \in Ids
    BY <2>1, ProcKinds DEF Typed, Asks
  <2>3. issued' \in Tokens
    BY <2>1, <2>2, Registering
  <2>4. s \in Saves /\ s.op = "save" /\ s.id = proc[p].id /\ s.token = issued'
    BY <2>2, <2>3 DEF Saves
  <2> HIDE DEF s
  <2> QED BY <2>1, <2>4, <1>0, <1>6, Kinds DEF agentVars
<1>8. CASE LoseAnswer(p)
  <2>1. faults' \in Nat /\ faults' >= faults /\ faults' > 0
    BY <1>0, <1>8 DEF LoseAnswer
  <2> QED BY <2>1, <1>1, <1>6, <1>8 DEF LoseAnswer, agentVars
<1> QED BY <1>2, <1>3, <1>4, <1>5, <1>7, <1>8 DEF Fault

(* What the operator and the administrator do.                             *)
LEMMA OperatorSafe == ASSUME Typed, Safe, Operator PROVE Safe'
<1>0. /\ proc \in [Procs -> ProcState] /\ faults \in Nat /\ rotations \in Nat
      /\ device \in [Ids -> DeviceState]
  BY Numbers DEF Typed, TypeOK
<1>1. ASSUME NEW p \in Procs, ShowId(p) PROVE Safe'
  <2>1. Looking("show", NULL) \in ProcState /\ Looking("show", NULL).op = "look"
    BY Kinds DEF Looks, Looking, Goals
  <2>2. Becomes(p, Looking("show", NULL)) /\ proc[p].op = "off"
        /\ UNCHANGED <<agentVars, serverVars, faults>>
    BY <1>1 DEF ShowId, Off
  <2> QED BY <2>1, <2>2, <1>0, Quiet DEF agentVars, serverVars
<1>2. ASSUME NEW p \in Procs, NEW code \in DOMAIN session \cup {NULL}, Start(p, code) PROVE Safe'
  <2> DEFINE s == IF WantsPairing(code) THEN Looking("pair", code) ELSE Looking("log", NULL)
  <2>1. code = NULL \/ code \in Codes
    BY Numbers DEF Typed, TypeOK, Codes
  <2>2. s \in Looks /\ s.op = "look"
    BY <2>1 DEF Looks, Looking, Goals, WantsPairing
  <2>3. Becomes(p, s) /\ proc[p].op = "off" /\ UNCHANGED <<agentVars, serverVars, faults>>
    BY <1>2 DEF Start, Off
  <2> HIDE DEF s
  <2> QED BY <2>2, <2>3, <1>0, Kinds, Quiet DEF agentVars, serverVars
\* The sessions of the server are in none of the five.
<1>3. ASSUME UNCHANGED <<agentVars, device, rotations, proc, faults>> PROVE Safe'
  BY <1>3 DEF agentVars, Safe, Alone, Drawing, OneIdentity, SavedIsCurrent, SavesAlone, Saving,
              StrandedIsExplained, Paired
<1>4. ASSUME NEW bound \in shown \cup {NULL}, RequestPairing(bound) PROVE Safe'
  BY <1>3, <1>4 DEF RequestPairing
<1>5. ASSUME NEW code \in DOMAIN session, ExpireCode(code) PROVE Safe'
  BY <1>3, <1>5 DEF ExpireCode
<1>6. ASSUME NEW id \in Ids, Revoke(id) PROVE Safe'
  <2>1. /\ Paired(id) /\ device[id] # NoDevice /\ device'[id] = Revoked
        /\ Revoked # NoDevice /\ Revoked.status # "PAIRED"
        /\ \A i \in Ids : i # id => device'[i] = device[i]
    BY <1>0, <1>6 DEF Revoke, Paired, NoDevice, Revoked
  <2>2. UNCHANGED <<agentVars, rotations, proc, faults>>
    BY <1>6 DEF Revoke
  <2>3. Alone' /\ OneIdentity' /\ SavesAlone'
    BY <2>1, <2>2 DEF agentVars, Safe, Alone, Drawing, OneIdentity, SavesAlone, Saving
  <2>4. \A q \in Procs : proc[q].op \in {"save", "put"} => proc[q].id \in Ids
    BY ProcKinds DEF Typed, Saves
  <2>5. SavedIsCurrent'
    BY <2>1, <2>2, <2>4 DEF Safe, SavedIsCurrent, Paired
  <2>6. StrandedIsExplained'
    BY <2>1, <2>2 DEF agentVars, Safe, StrandedIsExplained, Paired
  <2> QED BY <2>3, <2>5, <2>6 DEF Safe
<1>7. ASSUME NEW id \in Ids, Rotate(id) PROVE Safe'
  <2>1. UNCHANGED <<agentVars, proc, faults>> /\ rotations' = rotations + 1
    BY <1>7 DEF Rotate
  <2>2. faults' + rotations' > 0 /\ rotations' # 0
    BY <1>0, <2>1
  <2>3. /\ device[id] # NoDevice /\ device'[id] # NoDevice
        /\ \A i \in Ids : i # id => device'[i] = device[i]
    <3>1. device[id] \in [status : {"PAIRED"}, token : Tokens]
      BY <1>0, <1>7 DEF Rotate, Paired, DeviceState, NoDevice, Revoked
    <3>2. device' = [device EXCEPT ![id] = [device[id] EXCEPT !.token = issued']]
      BY <1>7 DEF Rotate
    <3>3. [device[id] EXCEPT !.token = issued'].status = "PAIRED"
      BY <3>1
    <3> QED BY <3>1, <3>2, <3>3, <1>0 DEF NoDevice
  <2>4. Alone' /\ OneIdentity' /\ SavesAlone'
    BY <2>1, <2>3 DEF agentVars, Safe, Alone, Drawing, OneIdentity, SavesAlone, Saving
  <2>5. \A q \in Procs : proc[q].op \in {"save", "put"} => proc[q].id \in Ids
    BY ProcKinds DEF Typed, Saves
  <2>6. SavedIsCurrent'
    BY <2>1, <2>2, <2>3, <2>5 DEF Safe, SavedIsCurrent, Paired
  <2>7. StrandedIsExplained'
    BY <2>2 DEF StrandedIsExplained
  <2> QED BY <2>4, <2>6, <2>7 DEF Safe
<1> QED BY <1>1, <1>2, <1>4, <1>5, <1>6, <1>7 DEF Operator

(* Every step keeps the invariant.                                         *)
LEMMA NextSafe == ASSUME Typed, Safe, [Next]_vars PROVE Safe'
<1>1. CASE UNCHANGED vars
  BY <1>1 DEF vars, agentVars, serverVars, Safe, Alone, Drawing, OneIdentity, SavedIsCurrent,
              SavesAlone, Saving, StrandedIsExplained, Paired
<1>2. ASSUME NEW p \in Procs, Step(p) PROVE Safe'
  BY <1>2, AgentSafe, ServerSafe DEF Step
<1> QED BY <1>1, <1>2, ServerSafe, OperatorSafe DEF Next

---------------------------------------------------------------------------

(* The invariant of the pairing and of the files of the agent.             *)
THEOREM Invariant == Spec => [](Typed /\ Safe)
<1>1. Init => Typed /\ Safe
  BY InitTyped, InitSafe
<1>2. Typed /\ Safe /\ [Next]_vars => (Typed /\ Safe)'
  BY NextTyped, NextSafe
<1> QED BY <1>1, <1>2, PTL DEF Spec

(* Whatever processes, files, sessions and devices there are, they have    *)
(* the types that the code gives them.                                     *)
THEOREM TypeCorrect == Spec => []TypeOK
<1>1. Typed => TypeOK
  BY DEF Typed
<1> QED BY <1>1, Invariant, PTL

(* Unless two processes drew an identity at the same time, the machine has *)
(* one for ever (device_id of agent/windows_agent.py): kills, lost         *)
(* messages and any number of other processes do not change it.            *)
THEOREM Identity == Spec => []OneIdentity
<1>1. Safe => OneIdentity
  BY DEF Safe
<1> QED BY <1>1, Invariant, PTL

(* A device whose agent has not got its credential lost it to a message, a *)
(* killed process, a rotation or a second identity (pair, main and         *)
(* SecretStore.save).                                                      *)
THEOREM Explained == Spec => []StrandedIsExplained
<1>1. Safe => StrandedIsExplained
  BY DEF Safe
<1> QED BY <1>1, Invariant, PTL

---------------------------------------------------------------------------
(* Remote actions *)

(* What the agent knows and what the server knows of an action drift apart *)
(* with every lost answer; the budget of an action counts its reports, and *)
(* those that are still to come.                                           *)
Statuses == {"ABSENT", "REQUESTED", "COMPLETED", "REJECTED"}
Queued(a) == \E i \in 1..Len(queue) : queue[i] = a
Polled(a) == \E i \in 1..Len(todo) : todo[i] = a
Distinct(s) == \A i, j \in 1..Len(s) : s[i] = s[j] => i = j

RemoteTypes ==
    /\ status \in [Actions -> Statuses]
    /\ queue \in Seq(Actions) /\ todo \in Seq(Actions)
    /\ stage = "report" => todo # <<>>
    /\ late \subseteq Actions
    /\ reports \in [Actions -> Nat]
    /\ losses \in Nat

\* The pending actions are those that were requested and not answered.
Listed ==
    /\ Distinct(queue)
    /\ Distinct(todo)
    /\ \A a \in Actions : Queued(a) <=> status[a] = "REQUESTED"
    /\ \A a \in Actions :
          status[a] = "ABSENT" => reports[a] = 0 /\ a \notin late /\ ~Polled(a)
    /\ \A a \in Actions :
          status[a] \in {"COMPLETED", "REJECTED"} => status[a] = Result(a)

Underway(a) == IF a \in late THEN 1 ELSE 0
Waiting(a) == IF Queued(a) \/ Polled(a) THEN 1 ELSE 0
Budget == \A a \in Actions : reports[a] + Underway(a) + Waiting(a) <= 1 + losses

\* What the agent has polled is answered up to some action; from there on it is
\* what the server still has pending.
UpTo(k) ==
    /\ \A i \in 1..k : ~Queued(todo[i])
    /\ \A i \in (k + 1)..Len(todo) : i - k <= Len(queue) /\ todo[i] = queue[i - k]
InOrder ==
    /\ \A a \in late : Queued(a) => a = queue[1]
    /\ \E k \in 0..Len(todo) : UpTo(k)

RInv == RemoteTypes /\ Listed /\ Budget /\ InOrder

(* Distinct requests stay distinct when one is taken off.                  *)
LEMMA RemainingByIndex ==
    ASSUME RemoteTypes, Distinct(queue), NEW a \in Actions
    PROVE  /\ ~Queued(a) => Remaining(a) = queue
           /\ Queued(a) /\ a = queue[1] => Remaining(a) = Tail(queue)
<1>0. queue \in Seq(Actions)
  BY DEF RemoteTypes
<1>1. CASE ~Queued(a)
  BY <1>1 DEF Remaining, RemoveFirst, Queued
<1>2. CASE Queued(a) /\ a = queue[1]
  <2>1. 1 \in 1..Len(queue) /\ queue[1] = a
    BY <1>0, <1>2 DEF Queued
  <2>2. {j \in 1..Len(queue) : queue[j] = a} = {1}
    BY <2>1 DEF Distinct
  <2>3. SelectInSeq(queue, LAMBDA v : v = a) = 1
    BY <2>1, <2>2 DEF SelectInSeq, Min
  <2>4. Remaining(a) = SubSeq(queue, 1, 1 - 1) \o SubSeq(queue, 1 + 1, Len(queue))
    BY <2>1, <2>3 DEF Remaining, RemoveFirst, RemoveAt
  <2>5. SubSeq(queue, 1, 1 - 1) \o SubSeq(queue, 1 + 1, Len(queue)) = Tail(queue)
    BY <1>0, <2>1
  <2> QED BY <1>2, <2>4, <2>5
<1> QED BY <1>1, <1>2

(* A tail holds all elements but the head.                                 *)
LEMMA TailElements ==
    ASSUME NEW S, NEW s \in Seq(S), s # <<>>
    PROVE  /\ Tail(s) \in Seq(S) /\ Len(Tail(s)) = Len(s) - 1 /\ Len(s) \in Nat \ {0}
           /\ \A i \in 1..Len(Tail(s)) : Tail(s)[i] = s[i + 1] /\ i + 1 \in 1..Len(s)
           /\ s[1] \in S /\ Head(s) = s[1] /\ 1 \in 1..Len(s)
OBVIOUS

(* Elements of a tail, by value.                                           *)
LEMMA TailMembers ==
    ASSUME NEW S, NEW s \in Seq(S), s # <<>>, Distinct(s), NEW a
    PROVE  /\ Distinct(Tail(s))
           /\ (\E i \in 1..Len(Tail(s)) : Tail(s)[i] = a)
                 <=> (\E i \in 1..Len(s) : s[i] = a) /\ a # s[1]
<1>1. PICK t \in Seq(S), n \in Nat :
         /\ t = Tail(s) /\ Len(s) = n + 1 /\ Len(t) = n
         /\ \A i \in 1..n : t[i] = s[i + 1] /\ i + 1 \in 1..(n + 1)
  <2>1. PICK t \in Seq(S) : t = Tail(s)
    BY TailElements
  <2>2. PICK n \in Nat : n = Len(s) - 1
    BY TailElements
  <2>3. Len(s) = n + 1 /\ Len(t) = n
    BY <2>1, <2>2, TailElements
  <2>4. \A i \in 1..n : t[i] = s[i + 1] /\ i + 1 \in 1..(n + 1)
    BY <2>1, <2>3, TailElements
  <2> QED BY <2>1, <2>3, <2>4
<1>2. Distinct(t)
  BY <1>1 DEF Distinct
<1>3. ASSUME NEW i \in 1..n, t[i] = a
      PROVE  (\E j \in 1..Len(s) : s[j] = a) /\ a # s[1]
  <2>1. i + 1 \in 1..Len(s) /\ 1 \in 1..Len(s) /\ i + 1 # 1 /\ s[i + 1] = a
    BY <1>1, <1>3
  <2> QED BY <2>1 DEF Distinct
<1>4. ASSUME NEW j \in 1..Len(s), s[j] = a, a # s[1]
      PROVE  \E i \in 1..n : t[i] = a
  <2>1. j # 1
    BY <1>4
  <2>2. j - 1 \in 1..n /\ (j - 1) + 1 = j
    BY <1>1, <2>1
  <2> QED BY <1>1, <1>4, <2>2
<1> QED BY <1>1, <1>2, <1>3, <1>4

(* What a report that is committed does to a table that is in order.       *)
LEMMA Committed ==
    ASSUME RInv, NEW a \in Actions, CommitReport(a),
           ~Queued(a) \/ a = queue[1], status[a] # "ABSENT"
    PROVE  /\ queue' \in Seq(Actions) /\ status' \in [Actions -> Statuses]
           /\ reports' \in [Actions -> Nat]
           /\ Distinct(queue)'
           /\ \A b \in Actions : Queued(b)' <=> Queued(b) /\ b # a
           /\ \A b \in Actions : Queued(b)' <=> status'[b] = "REQUESTED"
           /\ \A b \in Actions : status'[b] \in {"COMPLETED", "REJECTED"}
                                   => status'[b] = Result(b)
           /\ status'[a] # "ABSENT" /\ status'[a] = Result(a)
           /\ \A b \in Actions : b # a => status'[b] = status[b] /\ reports'[b] = reports[b]
           /\ reports'[a] = reports[a] + 1
           /\ ~Queued(a) => queue' = queue
           /\ Queued(a) => queue # <<>> /\ queue' = Tail(queue)
<1>0. /\ status \in [Actions -> Statuses] /\ queue \in Seq(Actions)
      /\ reports \in [Actions -> Nat] /\ Distinct(queue)
  BY DEF RInv, RemoteTypes, Listed
<1>1. /\ status' = [status EXCEPT ![a] = Result(a)]
      /\ queue' = Remaining(a)
      /\ reports' = [reports EXCEPT ![a] = @ + 1]
  BY DEF CommitReport
<1>2. Result(a) \in {"COMPLETED", "REJECTED"}
  BY DEF Result
<1>3. /\ status' \in [Actions -> Statuses] /\ reports' \in [Actions -> Nat]
      /\ status'[a] = Result(a) /\ reports'[a] = reports[a] + 1
      /\ \A b \in Actions : b # a => status'[b] = status[b] /\ reports'[b] = reports[b]
  BY <1>0, <1>1, <1>2 DEF Statuses
<1>4. /\ ~Queued(a) => queue' = queue
      /\ Queued(a) => queue # <<>> /\ queue' = Tail(queue)
  <2>1. Queued(a) => queue # <<>>
    BY DEF Queued
  <2> QED BY <1>0, <1>1, <2>1, RemainingByIndex DEF RInv
<1>5. /\ queue' \in Seq(Actions) /\ Distinct(queue')
      /\ \A b \in Actions : Queued(b)' <=> Queued(b) /\ b # a
  <2>1. CASE ~Queued(a)
    BY <2>1, <1>0, <1>4 DEF Queued
  <2>2. CASE Queued(a)
    <3>1. PICK rest \in Seq(Actions) : rest = Tail(queue) /\ Distinct(rest)
      BY <1>0, <1>4, <2>2, TailElements, TailMembers
    <3>2. \A b : (\E i \in 1..Len(rest) : rest[i] = b)
                    <=> (\E i \in 1..Len(queue) : queue[i] = b) /\ b # queue[1]
      BY <1>0, <1>4, <2>2, <3>1, TailMembers
    <3>3. queue' = rest /\ a = queue[1]
      BY <2>2, <1>4, <3>1
    <3>4. \A b \in Actions : Queued(b)' <=> Queued(b) /\ b # a
      BY <3>2, <3>3 DEF Queued
    <3> QED BY <3>1, <3>3, <3>4
  <2> QED BY <2>1, <2>2
<1>6. \A b \in Actions : Queued(b) <=> status[b] = "REQUESTED"
  BY DEF RInv, Listed
<1>7. \A b \in Actions : status[b] \in {"COMPLETED", "REJECTED"} => status[b] = Result(b)
  BY DEF RInv, Listed
<1>8. \A b \in Actions : Queued(b)' <=> status'[b] = "REQUESTED"
  BY <1>2, <1>3, <1>5, <1>6
<1>9. \A b \in Actions : status'[b] \in {"COMPLETED", "REJECTED"} => status'[b] = Result(b)
  BY <1>3, <1>7
<1> QED BY <1>2, <1>3, <1>4, <1>5, <1>8, <1>9 DEF Distinct

(* Nothing is requested at first.                                          *)
LEMMA RemoteBegins == ASSUME RemoteInit PROVE RInv
<1> USE DEF RemoteInit
<1>1. RemoteTypes
  BY DEF RemoteTypes, Statuses
<1>2. Len(queue) = 0 /\ Len(todo) = 0
  OBVIOUS
<1>3. \A a : ~Queued(a) /\ ~Polled(a)
  BY <1>2 DEF Queued, Polled
<1>4. Listed
  BY <1>2, <1>3 DEF Listed, Distinct
<1>5. Budget
  BY <1>3 DEF Budget, Underway, Waiting
<1>6. InOrder
  <2>1. UpTo(0) /\ 0 \in 0..Len(todo)
    BY <1>2 DEF UpTo
  <2> QED BY <2>1 DEF InOrder
<1> QED BY <1>1, <1>4, <1>5, <1>6 DEF RInv

(* A request is the last of the pending ones.                              *)
LEMMA RequestStep ==
    ASSUME RInv, NEW a \in Actions, RequestAction(a)
    PROVE  RInv'
<1>0. /\ status \in [Actions -> Statuses] /\ queue \in Seq(Actions) /\ todo \in Seq(Actions)
      /\ status[a] = "ABSENT" /\ queue' = Append(queue, a)
      /\ status' = [status EXCEPT ![a] = "REQUESTED"]
      /\ todo' = todo /\ late' = late /\ reports' = reports /\ losses' = losses
      /\ stage' = stage
  BY DEF RInv, RemoteTypes, RequestAction, agent
<1>1. RemoteTypes'
  BY <1>0 DEF RInv, RemoteTypes, Statuses
<1>2. ~Queued(a) /\ ~Polled(a) /\ reports[a] = 0 /\ a \notin late
  BY <1>0 DEF RInv, Listed
<1>3. PICK last \in Nat :
         /\ last = Len(queue) /\ Len(queue') = last + 1 /\ queue'[last + 1] = a
         /\ \A i \in 1..last : queue'[i] = queue[i]
  <2>1. Len(queue) \in Nat
    BY <1>0
  <2> QED BY <2>1, <1>0
<1>4. \A i \in 1..(last + 1) : i \in 1..last \/ i = last + 1
  OBVIOUS
<1>5. \A b : Queued(b)' <=> Queued(b) \/ b = a
  <2>1. last + 1 \in 1..(last + 1) /\ 1..last \subseteq 1..(last + 1)
    OBVIOUS
  <2> QED BY <2>1, <1>3, <1>4 DEF Queued
<1>6. \A b : Polled(b)' <=> Polled(b)
  BY <1>0 DEF Polled
<1>7. Listed'
  <2>1. Distinct(queue)'
    <3>1. \A i \in 1..last : queue[i] # a
      BY <1>2, <1>3 DEF Queued
    <3>2. \A i, j \in 1..last : queue[i] = queue[j] => i = j
      BY <1>3 DEF RInv, Listed, Distinct
    <3> QED BY <3>1, <3>2, <1>3, <1>4 DEF Distinct
  <2>2. Distinct(todo)'
    BY <1>0 DEF RInv, Listed, Distinct
  <2>3. \A b \in Actions : status'[b] = IF b = a THEN "REQUESTED" ELSE status[b]
    BY <1>0
  <2>4. \A b \in Actions : Queued(b) <=> status[b] = "REQUESTED"
    BY DEF RInv, Listed
  <2>5. \A b \in Actions : Queued(b)' <=> status'[b] = "REQUESTED"
    BY <2>3, <2>4, <1>5
  <2>6. \A b \in Actions :
           status'[b] = "ABSENT" => reports'[b] = 0 /\ b \notin late' /\ ~Polled(b)'
    BY <2>3, <1>0, <1>6 DEF RInv, Listed
  <2>7. \A b \in Actions :
           status'[b] \in {"COMPLETED", "REJECTED"} => status'[b] = Result(b)
    BY <2>3 DEF RInv, Listed
  <2> QED BY <2>1, <2>2, <2>5, <2>6, <2>7 DEF Listed
<1>8. Budget'
  <2> SUFFICES ASSUME NEW b \in Actions
               PROVE  reports'[b] + Underway(b)' + Waiting(b)' <= 1 + losses'
    BY DEF Budget
  <2>1. reports[b] + Underway(b) + Waiting(b) <= 1 + losses /\ losses \in Nat
    BY DEF RInv, Budget, RemoteTypes
  <2>2. CASE b = a
    BY <2>1, <2>2, <1>0, <1>2, <1>5 DEF Underway, Waiting
  <2>3. CASE b # a
    BY <2>1, <2>3, <1>0, <1>5, <1>6 DEF Underway, Waiting
  <2> QED BY <2>2, <2>3
<1>9. InOrder'
  <2>1. \A b \in late' : Queued(b)' => b = queue'[1]
    <3> SUFFICES ASSUME NEW b \in late, Queued(b)'
                 PROVE  b = queue'[1]
      BY <1>0
    <3>1. Queued(b) /\ b = queue[1]
      BY <1>2, <1>5 DEF RInv, InOrder
    <3>2. 1 \in 1..last
      BY <3>1, <1>3 DEF Queued
    <3> QED BY <3>1, <3>2, <1>3
  <2>2. PICK k \in 0..Len(todo) : UpTo(k)
    BY DEF RInv, InOrder
  <2>3. UpTo(k)'
    <3>1. ASSUME NEW i \in 1..k PROVE Queued(todo[i])' => FALSE
      <4>1. i \in 1..Len(todo)
        BY <1>0
      <4>2. PICK b \in Actions : b = todo[i] /\ ~Queued(b) /\ b # a
        BY <4>1, <1>0, <1>2, <2>2 DEF Polled, UpTo
      <4>3. ~Queued(b)'
        BY <4>2, <1>5
      <4> QED BY <4>2, <4>3, <1>0 DEF Queued
    <3>2. ASSUME NEW i \in (k + 1)..Len(todo')
          PROVE  i - k <= Len(queue') /\ todo'[i] = queue'[i - k]
      <4>1. i - k <= last /\ todo[i] = queue[i - k]
        BY <1>0, <1>3, <2>2 DEF UpTo
      <4>2. i - k \in 1..last
        BY <4>1, <1>0
      <4> QED BY <4>1, <4>2, <1>0, <1>3
    <3> QED BY <3>1, <3>2 DEF UpTo
  <2> QED BY <2>1, <2>3, <1>0 DEF InOrder
<1> QED BY <1>1, <1>7, <1>8, <1>9 DEF RInv

(* An agent that forgets what it has polled forgets no promise.            *)
LEMMA ForgetStep ==
    ASSUME RInv, status' = status, queue' = queue, reports' = reports, late' = late,
           losses' \in Nat, losses <= losses', todo' = <<>>, stage' # "report"
    PROVE  RInv'
<1>0. Len(todo') = 0 /\ losses \in Nat
  BY DEF RInv, RemoteTypes
<1>1. RemoteTypes'
  BY DEF RInv, RemoteTypes
<1>2. /\ \A a : Queued(a)' <=> Queued(a)
      /\ \A a : ~Polled(a)'
  BY <1>0 DEF Queued, Polled
<1>3. Listed'
  BY <1>0, <1>2 DEF RInv, Listed, Distinct
<1>4. Budget'
  <2> SUFFICES ASSUME NEW a \in Actions
               PROVE  reports'[a] + Underway(a)' + Waiting(a)' <= 1 + losses'
    BY DEF Budget
  <2>1. /\ reports[a] + Underway(a) + Waiting(a) <= 1 + losses /\ reports[a] \in Nat
        /\ Underway(a)' = Underway(a) /\ Underway(a) \in {0, 1}
        /\ Waiting(a)' <= Waiting(a) /\ Waiting(a) \in {0, 1} /\ Waiting(a)' \in {0, 1}
    BY <1>2 DEF RInv, RemoteTypes, Budget, Underway, Waiting
  <2> QED BY <2>1, <1>0
<1>5. InOrder'
  <2>1. UpTo(0)' /\ 0 \in 0..Len(todo')
    BY <1>0 DEF UpTo
  <2>2. \A a \in late' : Queued(a)' => a = queue'[1]
    BY <1>2 DEF RInv, InOrder
  <2> QED BY <2>1, <2>2 DEF InOrder
<1> QED BY <1>1, <1>3, <1>4, <1>5 DEF RInv

(* A budget never grows when its three parts do not.                       *)
LEMMA BudgetKept ==
    ASSUME NEW r \in Nat, NEW u \in {0, 1}, NEW w \in {0, 1}, NEW l \in Nat,
           NEW rr \in Nat, NEW uu \in {0, 1}, NEW ww \in {0, 1}, NEW ll \in Nat,
           r + u + w <= 1 + l, l <= ll, uu <= u, ww <= w,
           \/ rr = r
           \/ rr = r + 1 /\ (uu < u \/ ww < w \/ ll = l + 1)
    PROVE  rr + uu + ww <= 1 + ll
OBVIOUS

(* A fault pays for a report that is promised once more.                   *)
LEMMA BudgetPaid ==
    ASSUME NEW r \in Nat, NEW u \in {0, 1}, NEW w \in {0, 1}, NEW l \in Nat,
           NEW uu \in {0, 1}, NEW ww \in {0, 1}, ww = w \/ ww = 0, r + u + w <= 1 + l
    PROVE  r + uu + ww <= 1 + (l + 1)
OBVIOUS

(* A report that is committed leaves the promises of its action kept: it   *)
(* was promised, or it is paid for by a fault.                             *)
LEMMA CommitStep ==
    ASSUME RInv, NEW a \in Actions, CommitReport(a),
           ~Queued(a) \/ a = queue[1], status[a] # "ABSENT",
           todo' \in Seq(Actions), Distinct(todo'), \A b \in Actions : Polled(b)' => Polled(b),
           stage' = "report" => todo' # <<>>, late' \subseteq late,
           losses' \in Nat, losses <= losses',
           \/ a \in late /\ a \notin late'
           \/ ~Polled(a)' /\ Polled(a)
           \/ losses' = losses + 1,
           InOrder'
    PROVE  RInv'
<1>1. /\ queue' \in Seq(Actions) /\ status' \in [Actions -> Statuses]
      /\ reports' \in [Actions -> Nat]
      /\ Distinct(queue)'
      /\ \A b \in Actions : Queued(b)' <=> Queued(b) /\ b # a
      /\ \A b \in Actions : Queued(b)' <=> status'[b] = "REQUESTED"
      /\ \A b \in Actions : status'[b] \in {"COMPLETED", "REJECTED"}
                              => status'[b] = Result(b)
      /\ status'[a] # "ABSENT"
      /\ \A b \in Actions : b # a => status'[b] = status[b] /\ reports'[b] = reports[b]
      /\ reports'[a] = reports[a] + 1
  BY Committed
<1>2. RemoteTypes'
  BY <1>1 DEF RInv, RemoteTypes
<1>3. Listed'
  <2>1. Distinct(todo)'
    BY DEF Distinct
  <2>2. \A b \in Actions :
           status'[b] = "ABSENT" => reports'[b] = 0 /\ b \notin late' /\ ~Polled(b)'
    BY <1>1 DEF RInv, Listed
  <2> QED BY <1>1, <2>1, <2>2 DEF Listed
<1>4. Budget'
  <2> SUFFICES ASSUME NEW b \in Actions
               PROVE  reports'[b] + Underway(b)' + Waiting(b)' <= 1 + losses'
    BY DEF Budget
  <2>1. /\ reports[b] + Underway(b) + Waiting(b) <= 1 + losses
        /\ reports[b] \in Nat /\ reports'[b] \in Nat /\ losses \in Nat
    BY <1>1 DEF RInv, RemoteTypes, Budget
  <2>2. /\ Underway(b) \in {0, 1} /\ Underway(b)' \in {0, 1}
        /\ Waiting(b) \in {0, 1} /\ Waiting(b)' \in {0, 1}
    BY DEF Underway, Waiting
  <2>3. Underway(b)' <= Underway(b) /\ Waiting(b)' <= Waiting(b)
    BY <1>1 DEF Underway, Waiting
  <2>4. \/ reports'[b] = reports[b]
        \/ /\ reports'[b] = reports[b] + 1
           /\ \/ Underway(b)' < Underway(b)
              \/ Waiting(b)' < Waiting(b)
              \/ losses' = losses + 1
    <3>1. CASE b # a
      BY <1>1, <3>1
    <3>2. CASE b = a
      BY <1>1, <3>2 DEF Underway, Waiting
    <3> QED BY <3>1, <3>2
  <2> QED BY <2>1, <2>2, <2>3, <2>4, BudgetKept
<1> QED BY <1>2, <1>3, <1>4 DEF RInv

(* The next action to report is answered, or the oldest pending one.       *)
LEMMA HeadIsNext ==
    ASSUME RInv, stage = "report"
    PROVE  /\ todo # <<>> /\ Head(todo) = todo[1] /\ todo[1] \in Actions /\ Polled(todo[1])
           /\ status[todo[1]] # "ABSENT"
           /\ ~Queued(todo[1]) \/ todo[1] = queue[1]
<1>1. todo # <<>> /\ todo \in Seq(Actions)
  BY DEF RInv, RemoteTypes
<1>2. Head(todo) = todo[1] /\ todo[1] \in Actions /\ 1 \in 1..Len(todo) /\ Len(todo) \in Nat
  BY <1>1, TailElements
<1>3. Polled(todo[1])
  BY <1>2 DEF Polled
<1>4. PICK k \in 0..Len(todo) : UpTo(k)
  BY DEF RInv, InOrder
<1>5. ~Queued(todo[1]) \/ todo[1] = queue[1]
  <2>1. CASE k = 0
    BY <2>1, <1>2, <1>4 DEF UpTo
  <2>2. CASE k # 0
    BY <2>2, <1>2, <1>4 DEF UpTo
  <2> QED BY <2>1, <2>2
<1> QED BY <1>1, <1>2, <1>3, <1>5 DEF RInv, Listed

(* No report on its way loses its place when one is committed.             *)
LEMMA LateKept ==
    ASSUME RInv, NEW a \in Actions, CommitReport(a),
           ~Queued(a) \/ a = queue[1], status[a] # "ABSENT", late' \subseteq late
    PROVE  \A b \in late' : Queued(b)' => b = queue'[1]
<1> SUFFICES ASSUME NEW b \in late', Queued(b)'
             PROVE  b = queue'[1]
  OBVIOUS
<1>1. b \in Actions
  BY DEF RInv, RemoteTypes
<1>2. /\ Queued(b)' <=> Queued(b) /\ b # a
      /\ ~Queued(a) => queue' = queue
  BY <1>1, Committed
<1>3. Queued(b) /\ b # a /\ b = queue[1]
  BY <1>2 DEF RInv, InOrder
<1> QED BY <1>2, <1>3

(* The report of the next action.                                          *)
LEMMA ReportStep ==
    ASSUME RInv, stage = "report", CommitReport(todo[1]), todo' = Tail(todo),
           stage' = "report" => todo' # <<>>, late' = late, losses' = losses
    PROVE  RInv'
<1>0. PICK a \in Actions :
         /\ a = todo[1] /\ Polled(a) /\ status[a] # "ABSENT" /\ todo # <<>>
         /\ ~Queued(a) \/ a = queue[1]
  BY HeadIsNext
<1>1. /\ CommitReport(a) /\ todo \in Seq(Actions) /\ queue \in Seq(Actions)
      /\ Distinct(todo) /\ losses \in Nat
  BY <1>0 DEF RInv, RemoteTypes, Listed
<1>2. PICK rest \in Seq(Actions), n \in Nat :
         /\ rest = Tail(todo) /\ Len(todo) = n + 1 /\ Len(rest) = n
         /\ \A i \in 1..n : rest[i] = todo[i + 1] /\ i + 1 \in 1..(n + 1)
  <2>1. PICK rest \in Seq(Actions) : rest = Tail(todo)
    BY <1>0, <1>1, TailElements
  <2>2. PICK n \in Nat : n = Len(todo) - 1
    BY <1>0, <1>1, TailElements
  <2>3. Len(todo) = n + 1 /\ Len(rest) = n
    BY <1>0, <1>1, <2>1, <2>2, TailElements
  <2>4. \A i \in 1..n : rest[i] = todo[i + 1] /\ i + 1 \in 1..(n + 1)
    BY <1>0, <1>1, <2>1, <2>3, TailElements
  <2> QED BY <2>1, <2>3, <2>4
<1>3. /\ Distinct(rest)
      /\ \A b : (\E i \in 1..Len(rest) : rest[i] = b)
                    <=> (\E i \in 1..Len(todo) : todo[i] = b) /\ b # todo[1]
  <2>1. Distinct(Tail(todo))
    BY <1>0, <1>1, TailMembers
  <2>2. \A b : (\E i \in 1..Len(Tail(todo)) : Tail(todo)[i] = b)
                  <=> (\E i \in 1..Len(todo) : todo[i] = b) /\ b # todo[1]
    BY <1>0, <1>1, TailMembers
  <2> QED BY <2>1, <2>2, <1>2
<1>4. \A b : Polled(b)' <=> Polled(b) /\ b # a
  BY <1>0, <1>2, <1>3 DEF Polled
<1>5. /\ \A b \in Actions : Queued(b)' <=> Queued(b) /\ b # a
      /\ ~Queued(a) => queue' = queue
      /\ Queued(a) => queue # <<>> /\ queue' = Tail(queue)
  BY <1>0, <1>1, Committed
<1>6. \A b \in late' : Queued(b)' => b = queue'[1]
  BY <1>0, <1>1, LateKept
<1>7. \E k \in 0..Len(todo') : UpTo(k)'
  <2>1. PICK k \in 0..Len(todo) : UpTo(k)
    BY DEF RInv, InOrder
  <2>2. CASE k = 0
    <3>1. \A i \in 1..(n + 1) : i <= Len(queue) /\ todo[i] = queue[i]
      BY <2>1, <2>2, <1>2 DEF UpTo
    <3>2. Queued(a) /\ queue # <<>> /\ queue' = Tail(queue)
      BY <3>1, <1>0, <1>1, <1>2, <1>5 DEF Queued
    <3>3. /\ Len(queue') = Len(queue) - 1 /\ Len(queue) \in Nat
          /\ \A i \in 1..Len(queue') : queue'[i] = queue[i + 1]
      BY <3>2, <1>1, TailElements
    <3>4. ASSUME NEW i \in 1..n
          PROVE  i <= Len(queue') /\ rest[i] = queue'[i]
      <4>1. i + 1 \in 1..(n + 1) /\ rest[i] = todo[i + 1]
        BY <1>2
      <4>2. i + 1 <= Len(queue) /\ todo[i + 1] = queue[i + 1]
        BY <3>1, <4>1
      <4>3. i \in 1..Len(queue')
        BY <3>3, <4>2
      <4> QED BY <3>3, <4>1, <4>2, <4>3
    <3>5. UpTo(0)'
      BY <3>4, <1>2 DEF UpTo
    <3> QED BY <3>5, <1>2
  <2>3. CASE k # 0
    <3>1. PICK j \in Nat : j = k - 1 /\ j \in 0..n
      BY <2>1, <2>3, <1>2
    <3>2. ~Queued(a) /\ queue' = queue
      BY <2>1, <2>3, <1>0, <1>2, <1>5 DEF UpTo
    <3>3. ASSUME NEW i \in 1..j
          PROVE  ~Queued(rest[i])
      <4>1. i \in 1..n /\ i + 1 \in 1..k
        BY <3>1
      <4> QED BY <4>1, <1>2, <2>1 DEF UpTo
    <3>4. ASSUME NEW i \in (j + 1)..n
          PROVE  i - j <= Len(queue) /\ rest[i] = queue[i - j]
      <4>1. i \in 1..n /\ i + 1 \in (k + 1)..Len(todo) /\ (i + 1) - k = i - j
        BY <3>1, <1>2
      <4> QED BY <4>1, <1>2, <2>1 DEF UpTo
    <3>5. UpTo(j)'
      <4>1. todo' = rest /\ Len(todo') = n
        BY <1>2
      <4>2. \A i \in 1..j : ~(\E m \in 1..Len(queue') : queue'[m] = todo'[i])
        BY <3>2, <3>3, <4>1 DEF Queued
      <4>3. \A i \in (j + 1)..n : i - j <= Len(queue') /\ todo'[i] = queue'[i - j]
        BY <3>2, <3>4, <4>1
      <4> QED BY <4>1, <4>2, <4>3 DEF UpTo, Queued
    <3> QED BY <3>1, <3>5, <1>2
  <2> QED BY <2>2, <2>3
<1>8. InOrder'
  BY <1>6, <1>7 DEF InOrder
<1> QED BY <1>0, <1>1, <1>2, <1>3, <1>4, <1>8, CommitStep

(* A report that was given up on, when it is committed after all.          *)
LEMMA LateStep ==
    ASSUME RInv, NEW a \in Actions, CommitLate(a)
    PROVE  RInv'
<1>0. /\ CommitReport(a) /\ a \in late /\ late' = late \ {a}
      /\ todo' = todo /\ stage' = stage /\ losses' = losses
  BY DEF CommitLate, agent
<1>1. /\ ~Queued(a) \/ a = queue[1]
      /\ status[a] # "ABSENT"
  BY <1>0 DEF RInv, InOrder, Listed
<1>2. /\ todo \in Seq(Actions) /\ queue \in Seq(Actions) /\ losses \in Nat /\ Distinct(todo)
      /\ stage = "report" => todo # <<>>
  BY DEF RInv, RemoteTypes, Listed
<1>3. \A b : Polled(b)' <=> Polled(b)
  BY <1>0 DEF Polled
<1>4. /\ \A b \in Actions : Queued(b)' <=> Queued(b) /\ b # a
      /\ ~Queued(a) => queue' = queue
      /\ Queued(a) => queue # <<>> /\ queue' = Tail(queue)
  BY <1>0, <1>1, Committed
<1>5. \A b \in late' : Queued(b)' => b = queue'[1]
  BY <1>0, <1>1, LateKept
<1>6. \E k \in 0..Len(todo') : UpTo(k)'
  <2>1. PICK k \in 0..Len(todo) : UpTo(k)
    BY DEF RInv, InOrder
  <2>2. PICK n \in Nat : n = Len(todo)
    BY <1>2
  <2>3. /\ \A i \in 1..k : todo[i] \in Actions /\ ~Queued(todo[i])
        /\ \A i \in (k + 1)..n : i - k <= Len(queue) /\ todo[i] = queue[i - k]
    BY <2>1, <2>2, <1>2 DEF UpTo
  <2>4. \A i \in 1..k : ~(\E m \in 1..Len(queue') : queue'[m] = todo[i])
    BY <2>3, <1>4 DEF Queued
  <2>5. CASE ~Queued(a)
    <3>1. UpTo(k)'
      BY <2>2, <2>3, <2>4, <2>5, <1>0, <1>4 DEF UpTo, Queued
    <3> QED BY <3>1, <2>1, <1>0
  <2>6. CASE Queued(a) /\ k = n
    <3>1. UpTo(k)'
      BY <2>2, <2>4, <2>6, <1>0 DEF UpTo, Queued
    <3> QED BY <3>1, <2>1, <1>0
  <2>7. CASE Queued(a) /\ k # n
    <3>1. k + 1 \in (k + 1)..n /\ (k + 1) - k = 1 /\ k \in Nat
      BY <2>1, <2>2, <2>7
    <3>2. todo[k + 1] = a
      BY <3>1, <2>3, <2>7, <1>1
    <3>3. /\ Len(queue') = Len(queue) - 1 /\ Len(queue) \in Nat
          /\ \A i \in 1..Len(queue') : queue'[i] = queue[i + 1]
      BY <2>7, <1>2, <1>4, TailElements
    <3>4. ~(\E m \in 1..Len(queue') : queue'[m] = a)
      BY <1>4 DEF Queued
    <3>5. ASSUME NEW i \in 1..(k + 1)
          PROVE  ~(\E m \in 1..Len(queue') : queue'[m] = todo'[i])
      <4>1. i \in 1..k \/ i = k + 1
        BY <3>1
      <4> QED BY <4>1, <3>2, <3>4, <2>4, <1>0
    <3>6. ASSUME NEW i \in ((k + 1) + 1)..n
          PROVE  i - (k + 1) <= Len(queue') /\ todo'[i] = queue'[i - (k + 1)]
      <4>1. PICK j \in Nat : j = i - (k + 1) /\ j >= 1 /\ i - k = j + 1
        BY <3>1
      <4>2. i \in (k + 1)..n
        BY <3>1
      <4>3. j + 1 <= Len(queue) /\ todo[i] = queue[j + 1]
        BY <4>1, <4>2, <2>3
      <4>4. j \in 1..Len(queue')
        BY <4>1, <4>3, <3>3
      <4> QED BY <4>1, <4>3, <4>4, <3>3, <1>0
    <3>7. UpTo(k + 1)'
      BY <3>5, <3>6, <2>2, <1>0 DEF UpTo, Queued
    <3>8. k + 1 \in 0..Len(todo')
      BY <3>1, <2>2, <1>0
    <3> QED BY <3>7, <3>8
  <2> QED BY <2>5, <2>6, <2>7
<1>7. InOrder'
  BY <1>5, <1>6 DEF InOrder
<1> QED BY <1>0, <1>1, <1>2, <1>3, <1>7, CommitStep

(* A poll takes over the oldest pending actions.                           *)
LEMMA PollStep ==
    ASSUME RInv, todo' = Pending, todo' # <<>>, status' = status, queue' = queue,
           reports' = reports, late' = late, losses' = losses
    PROVE  RInv'
<1>0. queue \in Seq(Actions) /\ Len(queue) \in Nat /\ losses \in Nat
  BY DEF RInv, RemoteTypes
<1>1. PICK n \in Nat :
         /\ n = (IF Len(queue) <= Page THEN Len(queue) ELSE Page) /\ n <= Len(queue)
         /\ todo' = SubSeq(queue, 1, n)
  BY <1>0, LimitAssumption DEF Pending
<1>2. /\ todo' \in Seq(Actions) /\ Len(todo') = n
      /\ \A i \in 1..n : todo'[i] = queue[i] /\ i \in 1..Len(queue)
  BY <1>0, <1>1
<1>3. /\ \A b : Queued(b)' <=> Queued(b)
      /\ \A b : Polled(b)' => Queued(b)
  BY <1>2 DEF Queued, Polled
<1>4. RemoteTypes'
  BY <1>2 DEF RInv, RemoteTypes
<1>5. Listed'
  <2>1. Distinct(queue)' /\ Distinct(todo)'
    BY <1>2 DEF RInv, Listed, Distinct
  <2>2. /\ \A a \in Actions : Queued(a) <=> status[a] = "REQUESTED"
        /\ \A a \in Actions : status[a] = "ABSENT" => reports[a] = 0 /\ a \notin late
        /\ \A a \in Actions : status[a] \in {"COMPLETED", "REJECTED"}
                                => status[a] = Result(a)
    BY DEF RInv, Listed
  <2>3. \A a \in Actions : status[a] = "ABSENT" => ~Polled(a)'
    BY <2>2, <1>3
  <2> QED BY <2>1, <2>2, <2>3, <1>3 DEF Listed
<1>6. Budget'
  <2> SUFFICES ASSUME NEW a \in Actions
               PROVE  reports'[a] + Underway(a)' + Waiting(a)' <= 1 + losses'
    BY DEF Budget
  <2>1. /\ reports[a] + Underway(a) + Waiting(a) <= 1 + losses /\ reports[a] \in Nat
        /\ Underway(a)' = Underway(a) /\ Underway(a) \in {0, 1}
        /\ Waiting(a)' <= Waiting(a) /\ Waiting(a) \in {0, 1} /\ Waiting(a)' \in {0, 1}
    BY <1>3 DEF RInv, RemoteTypes, Budget, Underway, Waiting
  <2> QED BY <2>1, <1>0
<1>7. InOrder'
  <2>1. UpTo(0)' /\ 0 \in 0..Len(todo')
    BY <1>1, <1>2 DEF UpTo
  <2>2. \A a \in late' : Queued(a)' => a = queue'[1]
    BY <1>3 DEF RInv, InOrder
  <2> QED BY <2>1, <2>2 DEF InOrder
<1> QED BY <1>4, <1>5, <1>6, <1>7 DEF RInv

(* The answer to a report is lost, whose commit came through.              *)
LEMMA LostAnswerStep ==
    ASSUME RInv, stage = "report", CommitReport(todo[1]), todo' = <<>>,
           stage' # "report", late' = late, losses' = losses + 1
    PROVE  RInv'
<1>0. PICK a \in Actions :
         a = todo[1] /\ status[a] # "ABSENT" /\ (~Queued(a) \/ a = queue[1])
  BY HeadIsNext
<1>1. CommitReport(a) /\ losses \in Nat /\ Len(todo') = 0
  BY <1>0 DEF RInv, RemoteTypes
<1>2. todo' \in Seq(Actions) /\ Distinct(todo') /\ \A b : ~Polled(b)'
  BY <1>1 DEF Polled, Distinct
<1>3. \A b \in late' : Queued(b)' => b = queue'[1]
  BY <1>0, <1>1, LateKept
<1>4. UpTo(0)' /\ 0 \in 0..Len(todo')
  BY <1>1 DEF UpTo
<1>5. InOrder'
  BY <1>3, <1>4 DEF InOrder
<1> QED BY <1>0, <1>1, <1>2, <1>5, CommitStep

(* The report is given up on and will be committed later.                  *)
LEMMA GivenUpStep ==
    ASSUME RInv, stage = "report", late' = late \cup {todo[1]}, todo' = <<>>,
           status' = status, queue' = queue, reports' = reports, stage' # "report",
           losses' = losses + 1
    PROVE  RInv'
<1>0. PICK a \in Actions :
         a = todo[1] /\ status[a] # "ABSENT" /\ (~Queued(a) \/ a = queue[1])
  BY HeadIsNext
<1>1. Len(todo') = 0 /\ losses \in Nat /\ late' = late \cup {a}
  BY <1>0 DEF RInv, RemoteTypes
<1>2. RemoteTypes'
  BY <1>1 DEF RInv, RemoteTypes
<1>3. /\ \A b : Queued(b)' <=> Queued(b)
      /\ \A b : ~Polled(b)'
  BY <1>1 DEF Queued, Polled
<1>4. Listed'
  BY <1>0, <1>1, <1>3 DEF RInv, Listed, Distinct
<1>5. Budget'
  <2> SUFFICES ASSUME NEW b \in Actions
               PROVE  reports'[b] + Underway(b)' + Waiting(b)' <= 1 + losses'
    BY DEF Budget
  <2>a. Waiting(b)' = Waiting(b) \/ Waiting(b)' = 0
    BY <1>3 DEF Waiting
  <2>1. /\ reports[b] + Underway(b) + Waiting(b) <= 1 + losses /\ reports[b] \in Nat
        /\ Underway(b) \in {0, 1} /\ Underway(b)' \in {0, 1}
        /\ Waiting(b)' \in {0, 1} /\ Waiting(b) \in {0, 1}
        /\ Waiting(b)' = Waiting(b) \/ Waiting(b)' = 0
    <3>1. reports[b] + Underway(b) + Waiting(b) <= 1 + losses /\ reports[b] \in Nat
      BY DEF RInv, RemoteTypes, Budget
    <3>2. Underway(b) \in {0, 1} /\ Underway(b)' \in {0, 1}
      BY DEF Underway
    <3>3. Waiting(b)' \in {0, 1} /\ Waiting(b) \in {0, 1}
      BY DEF Waiting
    <3> QED BY <2>a, <3>1, <3>2, <3>3
  <2>2. reports[b] + Underway(b)' + Waiting(b)' <= 1 + (losses + 1)
    BY <2>1, <1>1, BudgetPaid
  <2>3. reports'[b] = reports[b] /\ losses' = losses + 1
    BY <2>1
  <2> QED BY <2>2, <2>3
<1>6. InOrder'
  <2>1. UpTo(0)' /\ 0 \in 0..Len(todo')
    BY <1>1 DEF UpTo
  <2>2. \A b \in late' : Queued(b)' => b = queue'[1]
    BY <1>0, <1>1, <1>3 DEF RInv, InOrder
  <2> QED BY <2>1, <2>2 DEF InOrder
<1> QED BY <1>2, <1>4, <1>5, <1>6 DEF RInv

(* Steps that leave the actions alone.                                     *)
LEMMA AloneStep ==
    ASSUME RInv, status' = status, queue' = queue, reports' = reports, late' = late,
           losses' = losses, todo' = todo, stage' = stage
    PROVE  RInv'
<1>1. (\A b : Queued(b)' <=> Queued(b)) /\ (\A b : Polled(b)' <=> Polled(b))
  BY DEF Queued, Polled
<1>2. RemoteTypes' /\ Listed'
  BY <1>1 DEF RInv, RemoteTypes, Listed, Distinct
<1>3. Budget'
  BY <1>1 DEF RInv, Budget, Underway, Waiting
<1>4. InOrder'
  BY <1>1 DEF RInv, InOrder, UpTo, Queued
<1> QED BY <1>2, <1>3, <1>4 DEF RInv

(* Every step of the server, the agent and the environment.                *)
LEMMA RemoteStep ==
    ASSUME RInv, [RemoteNext]_remoteVars
    PROVE  RInv'
<1>0. losses \in Nat /\ losses <= losses + 1 /\ losses <= losses /\ losses + 1 \in Nat
  BY DEF RInv, RemoteTypes
<1> DEFINE SendsNothing == status' = status /\ queue' = queue /\ reports' = reports /\ late' = late
<1>1. CASE \E a \in Actions : RequestAction(a)
  BY <1>1, RequestStep
<1>2. CASE \E a \in Actions : CommitLate(a)
  BY <1>2, LateStep
<1>3. CASE RevokeDevice
  BY <1>3, AloneStep DEF RevokeDevice, agent
<1>4. CASE Tick
  BY <1>4, AloneStep DEF Tick, server
<1>5. CASE UNCHANGED remoteVars
  BY <1>5, AloneStep DEF remoteVars, server, agent
<1>6. CASE Refused \/ Unauthorized
  BY <1>0, <1>6, ForgetStep DEF Refused, Unauthorized, GiveUp, server
<1>7. CASE SendHeartbeat \/ Telemetry
  BY <1>0, <1>7, ForgetStep DEF SendHeartbeat, Telemetry, GoOn, server
<1>8. CASE Poll
  <2>1. SendsNothing /\ losses' = losses
    BY <1>8 DEF Poll, server
  <2>2. CASE Pending = <<>>
    <3>1. todo' = <<>> /\ stage' # "report"
      BY <1>8, <2>2 DEF Poll, Rest
    <3> QED BY <1>0, <2>1, <3>1, ForgetStep
  <2>3. CASE Pending # <<>>
    <3>1. todo' = Pending
      BY <1>8, <2>3 DEF Poll, GoOn
    <3> QED BY <2>1, <2>3, <3>1, PollStep
  <2> QED BY <2>2, <2>3
<1>9. CASE Report
  <2>1. /\ stage = "report" /\ CommitReport(todo[1]) /\ late' = late /\ losses' = losses
        /\ todo # <<>> /\ todo \in Seq(Actions)
    BY <1>9, HeadIsNext DEF Report, RInv, RemoteTypes
  <2>2. /\ Tail(todo) \in Seq(Actions) /\ Len(Tail(todo)) = Len(todo) - 1
        /\ Len(todo) \in Nat \ {0}
    BY <2>1, TailElements
  <2>3. CASE Len(todo) = 1
    <3>1. todo' = <<>> /\ stage' # "report"
      BY <1>9, <2>3 DEF Report, Rest
    <3>2. Tail(todo) = <<>>
      <4>0. Len(Tail(todo)) = 0
        BY <2>2, <2>3
      <4>1. PICK rest \in Seq(Actions) : rest = Tail(todo) /\ Len(rest) = 0
        BY <2>2, <4>0
      <4>2. rest = <<>>
        BY <4>1
      <4> QED BY <4>1, <4>2
    <3> QED BY <2>1, <3>1, <3>2, ReportStep
  <2>4. CASE Len(todo) # 1
    <3>1. todo' = Tail(todo)
      BY <1>9, <2>4 DEF Report, GoOn
    <3>2. Tail(todo) # <<>>
      BY <2>2, <2>4
    <3> QED BY <2>1, <3>1, <3>2, ReportStep
  <2> QED BY <2>3, <2>4
<1>10. CASE DropRequest \/ Restart
  BY <1>0, <1>10, ForgetStep
     DEF DropRequest, Restart, Loss, GiveUp, server
<1>11. CASE DropAnswer
  <2>1. losses' = losses + 1 /\ todo' = <<>> /\ stage' # "report"
    BY <1>11 DEF DropAnswer, Loss, GiveUp
  <2>2. CASE SendsNothing
    BY <1>0, <2>1, <2>2, ForgetStep
  <2>3. CASE stage = "report" /\ CommitReport(Head(todo)) /\ late' = late
    <3>1. CommitReport(todo[1])
      BY <2>3, HeadIsNext
    <3> QED BY <2>1, <2>3, <3>1, LostAnswerStep
  <2>4. CASE /\ stage = "report" /\ late' = late \cup {Head(todo)}
             /\ status' = status /\ queue' = queue /\ reports' = reports
    <3>1. late' = late \cup {todo[1]}
      BY <2>4, HeadIsNext
    <3> QED BY <2>1, <2>4, <3>1, GivenUpStep
  <2> QED BY <1>11, <2>2, <2>3, <2>4 DEF DropAnswer, server
<1> QED BY <1>1, <1>2, <1>3, <1>4, <1>5, <1>6, <1>7, <1>8, <1>9, <1>10, <1>11
        DEF RemoteNext, Pass

(* The invariant holds as long as a page is a number of actions.           *)
LEMMA RemoteInvariance == RemoteSpec => []RInv
<1>1. RemoteInit => RInv
  BY RemoteBegins
<1>2. RInv /\ [RemoteNext]_remoteVars => RInv'
  BY RemoteStep
<1> QED BY <1>1, <1>2, PTL DEF RemoteSpec

(* An action is reported twice only if an answer was lost: each fault      *)
(* costs one report too many, at most (complete_managed_action takes       *)
(* reports in any status, run_once reports what it has polled).            *)
THEOREM Reports == RemoteSpec => []ReportedOnce
<1>1. ASSUME RInv PROVE ReportedOnce
  <2> SUFFICES ASSUME NEW a \in Actions
               PROVE  reports[a] <= 1 + losses
    BY DEF ReportedOnce
  <2>1. /\ reports[a] + Underway(a) + Waiting(a) <= 1 + losses /\ reports[a] \in Nat
        /\ Underway(a) \in {0, 1} /\ Waiting(a) \in {0, 1} /\ losses \in Nat
    BY <1>1 DEF RInv, RemoteTypes, Budget, Underway, Waiting
  <2> QED BY <2>1
<1> QED BY <1>1, RemoteInvariance, PTL

(* What may become of an action in one step.                               *)
AnsweredNext(a) ==
    /\ status[a] = "REQUESTED" /\ status'[a] # "REQUESTED" => a = Head(queue)
    /\ Answered(a) => status'[a] = status[a]

(* A report answers the oldest pending action, or repeats an answer.       *)
LEMMA CommitInOrder ==
    ASSUME RInv, NEW a \in Actions, CommitReport(a),
           ~Queued(a) \/ a = queue[1], status[a] # "ABSENT"
    PROVE  \A b \in Actions : AnsweredNext(b)
<1> SUFFICES ASSUME NEW b \in Actions
             PROVE  AnsweredNext(b)
  OBVIOUS
<1>1. /\ status'[a] = Result(a)
      /\ \A c \in Actions : c # a => status'[c] = status[c]
  BY Committed
<1>2. /\ Queued(b) <=> status[b] = "REQUESTED"
      /\ status[b] \in {"COMPLETED", "REJECTED"} => status[b] = Result(b)
  BY DEF RInv, Listed
<1>3. CASE b = a
  <2>1. Queued(a) => a = Head(queue)
    <3>1. Queued(a) => queue # <<>> /\ queue \in Seq(Actions)
      BY DEF Queued, RInv, RemoteTypes
    <3> QED BY <3>1, TailElements
  <2> QED BY <2>1, <1>1, <1>2, <1>3 DEF AnsweredNext, Answered
<1>4. CASE b # a
  BY <1>1, <1>4 DEF AnsweredNext
<1> QED BY <1>3, <1>4

(* Actions are answered in the order they were requested, and an answer is *)
(* never taken back, although passes are cut short anywhere and a report   *)
(* given up on may be committed long after (complete_managed_action).      *)
THEOREM Answers == RemoteSpec => AnsweredInOrder
<1>1. ASSUME RInv, [RemoteNext]_remoteVars
      PROVE  status' = status \/ \A a \in Actions : AnsweredNext(a)
  <2>1. CASE \E a \in Actions : RequestAction(a)
    <3>1. PICK a \in Actions : RequestAction(a)
      BY <2>1
    <3>2. status[a] = "ABSENT" /\ status' = [status EXCEPT ![a] = "REQUESTED"]
      BY <3>1 DEF RequestAction
    <3>3. \A b \in Actions : b # a => status'[b] = status[b]
      BY <3>2, <1>1 DEF RInv, RemoteTypes
    <3> QED BY <3>2, <3>3 DEF AnsweredNext, Answered
  <2>2. CASE \E a \in Actions : CommitLate(a)
    <3>1. PICK a \in Actions : CommitReport(a) /\ a \in late
      BY <2>2 DEF CommitLate
    <3>2. /\ ~Queued(a) \/ a = queue[1]
          /\ status[a] # "ABSENT"
      BY <3>1, <1>1 DEF RInv, InOrder, Listed
    <3> QED BY <3>1, <3>2, <1>1, CommitInOrder
  <2>3. ASSUME stage = "report", CommitReport(Head(todo))
        PROVE  \A a \in Actions : AnsweredNext(a)
    <3>1. PICK a \in Actions :
             /\ a = todo[1] /\ status[a] # "ABSENT" /\ (~Queued(a) \/ a = queue[1])
             /\ Head(todo) = a
      BY <1>1, <2>3, HeadIsNext
    <3> QED BY <3>1, <2>3, <1>1, CommitInOrder
  <2>4. CASE Report
    BY <2>4, <2>3 DEF Report
  <2>5. CASE DropAnswer
    BY <2>5, <2>3 DEF DropAnswer, server
  <2>6. CASE RevokeDevice \/ Tick \/ UNCHANGED remoteVars
    BY <2>6 DEF RevokeDevice, Tick, remoteVars, server
  <2>7. CASE Refused \/ Unauthorized \/ SendHeartbeat \/ Telemetry
             \/ Poll \/ DropRequest \/ Restart
    BY <2>7 DEF Refused, Unauthorized, SendHeartbeat, Telemetry,
                Poll, DropRequest, Restart, server
  <2> QED BY <1>1, <2>1, <2>2, <2>4, <2>5, <2>6, <2>7 DEF RemoteNext, Pass
<1>2. RInv /\ [RemoteNext]_remoteVars
        => [\A a \in Actions : AnsweredNext(a)]_status
  BY <1>1
<1> QED BY <1>2, RemoteInvariance, PTL DEF RemoteSpec, AnsweredInOrder, AnsweredNext
=============================================================================
