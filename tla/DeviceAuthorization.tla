------------------------ MODULE DeviceAuthorization ------------------------
(***************************************************************************)
(* What the managed-device service promises about device credentials,      *)
(* with no handler, database row, clock or interleaving in sight: a device *)
(* is granted a token once, when it is paired; while it is paired its      *)
(* token may be replaced by one never handed out before; a revocation is   *)
(* final, and from then on no token of that device is accepted.            *)
(*                                                                         *)
(* ManagedDevices is the detailed specification that implements this one.  *)
(***************************************************************************)

CONSTANTS Devices,      \* the device identities
          Tokens,       \* the credentials that can be generated
          NULL          \* no credential

VARIABLES phase,        \* [Devices -> {"unpaired", "paired", "revoked"}]
          accepts,      \* the token each device is accepted with, or NULL
          spent         \* every token generated so far

vars == <<phase, accepts, spent>>

Init == /\ phase = [d \in Devices |-> "unpaired"]
        /\ accepts = [d \in Devices |-> NULL]
        /\ spent = {}

\* A device is paired, at most once, and receives a token no device had.
Grant(d, t) ==
    /\ phase[d] = "unpaired"
    /\ t \notin spent
    /\ phase' = [phase EXCEPT ![d] = "paired"]
    /\ accepts' = [accepts EXCEPT ![d] = t]
    /\ spent' = spent \cup {t}

\* The token of a paired device is replaced; the old one is dead for good.
Replace(d, t) ==
    /\ phase[d] = "paired"
    /\ t \notin spent
    /\ accepts' = [accepts EXCEPT ![d] = t]
    /\ spent' = spent \cup {t}
    /\ UNCHANGED phase

\* A token is generated for a revoked device: it is never accepted.
Waste(d, t) ==
    /\ phase[d] = "revoked"
    /\ t \notin spent
    /\ spent' = spent \cup {t}
    /\ UNCHANGED <<phase, accepts>>

\* A paired device is revoked: no token is accepted any more.
Withdraw(d) ==
    /\ phase[d] = "paired"
    /\ phase' = [phase EXCEPT ![d] = "revoked"]
    /\ accepts' = [accepts EXCEPT ![d] = NULL]
    /\ UNCHANGED spent

Next == \E d \in Devices :
            \/ Withdraw(d)
            \/ \E t \in Tokens : Grant(d, t) \/ Replace(d, t) \/ Waste(d, t)

Spec == Init /\ [][Next]_vars
=============================================================================
