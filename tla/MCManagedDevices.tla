-------------------------- MODULE MCManagedDevices --------------------------
(* Instances of ManagedDevices for TLC. *)
EXTENDS ManagedDevices, TLC

AllHandlers == {"pair", "auth", "heartbeat", "telemetry", "offline",
                "revoke", "rotate"}

\* A host whose local time is behind UTC.
WestOfUtc == -2

\* Threads, tokens, heartbeat ids, devices and codes are interchangeable (safety
\* runs only).
Symmetry == Permutations(Threads) \cup Permutations(Tokens) \cup Permutations(Codes)
                \cup Permutations(Beats) \cup Permutations(Devices)

Named(p) ==
    LET c == call[p] IN
    IF c.op \in {"expire", "register", "heartbeat", "telemetry", "touch", "revoke", "rotate"}
    THEN {c.dev}
    ELSE IF c.op \in {"markOffline", "announce"} THEN c.devs \ {NULL} ELSE {}

\* One code, and one device that may be anything.
OneDevice ==
    /\ Cardinality({c \in Codes : session[c] # NoSession}) <= 1
    /\ \E d \in Devices : \A x \in Devices \ {d} :
          /\ device[x] = NoDevice
          /\ \A c \in Codes : session[c].intended_device_id # x
          /\ \A p \in Threads : x \notin Named(p)

\* All codes and devices, which are paired and revoked.
PairingOnly ==
    /\ \A p \in Threads :
          \/ call[p].op \in {"idle", "expire", "register", "revoke"}
          \/ /\ call[p].op = "announce"
             /\ call[p].type \in {"DEVICE_PAIRING_REQUESTED", "DEVICE_PAIRED",
                                 "DEVICE_PAIRING_FAILED", "DEVICE_REVOKED"}
    /\ \A d \in Devices : device[d].last_seen = NULL
    /\ Cardinality(issued) <= Cardinality({d \in Devices : Registered(d)})

\* The bound of the run: behaviours of one device, in which a call dies only
\* while the clock is below MaxTime, and pairings of two.
Focus ==
    \/ OneDevice /\ (faults = 0 \/ clock < MaxTime)
    \/ PairingOnly
=============================================================================
