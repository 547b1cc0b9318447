---------------------------- MODULE MCAlertEngine ----------------------------
(* Instances of AlertEngine for TLC. *)
EXTENDS AlertEngine, TLC

CONSTANT d1             \* a managed device

Event(type, source, severity, dev) ==
    [type |-> type, source |-> source, severity |-> severity, dev |-> dev]

Offline(d) == Event("DEVICE_OFFLINE", "managed_device", "MEDIUM", d)
AuthFailure == Event("AUTH_FAILURE", "auth", "MEDIUM", NULL)
CriticalApk == Event("APK_SCAN_COMPLETED", "apk", "CRITICAL", NULL)
HighWeb == Event("WEBSEC_SCAN_COMPLETED", "websec", "HIGH", NULL)
NewDevice == Event("NEW_DEVICE", "network", "MEDIUM", NULL)

\* A device that goes offline, again and again, and an APK that raises two alerts.
Racing == {Offline(d1), CriticalApk}

\* An event for each source of alerts.
Mixed == {AuthFailure, Offline(d1), CriticalApk, HighWeb, NewDevice}

Symmetry == Permutations(Alerts) \cup Permutations(Threads)
=============================================================================
