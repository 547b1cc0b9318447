SPECIFICATION Spec
CONSTANTS
    Devices = {d1}
    Codes = {c1}
    Tokens = {k1, k2, k3}
    Beats = {b1}
    Threads = {p1, p2}
    NULL = NULL
    PairingTTL = 1
    CredentialTTL = 2
    OfflineAfter = 0
    UtcOffset = 0
    Handlers <- AllHandlers
    Watched = {"DEVICE_PAIRED", "DEVICE_REVOKED"}
    MaxTime = 2
    MaxFaults = 0
SYMMETRY Symmetry
CHECK_DEADLOCK FALSE
PROPERTY
    RevokedIsNotRotated
