\* Whatever the modem fails to do, start-up acts on its own replies only; and if
\* it fails in nothing, start-up completes.
CONSTANTS
    Timer <- MCTimer
    Limit <- MCLimit
    StartupFaults = {"at", "lapse", "query", "read_handle"}
    StoredApns = {"wanted", "other"}
    Noise <- StrayByte
SPECIFICATION StartupSpec
INVARIANTS
    StartupTypeOK
    ApiModeConfirmed
    ApnConfigured
PROPERTY
    StartupCompletes
