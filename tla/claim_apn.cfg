\* A stored APN that the wanted one begins with is taken for it.
CONSTANTS
    Timer <- MCTimer
    Limit <- MCLimit
    StartupFaults = {}
    StoredApns = {"wanted", "prefix", "other"}
    Noise <- Silence
SPECIFICATION StartupSpec
INVARIANT
    ApnVerified
