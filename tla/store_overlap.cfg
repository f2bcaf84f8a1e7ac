\* Two workers, leases that may run out under a drive, a callback, a crash, a database error.
SPECIFICATION FairSpec
CONSTANTS
    Runs = {r1, r2}
    Workers = {w1, w2}
    NoRun = NoRun
    LeaseCovers = FALSE
    MaxVersion = 2
    MaxWakes = 1
    MaxCrashes = 1
    MaxFaults = 1
INVARIANTS StoreInv NoStrandedRun TerminalAtRest
PROPERTIES TerminalIsFinal VersionsGrow NoOvertaking ImplementsLifecycle EventuallySettled
CHECK_DEADLOCK FALSE
