\* Three runs on one record, the first of which creates it; two workers die.
SPECIFICATION FairSpec
CONSTANTS
    Runs = {r1, r2, r3}
    Creator = r1
    None = None
    MaxCrashes = 2
INVARIANTS RecordInv InFlightIsOwned DeleteIsFinal
PROPERTIES EventuallyAtRest
CHECK_DEADLOCK FALSE
