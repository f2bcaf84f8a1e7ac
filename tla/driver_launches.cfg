\* Overlapping drives of an automation run: callbacks, retries, a crash, lost answers and failing saves.
SPECIFICATION Spec
CONSTANTS
    Workers = {w1, w2}
    Requests = {"AUTOMATION", "LEGACY"}
    MaxRetries = 1
    LeaseCovers = TRUE
    Faulty = {"engine", "legacy"}
    MaxPolls = 2
    MaxTickets = 1
    MaxWakes = 1
    MaxCrashes = 1
    MaxFaults = 1
    MaxDbFaults = 1
SYMMETRY Symmetry
INVARIANTS LaunchesBounded HandoversBounded
PROPERTIES ImplementsStore
CHECK_DEADLOCK FALSE
