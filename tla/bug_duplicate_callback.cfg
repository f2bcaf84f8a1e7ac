\* A callback wakes a run that a worker is driving.
SPECIFICATION Spec
CONSTANTS
    Workers = {w1, w2}
    Requests = {"CREATE"}
    MaxRetries = 0
    LeaseCovers = TRUE
    Faulty = {}
    MaxPolls = 2
    MaxTickets = 1
    MaxWakes = 1
    MaxCrashes = 0
    MaxFaults = 0
    MaxDbFaults = 0
INVARIANTS CompletedMeansDone
CHECK_DEADLOCK FALSE
