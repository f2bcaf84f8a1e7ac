\* Overlapping first drives of a resource run.
SPECIFICATION Spec
CONSTANTS
    Workers = {w1, w2}
    Requests = {"UPDATE"}
    MaxRetries = 0
    LeaseCovers = FALSE
    Faulty = {}
    MaxPolls = 2
    MaxTickets = 2
    MaxWakes = 0
    MaxCrashes = 0
    MaxFaults = 0
    MaxDbFaults = 0
INVARIANTS RejectedUntouched
CHECK_DEADLOCK FALSE
