\* A worker dies between re-keying the record and saving.
SPECIFICATION Spec
CONSTANTS
    Workers = {w1}
    Requests = {"CREATE"}
    MaxRetries = 1
    LeaseCovers = TRUE
    Faulty = {}
    MaxPolls = 2
    MaxTickets = 2
    MaxWakes = 0
    MaxCrashes = 1
    MaxFaults = 0
    MaxDbFaults = 0
INVARIANTS RedriveIsSafe
CHECK_DEADLOCK FALSE
