\* Crashes and nothing else, on the requests whose finalize does not re-key a record.
SPECIFICATION FairSpec
CONSTANTS
    Workers = {w1}
    Requests = {"AUTOMATION", "LEGACY", "DELETE"}
    MaxRetries = 1
    LeaseCovers = TRUE
    Faulty = {}
    MaxPolls = 2
    MaxTickets = 3
    MaxWakes = 0
    MaxCrashes = 2
    MaxFaults = 0
    MaxDbFaults = 0
INVARIANTS RedriveIsSafe RejectedUntouched NothingLeftInFlight
PROPERTIES EventuallySettled
CHECK_DEADLOCK FALSE
