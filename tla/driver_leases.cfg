\* Overlapping drives of a resource run: leases run out under a drive.
SPECIFICATION Spec
CONSTANTS
    Workers = {w1, w2}
    Requests = {"UPDATE"}
    MaxRetries = 0
    LeaseCovers = FALSE
    Faulty = {"engine"}
    MaxPolls = 2
    MaxTickets = 2
    MaxWakes = 0
    MaxCrashes = 0
    MaxFaults = 1
    MaxDbFaults = 0
SYMMETRY Symmetry
INVARIANTS DriverInv ApprovedBeforeEngine CompletedMeansProvisioned
PROPERTIES ProgressIsKept
CHECK_DEADLOCK FALSE
