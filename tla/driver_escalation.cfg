\* One drive at a time, no crash, the database and the resource manager answer.
SPECIFICATION Spec
CONSTANTS
    Workers = {w1}
    Requests = {"AUTOMATION", "LEGACY", "CREATE", "UPDATE", "DELETE"}
    MaxRetries = 1
    LeaseCovers = TRUE
    Faulty = {"ticket", "engine", "legacy"}
    MaxPolls = 2
    MaxTickets = 3
    MaxWakes = 0
    MaxCrashes = 0
    MaxFaults = 2
    MaxDbFaults = 0
INVARIANTS NothingLeftInFlight OneIncident NoIncidentUnlessFailed SavesBounded
CHECK_DEADLOCK FALSE
