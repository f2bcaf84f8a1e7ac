\* One drive at a time; the worker may die, database calls and all providers but the ticket system may raise.
SPECIFICATION Spec
CONSTANTS
    Workers = {w1}
    Requests = {"AUTOMATION", "LEGACY", "CREATE", "UPDATE", "DELETE"}
    MaxRetries = 1
    LeaseCovers = TRUE
    Faulty = {"resource", "engine", "legacy"}
    MaxPolls = 2
    MaxTickets = 2
    MaxWakes = 0
    MaxCrashes = 1
    MaxFaults = 1
    MaxDbFaults = 1
INVARIANTS TypeOK CompletedMeansDone FailureIsTold IncidentsBounded
CHECK_DEADLOCK FALSE
