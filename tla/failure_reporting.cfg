\* A run with one retry reports over a session it shares with another caller;
\* tokens expire, a call raises, and a group is created meanwhile.
SPECIFICATION Spec
CONSTANTS
    None = None
    net = net
    ops = ops
    dba = dba
    Groups <- MCGroups
    Default = ops
    Seeded <- MCSeeded
    Missing <- MCMissing
    Dags <- MCDags
    Callers = {c1, c2}
    Reporters = {c1}
    MaxRetries = 1
    MaxTokens = 3
    MaxFaults = 1
INVARIANTS ReportInv RefusedOnlyOnExpiry SuccessIsReal IncidentReachesOwner
CHECK_DEADLOCK FALSE
