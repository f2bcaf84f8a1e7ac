\* Two requests at a time; an operator updates a workflow while runs of it are triggered.
SPECIFICATION Spec
CONSTANTS
    Clients = {c1, c2}
    Identifiers = {i1}
    Names = {"n1", "n2"}
    Flows = {"n1"}
    Offered <- Documented
    Records = {x1, x2}
    None = None
    MaxRuns = 2
    Blank = Blank
    MaxBatch = 1
    MaxParts = 3
SYMMETRY Symmetry
INVARIANTS ApiInv RunsAsRegistered EveryRunCanBeDriven BatchMatchesSingles
PROPERTIES LatestNeverGoesBack
CHECK_DEADLOCK FALSE
