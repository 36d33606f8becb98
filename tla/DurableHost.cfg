SPECIFICATION Spec
CONSTANTS
    Hosts = {h1, h2}
    Builds = {"v1", "v2"}
    FirstBuild = "v1"
    Limits <- MCLimits
    Specs = {"prepare", "link", "move", "copy"}
    MaxResult <- MCMaxResult
    Results = {"ok", "wide"}
    ResultBytes <- MCResultBytes
    Outcomes = {"succeeded", "verbose"}
    OutcomeBytes <- MCOutcomeBytes
    MaxTerminalPayload = 2
    Workflow <- MCWorkflow
    Stall = "stall"
    None = None
    ScheduledBytes = 1
    ExposedBytes = 2
    CompletedBytes = 2
    MaxCrashes = 1
    MaxLosses = 1
INVARIANTS
    Consistent
    PermitIsUniqueAndDurable
PROPERTIES
    ImplementsContract
    HistoryIsAppendOnly
SYMMETRY HostSymmetry
CHECK_DEADLOCK FALSE
