CONSTANTS
    None = None
    i1 = i1
    e1 = e1
    e2 = e2
    a1 = a1
    a2 = a2
    Inbounds <- OneInbound
    Emails <- TwoClients
    Home <- AllAtOne
    Kind <- UserKind
    Admins <- OneAdmin
    Entries <- LimitedOrOff
    Forms <- OnAndOff
    FirstInbounds <- LimitedAlone
    Workload <- SteadyRequests
    RestartOnDisable = TRUE
    ApiErrors = FALSE
    Instants <- UntilDay2
    MaxUse = 1
    MaxEdits = 3
    MaxFaults = 1
SPECIFICATION SerialSpec
CHECK_DEADLOCK FALSE
INVARIANT InStep
PROPERTY SkipsInStep
