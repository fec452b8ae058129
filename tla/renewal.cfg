CONSTANTS
    None = None
    i1 = i1
    e1 = e1
    e2 = e2
    a1 = a1
    a2 = a2
    Inbounds <- OneInbound
    Emails <- OneClient
    Home <- AllAtOne
    Kind <- UserKind
    Admins <- OneAdmin
    Entries <- NoEntries
    Forms <- NoForms
    FirstInbounds <- RenewingAlone
    Workload <- NoRequests
    RestartOnDisable = TRUE
    ApiErrors = FALSE
    Instants <- OddDays
    MaxUse = 1
    MaxEdits = 2
    MaxFaults = 0
SPECIFICATION SerialSpec
CHECK_DEADLOCK FALSE
INVARIANT InStep
