CONSTANTS
    None = None
    i1 = i1
    e1 = e1
    e2 = e2
    a1 = a1
    a2 = a2
    Inbounds <- OneInbound
    Emails <- TwoClients
    Home <- AllAtOne
    Kind <- UserKind
    Admins <- OneAdmin
    Entries <- JustFree
    Forms <- JustOff
    FirstInbounds <- MeteredInbound
    Workload <- AllButStop
    RestartOnDisable = TRUE
    ApiErrors = FALSE
    Instants <- Frozen
    MaxUse = 1
    MaxEdits = 2
    MaxFaults = 1
SPECIFICATION Spec
CHECK_DEADLOCK FALSE
INVARIANTS TypeOK NoDoubleBilling BillingBounded
PROPERTY EnforcedAtCommit
