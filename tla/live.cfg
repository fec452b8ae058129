CONSTANTS
    None = None
    i1 = i1
    e1 = e1
    e2 = e2
    a1 = a1
    a2 = a2
    Inbounds <- OneInbound
    Emails <- OneClient
    Home <- AllAtOne
    Kind <- UserKind
    Admins <- OneAdmin
    Entries <- JustFree
    Forms <- NoForms
    FirstInbounds <- RenewingAndOnUse
    Workload <- ButtonsAndReset
    RestartOnDisable = TRUE
    ApiErrors = TRUE
    Instants <- UntilDay2
    MaxUse = 1
    MaxEdits = 1
    MaxFaults = 1
SPECIFICATION FairSpec
CHECK_DEADLOCK FALSE
PROPERTIES EnforcedAtCommit CutOff ComesBack
