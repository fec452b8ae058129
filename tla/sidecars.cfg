SPECIFICATION FairSpec
CONSTANTS
  None = None
  All = All
  Inbounds = {1}
  Clients = {1, 2}
  Home <- MCHome
  Domains = {"d1", "d2"}
  Ports = {1, 2}
  Admins = {h1}
  Forms <- MCForms
  Workload <- AllRequests
  FirstRows <- QuotaRow
  MaxTime = 2
  MaxUse = 1
  MaxEdits = 1
  MaxFaults = 1
INVARIANTS
  TypeOK
  NeverOverbilled
CHECK_DEADLOCK FALSE
PROPERTY Converges
