SPECIFICATION Spec
CONSTANTS
  None = None
  Clients = {1}
  Params <- MCParams
  DefaultParams <- MCDefaultParams
  Admins = {h1}
  Job = Job
  Boot = Boot
  Forms <- MCForms
  Workload <- BaselineKept
  Modes = {"kernel", "userspace"}
  FirstTables <- MCFirstTables
  MaxTime = 2
  MaxUse = 2
  MaxEvents = 2
INVARIANTS
  TypeOK
  BilledOnce
  TunnelInStep
CHECK_DEADLOCK FALSE
