SPECIFICATION Spec
CONSTANTS
  None = None
  Clients = {1}
  Params <- OneParams
  DefaultParams <- MCDefaultParams
  Admins = {h1}
  Job = Job
  Boot = Boot
  Forms <- MCForms
  Workload <- FormOnly
  Modes = {"kernel"}
  FirstTables <- MCFirstTables
  MaxTime = 1
  MaxUse = 1
  MaxEvents = 1
INVARIANT BilledOnce
CHECK_DEADLOCK FALSE
