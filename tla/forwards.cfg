SPECIFICATION Spec
CONSTANTS
  None = None
  Clients = {c1, c2}
  Ports = {"443"}
  Exts = {eth0, ens3}
  Admins = {h1}
  Job = Job
  Boot = Boot
  Forms <- MCForms
  Workload <- Requests
  Bits4 = 3
  Bits6 = 3
  ServerAddr = 2
  MaxEvents = 4
SYMMETRY Alike
INVARIANTS
  TypeOK
  OwnAddresses
  ForwardsInStep
CHECK_DEADLOCK FALSE
