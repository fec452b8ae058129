SPECIFICATION FairSpec
CONSTANTS
  t1 = t1
  panel = panel
  none = none
  None = none
  Tokens <- MCTokens
  Targets <- MCTargets
  Panel = panel
  Envs <- MCEnvs
  Settings <- MCSettings
  MayFail <- MCMayFail
  MaxEvents = 6
INVARIANTS
  TypeOK
  OneTunnel
PROPERTY
  ImplementsTunnel
CHECK_DEADLOCK FALSE
