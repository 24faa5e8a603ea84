SPECIFICATION Spec
CONSTANTS
  a1 = a1
  e1 = e1
  r1 = r1
  r2 = r2
  NoRun = NoRun
  Unscoped = Unscoped
  Envs = {e1}
  EnvOf <- OneEnv
  Apps = {a1}
  Runs = {r1, r2}
  SandboxEnvs = {e1}
  Labels = {Unscoped}
  LabelOf <- AllUnscoped
  CdkSlots = 1
  MaxAttempts = 3
  MaxEnvThreads = 1
  Disturbances = {"redeploy_env"}
SYMMETRY RunSymmetry
INVARIANTS
  RowsTellTheInfra
  AttemptsAreSound
PROPERTY
  OwnershipSpec
CHECK_DEADLOCK FALSE
