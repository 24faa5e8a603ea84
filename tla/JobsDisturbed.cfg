SPECIFICATION Spec
CONSTANTS
  a1 = a1
  e1 = e1
  r1 = r1
  r2 = r2
  NoRun = NoRun
  Unscoped = Unscoped
  Envs = {e1}
  EnvOf <- OneEnv
  Apps = {a1}
  Runs = {r1}
  SandboxEnvs = {}
  Labels = {Unscoped}
  LabelOf <- AllUnscoped
  CdkSlots = 1
  MaxAttempts = 2
  MaxEnvThreads = 1
  Disturbances = {"no_progress", "stalled_beat", "recovery", "redeploy_env", "insert_fails"}
INVARIANTS
  TeardownOwnsEnvironment
CHECK_DEADLOCK FALSE
