\* eval writes to a master_fd that a kill set to None.
CONSTANTS
  InvalidArch = {}
  Arch = {a1}
  Caller = {c1, c2}
  Closer = {}
  Finally = fin
  NoTask = noTask
  Input = {x1, x2}
  MaxCalls = 2
  BootTimeout <- MC_BootTimeout
  EvalTimeout <- MC_EvalTimeout
  IdleTimeout <- MC_IdleTimeout
  IdleCheckInterval <- MC_IdleCheckInterval
  ChildMayCrash = FALSE
  SpawnMayFail = FALSE
  EchoesPrompt = FALSE
SPECIFICATION Spec
INVARIANT NoUncaughtError
