\* A child that dies during boot leaves its pty master open.
CONSTANTS
  InvalidArch = {}
  Arch = {a1}
  Caller = {c1}
  Closer = {}
  Finally = fin
  NoTask = noTask
  Input = {x1, x2}
  MaxCalls = 2
  BootTimeout <- MC_BootTimeout
  EvalTimeout <- MC_EvalTimeout
  IdleTimeout <- MC_IdleTimeout
  IdleCheckInterval <- MC_IdleCheckInterval
  ChildMayCrash = TRUE
  SpawnMayFail = FALSE
  EchoesPrompt = FALSE
SPECIFICATION Spec
INVARIANT NoLeakedChannel
