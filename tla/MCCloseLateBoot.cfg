\* A signal-triggered cleanup while one caller's tool calls are in flight.
CONSTANTS
  InvalidArch = {}
  Arch = {a1}
  Caller = {c1}
  Closer = {sig}
  Finally = fin
  NoTask = noTask
  Input = {x1, x2}
  MaxCalls = 2
  BootTimeout <- MC_BootTimeout
  EvalTimeout <- MC_EvalTimeout
  IdleTimeout <- MC_IdleTimeout
  IdleCheckInterval <- MC_IdleCheckInterval
  ChildMayCrash = FALSE
  SpawnMayFail = FALSE
  EchoesPrompt = FALSE
SPECIFICATION Spec
INVARIANT ClosedMeansStopped
