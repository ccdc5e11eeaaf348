\* Liveness of shutdown: one caller's tool calls, the reaper
\* and a signal cleanup under the event loop's fairness.
CONSTANTS
  InvalidArch = {}
  Arch = {a1}
  Caller = {c1}
  Closer = {sig}
  Finally = fin
  NoTask = noTask
  Input = {x1, x2}
  MaxCalls = 2
  BootTimeout <- MC_BootTimeout
  EvalTimeout <- MC_EvalTimeout
  IdleTimeout <- MC_IdleTimeout
  IdleCheckInterval <- MC_IdleCheckInterval
  ChildMayCrash = FALSE
  SpawnMayFail = FALSE
  EchoesPrompt = FALSE
SPECIFICATION FairSpec
PROPERTY CloseReturns
