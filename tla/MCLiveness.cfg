\* Every tool call returns: two callers sharing two calls, and the reaper,
\* under the event loop's fairness.
CONSTANTS
  InvalidArch = {bad}
  Arch = {a1}
  Caller = {c1, c2}
  Closer = {}
  Finally = fin
  NoTask = noTask
  Input = {x1}
  MaxCalls = 2
  BootTimeout <- MC_BootTimeout
  EvalTimeout <- MC_EvalTimeout
  IdleTimeout <- MC_IdleTimeout
  IdleCheckInterval <- MC_IdleCheckInterval
  ChildMayCrash = TRUE
  SpawnMayFail = FALSE
  EchoesPrompt = FALSE
SPECIFICATION FairSpec
PROPERTY EveryCallReturns
