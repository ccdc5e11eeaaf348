\* The reaper kills a session that was just used (stale idle decision).
CONSTANTS
  InvalidArch = {}
  Arch = {a1}
  Caller = {c1, c2}
  Closer = {}
  Finally = fin
  NoTask = noTask
  Input = {x1, x2}
  MaxCalls = 3
  BootTimeout <- MC_BootTimeout
  EvalTimeout <- MC_EvalTimeout
  IdleTimeout <- MC_IdleTimeout
  IdleCheckInterval <- MC_IdleCheckInterval
  ChildMayCrash = FALSE
  SpawnMayFail = FALSE
  EchoesPrompt = FALSE
SPECIFICATION Spec
INVARIANT ReaperKillsOnlyIdle
