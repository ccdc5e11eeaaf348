\* A child whose boot timed out is never reaped.
CONSTANTS
  InvalidArch = {}
  Arch = {a1}
  Caller = {c1}
  Closer = {}
  Finally = fin
  NoTask = noTask
  Input = {x1, x2}
  MaxCalls = 1
  BootTimeout <- MC_BootTimeout
  EvalTimeout <- MC_EvalTimeout
  IdleTimeout <- MC_IdleTimeout
  IdleCheckInterval <- MC_IdleCheckInterval
  ChildMayCrash = FALSE
  SpawnMayFail = FALSE
  EchoesPrompt = FALSE
SPECIFICATION FairSpec
PROPERTY IdleChildrenReaped
