\* Safety of one session shared by two callers' tool calls (and calls
\* with an arch _validate_arch rejects), the idle
\* reaper, a signal cleanup and the finally cleanup; children may exit on
\* their own at any moment and a spawn may fail.
CONSTANTS
  InvalidArch = {bad}
  Arch = {a1}
  Caller = {c1, c2}
  Closer = {sig, fin}
  Finally = fin
  NoTask = noTask
  Input = {x1, x2}
  MaxCalls = 2
  BootTimeout <- MC_BootTimeout
  EvalTimeout <- MC_EvalTimeout
  IdleTimeout <- MC_IdleTimeout
  IdleCheckInterval <- MC_IdleCheckInterval
  ChildMayCrash = TRUE
  SpawnMayFail = TRUE
  EchoesPrompt = FALSE
SPECIFICATION Spec
SYMMETRY MC_Symmetry
VIEW MC_View
INVARIANT ReaperStoppedAfterClose
INVARIANT NoChildOutlivesServer
INVARIANT TypeOK
INVARIANT NoOrphanChild
PROPERTY ResponseMatchesUnlessTimedOut
 
