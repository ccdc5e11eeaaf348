\* kill_process_tree leaves the rest of the process group running.
CONSTANTS
  Serial <- MC_Serial
  TestTimeout = 2
SPECIFICATION Spec
INVARIANT NoStrayProcess
