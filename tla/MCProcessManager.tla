-------------------------- MODULE MCProcessManager --------------------------
(* Instantiation of ProcessManager for TLC.  Timeouts are scaled to small *)
(* integers that keep the code's order BOOT_TIMEOUT (120 s) > IDLE_TIMEOUT *)
(* (60 s) > EVAL_TIMEOUT (30 s) >= IDLE_CHECK_INTERVAL (10 s); the last   *)
(* two are both one tick, the smallest step of time.                     *)
EXTENDS ProcessManager, TLC

MC_BootTimeout == 3
MC_IdleTimeout == 2
MC_EvalTimeout == 1
MC_IdleCheckInterval == 1

\* Data no step reads before it is written again: the idle time of a
\* session without a process (the reaper skips it, a boot touches it
\* first), the session, input, operation, reply and poll age a task keeps
\* from its last call or kill once it is back where the next one sets
\* them.  States that differ only there are the same state.
Dead(t) ==
  pc[t] \in {"Idle", "Off", "Sleep", "Scan", "CL_Idle", "CL_AwaitIdle",
            "CL_Next", "CL_Done", "CL_Raised"}
Polling(c) == pc[c] \in {"BootPoll", "BootWait", "EvalPoll", "EvalWait"}
MC_View ==
  <<process, masterFd, startTime,
    [k \in Key |-> IF process[k] = None THEN 0 ELSE idleAge[k]],
    outputBuffer, timedOut, holder, waiters, spawned, child, pin, pout,
    termed, fdOpen, cur, pc,
    [c \in Caller |-> IF Dead(c) THEN "eval" ELSE op[c]],
    [t \in Task |-> IF Dead(t) THEN <<1, CHOOSE a \in Arch : TRUE>>
                                ELSE state[t]],
    [c \in Caller |-> IF Dead(c) THEN CHOOSE x \in Input : TRUE
                                  ELSE code[c]],
    [c \in Caller |-> IF Polling(c) THEN waitAge[c] ELSE 0],
    calls, outcome,
    [c \in Caller |-> IF Dead(c) THEN <<>> ELSE reply[c]],
    idleTask, rSleep, rTodo, rIdle, shutdown, cancelled, mgr, clIdx, clLen,
    managerSet, made, states>>

\* callers, architectures and inputs are interchangeable (safety runs only)
MC_Symmetry == Permutations(Caller) \cup Permutations(Arch) \cup Permutations(Input)
=============================================================================
