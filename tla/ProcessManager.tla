--------------------------- MODULE ProcessManager ---------------------------
(***************************************************************************)
(* The QEMU session supervisor of src/tools/lona_dev_repl/process_manager.py *)
(* together with the tool handlers of server.py that call it.              *)
(*                                                                         *)
(* The manager runs on one asyncio event loop: a task runs without         *)
(* interruption from one await to the next.  `cur` is the task that is     *)
(* between two awaits; every step of a task requires cur \in {NoTask, t}   *)
(* and a step that reaches an await (a lock wait, a sleep) sets cur back   *)
(* to NoTask.  The children (make run-$ARCH and the Lona REPL inside QEMU) *)
(* are real processes and act at any time.                                 *)
(*                                                                         *)
(* Time is kept as ages, saturated where the code stops telling values     *)
(* apart: idleAge[a] = now - last_activity, waitAge[t] = now - start of    *)
(* the _wait_for_prompt loop, rSleep = time left of the reaper's sleep.    *)
(*                                                                         *)
(* Terminal data is abstracted to tokens: Banner (boot output lines),      *)
(* Prompt (the text "lona> "), Echo(x) (the rest of the line "lona> x" in  *)
(* which the REPL echoes input x after its prompt) and x \in Input (the    *)
(* result line of evaluating x).                                           *)
(*                                                                         *)
(* server.py holds one ProcessManager in _manager and creates a new one    *)
(* whenever it finds None there.  Managers are numbered in creation order  *)
(* and a session is the pair <<manager, arch>>; each manager has its own   *)
(* registry, shutdown flag and idle-monitor task.                          *)
(***************************************************************************)
EXTENDS Naturals, Sequences, SequencesExt, FiniteSets

CONSTANTS
  Arch,               \* VALID_ARCHS: instance keys
  InvalidArch,        \* arch strings a client may send outside VALID_ARCHS
  Caller,             \* tasks that run MCP tool calls (eval, restart)
  Closer,             \* tasks that run server.cleanup()
  Finally,            \* the closer of run_with_cleanup's finally block
  NoTask,             \* no task / lock not held
  Input,              \* code strings a caller may evaluate
  MaxCalls,           \* bound: tool calls issued by all callers together
  BootTimeout,        \* BOOT_TIMEOUT
  EvalTimeout,        \* EVAL_TIMEOUT
  IdleTimeout,        \* IDLE_TIMEOUT
  IdleCheckInterval,  \* IDLE_CHECK_INTERVAL
  ChildMayCrash,      \* may a child exit without being signalled?
  SpawnMayFail,       \* may pty.openpty/Popen raise (no make, EMFILE)?
  EchoesPrompt        \* does the REPL echo input as "lona> x" (spec 6, 8)?

ASSUME /\ NoTask \notin Caller
       /\ Closer \cap (Caller \cup {NoTask}) = {}
       /\ Finally \notin Caller \cup {NoTask}
       /\ MaxCalls \in Nat \ {0}
       /\ {BootTimeout, EvalTimeout, IdleTimeout, IdleCheckInterval}
            \subseteq Nat \ {0}
       /\ ChildMayCrash \in BOOLEAN /\ SpawnMayFail \in BOOLEAN
       /\ EchoesPrompt \in BOOLEAN

\* Each cleanup sets _manager to None at most once, and only then is a new
\* manager created: there are at most 1 + |Closer| managers
Mgr == 1..Cardinality(Closer) + 1
Key == {<<m, a>> : m \in Mgr, a \in Arch}       \* a session of a manager
Reaper(m) == <<"reaper", m>>                 \* the _idle_monitor task of m
Reapers == {Reaper(m) : m \in Mgr}
Task == Caller \cup Reapers \cup Closer
Gone == <<"gone">>                          \* the event loop has ended
None == 0                                   \* None for process / master_fd
MaxProc == MaxCalls                         \* each call spawns at most once
Proc == 1..MaxProc                          \* a child and its pty share an id
Prompt == <<"prompt">>
Banner == <<"banner">>
Echo(x) == <<"echo", x>>
Token == Input \cup {Prompt, Banner} \cup {Echo(x) : x \in Input}

VARIABLES
  \* ProcessState, one per session <<manager, arch>>
  process, masterFd, startTime, idleAge, outputBuffer,
  timedOut,                 \* history: a wait on this process timed out
  holder, waiters,          \* ProcessState.lock (asyncio.Lock)
  \* the children and their ptys
  spawned, child, pin, pout, termed, fdOpen,
  \* tasks of the event loop
  cur, pc, op, state, code, waitAge, calls, outcome, reply,
                            \* state[t]: the session task t works on
  \* of each manager: its _idle_task and the locals of _idle_monitor
  idleTask,                 \* self._idle_task is a task not yet done
  rSleep,                   \* time left of the monitor's sleep
  rTodo, rIdle,             \* sessions left in the sweeps, and found idle
  \* shutdown
  shutdown,                 \* self._shutdown, per manager
  cancelled,                \* self._idle_task.cancel() was called
  mgr,                      \* the manager a cleanup closes (0: none)
  clIdx, clLen,             \* close's dict iterator: next index (0 before
                            \* the loop) and the size it was created at
  \* server.py
  managerSet,               \* server._manager is not None
  made,                     \* managers created; _manager is the last one
  states                    \* the keys of each manager's self._states, in
                            \* insertion order

sessionVars == <<process, masterFd, startTime, idleAge, outputBuffer,
                timedOut>>
lockVars == <<holder, waiters>>
childVars == <<spawned, child, pin, pout, termed, fdOpen>>
taskVars == <<cur, pc, op, state, code, waitAge, calls, outcome, reply>>
reaperVars == <<idleTask, rSleep, rTodo, rIdle>>
closeVars == <<shutdown, cancelled, mgr, clIdx, clLen>>
mgrVars == <<managerSet, made, states>>
vars == <<sessionVars, lockVars, childVars, taskVars, reaperVars, closeVars,
          mgrVars>>

(* Program counters at an await: the task is suspended there.             *)
Suspended == {"Idle", "ER_Blocked", "BootWait", "EV_Blocked", "EvalWait",
              "RS_Blocked", "K_Grace", "Off", "Sleep", "R_Blocked",
              "CL_Idle", "CL_AwaitIdle", "CL_Blocked", "CL_Done",
              "CL_Raised"}
Pc == Suspended \cup {"ER_Acquire", "ER_Check", "BootPoll", "ER_Monitor",
                      "EV_Acquire", "EV_Send", "EvalPoll", "RS_Acquire",
                      "RS_Release", "K_Begin", "Scan", "R_Release",
                      "CL_Next", "CL_Release"}
Outcome == {"none", "ok", "timeout", "died", "crash", "invalid"}

-----------------------------------------------------------------------------
(* Helpers                                                                 *)

Goto(t, p) ==
  /\ pc' = [pc EXCEPT ![t] = p]
  /\ cur' = IF p \in Suspended THEN NoTask ELSE t

CanRun(t) == cur \in {NoTask, t}

Alive(n) == n # None /\ child[n] \in {"booting", "ready"}

\* state.last_activity = time.time(); the reaper, which read the clock
\* before, now computes a negative idle time for this session
Touch(a) ==
  /\ idleAge' = [idleAge EXCEPT ![a] = 0]
  /\ rIdle' = rIdle \ {a}

\* asyncio.Lock.acquire: a free lock without waiters is taken without
\* yielding; otherwise the task queues behind the waiters
Acquire(t, a, granted, blocked) ==
  IF holder[a] = NoTask /\ waiters[a] = <<>>
  THEN /\ holder' = [holder EXCEPT ![a] = t]
       /\ UNCHANGED waiters
       /\ Goto(t, granted)
  ELSE /\ waiters' = [waiters EXCEPT ![a] = Append(@, t)]
       /\ UNCHANGED holder
       /\ Goto(t, blocked)

\* asyncio.Lock.release: the first waiter is woken and owns the lock from
\* then on (a task acquiring meanwhile sees the waiter and queues)
Release(a) ==
  IF waiters[a] = <<>>
  THEN /\ holder' = [holder EXCEPT ![a] = NoTask]
       /\ UNCHANGED waiters
  ELSE /\ holder' = [holder EXCEPT ![a] = Head(waiters[a])]
       /\ waiters' = [waiters EXCEPT ![a] = Tail(@)]

\* The manager _get_manager() returns: _manager, or a new ProcessManager
\* when cleanup has set it to None (its __init__ registers its atexit hook)
NextMgr == IF managerSet THEN made ELSE made + 1

GetManager ==
  /\ managerSet' = TRUE
  /\ made' = NextMgr

\* _get_state of manager m: the session of an arch is created on first use
GetState(m, a) ==
  states' = [states EXCEPT ![m] = IF a \in ToSet(@) THEN @ ELSE Append(@, a)]

\* _format_result(arch, ...): _get_manager(), then get_start_time(arch) of
\* that manager, whose _get_state creates the session there if need be
FormatResult(t) ==
  /\ GetManager
  /\ GetState(NextMgr, state[t][2])

\* The tool call of t ends: server.eval / server.restart return the text
\* _format_result builds, unless an exception the handlers do not catch
\* leaves the tool
Return(t, o) ==
  /\ outcome' = [outcome EXCEPT ![t] = o]
  /\ Goto(t, "Idle")
  /\ IF o = "crash" THEN UNCHANGED mgrVars ELSE FormatResult(t)

\* An exception leaves `async with state.lock` (releasing it) and reaches
\* the server handler, which catches TimeoutError and RuntimeError
Raise(t, o) ==
  /\ Release(state[t])
  /\ Return(t, o)

\* re.compile(r"lona> $").search(buffer)
PromptAtEnd(buf) == buf # <<>> /\ Last(buf) = Prompt

\* os.read of a non-blocking pty: whatever part of the pending output is
\* there, nothing (BlockingIOError) only when nothing is pending
ReadSizes(s) == IF s = <<>> THEN {0} ELSE 1..Len(s)

\* eval's filter: drop every line that is "lona>" or starts with "lona> ":
\* the prompts, and an echo that follows its prompt in the buffer
Dropped(buf, i) ==
  \/ buf[i] = Prompt
  \/ i > 1 /\ buf[i - 1] = Prompt /\ buf[i] \in {Echo(x) : x \in Input}

RECURSIVE ResultLinesFrom(_, _)
ResultLinesFrom(buf, i) ==
  IF i > Len(buf) THEN <<>>
  ELSE (IF Dropped(buf, i) THEN <<>> ELSE <<buf[i]>>) \o ResultLinesFrom(buf, i + 1)

ResultLines(buf) == ResultLinesFrom(buf, 1)

-----------------------------------------------------------------------------
(* Tool calls and ensure_running                                           *)

\* serve() has not returned: run_with_cleanup has not entered its finally
\* block, and the stdio server still reads requests
ServeRunning == IF Finally \in Closer THEN pc[Finally] = "CL_Idle" ELSE TRUE

\* Mutant: the tools skip _validate_arch and pass any arch on
CallNoValidate(c) ==
  /\ pc[c] = "Idle" /\ cur = NoTask /\ calls > 0 /\ ServeRunning
  /\ GetManager
  /\ \E a \in Arch \cup InvalidArch :
       /\ state' = [state EXCEPT ![c] = <<NextMgr, a>>]
       /\ GetState(NextMgr, a)
  /\ \/ \E x \in Input :
        /\ op' = [op EXCEPT ![c] = "eval"]
        /\ code' = [code EXCEPT ![c] = x]
        /\ Goto(c, "ER_Acquire")
     \/ /\ op' = [op EXCEPT ![c] = "restart"]
        /\ UNCHANGED code
        /\ Goto(c, "RS_Acquire")
  /\ outcome' = [outcome EXCEPT ![c] = "none"]
  /\ calls' = calls - 1
  /\ reply' = [reply EXCEPT ![c] = <<>>]
  /\ UNCHANGED <<sessionVars, lockVars, childVars, waitAge, reaperVars,
                 closeVars>>

\* A tool call arrives: server.eval(code, arch) or server.restart(arch).
\* _validate_arch raises ValueError for an arch outside VALID_ARCHS before
\* anything else (the tool does not catch it; FastMCP reports it).
\* Otherwise the tool takes _get_manager(), and ensure_running or restart
\* looks up its session before any await.
Call(c) ==
  /\ pc[c] = "Idle" /\ cur = NoTask /\ calls > 0 /\ ServeRunning
  /\ \/ /\ InvalidArch # {}
        /\ outcome' = [outcome EXCEPT ![c] = "invalid"]
        /\ UNCHANGED <<cur, pc, op, state, code, mgrVars>>
     \/ /\ GetManager
        /\ \E a \in Arch :
             /\ state' = [state EXCEPT ![c] = <<NextMgr, a>>]
             /\ GetState(NextMgr, a)
        /\ \/ \E x \in Input :
              /\ op' = [op EXCEPT ![c] = "eval"]
              /\ code' = [code EXCEPT ![c] = x]
              /\ Goto(c, "ER_Acquire")
           \/ /\ op' = [op EXCEPT ![c] = "restart"]
              /\ UNCHANGED code
              /\ Goto(c, "RS_Acquire")
        /\ outcome' = [outcome EXCEPT ![c] = "none"]
  /\ calls' = calls - 1
  /\ reply' = [reply EXCEPT ![c] = <<>>]
  /\ UNCHANGED <<sessionVars, lockVars, childVars, waitAge, reaperVars,
                 closeVars>>

\* A task queued on a session lock resumes once the lock was handed to it
Resume(t, from, to) ==
  /\ pc[t] = from /\ cur = NoTask /\ holder[state[t]] = t
  /\ Goto(t, to)
  /\ UNCHANGED <<sessionVars, lockVars, childVars, op, state, code, waitAge,
                 calls, outcome, reply, reaperVars, closeVars, mgrVars>>

\* ensure_running: `async with state.lock`
ER_Acquire(t) ==
  /\ pc[t] = "ER_Acquire" /\ CanRun(t)
  /\ Acquire(t, state[t], "ER_Check", "ER_Blocked")
  /\ UNCHANGED <<sessionVars, childVars, op, state, code, waitAge, calls,
                 outcome, reply, reaperVars, closeVars, mgrVars>>

\* Where ensure_running returns to: eval goes on to its own lock, restart
\* reports success
EnsureRunningReturned(t) ==
  IF op[t] = "eval"
  THEN Goto(t, "EV_Acquire") /\ UNCHANGED <<outcome, mgrVars>>
  ELSE Return(t, "ok")

\* ensure_running under the lock: a live process is reused (the `return`
\* inside `async with` skips the idle-monitor start); otherwise
\* _start_process opens a pty, spawns the child, overwrites the fields
\* (without closing a previous master_fd) and enters _wait_for_prompt
ER_Check(t) ==
  LET a == state[t]
      m == spawned + 1
  IN
  /\ pc[t] = "ER_Check" /\ CanRun(t)
  /\ \/ /\ Alive(process[a])
        /\ Touch(a)
        /\ Release(a)
        /\ EnsureRunningReturned(t)
        /\ UNCHANGED <<process, masterFd, startTime, outputBuffer, timedOut,
                       childVars, waitAge>>
     \/ /\ ~Alive(process[a])
        /\ spawned' = m
        /\ child' = [child EXCEPT ![m] = "booting"]
        /\ fdOpen' = fdOpen \cup {m}
        /\ process' = [process EXCEPT ![a] = m]
        /\ masterFd' = [masterFd EXCEPT ![a] = m]
        /\ startTime' = [startTime EXCEPT ![a] = TRUE]
        /\ outputBuffer' = [outputBuffer EXCEPT ![a] = <<>>]
        /\ timedOut' = [timedOut EXCEPT ![a] = FALSE]
        /\ Touch(a)
        /\ waitAge' = [waitAge EXCEPT ![t] = 0]
        /\ Goto(t, "BootPoll")
        /\ UNCHANGED <<lockVars, pin, pout, termed, outcome, mgrVars>>
     \/ /\ ~Alive(process[a]) /\ SpawnMayFail
        \* Popen raises after pty.openpty: both pty ends stay open, the
        \* fields are untouched, and the OSError is caught neither by
        \* ensure_running nor by the server handler
        /\ spawned' = m
        /\ fdOpen' = fdOpen \cup {m}
        /\ Raise(t, "crash")
        /\ UNCHANGED <<sessionVars, child, pin, pout, termed, waitAge, rIdle>>
  /\ UNCHANGED <<op, state, code, calls, reply, idleTask, rSleep, rTodo,
                 closeVars>>

\* The boot prompt was seen: _start_process returns and ensure_running
\* leaves `async with state.lock`
BootReturned(t) ==
  /\ Release(state[t])
  /\ Goto(t, "ER_Monitor")
  /\ UNCHANGED <<outcome, reply, mgrVars>>

\* The response prompt was seen: the prompt lines are filtered out and the
\* rest is returned to the server, leaving `async with state.lock`
EvalReturned(t, buf) ==
  /\ Release(state[t])
  /\ reply' = [reply EXCEPT ![t] = ResultLines(buf)]
  /\ Return(t, "ok")

\* _wait_for_prompt returns to its caller: _start_process or eval
PromptSeen(t, buf) ==
  IF pc[t] \in {"BootPoll", "BootWait"} THEN BootReturned(t)
                                        ELSE EvalReturned(t, buf)

\* Mutant: _wait_for_prompt loops `while True`, without its deadline
PollOnceNoDeadline(t, timeout, sleepPc) ==
  LET a == state[t]
      fd == masterFd[a]
  IN
  /\ \/ /\ ~Alive(process[a])
        /\ Raise(t, "died")
        /\ UNCHANGED <<outputBuffer, pout, reply, timedOut>>
     \/ /\ Alive(process[a])
        /\ \E k \in ReadSizes(pout[fd]) :
             LET buf == outputBuffer[a] \o SubSeq(pout[fd], 1, k) IN
             /\ pout' = [pout EXCEPT ![fd] = SubSeq(@, k + 1, Len(@))]
             /\ IF PromptAtEnd(buf)
                THEN /\ outputBuffer' = [outputBuffer EXCEPT ![a] = <<>>]
                     /\ PromptSeen(t, buf)
                     /\ UNCHANGED timedOut
                ELSE /\ outputBuffer' = [outputBuffer EXCEPT ![a] = buf]
                     /\ Goto(t, sleepPc)
                     /\ UNCHANGED <<lockVars, outcome, reply, timedOut,
                                    mgrVars>>
  /\ UNCHANGED <<process, masterFd, startTime, idleAge, spawned, child, pin,
                 termed, fdOpen, op, state, code, waitAge, calls, reaperVars, closeVars>>

\* One pass of the loop of _wait_for_prompt, entered directly or resumed
\* after asyncio.sleep(0.05): the deadline is checked first, then that the
\* process lives, then one read is appended to the buffer and the buffer
\* is matched against the prompt pattern
PollOnce(t, timeout, sleepPc) ==
  LET a == state[t]
      fd == masterFd[a]
  IN
  /\ \/ /\ waitAge[t] >= timeout
        /\ Raise(t, "timeout")
        /\ timedOut' = [timedOut EXCEPT ![a] = TRUE]
        /\ UNCHANGED <<outputBuffer, pout, reply>>
     \/ /\ waitAge[t] < timeout
        /\ ~Alive(process[a])
        /\ Raise(t, "died")
        /\ UNCHANGED <<outputBuffer, pout, reply, timedOut>>
     \/ /\ waitAge[t] < timeout
        /\ Alive(process[a])
        /\ \E k \in ReadSizes(pout[fd]) :
             LET buf == outputBuffer[a] \o SubSeq(pout[fd], 1, k) IN
             /\ pout' = [pout EXCEPT ![fd] = SubSeq(@, k + 1, Len(@))]
             /\ IF PromptAtEnd(buf)
                THEN /\ outputBuffer' = [outputBuffer EXCEPT ![a] = <<>>]
                     /\ PromptSeen(t, buf)
                     /\ UNCHANGED timedOut
                ELSE /\ outputBuffer' = [outputBuffer EXCEPT ![a] = buf]
                     /\ Goto(t, sleepPc)
                     /\ UNCHANGED <<lockVars, outcome, reply, timedOut,
                                    mgrVars>>
  /\ UNCHANGED <<process, masterFd, startTime, idleAge, spawned, child, pin,
                 termed, fdOpen, op, state, code, waitAge, calls, reaperVars, closeVars>>

\* A pass of the same loop in which the child exits between poll() and
\* os.read with nothing left in the pty: the read raises OSError (EIO),
\* which is not BlockingIOError, and it leaves the loop, eval and the
\* server handler.  Whether the child exits there is up to the child, so
\* this step is no part of the caller's fair steps.
ReadFails(t) ==
  LET a == state[t]
      timeout == IF pc[t] \in {"BootPoll", "BootWait"} THEN BootTimeout
                                                    ELSE EvalTimeout
  IN
  /\ pc[t] \in {"BootPoll", "BootWait", "EvalPoll", "EvalWait"} /\ CanRun(t)
  /\ waitAge[t] < timeout
  /\ Alive(process[a]) /\ ChildMayCrash /\ pout[masterFd[a]] = <<>>
  /\ child' = [child EXCEPT ![process[a]] = "exited"]
  /\ Raise(t, "crash")
  /\ UNCHANGED <<process, masterFd, startTime, idleAge, outputBuffer,
                 timedOut, spawned, pin, pout, termed, fdOpen, op, state,
                 code, waitAge, calls, reply, reaperVars, closeVars>>

BootPoll(t) ==
  /\ pc[t] \in {"BootPoll", "BootWait"} /\ CanRun(t)
  /\ PollOnce(t, BootTimeout, "BootWait")

\* ensure_running after a successful boot: start the idle monitor if it
\* is not running
ER_Monitor(t) ==
  /\ pc[t] = "ER_Monitor" /\ CanRun(t)
  /\ idleTask' = [idleTask EXCEPT ![state[t][1]] = TRUE]
  /\ EnsureRunningReturned(t)
  /\ UNCHANGED <<sessionVars, lockVars, childVars, op, state, code, waitAge,
                 calls, reply, rSleep, rTodo, rIdle, closeVars>>

-----------------------------------------------------------------------------
(* eval and restart                                                        *)

\* Mutant: eval writes to the pty without taking the session lock
EV_AcquireNoLock(t) ==
  /\ pc[t] = "EV_Acquire" /\ CanRun(t)
  /\ Goto(t, "EV_Send")
  /\ UNCHANGED <<sessionVars, lockVars, childVars, op, state, code, waitAge,
                 calls, outcome, reply, reaperVars, closeVars, mgrVars>>

\* eval: `async with state.lock` after ensure_running returned
EV_Acquire(t) ==
  /\ pc[t] = "EV_Acquire" /\ CanRun(t)
  /\ Acquire(t, state[t], "EV_Send", "EV_Blocked")
  /\ UNCHANGED <<sessionVars, childVars, op, state, code, waitAge, calls,
                 outcome, reply, reaperVars, closeVars, mgrVars>>

\* eval under the lock: touch, os.write(state.master_fd, code + "\n"),
\* then _wait_for_prompt.  With master_fd None the write raises a
\* TypeError that neither eval nor the server handler catches.  A line
\* written to the pty of a dead child is never answered.
EV_Send(t) ==
  LET a == state[t]
      fd == masterFd[a]
  IN
  /\ pc[t] = "EV_Send" /\ CanRun(t)
  /\ Touch(a)
  /\ \/ /\ fd = None
        /\ Raise(t, "crash")
        /\ UNCHANGED <<pin, waitAge>>
     \/ /\ fd # None
        /\ pin' = IF Alive(fd) THEN [pin EXCEPT ![fd] = Append(@, code[t])]
                               ELSE pin
        /\ waitAge' = [waitAge EXCEPT ![t] = 0]
        /\ Goto(t, "EvalPoll")
        /\ UNCHANGED <<lockVars, outcome, mgrVars>>
  /\ UNCHANGED <<process, masterFd, startTime, outputBuffer, timedOut,
                 spawned, child, pout, termed, fdOpen, op, state, code, calls,
                 reply, idleTask, rSleep, rTodo, closeVars>>

EvalPoll(t) ==
  /\ pc[t] \in {"EvalPoll", "EvalWait"} /\ CanRun(t)
  /\ PollOnce(t, EvalTimeout, "EvalWait")

\* restart: `async with state.lock` around _kill_process
RS_Acquire(t) ==
  /\ pc[t] = "RS_Acquire" /\ CanRun(t)
  /\ Acquire(t, state[t], "K_Begin", "RS_Blocked")
  /\ UNCHANGED <<sessionVars, childVars, op, state, code, waitAge, calls,
                 outcome, reply, reaperVars, closeVars, mgrVars>>

RS_Release(t) ==
  /\ pc[t] = "RS_Release" /\ CanRun(t)
  /\ Release(state[t])
  /\ Goto(t, "ER_Acquire")
  /\ UNCHANGED <<sessionVars, childVars, op, state, code, waitAge, calls,
                 outcome, reply, reaperVars, closeVars, mgrVars>>

-----------------------------------------------------------------------------
(* _kill_process, run under the session lock by restart and the reaper    *)

KillReturn(t) ==
  CASE t \in Reapers -> "R_Release"
    [] t \in Closer   -> "CL_Release"
    [] OTHER          -> "RS_Release"

\* Mutant: no SIGKILL escalation after the grace loop
KillFinishNoSigkill(t) ==
  LET a == state[t] IN
  /\ UNCHANGED child
  /\ fdOpen' = fdOpen \ {masterFd[a]}
  /\ process' = [process EXCEPT ![a] = None]
  /\ masterFd' = [masterFd EXCEPT ![a] = None]
  /\ startTime' = [startTime EXCEPT ![a] = FALSE]
  /\ outputBuffer' = [outputBuffer EXCEPT ![a] = <<>>]
  /\ UNCHANGED timedOut
  /\ Goto(t, KillReturn(t))

\* close master_fd, clear the fields
KillFinish(t) ==
  LET a == state[t]
      n == process[a]
  IN
  /\ child' = IF Alive(n) THEN [child EXCEPT ![n] = "exited"] ELSE child
  /\ fdOpen' = fdOpen \ {masterFd[a]}
  /\ process' = [process EXCEPT ![a] = None]
  /\ masterFd' = [masterFd EXCEPT ![a] = None]
  /\ startTime' = [startTime EXCEPT ![a] = FALSE]
  /\ outputBuffer' = [outputBuffer EXCEPT ![a] = <<>>]
  /\ UNCHANGED timedOut
  /\ Goto(t, KillReturn(t))

\* No process: return.  Otherwise SIGTERM to the process group; the grace
\* loop breaks at once if the child is gone, else it sleeps
K_Begin(t) ==
  LET n == process[state[t]] IN
  /\ pc[t] = "K_Begin" /\ CanRun(t)
  /\ \/ /\ n = None
        /\ Goto(t, KillReturn(t))
        /\ UNCHANGED <<sessionVars, childVars>>
     \/ /\ n # None
        /\ termed' = termed \cup {n}
        /\ IF Alive(n)
           THEN /\ Goto(t, "K_Grace")
                /\ UNCHANGED <<sessionVars, child, fdOpen>>
           ELSE /\ KillFinish(t)
                /\ UNCHANGED idleAge
        /\ UNCHANGED <<spawned, pin, pout>>
  /\ UNCHANGED <<lockVars, op, state, code, waitAge, calls, outcome, reply,
                 reaperVars, closeVars, mgrVars>>

\* The grace loop (up to ten polls 0.1 s apart) has ended
K_Grace(t) ==
  /\ pc[t] = "K_Grace" /\ cur = NoTask
  /\ KillFinish(t)
  /\ UNCHANGED <<idleAge, spawned, pin, pout, termed, lockVars, op, state,
                 code, waitAge, calls, outcome, reply, reaperVars, closeVars, mgrVars>>

KillStep(t) == K_Begin(t) \/ K_Grace(t)

-----------------------------------------------------------------------------
(* _idle_monitor                                                           *)

\* The idle monitor task of manager m is done: it returned or was cancelled
ReaperEnd(m) ==
  /\ idleTask' = [idleTask EXCEPT ![m] = FALSE]
  /\ cancelled' = [cancelled EXCEPT ![m] = FALSE]
  /\ Goto(Reaper(m), "Off")

\* `while not self._shutdown`: the loop ends after a shutdown, else it
\* sleeps IDLE_CHECK_INTERVAL
ReaperLoop(m) ==
  \/ /\ shutdown[m]
     /\ ReaperEnd(m)
     /\ UNCHANGED rSleep
  \/ /\ ~shutdown[m]
     /\ rSleep' = [rSleep EXCEPT ![m] = IdleCheckInterval]
     /\ Goto(Reaper(m), "Sleep")
     /\ UNCHANGED <<idleTask, cancelled>>

\* The task created by ensure_running starts its loop
ReaperStart(m) ==
  /\ pc[Reaper(m)] = "Off" /\ idleTask[m] /\ cur = NoTask
  /\ ReaperLoop(m)
  /\ UNCHANGED <<sessionVars, lockVars, childVars, op, state, code, waitAge,
                 calls, outcome, reply, rTodo, rIdle, shutdown, mgr, clIdx,
                 clLen, mgrVars>>

\* The sleep is over: now = time.time() is read once for the whole sweep
\* over a copy of self._states taken then; the sessions of m in rIdle are
\* those whose idle time against that `now` exceeds IDLE_TIMEOUT (a later
\* touch removes the session again)
ReaperWake(m) ==
  /\ pc[Reaper(m)] = "Sleep" /\ rSleep[m] = 0 /\ cur = NoTask
  /\ rTodo' = {k \in rTodo : k[1] # m} \cup {<<m, a>> : a \in ToSet(states[m])}
  /\ rIdle' = {k \in rIdle : k[1] # m}
                \cup {<<m, a>> : a \in {b \in Arch : idleAge[<<m, b>>] > IdleTimeout}}
  /\ Goto(Reaper(m), "Scan")
  /\ UNCHANGED <<sessionVars, lockVars, childVars, op, state, code, waitAge,
                 calls, outcome, reply, idleTask, rSleep, closeVars, mgrVars>>

\* One iteration of the sweep over self._states: sessions without a live
\* process are skipped; an idle one is killed under its lock.  After the
\* last one the while loop tests self._shutdown again.
ReaperScan(m) ==
  LET todo == {k \in rTodo : k[1] = m} IN
  /\ pc[Reaper(m)] = "Scan" /\ CanRun(Reaper(m))
  /\ \/ /\ todo = {}
        /\ ReaperLoop(m)
        /\ UNCHANGED <<lockVars, state, rTodo>>
     \/ \E k \in todo :
          /\ rTodo' = rTodo \ {k}
          /\ IF Alive(process[k]) /\ k \in rIdle
             THEN /\ state' = [state EXCEPT ![Reaper(m)] = k]
                  /\ Acquire(Reaper(m), k, "K_Begin", "R_Blocked")
             ELSE /\ Goto(Reaper(m), "Scan")
                  /\ UNCHANGED <<lockVars, state>>
          /\ UNCHANGED <<rSleep, idleTask, cancelled>>
  /\ UNCHANGED <<sessionVars, childVars, op, code, waitAge, calls, outcome,
                 reply, rIdle, shutdown, mgr, clIdx, clLen, mgrVars>>

\* `async with state.lock` around the monitor's kill is left
R_Release(m) ==
  /\ pc[Reaper(m)] = "R_Release" /\ CanRun(Reaper(m))
  /\ Release(state[Reaper(m)])
  /\ Goto(Reaper(m), "Scan")
  /\ UNCHANGED <<sessionVars, childVars, op, state, code, waitAge, calls,
                 outcome, reply, reaperVars, closeVars, mgrVars>>

\* asyncio.Lock.acquire interrupted by a cancellation: a waiter leaves the
\* queue; a waiter the lock was already handed to passes it on
LeaveLock(t, a) ==
  IF holder[a] = t THEN Release(a)
  ELSE /\ waiters' = [waiters EXCEPT ![a] = SelectSeq(@, LAMBDA w : w # t)]
       /\ UNCHANGED holder

\* Mutant: the cancelled monitor leaves its lock held (an acquire without
\* `async with` or try/finally)
ReaperCancelledKeepLock(m) ==
  /\ pc[Reaper(m)] \in {"Off", "Sleep", "R_Blocked", "K_Grace"}
  /\ idleTask[m] /\ cancelled[m] /\ cur = NoTask
  /\ IF pc[Reaper(m)] = "R_Blocked"
     THEN LeaveLock(Reaper(m), state[Reaper(m)])
     ELSE UNCHANGED lockVars
  /\ ReaperEnd(m)
  /\ UNCHANGED <<sessionVars, childVars, op, state, code, waitAge, calls,
                 outcome, reply, rSleep, rTodo, rIdle, shutdown, mgr, clIdx,
                 clLen, mgrVars>>

\* close's cancel() reaches the idle monitor at its await: a task not yet
\* started never runs; CancelledError raised in the sleep, in the lock
\* acquire or in the grace loop of _kill_process (leaving the process
\* signalled but its fields set) ends the task, `async with` releasing the
\* lock on the way out
ReaperCancelled(m) ==
  /\ pc[Reaper(m)] \in {"Off", "Sleep", "R_Blocked", "K_Grace"}
  /\ idleTask[m] /\ cancelled[m] /\ cur = NoTask
  /\ IF pc[Reaper(m)] \in {"R_Blocked", "K_Grace"}
     THEN LeaveLock(Reaper(m), state[Reaper(m)])
     ELSE UNCHANGED lockVars
  /\ ReaperEnd(m)
  /\ UNCHANGED <<sessionVars, childVars, op, state, code, waitAge, calls,
                 outcome, reply, rSleep, rTodo, rIdle, shutdown, mgr, clIdx,
                 clLen, mgrVars>>


-----------------------------------------------------------------------------
(* Shutdown: server.cleanup() and ProcessManager.close(), run by a task a *)
(* SIGTERM/SIGINT handler creates and by run_with_cleanup's finally block *)

\* cleanup(): `if _manager is not None` before awaiting close()
ManagerExists == managerSet

\* close() of manager `made` begins: self._shutdown = True, then
\* self._idle_task.cancel() (a no-op on a task that is done)
CloseBegins(c) ==
  /\ mgr' = [mgr EXCEPT ![c] = made]
  /\ shutdown' = [shutdown EXCEPT ![made] = TRUE]
  /\ cancelled' = [cancelled EXCEPT ![made] = idleTask[made]]

\* Mutant: close cancels the idle task without awaiting it
CL_BeginNoAwait(c) ==
  /\ pc[c] = "CL_Idle" /\ cur = NoTask
  /\ \/ /\ ManagerExists
        /\ CloseBegins(c)
        /\ Goto(c, "CL_Next")
     \/ /\ ~ManagerExists
        /\ Goto(c, "CL_Done")
        /\ UNCHANGED <<shutdown, cancelled, mgr>>
  /\ UNCHANGED <<sessionVars, lockVars, childVars, op, state, code, waitAge,
                 calls, outcome, reply, reaperVars, clIdx, clLen, mgrVars>>

\* A cleanup task starts.  close sets self._shutdown, cancels the idle
\* task and awaits it when it is not done yet, then turns to the sessions
CL_Begin(c) ==
  /\ pc[c] = "CL_Idle" /\ cur = NoTask
  /\ \/ /\ ManagerExists
        /\ CloseBegins(c)
        /\ Goto(c, IF idleTask[made] THEN "CL_AwaitIdle" ELSE "CL_Next")
     \/ /\ ~ManagerExists
        /\ Goto(c, "CL_Done")
        /\ UNCHANGED <<shutdown, cancelled, mgr>>
  /\ UNCHANGED <<sessionVars, lockVars, childVars, op, state, code, waitAge,
                 calls, outcome, reply, reaperVars, clIdx, clLen, mgrVars>>

\* `await self._idle_task` returns (the CancelledError is caught)
CL_Awaited(c) ==
  /\ pc[c] = "CL_AwaitIdle" /\ ~idleTask[mgr[c]] /\ cur = NoTask
  /\ Goto(c, "CL_Next")
  /\ UNCHANGED <<sessionVars, lockVars, childVars, op, state, code, waitAge,
                 calls, outcome, reply, reaperVars, closeVars, mgrVars>>

\* close has returned: cleanup sets _manager = None, whichever manager
\* _manager holds by now
CleanupReturns(c) ==
  /\ managerSet' = FALSE
  /\ Goto(c, "CL_Done")

\* `for state in self._states.values()`: the first pass creates the
\* iterator over the dict as it is then.  Every next() first checks that
\* the dict has kept its size: a session a first call for another arch
\* inserted meanwhile raises RuntimeError ("dictionary changed size
\* during iteration"), which leaves close() and cleanup() with _manager
\* still set.  Otherwise the next session is killed under `async with
\* state.lock`; after the last one close returns.
CL_Next(c) ==
  LET m == mgr[c]
      len == IF clIdx[c] = 0 THEN Len(states[m]) ELSE clLen[c]
      i == IF clIdx[c] = 0 THEN 1 ELSE clIdx[c]
  IN
  /\ pc[c] = "CL_Next" /\ CanRun(c)
  /\ \/ /\ Len(states[m]) # len
        /\ Goto(c, "CL_Raised")
        /\ UNCHANGED <<lockVars, state, managerSet, clIdx, clLen>>
     \/ /\ Len(states[m]) = len /\ i > len
        /\ CleanupReturns(c)
        /\ UNCHANGED <<lockVars, state, clIdx, clLen>>
     \/ /\ Len(states[m]) = len /\ i <= len
        /\ clIdx' = [clIdx EXCEPT ![c] = i + 1]
        /\ clLen' = [clLen EXCEPT ![c] = len]
        /\ state' = [state EXCEPT ![c] = <<m, states[m][i]>>]
        /\ Acquire(c, <<m, states[m][i]>>, "K_Begin", "CL_Blocked")
        /\ UNCHANGED managerSet
  /\ UNCHANGED <<sessionVars, childVars, op, code, waitAge, calls, outcome,
                 reply, reaperVars, shutdown, cancelled, mgr, made, states>>

\* close leaves `async with state.lock` after the kill
CL_Release(c) ==
  /\ pc[c] = "CL_Release" /\ CanRun(c)
  /\ Release(state[c])
  /\ Goto(c, "CL_Next")
  /\ UNCHANGED <<sessionVars, childVars, op, state, code, waitAge, calls,
                 outcome, reply, reaperVars, closeVars, mgrVars>>

\* run_with_cleanup has left its finally block, returning or raising
ServerExits == Finally \in Closer /\ pc[Finally] \in {"CL_Done", "CL_Raised"}

\* Mutant: the exit hook sends SIGTERM instead of SIGKILL
ExitTermOnly ==
  /\ ServerExits /\ cur = NoTask
  /\ termed' = termed \cup {process[k] : k \in {j \in Key : Alive(process[j])}}
  /\ fdOpen' = fdOpen \ {masterFd[k] : k \in Key}
  /\ cur' = Gone
  /\ UNCHANGED <<sessionVars, lockVars, spawned, child, pin, pout, pc, op,
                 state, code, waitAge, calls, outcome, reply, reaperVars,
                 closeVars, mgrVars>>

\* asyncio.run cancels the tasks left and returns; the interpreter runs
\* the atexit hook _sync_cleanup of every manager created: SIGKILL to the
\* group of every process that poll() finds running, os.close of every
\* master_fd.  Nothing of the server runs afterwards.
Exit ==
  /\ ServerExits /\ cur = NoTask
  /\ child' = [n \in Proc |->
                 IF Alive(n) /\ \E k \in Key : process[k] = n
                 THEN "exited" ELSE child[n]]
  /\ fdOpen' = fdOpen \ {masterFd[k] : k \in Key}
  /\ cur' = Gone
  /\ UNCHANGED <<sessionVars, lockVars, spawned, pin, pout, termed, pc, op,
                 state, code, waitAge, calls, outcome, reply, reaperVars,
                 closeVars, mgrVars>>

\* The server process has ended
Exited ==
  /\ cur = Gone
  /\ UNCHANGED vars

-----------------------------------------------------------------------------
(* The children: make run-$ARCH with the Lona REPL inside QEMU            *)

\* Boot finished: boot messages, then the first "lona> " prompt
ChildBoot(n) ==
  /\ child[n] = "booting"
  /\ child' = [child EXCEPT ![n] = "ready"]
  /\ pout' = [pout EXCEPT ![n] = @ \o <<Banner, Prompt>>]
  /\ UNCHANGED <<sessionVars, lockVars, spawned, pin, termed, fdOpen,
                 taskVars, reaperVars, closeVars, mgrVars>>

\* The REPL reads one line and answers with its result and a new prompt,
\* after echoing the line behind a prompt if it echoes
ChildReply(n) ==
  /\ child[n] = "ready" /\ pin[n] # <<>>
  /\ pout' = [pout EXCEPT ![n] =
                @ \o (IF EchoesPrompt THEN <<Prompt, Echo(Head(pin[n]))>>
                                      ELSE <<>>)
                  \o <<Head(pin[n]), Prompt>>]
  /\ pin' = [pin EXCEPT ![n] = Tail(@)]
  /\ UNCHANGED <<sessionVars, lockVars, spawned, child, termed, fdOpen,
                 taskVars, reaperVars, closeVars, mgrVars>>

\* The child exits: on SIGTERM, or on its own (build failure, crash)
ChildExit(n) ==
  /\ Alive(n) /\ (ChildMayCrash \/ n \in termed)
  /\ child' = [child EXCEPT ![n] = "exited"]
  /\ UNCHANGED <<sessionVars, lockVars, spawned, pin, pout, termed, fdOpen,
                 taskVars, reaperVars, closeVars, mgrVars>>

\* A task the event loop runs before time moves on: a lock was handed to
\* it, its sleep is over, it was just created, it sits in the 1 s grace
\* loop of _kill_process, or its 0.05 s poll is due to see the deadline
Ready(t) ==
  \/ pc[t] \in {"ER_Blocked", "EV_Blocked", "RS_Blocked", "R_Blocked",
               "CL_Blocked"}
     /\ holder[state[t]] = t
  \/ t \in Closer /\ pc[t] = "CL_AwaitIdle" /\ ~idleTask[mgr[t]]
  \/ pc[t] = "K_Grace"
  \/ pc[t] = "BootWait" /\ waitAge[t] >= BootTimeout
  \/ pc[t] = "EvalWait" /\ waitAge[t] >= EvalTimeout
  \/ \E m \in Mgr :
       /\ t = Reaper(m)
       /\ \/ idleTask[m] /\ cancelled[m]
          \/ pc[t] = "Sleep" /\ rSleep[m] = 0
          \/ pc[t] = "Off" /\ idleTask[m]

SatInc(x, m) == IF x < m THEN x + 1 ELSE m

\* The time left of every monitor's sleep shrinks by one
SleepsAdvance ==
  [m \in Mgr |-> IF pc[Reaper(m)] = "Sleep" /\ rSleep[m] > 0
                 THEN rSleep[m] - 1 ELSE rSleep[m]]

\* Time passes while every task waits on a timer or on I/O
Tick ==
  /\ cur = NoTask
  /\ \A t \in Task : ~Ready(t)
  /\ idleAge' = [k \in Key |-> SatInc(idleAge[k], IdleTimeout + 1)]
  /\ waitAge' = [c \in Caller |->
                   CASE pc[c] = "BootWait" -> SatInc(waitAge[c], BootTimeout)
                     [] pc[c] = "EvalWait" -> SatInc(waitAge[c], EvalTimeout)
                     [] OTHER -> waitAge[c]]
  /\ rSleep' = SleepsAdvance
  /\ UNCHANGED <<process, masterFd, startTime, outputBuffer, timedOut,
                 lockVars, childVars, cur, pc, op, state, code, calls, outcome,
                 reply, idleTask, rTodo, rIdle, closeVars, mgrVars>>

-----------------------------------------------------------------------------
(* Specification                                                           *)

Init ==
  /\ process = [k \in Key |-> None]
  /\ masterFd = [k \in Key |-> None]
  /\ startTime = [k \in Key |-> FALSE]
  /\ idleAge = [k \in Key |-> 0]
  /\ outputBuffer = [k \in Key |-> <<>>]
  /\ timedOut = [k \in Key |-> FALSE]
  /\ holder = [k \in Key |-> NoTask]
  /\ waiters = [k \in Key |-> <<>>]
  /\ spawned = 0
  /\ child = [n \in Proc |-> "none"]
  /\ pin = [n \in Proc |-> <<>>]
  /\ pout = [n \in Proc |-> <<>>]
  /\ termed = {}
  /\ fdOpen = {}
  /\ cur = NoTask
  /\ pc = [t \in Task |-> CASE t \in Reapers -> "Off"
                             [] t \in Closer  -> "CL_Idle"
                             [] OTHER         -> "Idle"]
  /\ op = [c \in Caller |-> "eval"]
  /\ state = [t \in Task |-> <<1, CHOOSE a \in Arch : TRUE>>]
  /\ code = [c \in Caller |-> CHOOSE x \in Input : TRUE]
  /\ waitAge = [c \in Caller |-> 0]
  /\ calls = MaxCalls
  /\ outcome = [c \in Caller |-> "none"]
  /\ reply = [c \in Caller |-> <<>>]
  /\ idleTask = [m \in Mgr |-> FALSE]
  /\ rSleep = [m \in Mgr |-> 0]
  /\ rTodo = {}
  /\ rIdle = {}
  /\ shutdown = [m \in Mgr |-> FALSE]
  /\ cancelled = [m \in Mgr |-> FALSE]
  /\ mgr = [c \in Closer |-> 0]
  /\ clIdx = [c \in Closer |-> 0]
  /\ clLen = [c \in Closer |-> 0]
  /\ managerSet = TRUE
  /\ made = 1
  /\ states = [m \in Mgr |-> <<>>]

CallerStep(c) ==
  \/ ER_Acquire(c) \/ Resume(c, "ER_Blocked", "ER_Check") \/ ER_Check(c)
  \/ BootPoll(c) \/ ER_Monitor(c)
  \/ EV_Acquire(c) \/ Resume(c, "EV_Blocked", "EV_Send") \/ EV_Send(c)
  \/ EvalPoll(c)
  \/ RS_Acquire(c) \/ Resume(c, "RS_Blocked", "K_Begin") \/ KillStep(c)
  \/ RS_Release(c)

\* A cancelled task only takes the CancelledError
ReaperStep(m) ==
  \/ /\ ~cancelled[m]
     /\ \/ ReaperStart(m) \/ ReaperWake(m) \/ ReaperScan(m)
        \/ Resume(Reaper(m), "R_Blocked", "K_Begin") \/ KillStep(Reaper(m))
        \/ R_Release(m)
  \/ ReaperCancelled(m)

CloserStep(c) ==
  \/ CL_Awaited(c) \/ CL_Next(c) \/ Resume(c, "CL_Blocked", "K_Begin")
  \/ KillStep(c) \/ CL_Release(c)

ChildStep(n) == ChildBoot(n) \/ ChildReply(n) \/ ChildExit(n)

Next ==
  \/ \E c \in Caller : Call(c) \/ CallerStep(c) \/ ReadFails(c)
  \/ \E m \in Mgr : ReaperStep(m)
  \/ \E c \in Closer : CL_Begin(c) \/ CloserStep(c)
  \/ \E n \in Proc : ChildStep(n)
  \/ Tick
  \/ Exit \/ Exited

Spec == Init /\ [][Next]_vars

(* The event loop resumes every ready task in FIFO order, so a task that  *)
(* is ready again and again is eventually run (strong fairness: it is not *)
(* continuously enabled, as other tasks hold the loop in between).  Time  *)
(* always advances.  Children, new tool calls, signals and the end of    *)
(* serve() get no fairness.                                               *)
FairSpec ==
  /\ Spec
  /\ \A c \in Caller : SF_vars(CallerStep(c))
  /\ \A m \in Mgr : SF_vars(ReaperStep(m))
  /\ \A c \in Closer : SF_vars(CloserStep(c))
  /\ WF_vars(Tick)

-----------------------------------------------------------------------------
(* Properties                                                              *)

TypeOK ==
  /\ process \in [Key -> 0..MaxProc]
  /\ masterFd \in [Key -> 0..MaxProc]
  /\ startTime \in [Key -> BOOLEAN]
  /\ idleAge \in [Key -> 0..IdleTimeout + 1]
  /\ outputBuffer \in [Key -> Seq(Token)]
  /\ timedOut \in [Key -> BOOLEAN]
  /\ holder \in [Key -> Task \cup {NoTask}]
  /\ waiters \in [Key -> Seq(Task)]
  /\ spawned \in 0..MaxProc
  /\ child \in [Proc -> {"none", "booting", "ready", "exited"}]
  /\ pin \in [Proc -> Seq(Input)]
  /\ pout \in [Proc -> Seq(Token)]
  /\ termed \subseteq Proc /\ fdOpen \subseteq Proc
  /\ cur \in Task \cup {NoTask, Gone}
  /\ pc \in [Task -> Pc]
  /\ op \in [Caller -> {"eval", "restart"}]
  /\ state \in [Task -> Key]
  /\ code \in [Caller -> Input]
  /\ waitAge \in [Caller -> 0..BootTimeout \cup 0..EvalTimeout]
  /\ calls \in 0..MaxCalls
  /\ outcome \in [Caller -> Outcome]
  /\ reply \in [Caller -> Seq(Token)]
  /\ idleTask \in [Mgr -> BOOLEAN]
  /\ rSleep \in [Mgr -> 0..IdleCheckInterval]
  /\ rTodo \subseteq Key /\ rIdle \subseteq Key
  /\ shutdown \in [Mgr -> BOOLEAN] /\ cancelled \in [Mgr -> BOOLEAN]
  /\ mgr \in [Closer -> {0} \cup Mgr]
  /\ clIdx \in [Closer -> Nat] /\ clLen \in [Closer -> Nat]
  /\ managerSet \in BOOLEAN /\ made \in Mgr
  /\ states \in [Mgr -> Seq(Arch)]

NoOrphanChild ==
  \A n \in Proc : Alive(n) => \E k \in Key : process[k] = n

(* The reaper decides to kill from a sweep-wide `now` read before it may  *)
(* wait for the session lock; when it finally kills a process, that       *)
(* session has still not been used for more than IDLE_TIMEOUT.           *)
ReaperKillsOnlyIdle ==
  \A m \in Mgr :
    LET r == Reaper(m) IN
    (pc[r] = "K_Begin" /\ process[state[r]] # None)
      => idleAge[state[r]] > IdleTimeout

(* Every tool call returns: no task waits forever on a session lock, a    *)
(* prompt or the kill grace loop (the asyncio.Lock hand-off and the       *)
(* timeouts of _wait_for_prompt).                                          *)
EveryCallReturns ==
  \A c \in Caller : pc[c] # "Idle" ~> pc[c] = "Idle"

(* eval and restart only ever end in a result or in the TimeoutError /    *)
(* RuntimeError the server turns into an error text (spec section 7:      *)
(* every failure is reported as a structured result); the ValueError of  *)
(* an invalid arch ("invalid") is raised before any state is touched.     *)
NoUncaughtError ==
  \A c \in Caller : outcome[c] # "crash"

(* Serialization of the request/response protocol: as long as no boot or *)
(* eval wait on a session's current child has timed out, every eval that *)
(* returns gets exactly the result of its own input, whatever the other  *)
(* callers, restarts and the reaper do meanwhile (the lock, the buffer    *)
(* resets on boot and kill, one pty per child).                           *)
ResponseMatchesUnlessTimedOut ==
  [][\A c \in Caller :
       (/\ pc[c] # "Idle" /\ pc'[c] = "Idle" /\ outcome'[c] = "ok"
        /\ op[c] = "eval" /\ ~timedOut[state[c]])
         => reply'[c] = <<code[c]>>]_vars

(* Every pty master that was opened is either the channel of a session or *)
(* closed again.                                                           *)
NoLeakedChannel ==
  fdOpen \subseteq {masterFd[k] : k \in Key}

(* Once the tool calls stop, every child is eventually gone: the idle     *)
(* reaper kills whatever is left running (spec 4.4: the reaper is         *)
(* launched on first use).                                                 *)
IdleChildrenReaped ==
  <>[](\A n \in Proc : ~Alive(n))

\* A cleanup has returned from close() of manager m
Closed(m) == \E c \in Closer : pc[c] = "CL_Done" /\ mgr[c] = m

(* close "stops the reaper" (spec 4.4): once a cleanup has returned from *)
(* close() of a manager, that manager's idle monitor is in no sleep,      *)
(* sweep or kill, and never enters one again; close waited for the       *)
(* cancelled task to end, and a task that a late ensure_running creates  *)
(* leaves `while not self._shutdown` at once.  A manager _get_manager    *)
(* creates after cleanup has its own monitor.                            *)
ReaperStoppedAfterClose ==
  \A m \in Mgr : Closed(m) => pc[Reaper(m)] = "Off"

(* Every cleanup that has begun ends, returning or raising, unless the   *)
(* server exits first: cancelling the idle monitor while it waits for or *)
(* holds a session lock passes the lock on, and close's own waits end.   *)
CloseReturns ==
  \A c \in Closer :
    pc[c] \notin {"CL_Idle", "CL_Done", "CL_Raised"}
      ~> (pc[c] \in {"CL_Done", "CL_Raised"} \/ cur = Gone)

(* When the server process ends, no make/QEMU child is left running      *)
(* (spec section 3: every live session is stopped before the process     *)
(* exits, including through the synchronous exit hook _sync_cleanup),    *)
(* whatever cleanup, the reaper's cancellation, late calls and a second  *)
(* manager created after cleanup left.                                    *)
NoChildOutlivesServer ==
  cur = Gone => \A n \in Proc : ~Alive(n)

(* close "kills every session, waiting for completion" (spec 4.4): once  *)
(* cleanup has returned from close() of a manager, no session of that    *)
(* manager has a running child.                                           *)
ClosedMeansStopped ==
  \A m \in Mgr : Closed(m) => \A a \in Arch : ~Alive(process[<<m, a>>])

(* close "kills every session, waiting for completion" (spec 4.4), and a *)
(* session inserted into the registry while other operations run must be *)
(* safe (spec section 5): no cleanup ends with an exception out of its   *)
(* loop over the sessions, whatever tool calls arrive while it awaits a  *)
(* session lock or a kill.                                               *)
CloseNeverRaises ==
  \A c \in Closer : pc[c] # "CL_Raised"

=============================================================================
