------------------------------ MODULE E2ERunner ------------------------------
(* run_qemu_with_monitor, kill_process_tree and main of                   *)
(* scripts/parse-e2e-results.py.  Three actors:                            *)
(*   the command (QEMU), started in a new session: its leader and the     *)
(*   other members of its process group write the serial output, a fixed  *)
(*   script of lines, to the pipe;                                         *)
(*   the reader thread, appending every line to output_lines and setting  *)
(*   the verdict_found event at the first line with "E2E_VERDICT:";       *)
(*   the main thread, polling the event against TEST_TIMEOUT, killing     *)
(*   the process tree, joining the reader for at most a second and        *)
(*   deriving the exit code from the captured output.                     *)
EXTENDS E2EParse

CONSTANTS
  Serial,         \* the outputs the command may print, sequences of Line
  TestTimeout     \* TEST_TIMEOUT in poll periods

ASSUME Serial \subseteq Seq(Line) /\ TestTimeout \in Nat

VARIABLES
  serial,     \* what this run of the command prints
  emitted,    \* lines written to the pipe so far
  leader,     \* proc: "running", "exited" (a zombie) or "reaped"
  members,    \* some other process of the group still runs
  read,       \* len(output_lines)
  rpc,        \* reader thread: "loop", "set" (line appended, event not
              \* yet set) or "done"
  found,      \* verdict_found.is_set()
  mpc,        \* main thread
  elapsed,    \* poll periods since start_time
  timedOut,   \* timed_out
  captured,   \* lines in the joined output (0 before the join)
  exit        \* sys.exit code, -1 while main runs

vars == <<serial, emitted, leader, members, read, rpc, found, mpc, elapsed,
          timedOut, captured, exit>>

\* A writer keeps the pipe open: the reader sees EOF only when none is left
Writing == leader = "running" \/ members

HasMark(l) == l.kind = "verdict"     \* 'E2E_VERDICT:' in line

-----------------------------------------------------------------------------
(* The command                                                            *)

\* Popen with preexec_fn=os.setsid: the leader runs, and the command may
\* have started further processes in its group (make, docker, QEMU)
Init ==
  /\ serial \in Serial
  /\ emitted = 0
  /\ leader = "running"
  /\ members \in BOOLEAN
  /\ read = 0
  /\ rpc = "loop"
  /\ found = FALSE
  /\ mpc = "wait"
  /\ elapsed = 0
  /\ timedOut = FALSE
  /\ captured = 0
  /\ exit = -1

\* The next line of the serial output reaches the pipe
Emit ==
  /\ Writing /\ emitted < Len(serial)
  /\ emitted' = emitted + 1
  /\ UNCHANGED <<serial, leader, members, read, rpc, found, mpc, elapsed,
                 timedOut, captured, exit>>

\* The leader or the rest of the group ends on its own (tests done, crash)
LeaderExit ==
  /\ leader = "running"
  /\ leader' = "exited"
  /\ UNCHANGED <<serial, emitted, members, read, rpc, found, mpc, elapsed,
                 timedOut, captured, exit>>

MembersExit ==
  /\ members
  /\ members' = FALSE
  /\ UNCHANGED <<serial, emitted, leader, read, rpc, found, mpc, elapsed,
                 timedOut, captured, exit>>

-----------------------------------------------------------------------------
(* read_output, the reader thread                                         *)

\* `for line in proc.stdout`: one line is appended to output_lines; at a
\* line with the verdict marker the loop is about to set the event
ReadLine ==
  /\ rpc = "loop" /\ read < emitted
  /\ read' = read + 1
  /\ rpc' = IF HasMark(serial[read + 1]) THEN "set" ELSE "loop"
  /\ UNCHANGED <<serial, emitted, leader, members, found, mpc, elapsed,
                 timedOut, captured, exit>>

\* verdict_found.set(); break
ReaderSet ==
  /\ rpc = "set"
  /\ found' = TRUE
  /\ rpc' = "done"
  /\ UNCHANGED <<serial, emitted, leader, members, read, mpc, elapsed,
                 timedOut, captured, exit>>

\* End of file: every line was read and no writer is left
ReaderEOF ==
  /\ rpc = "loop" /\ read = emitted /\ ~Writing
  /\ rpc' = "done"
  /\ UNCHANGED <<serial, emitted, leader, members, read, found, mpc, elapsed,
                 timedOut, captured, exit>>

-----------------------------------------------------------------------------
(* The main thread                                                        *)

\* Mutant: the loop sleeps one period longer than TEST_TIMEOUT allows
MainPollLate ==
  /\ mpc = "wait"
  /\ \/ /\ found
        /\ mpc' = "kill"
        /\ UNCHANGED <<elapsed, timedOut>>
     \/ /\ ~found /\ elapsed > TestTimeout + 1
        /\ timedOut' = TRUE
        /\ mpc' = "kill"
        /\ UNCHANGED elapsed
     \/ /\ ~found /\ elapsed <= TestTimeout + 1
        /\ elapsed' = elapsed + 1
        /\ UNCHANGED <<mpc, timedOut>>
  /\ UNCHANGED <<serial, emitted, leader, members, read, rpc, found,
                 captured, exit>>

\* One pass of `while not verdict_found.is_set()`: leave on the event,
\* leave with timed_out once more than TEST_TIMEOUT has passed, else sleep
MainPoll ==
  /\ mpc = "wait"
  /\ \/ /\ found
        /\ mpc' = "kill"
        /\ UNCHANGED <<elapsed, timedOut>>
     \/ /\ ~found /\ elapsed > TestTimeout
        /\ timedOut' = TRUE
        /\ mpc' = "kill"
        /\ UNCHANGED elapsed
     \/ /\ ~found /\ elapsed <= TestTimeout
        /\ elapsed' = elapsed + 1
        /\ UNCHANGED <<mpc, timedOut>>
  /\ UNCHANGED <<serial, emitted, leader, members, read, rpc, found,
                 captured, exit>>

\* kill_process_tree, first part: proc.terminate() and proc.wait(2), then
\* proc.kill() and proc.wait(2).  The signals go to the leader only.  The
\* waits reap it, unless it does not even die of SIGKILL within the wait
\* (the TimeoutExpired is swallowed).
KillLeader ==
  /\ mpc = "kill"
  /\ leader' \in IF leader = "running" THEN {"reaped", "running"}
                                       ELSE {"reaped"}
  /\ mpc' = "killpg"
  /\ UNCHANGED <<serial, emitted, members, read, rpc, found, elapsed,
                 timedOut, captured, exit>>

\* kill_process_tree, second part: os.killpg(os.getpgid(proc.pid), SIGKILL).
\* getpgid of a reaped pid raises ProcessLookupError, which is swallowed.
KillGroup ==
  /\ mpc = "killpg"
  /\ IF leader = "reaped"
     THEN UNCHANGED <<leader, members>>
     ELSE /\ leader' = "exited"
          /\ members' = FALSE
  /\ mpc' = "join"
  /\ UNCHANGED <<serial, emitted, read, rpc, found, elapsed, timedOut,
                 captured, exit>>

\* Mutant: reader.join() without a timeout
JoinWithoutTimeout ==
  /\ mpc = "join"
  /\ rpc = "done"
  /\ captured' = read
  /\ mpc' = "finish"
  /\ UNCHANGED <<serial, emitted, leader, members, read, rpc, found,
                 elapsed, timedOut, exit>>

\* reader.join(timeout=1) returns when the reader is done or after a
\* second; output = ''.join(output_lines) is taken at that moment
Join ==
  /\ mpc = "join"
  /\ \/ rpc = "done"
     \/ rpc # "done"        \* the join timed out
  /\ captured' = read
  /\ mpc' = "finish"
  /\ UNCHANGED <<serial, emitted, leader, members, read, rpc, found,
                 elapsed, timedOut, exit>>

\* run_qemu_with_monitor's verdict: TIMEOUT after a timeout; else, the
\* event being set, the first E2E_VERDICT: PASS|FAIL in the output
MonitorVerdict(out) ==
  LET j == SelectInSeq(out, LAMBDA l : HasMark(l) /\ l.status # "TIMEOUT")
  IN CASE timedOut          -> "TIMEOUT"
       [] found /\ j # 0    -> out[j].status
       [] found             -> None
       [] OTHER             -> "TIMEOUT"

\* main: parse the captured output, prefer its verdict, print the summary
\* and exit
Finish ==
  LET out == SubSeq(serial, 1, captured)
      parsed == parse_test_output(out)
      verdict == FinalVerdict(parsed.verdict, MonitorVerdict(out))
  IN
  /\ mpc = "finish"
  /\ exit' = ExitCode(parsed.results, verdict)
  /\ mpc' = "done"
  /\ UNCHANGED <<serial, emitted, leader, members, read, rpc, found,
                 elapsed, timedOut, captured>>

\* The script has exited (the daemon reader thread with it)
Terminating ==
  /\ mpc = "done"
  /\ UNCHANGED vars

Next ==
  \/ Emit \/ LeaderExit \/ MembersExit
  \/ ReadLine \/ ReaderSet \/ ReaderEOF
  \/ MainPoll \/ KillLeader \/ KillGroup \/ Join \/ Finish
  \/ Terminating

Spec == Init /\ [][Next]_vars

(* Both threads are OS threads: each one that can take a step eventually *)
(* does.  The reader blocks only on the pipe (no line and a writer left), *)
(* the main thread only in waits with a timeout.  The command gets no     *)
(* fairness: it may hang, and stay, forever.                              *)
FairSpec ==
  /\ Spec
  /\ WF_vars(ReadLine \/ ReaderSet \/ ReaderEOF)
  /\ WF_vars(MainPoll \/ KillLeader \/ KillGroup \/ Join \/ Finish)

-----------------------------------------------------------------------------
(* Properties                                                              *)

TypeOK ==
  /\ serial \in Serial
  /\ emitted \in 0..Len(serial) /\ read \in 0..emitted
  /\ leader \in {"running", "exited", "reaped"} /\ members \in BOOLEAN
  /\ rpc \in {"loop", "set", "done"} /\ found \in BOOLEAN
  /\ mpc \in {"wait", "kill", "killpg", "join", "finish", "done"}
  /\ elapsed \in 0..TestTimeout + 1 /\ timedOut \in BOOLEAN
  /\ captured \in 0..read /\ exit \in -1..2

\* The script as E2EScript sees it: the captured output is the one main
\* decided on, and only once it has exited
E2EScriptAbs == INSTANCE E2EScript
  WITH captured <- IF mpc = "done" THEN captured ELSE 0

(* The script implements E2EScript: it ends, and its exit code is the one *)
(* the documented format gives the output it captured, the verdict stated *)
(* there included, even when the reader appended that verdict just after  *)
(* the main thread had given up waiting (main prefers the parsed verdict) *)
(* and whatever the reader, the timeout and the kill did in between.      *)
ImplementsE2EScript == E2EScriptAbs!Spec

(* The script always ends, whether the command hangs, never prints a     *)
(* verdict, or leaves processes behind that keep the pipe open.           *)
Termination == <>(mpc = "done")

(* When the script has ended, nothing of the command's process group runs *)
(* any more (kill_process_tree: "Kill process and all its children").     *)
NoStrayProcess ==
  mpc = "done" => (leader # "running" /\ ~members)
=============================================================================
