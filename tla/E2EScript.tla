------------------------------ MODULE E2EScript ------------------------------
(* What scripts/parse-e2e-results.py promises, without its threads: the   *)
(* command writes its serial output line by line; the script, at some     *)
(* moment, takes a prefix of what has been written and exits with the     *)
(* code the documented output format gives that prefix.  The verdict is   *)
(* the one the output states; only an output that states none leaves it   *)
(* open (a timeout, or a verdict marker the format does not count).       *)
EXTENDS E2EParse

CONSTANT Serial

VARIABLES
  serial,     \* what this run of the command prints
  emitted,    \* lines written so far
  captured,   \* lines of the output the script decided on (0 before)
  exit        \* exit code, -1 while the script runs

vars == <<serial, emitted, captured, exit>>

\* The verdicts an output allows: its own, or, when it states none, a
\* timeout, no verdict at all, or the status of any verdict marker in it
Verdicts(out) ==
  IF RefVerdict(out) # None THEN {RefVerdict(out)}
  ELSE {"TIMEOUT", None} \cup {out[k].status : k \in {k \in 1..Len(out) :
                                                  out[k].kind = "verdict"}}

\* The exit code of the docstring: 2 on a timeout, 0 when tests ran, none
\* failed and the verdict is PASS, else 1
Exit(out, v) ==
  LET res == RefResults(out) IN
  CASE v = "TIMEOUT"                                     -> 2
    [] v = "PASS" /\ res # <<>>
         /\ \A i \in 1..Len(res) : res[i] # "FAIL"       -> 0
    [] OTHER                                             -> 1

Init ==
  /\ serial \in Serial
  /\ emitted = 0
  /\ captured = 0
  /\ exit = -1

Write ==
  /\ emitted < Len(serial)
  /\ emitted' = emitted + 1
  /\ UNCHANGED <<serial, captured, exit>>

Decide ==
  /\ exit = -1
  /\ \E n \in 0..emitted :
       \E v \in Verdicts(SubSeq(serial, 1, n)) :
         /\ captured' = n
         /\ exit' = Exit(SubSeq(serial, 1, n), v)
  /\ UNCHANGED <<serial, emitted>>

Next == Write \/ Decide

\* The script ends; the command may write, or hang, forever
Spec == Init /\ [][Next]_vars /\ WF_vars(Decide)
=============================================================================
