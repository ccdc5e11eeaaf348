------------------------------ MODULE E2EParse ------------------------------
(* The result parsing of scripts/parse-e2e-results.py: parse_test_output,  *)
(* print_summary's success test and the exit code main derives from them. *)
(*                                                                         *)
(* A line of serial output is abstracted to what the two regular           *)
(* expressions and the indentation test of the parser tell apart:          *)
(*   kind "test"    a line matching \[TEST\]\s+(\S+)\s+\.\.\.\s+(PASS|...) *)
(*                  at its start (so never indented);                      *)
(*   kind "verdict" a line containing E2E_VERDICT: PASS|FAIL|TIMEOUT,      *)
(*                  indented or not;                                       *)
(*   kind "other"   any other line, indented (a detail line) or not.       *)
(* Test names and detail texts are only printed and are left out.         *)
EXTENDS Naturals, Sequences, SequencesExt

None == "none"
Status == {"PASS", "FAIL", "SKIP"}
Verdict == {"PASS", "FAIL", "TIMEOUT"}

TestLine(s) == [kind |-> "test", status |-> s, ind |-> FALSE]
VerdictLine(v, i) == [kind |-> "verdict", status |-> v, ind |-> i]
OtherLine(i) == [kind |-> "other", status |-> None, ind |-> i]

Line ==
  {TestLine(s) : s \in Status}
    \cup {VerdictLine(v, i) : v \in Verdict, i \in BOOLEAN}
    \cup {OtherLine(i) : i \in BOOLEAN}

\* Mutant: the detail loop also steps over the first line after the details
RECURSIVE DetailEndPastOne(_, _)
DetailEndPastOne(ls, j) ==
  IF j <= Len(ls) /\ ls[j].ind THEN DetailEndPastOne(ls, j + 1) ELSE j + 1

\* The detail lines after a test line: every following line that starts
\* with two spaces; returns the index of the first line that does not
RECURSIVE DetailEnd(_, _)
DetailEnd(ls, j) ==
  IF j <= Len(ls) /\ ls[j].ind THEN DetailEnd(ls, j + 1) ELSE j

\* The while loop of parse_test_output from line i on: a test line adds
\* its result and swallows its detail lines; any other line that carries
\* a verdict replaces the verdict found so far
RECURSIVE ParseFrom(_, _, _, _)
ParseFrom(ls, i, res, v) ==
  IF i > Len(ls) THEN [results |-> res, verdict |-> v]
  ELSE IF ls[i].kind = "test"
       THEN ParseFrom(ls, DetailEnd(ls, i + 1), Append(res, ls[i].status), v)
       ELSE ParseFrom(ls, i + 1, res,
                      IF ls[i].kind = "verdict" THEN ls[i].status ELSE v)

parse_test_output(ls) == ParseFrom(ls, 1, <<>>, None)

\* print_summary's return value: no results is a failure; otherwise the
\* verdict must be PASS and no test may have failed (skips do not count)
Success(results, verdict) ==
  /\ results # <<>>
  /\ verdict = "PASS"
  /\ \A i \in 1..Len(results) : results[i] # "FAIL"

\* Mutant: the monitor's verdict is preferred (`verdict or parsed_verdict`)
FinalVerdictMonitorFirst(parsed, monitor) ==
  IF monitor # None THEN monitor ELSE parsed

\* main: the parsed verdict if there is one, else the monitor's
FinalVerdict(parsed, monitor) == IF parsed # None THEN parsed ELSE monitor

\* main's sys.exit: 2 on TIMEOUT, 0 on success, 1 otherwise
ExitCode(results, verdict) ==
  CASE verdict = "TIMEOUT"          -> 2
    [] Success(results, verdict)    -> 0
    [] OTHER                        -> 1

-----------------------------------------------------------------------------
(* The format the script's docstring gives, stated without the loop: the  *)
(* results are the statuses of all test lines in order; a line is a      *)
(* detail of test k when it and every line between k and it are          *)
(* indented; the verdict is that of the last verdict line that is not a  *)
(* detail.                                                               *)

IsDetail(ls, j) ==
  \E k \in 1..j - 1 :
    ls[k].kind = "test" /\ \A m \in k + 1..j : ls[m].ind

RefResults(ls) ==
  LET tests == SelectSeq(ls, LAMBDA l : l.kind = "test")
  IN [n \in 1..Len(tests) |-> tests[n].status]

RefVerdict(ls) ==
  LET j == SelectLastInSeq([n \in 1..Len(ls) |-> n],
             LAMBDA n : ls[n].kind = "verdict" /\ ~IsDetail(ls, n))
  IN IF j = 0 THEN None ELSE ls[j].status

=============================================================================
