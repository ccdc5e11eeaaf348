----------------------------- MODULE MCE2ERunner -----------------------------
(* Instantiation of E2ERunner for TLC: outputs of up to three lines made  *)
(* of passed and failed tests, detail lines and the three verdicts (at    *)
(* column 0 and indented among a test's details), and                    *)
(* a timeout of two poll periods.                                         *)
EXTENDS E2ERunner

MC_Line ==
  {TestLine("PASS"), TestLine("FAIL"), OtherLine(TRUE)}
    \cup {VerdictLine(v, i) : v \in Verdict, i \in BOOLEAN}

MC_Serial == BoundedSeq(MC_Line, 3)

\* bound: lines of an output the parse is checked against
MC_ParseLen == 4

\* parse_test_output agrees with the reference on one output
ParseAgreesOn(out) ==
  parse_test_output(out)
    = [results |-> RefResults(out), verdict |-> RefVerdict(out)]

\* ... on every output of up to MC_ParseLen lines over all line kinds (a
\* constant: TLC evaluates it once)
ParseAgreesBounded == \A out \in BoundedSeq(Line, MC_ParseLen) : ParseAgreesOn(out)

(* parse_test_output finds exactly the test results and the verdict that *)
(* the documented output format defines, for every output of up to      *)
(* MC_ParseLen lines over all line kinds and for what the command of    *)
(* this run prints: detail lines are skipped, a verdict line among a    *)
(* test's details is not taken, and of several verdicts the last wins.  *)
ParseMatchesReference == ParseAgreesBounded /\ ParseAgreesOn(serial)
=============================================================================
