\* The reader thread, the timeout loop, the kill and the join against
\* every output of up to three lines: the script implements E2EScript and
\* ends under fairness for its two threads; and
\* parse_test_output against the documented format for all outputs of up
\* to four lines over the eleven line kinds.
CONSTANTS
  Serial <- MC_Serial
  TestTimeout = 2
SPECIFICATION FairSpec
INVARIANT TypeOK
INVARIANT ParseMatchesReference
PROPERTY Termination
PROPERTY ImplementsE2EScript
