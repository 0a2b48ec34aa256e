CONSTANTS
  MaxKeys = 2
  MaxAnswers = 4
  MaxTrusts = 2
  MaxSends = 3
SPECIFICATION Spec
INVARIANTS ChangePauses PausedMeansChanged FilesAreConfirmed TrustedBeforeSending
\* Nothing happens any more once the bounds are used up.
CHECK_DEADLOCK FALSE
