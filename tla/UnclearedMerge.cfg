\* An evaluator that never starts, and an operator who retries the merge.
SPECIFICATION RoundSpec
CONSTANTS
  CriticOn = FALSE
  ReviewPlan = FALSE
  RoundVerbs = {"retry_merge"}
  MaxVerbs = 1
  MaxRuns = 4
INVARIANTS
  MergedWereCleared
CHECK_DEADLOCK FALSE
