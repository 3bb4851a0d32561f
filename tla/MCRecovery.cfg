\* Liveness, part by part: two deployments of the pipeline, an improvement run,
\* worktree cleanup, the circuit breaker, provider logins, the rounds of a card;
\* and one loop run at a time through crashes and stalls.
SPECIFICATION RecoverySpec
CONSTANTS
  c1 = c1
  c2 = c2
  w1 = w1
  w2 = w2
  p1 = p1
  r1 = r1
  r2 = r2
  r3 = r3
  None = None
  Off = Off
  Cards = {c1}
  Workers = {w1, w2}
  Web = {}
  UiWorkers = {w1}
  Later = {w2}
  Runs = {r1, r2}
  Limit = 2
  MaxPrep = 1
  Verbs = {"queue"}
  Faults = {"crash", "stall"}
  CriticOn = FALSE
  ReviewPlan = FALSE
INVARIANTS
  OneLoopRun
PROPERTIES
  CardsAreCarried
  RunsEnd
  FinishedIsReclaimed
  ProvidersComeBack
  RoundsEnd
CHECK_DEADLOCK FALSE
