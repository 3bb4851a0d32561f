\* Two workers that both serve the UI, a free slot and a failed step to retry.
SPECIFICATION Spec
CONSTANTS
  c1 = c1
  c2 = c2
  w1 = w1
  w2 = w2
  r1 = r1
  r2 = r2
  None = None
  Cards = {c1, c2}
  Workers = {w1, w2}
  Web = {}
  UiWorkers = {w1, w2}
  Later = {}
  Runs = {r1, r2}
  Limit = 1
  MaxPrep = 1
  Verbs = {"queue", "start", "retry"}
  Faults = {}
  CriticOn = FALSE
  ReviewPlan = FALSE
PROPERTIES
  StartsWithinCap
CHECK_DEADLOCK FALSE
