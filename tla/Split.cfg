\* compose.yaml: a web process, two workers, two cards of one repository.
SPECIFICATION Spec
CONSTANTS
  c1 = c1
  c2 = c2
  w1 = w1
  w2 = w2
  p1 = p1
  r1 = r1
  r2 = r2
  r3 = r3
  None = None
  Cards = {c1, c2}
  Workers = {w1, w2}
  Web = {p1}
  UiWorkers = {}
  Later = {}
  Runs = {r1, r2, r3}
  Limit = 1
  MaxPrep = 1
  Verbs = {"queue", "start", "approve_plan", "retry", "reject"}
  Faults = {}
  CriticOn = TRUE
  ReviewPlan = FALSE
SYMMETRY Symmetry
PROPERTIES
  ClaimsWithinCap
CHECK_DEADLOCK FALSE
