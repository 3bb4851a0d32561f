\* Workers that drain, stall or die beside a web process that pulls a card back.
SPECIFICATION Spec
CONSTANTS
  c1 = c1
  w1 = w1
  w2 = w2
  p1 = p1
  r1 = r1
  r2 = r2
  None = None
  Cards = {c1}
  Workers = {w1, w2}
  Web = {p1}
  UiWorkers = {}
  Later = {w2}
  Runs = {r1}
  Limit = 2
  MaxPrep = 1
  Verbs = {"queue", "cancel"}
  Faults = {"crash", "drain", "install", "late_throw", "stall"}
  CriticOn = FALSE
  ReviewPlan = FALSE
SYMMETRY Symmetry
PROPERTIES
  PulledBackStays
  LiveRunsNotReaped
CHECK_DEADLOCK FALSE
