\* One process with both roles, every verb, one card.
SPECIFICATION Spec
CONSTANTS
  c1 = c1
  w1 = w1
  r1 = r1
  r2 = r2
  r3 = r3
  None = None
  Cards = {c1}
  Workers = {w1}
  Web = {}
  UiWorkers = {w1}
  Later = {}
  Runs = {r1, r2, r3}
  Limit = 1
  MaxPrep = 1
  Verbs = {"queue", "start", "cancel", "pause", "resume", "approve_plan", "reject", "retry", "approve_install"}
  Faults = {}
  CriticOn = TRUE
  ReviewPlan = TRUE
SYMMETRY Symmetry
INVARIANTS
  TypeOK
  NothingIsStranded
PROPERTIES
  OnlyTheOwnRunParks
  FirstEndingWins
CHECK_DEADLOCK FALSE
