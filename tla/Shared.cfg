\* Two cards of one repository, decided on in the web process or the worker;
\* and deliveries of one card beside late heartbeats.
SPECIFICATION SharedSpec
CONSTANTS
  c1 = c1
  c2 = c2
  w1 = w1
  w2 = w2
  p1 = p1
  d1 = d1
  d2 = d2
  None = None
  Cards = {c1, c2}
  Workers = {w1, w2}
  Web = {p1}
  UiWorkers = {w1}
  Later = {w2}
  Slots = {d1, d2}
  MaxRuns = 1
  Faults = {"crash", "drain"}
INVARIANTS
  TypeOK
  OneDeliveryAtATime
  NoLeakedLease
  LateHeartbeats
  RejectedNeverLands
PROPERTIES
  ImplementsApproval
CHECK_DEADLOCK FALSE
