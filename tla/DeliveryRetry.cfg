\* The worker that merges stalls past the stale window; a peer fails its delivery.
SPECIFICATION Spec
CONSTANTS
  c1 = c1
  w1 = w1
  w2 = w2
  d1 = d1
  d2 = d2
  None = None
  Cards = {c1}
  Workers = {w1, w2}
  Web = {}
  UiWorkers = {w1}
  Later = {}
  Slots = {d1, d2}
  MaxRuns = 1
  Faults = {"stall"}
INVARIANTS
  RetryRecordsLanded
CHECK_DEADLOCK FALSE
