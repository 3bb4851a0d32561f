\* One card, two scripts, a retry or an approval of one of them.
SPECIFICATION GateSpec
CONSTANTS
  Tasks = {c1}
  Scripts = {v1, v2}
  NameOf = None
  Pages = {p1}
  MaxInstalls = 1
  MaxLoops = 1
  None = None
INVARIANTS
  NothingUnapprovedIsEvaluated
CHECK_DEADLOCK FALSE
