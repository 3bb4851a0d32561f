\* Safety, part by part, of the services around the pipeline.
SPECIFICATION Spec
CONSTANTS
  w1 = w1
  w2 = w2
  q1 = q1
  q2 = q2
  p1 = p1
  c1 = c1
  c2 = c2
  s1 = s1
  s2 = s2
  None = None
  Off = Off
  Mask = Mask
  Workers = {w1, w2}
  Web = {}
  Requests = {q1, q2}
  MaxRuns = 2
  MaxCards = 1
  FailureLimit = 2
  EmptyLimit = 2
  MaxStalls = 0
  RunFaults = {"crash"}
  Rows = {s1, s2}
  Tickers = {w1, w2}
  Configured <- Standing
  Expressions <- Crons
  QueuedCards = {c1}
  Horizon = 3
  SubMinute = 2
  Calendar <- Year
  MaxEdits = 1
  Runs = {"A", "B"}
  Jobs = {q1, q2, p1}
  RunOf <- Owner
  Policies = {"x", "y"}
  Supervisors <- Supervision
  Tasks = {c1}
  Scripts = {"v1", "v2"}
  NameOf <- Package
  Pages = {p1}
  MaxInstalls = 3
  MaxLoops = 3
SYMMETRY Symmetry
INVARIANTS
  TypeOK
  OneFirePerMinute
  TimersAreSound
  OneActiveRun
  OneDriver
  CountersTellTheTruth
  FilteredByItsOwnPolicy
  OnlyVettedScripts
  LoopsAreSound
  CallsAreSound
  NothingIsSkipped
  EpicsAreWhole
  SettingsAreKept
PROPERTIES
  SuspendedStaysQuiet
  NoCardAfterStop
  AnswersReachTheirQuestion
  RoundsAreSound
  ChecksAreExact
CHECK_DEADLOCK FALSE
