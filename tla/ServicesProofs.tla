---------------------------- MODULE ServicesProofs ----------------------------
(***************************************************************************)
(* What MCServices checks of its parts, for every behaviour of its         *)
(* specification: the theorems of the components, whose modules are        *)
(* instantiated with the constants of the parts.  Each part has two        *)
(* lemmas: the definitions of its instance are those of the instance of    *)
(* the proofs, and as long as `part` names it, a behaviour of MCServices   *)
(* is one of the component.  `part` never changes, so a property of the    *)
(* composite is that of the parts that it names.                           *)
(***************************************************************************)
EXTENDS MCServices, FiniteSetTheorems, TLAPS

-----------------------------------------------------------------------------
(* The theorems of the components, for the constants of their parts: two   *)
(* components that are proved in one module share an instance.             *)

LongAndBoots == INSTANCE LoopProofs WITH
  tasks <- list, tree <- worktree, run <- loop,
  MaxIterations <- 15, PlanSizes <- {1}, MaxRuns <- 1,
  Outcomes <- {"ok", "error", "timeout"}, LoopFaults <- {},
  rows <- stored, file <- secret, tabs <- forms, edits <- typings,
  Procs <- {"web", "worker"}, Web <- "web", Tabs <- {}, MaxEdits <- 0, MaxBoots <- 4,
  MaxRotations <- 2

RepairedAndForms == INSTANCE LoopProofs WITH
  tasks <- list, tree <- worktree, run <- loop,
  MaxIterations <- 6, PlanSizes <- {1}, MaxRuns <- 1,
  Outcomes <- {"ok"}, LoopFaults <- {"gate", "probe", "conflict", "cancel"},
  rows <- stored, file <- secret, tabs <- forms, edits <- typings,
  Procs <- {"web"}, Web <- "web", Tabs <- {1}, MaxEdits <- 2, MaxBoots <- 2,
  MaxRotations <- 1

FaultyAndBoots == INSTANCE LoopProofs WITH
  tasks <- list, tree <- worktree, run <- loop,
  MaxIterations <- 3, PlanSizes <- {1, 3}, MaxRuns <- 2,
  Outcomes <- {"ok", "error", "fatal"},
  LoopFaults <- {"unclean", "gate", "probe", "conflict", "cancel", "crash"},
  rows <- stored, file <- secret, tabs <- forms, edits <- typings,
  Procs <- {"web", "worker"}, Web <- "web", Tabs <- {}, MaxEdits <- 0, MaxBoots <- 4,
  MaxRotations <- 2

BoxedAndDropped == INSTANCE CallProofs WITH
  Keys <- {"a", "b"}, Threshold <- 2, MaxReply <- 1, HardLimit <- 5, StallLimit <- 3,
  run <- live,
  Iterations <- 1, Lines <- 3, Chunk <- 1, MaxPicks <- 0, MaxDrops <- 1

CallAndPicked == INSTANCE CallProofs WITH
  Keys <- {"a", "b"}, Threshold <- 2, MaxReply <- 1, HardLimit <- 5, StallLimit <- 3,
  run <- live,
  Iterations <- 2, Lines <- 1, Chunk <- 1, MaxPicks <- 1, MaxDrops <- 0

CritiquedAndBreaker == INSTANCE StageProofs WITH
  status <- place, runs <- history,
  CriticOn <- TRUE, ReviewPlan <- FALSE, RoundVerbs <- AllVerbs, MaxVerbs <- 1, MaxRuns <- 14,
  Calls <- {q1, q2}, ProcessOf <- [c \in {q1, q2} |-> p1], Threshold <- 2,
  Cooldown <- 1, LimitCooldown <- 2, Resets <- {1, 3},
  Sessions <- {1}, Tabs <- {1, 2}, Questions <- 2, Ttl <- 1, Notices <- 1,
  tab <- board, fetch <- gets,
  Procs <- {"web", "worker"}, Web <- "web", MaxEvents <- 2, Buffer <- 1,
  Fetches <- {1, 2}, MaxDrops <- 1

MeddledAndLogin == INSTANCE StageProofs WITH
  status <- place, runs <- history,
  CriticOn <- TRUE, ReviewPlan <- FALSE, RoundVerbs <- AllVerbs, MaxVerbs <- 2, MaxRuns <- 10,
  Calls <- {q1, q2}, ProcessOf <- [c \in {q1, q2} |-> p1], Threshold <- 2,
  Cooldown <- 1, LimitCooldown <- 2, Resets <- {1, 3},
  Sessions <- {1}, Tabs <- {1, 2}, Questions <- 2, Ttl <- 1, Notices <- 1,
  tab <- board, fetch <- gets,
  Procs <- {"web", "worker"}, Web <- "web", MaxEvents <- 2, Buffer <- 1,
  Fetches <- {1, 2}, MaxDrops <- 1

ByHandAndFeed == INSTANCE StageProofs WITH
  status <- place, runs <- history,
  CriticOn <- FALSE, ReviewPlan <- TRUE, RoundVerbs <- AllVerbs, MaxVerbs <- 3, MaxRuns <- 12,
  Calls <- {q1, q2}, ProcessOf <- [c \in {q1, q2} |-> p1], Threshold <- 2,
  Cooldown <- 1, LimitCooldown <- 2, Resets <- {1, 3},
  Sessions <- {1}, Tabs <- {1, 2}, Questions <- 2, Ttl <- 1, Notices <- 1,
  tab <- board, fetch <- gets,
  Procs <- {"web", "worker"}, Web <- "web", MaxEvents <- 2, Buffer <- 1,
  Fetches <- {1, 2}, MaxDrops <- 1

WholeAndEdited == INSTANCE ChangeProofs WITH
  cards <- pieces,
  Pieces <- {1, 2}, Web <- "web", Worker <- "web", Cap <- 2, AutoMode <- TRUE,
  ReviewPlan <- FALSE, AuthorsPlan <- FALSE, Modes <- {"parallel", "ordered", "graph"},
  Verbs <- {"breakdown", "queue", "start", "start_all", "pause_all", "reorder", "cancel",
            "reset", "abandon", "delete", "park"},
  MaxBreakdowns <- 2, MaxVerbs <- 2,
  Judged <- {p1}, Reviewed <- {q1}, MaxEdits <- 2, MaxCrashes <- 0

GraphAndCrowded == INSTANCE ChangeProofs WITH
  cards <- pieces,
  Pieces <- {1, 2}, Web <- "web", Worker <- "worker", Cap <- 2, AutoMode <- TRUE,
  ReviewPlan <- FALSE, AuthorsPlan <- FALSE, Modes <- {"graph"},
  Verbs <- {"breakdown", "queue", "start_all", "pause_all", "reorder", "cancel",
            "reset", "abandon", "delete", "park"},
  MaxBreakdowns <- 1, MaxVerbs <- 3,
  Judged <- {p1}, Reviewed <- {q1, q2}, MaxEdits <- 0, MaxCrashes <- 1

\* A behaviour is of one part.
LEMMA PartStays == [Next]_allVars => part' = part
  BY DEF Next, allVars

-----------------------------------------------------------------------------
(* Loop runs.                                                              *)

\* What is proved of the part long is said of it.
LEMMA LongIsProved ==
  /\ Long!LoopInit => LongAndBoots!LoopInit
  /\ Long!LoopNext => LongAndBoots!LoopNext
  /\ LongAndBoots!OneTickPerIteration => Long!OneTickPerIteration
  /\ LongAndBoots!EvaluatedIsWhole => Long!EvaluatedIsWhole
  /\ LongAndBoots!UnproductiveRunsStop => Long!UnproductiveRunsStop
<1>1. Long!LoopInit => LongAndBoots!LoopInit
  BY Zenon DEF Long!NoRun, Long!Fresh, Long!LoopInit, LongAndBoots!NoRun, LongAndBoots!Fresh,
    LongAndBoots!LoopInit
<1>2. Long!LoopNext => LongAndBoots!LoopNext
  BY Zenon DEF Long!MaxSyncGateRounds, Long!NoRun, Long!Open, Long!FirstUnchecked, Long!Ticked,
    Long!Fresh, Long!AppendTask, Long!EndRun, Long!Fail, Long!NextIteration, Long!Goto, Long!Live,
    Long!StartRun, Long!Replan, Long!BaseMoves, Long!Cancel, Long!Crash, Long!RefusedOrLate,
    Long!Exhausted, Long!Inject, Long!AgentEnds, Long!Unclean, Long!PrematureDone, Long!Blocked,
    Long!Tick, Long!Committed, Long!Banked, Long!BankTasks, Long!BankTree, Long!Unsignalled,
    Long!Idle, Long!Reading, Long!TimedOut, Long!Failed, Long!Progress, Long!Stalls, Long!Ends,
    Long!Stopped, Long!Done, Long!HandBack, Long!ProbeFails, Long!ProbePasses, Long!SyncClean,
    Long!SyncConflicts, Long!SyncFails, Long!GateFails, Long!HandOver, Long!Revise, Long!LoopNext,
    LongAndBoots!MaxSyncGateRounds, LongAndBoots!NoRun, LongAndBoots!Open,
    LongAndBoots!FirstUnchecked, LongAndBoots!Ticked, LongAndBoots!Fresh, LongAndBoots!AppendTask,
    LongAndBoots!EndRun, LongAndBoots!Fail, LongAndBoots!NextIteration, LongAndBoots!Goto,
    LongAndBoots!Live, LongAndBoots!StartRun, LongAndBoots!Replan, LongAndBoots!BaseMoves,
    LongAndBoots!Cancel, LongAndBoots!Crash, LongAndBoots!RefusedOrLate, LongAndBoots!Exhausted,
    LongAndBoots!Inject, LongAndBoots!AgentEnds, LongAndBoots!Unclean, LongAndBoots!PrematureDone,
    LongAndBoots!Blocked, LongAndBoots!Tick, LongAndBoots!Committed, LongAndBoots!Banked,
    LongAndBoots!BankTasks, LongAndBoots!BankTree, LongAndBoots!Unsignalled, LongAndBoots!Idle,
    LongAndBoots!Reading, LongAndBoots!TimedOut, LongAndBoots!Failed, LongAndBoots!Progress,
    LongAndBoots!Stalls, LongAndBoots!Ends, LongAndBoots!Stopped, LongAndBoots!Done,
    LongAndBoots!HandBack, LongAndBoots!ProbeFails, LongAndBoots!ProbePasses,
    LongAndBoots!SyncClean, LongAndBoots!SyncConflicts, LongAndBoots!SyncFails,
    LongAndBoots!GateFails, LongAndBoots!HandOver, LongAndBoots!Revise, LongAndBoots!LoopNext,
    Long!Cardinality, LongAndBoots!Cardinality
<1>3. LongAndBoots!OneTickPerIteration => Long!OneTickPerIteration
  BY Zenon DEF Long!Ticked, Long!OneTickPerIteration, LongAndBoots!Ticked,
    LongAndBoots!OneTickPerIteration, Long!Cardinality, LongAndBoots!Cardinality
<1>4. LongAndBoots!EvaluatedIsWhole => Long!EvaluatedIsWhole
  BY Zenon DEF Long!Open, Long!EvaluatedIsWhole, LongAndBoots!Open, LongAndBoots!EvaluatedIsWhole
<1>5. LongAndBoots!UnproductiveRunsStop => Long!UnproductiveRunsStop
  BY Zenon DEF Long!WastedBound, Long!UnproductiveRunsStop, LongAndBoots!WastedBound,
    LongAndBoots!UnproductiveRunsStop
<1> QED BY <1>1, <1>2, <1>3, <1>4, <1>5

\* A behaviour of the part long is one of LoopRun.
LEMMA LongRuns == Spec => LongAndBoots!LoopSpec \/ []~(part = "long")
<1>1. Init /\ part = "long" => LongAndBoots!LoopInit
  BY LongIsProved DEF Init
<1>2. part = "long" /\ [Next]_allVars => [LongAndBoots!LoopNext]_LongAndBoots!loopVars
  BY LongIsProved DEF Next, allVars, loopVars, LongAndBoots!loopVars
<1>3. [Next]_allVars => ((part = "long")' <=> part = "long")
  BY PartStays
<1> QED BY <1>1, <1>2, <1>3, PTL DEF Spec, LongAndBoots!LoopSpec

\* What is proved of the part repaired is said of it.
LEMMA RepairedIsProved ==
  /\ Repaired!LoopInit => RepairedAndForms!LoopInit
  /\ Repaired!LoopNext => RepairedAndForms!LoopNext
  /\ RepairedAndForms!OneTickPerIteration => Repaired!OneTickPerIteration
  /\ RepairedAndForms!EvaluatedIsWhole => Repaired!EvaluatedIsWhole
  /\ RepairedAndForms!RepairsAreBounded => Repaired!RepairsAreBounded
<1>1. Repaired!LoopInit => RepairedAndForms!LoopInit
  BY Zenon DEF Repaired!NoRun, Repaired!Fresh, Repaired!LoopInit, RepairedAndForms!NoRun,
    RepairedAndForms!Fresh, RepairedAndForms!LoopInit
<1>2. Repaired!LoopNext => RepairedAndForms!LoopNext
  BY Zenon DEF Repaired!MaxSyncGateRounds, Repaired!NoRun, Repaired!Open, Repaired!FirstUnchecked,
    Repaired!Ticked, Repaired!Fresh, Repaired!AppendTask, Repaired!EndRun, Repaired!Fail,
    Repaired!NextIteration, Repaired!Goto, Repaired!Live, Repaired!StartRun, Repaired!Replan,
    Repaired!BaseMoves, Repaired!Cancel, Repaired!Crash, Repaired!RefusedOrLate, Repaired!Exhausted,
    Repaired!Inject, Repaired!AgentEnds, Repaired!Unclean, Repaired!PrematureDone, Repaired!Blocked,
    Repaired!Tick, Repaired!Committed, Repaired!Banked, Repaired!BankTasks, Repaired!BankTree,
    Repaired!Unsignalled, Repaired!Idle, Repaired!Reading, Repaired!TimedOut, Repaired!Failed,
    Repaired!Progress, Repaired!Stalls, Repaired!Ends, Repaired!Stopped, Repaired!Done,
    Repaired!HandBack, Repaired!ProbeFails, Repaired!ProbePasses, Repaired!SyncClean,
    Repaired!SyncConflicts, Repaired!SyncFails, Repaired!GateFails, Repaired!HandOver,
    Repaired!Revise, Repaired!LoopNext, RepairedAndForms!MaxSyncGateRounds, RepairedAndForms!NoRun,
    RepairedAndForms!Open, RepairedAndForms!FirstUnchecked, RepairedAndForms!Ticked,
    RepairedAndForms!Fresh, RepairedAndForms!AppendTask, RepairedAndForms!EndRun,
    RepairedAndForms!Fail, RepairedAndForms!NextIteration, RepairedAndForms!Goto,
    RepairedAndForms!Live, RepairedAndForms!StartRun, RepairedAndForms!Replan,
    RepairedAndForms!BaseMoves, RepairedAndForms!Cancel, RepairedAndForms!Crash,
    RepairedAndForms!RefusedOrLate, RepairedAndForms!Exhausted, RepairedAndForms!Inject,
    RepairedAndForms!AgentEnds, RepairedAndForms!Unclean, RepairedAndForms!PrematureDone,
    RepairedAndForms!Blocked, RepairedAndForms!Tick, RepairedAndForms!Committed,
    RepairedAndForms!Banked, RepairedAndForms!BankTasks, RepairedAndForms!BankTree,
    RepairedAndForms!Unsignalled, RepairedAndForms!Idle, RepairedAndForms!Reading,
    RepairedAndForms!TimedOut, RepairedAndForms!Failed, RepairedAndForms!Progress,
    RepairedAndForms!Stalls, RepairedAndForms!Ends, RepairedAndForms!Stopped, RepairedAndForms!Done,
    RepairedAndForms!HandBack, RepairedAndForms!ProbeFails, RepairedAndForms!ProbePasses,
    RepairedAndForms!SyncClean, RepairedAndForms!SyncConflicts, RepairedAndForms!SyncFails,
    RepairedAndForms!GateFails, RepairedAndForms!HandOver, RepairedAndForms!Revise,
    RepairedAndForms!LoopNext, Repaired!Cardinality, RepairedAndForms!Cardinality
<1>3. RepairedAndForms!OneTickPerIteration => Repaired!OneTickPerIteration
  BY Zenon DEF Repaired!Ticked, Repaired!OneTickPerIteration, RepairedAndForms!Ticked,
    RepairedAndForms!OneTickPerIteration, Repaired!Cardinality, RepairedAndForms!Cardinality
<1>4. RepairedAndForms!EvaluatedIsWhole => Repaired!EvaluatedIsWhole
  BY Zenon DEF Repaired!Open, Repaired!EvaluatedIsWhole, RepairedAndForms!Open,
    RepairedAndForms!EvaluatedIsWhole
<1>5. RepairedAndForms!RepairsAreBounded => Repaired!RepairsAreBounded
  BY Zenon DEF Repaired!MaxSyncGateRounds, Repaired!RepairsAreBounded,
    RepairedAndForms!MaxSyncGateRounds, RepairedAndForms!RepairsAreBounded
<1> QED BY <1>1, <1>2, <1>3, <1>4, <1>5

\* A behaviour of the part repaired is one of LoopRun.
LEMMA RepairedRuns == Spec => RepairedAndForms!LoopSpec \/ []~(part = "repaired")
<1>1. Init /\ part = "repaired" => RepairedAndForms!LoopInit
  BY RepairedIsProved DEF Init
<1>2. part = "repaired" /\ [Next]_allVars => [RepairedAndForms!LoopNext]_RepairedAndForms!loopVars
  BY RepairedIsProved DEF Next, allVars, loopVars, RepairedAndForms!loopVars
<1>3. [Next]_allVars => ((part = "repaired")' <=> part = "repaired")
  BY PartStays
<1> QED BY <1>1, <1>2, <1>3, PTL DEF Spec, RepairedAndForms!LoopSpec

\* What is proved of the part faulty is said of it.
LEMMA FaultyIsProved ==
  /\ Faulty!LoopInit => FaultyAndBoots!LoopInit
  /\ Faulty!LoopNext => FaultyAndBoots!LoopNext
  /\ FaultyAndBoots!OneTickPerIteration => Faulty!OneTickPerIteration
  /\ FaultyAndBoots!EvaluatedIsWhole => Faulty!EvaluatedIsWhole
<1>1. Faulty!LoopInit => FaultyAndBoots!LoopInit
  BY Zenon DEF Faulty!NoRun, Faulty!Fresh, Faulty!LoopInit, FaultyAndBoots!NoRun,
    FaultyAndBoots!Fresh, FaultyAndBoots!LoopInit
<1>2. Faulty!LoopNext => FaultyAndBoots!LoopNext
  BY Zenon DEF Faulty!MaxSyncGateRounds, Faulty!NoRun, Faulty!Open, Faulty!FirstUnchecked,
    Faulty!Ticked, Faulty!Fresh, Faulty!AppendTask, Faulty!EndRun, Faulty!Fail,
    Faulty!NextIteration, Faulty!Goto, Faulty!Live, Faulty!StartRun, Faulty!Replan,
    Faulty!BaseMoves, Faulty!Cancel, Faulty!Crash, Faulty!RefusedOrLate, Faulty!Exhausted,
    Faulty!Inject, Faulty!AgentEnds, Faulty!Unclean, Faulty!PrematureDone, Faulty!Blocked,
    Faulty!Tick, Faulty!Committed, Faulty!Banked, Faulty!BankTasks, Faulty!BankTree,
    Faulty!Unsignalled, Faulty!Idle, Faulty!Reading, Faulty!TimedOut, Faulty!Failed,
    Faulty!Progress, Faulty!Stalls, Faulty!Ends, Faulty!Stopped, Faulty!Done, Faulty!HandBack,
    Faulty!ProbeFails, Faulty!ProbePasses, Faulty!SyncClean, Faulty!SyncConflicts, Faulty!SyncFails,
    Faulty!GateFails, Faulty!HandOver, Faulty!Revise, Faulty!LoopNext,
    FaultyAndBoots!MaxSyncGateRounds, FaultyAndBoots!NoRun, FaultyAndBoots!Open,
    FaultyAndBoots!FirstUnchecked, FaultyAndBoots!Ticked, FaultyAndBoots!Fresh,
    FaultyAndBoots!AppendTask, FaultyAndBoots!EndRun, FaultyAndBoots!Fail,
    FaultyAndBoots!NextIteration, FaultyAndBoots!Goto, FaultyAndBoots!Live, FaultyAndBoots!StartRun,
    FaultyAndBoots!Replan, FaultyAndBoots!BaseMoves, FaultyAndBoots!Cancel, FaultyAndBoots!Crash,
    FaultyAndBoots!RefusedOrLate, FaultyAndBoots!Exhausted, FaultyAndBoots!Inject,
    FaultyAndBoots!AgentEnds, FaultyAndBoots!Unclean, FaultyAndBoots!PrematureDone,
    FaultyAndBoots!Blocked, FaultyAndBoots!Tick, FaultyAndBoots!Committed, FaultyAndBoots!Banked,
    FaultyAndBoots!BankTasks, FaultyAndBoots!BankTree, FaultyAndBoots!Unsignalled,
    FaultyAndBoots!Idle, FaultyAndBoots!Reading, FaultyAndBoots!TimedOut, FaultyAndBoots!Failed,
    FaultyAndBoots!Progress, FaultyAndBoots!Stalls, FaultyAndBoots!Ends, FaultyAndBoots!Stopped,
    FaultyAndBoots!Done, FaultyAndBoots!HandBack, FaultyAndBoots!ProbeFails,
    FaultyAndBoots!ProbePasses, FaultyAndBoots!SyncClean, FaultyAndBoots!SyncConflicts,
    FaultyAndBoots!SyncFails, FaultyAndBoots!GateFails, FaultyAndBoots!HandOver,
    FaultyAndBoots!Revise, FaultyAndBoots!LoopNext, Faulty!Cardinality, FaultyAndBoots!Cardinality
<1>3. FaultyAndBoots!OneTickPerIteration => Faulty!OneTickPerIteration
  BY Zenon DEF Faulty!Ticked, Faulty!OneTickPerIteration, FaultyAndBoots!Ticked,
    FaultyAndBoots!OneTickPerIteration, Faulty!Cardinality, FaultyAndBoots!Cardinality
<1>4. FaultyAndBoots!EvaluatedIsWhole => Faulty!EvaluatedIsWhole
  BY Zenon DEF Faulty!Open, Faulty!EvaluatedIsWhole, FaultyAndBoots!Open,
    FaultyAndBoots!EvaluatedIsWhole
<1> QED BY <1>1, <1>2, <1>3, <1>4

\* A behaviour of the part faulty is one of LoopRun.
LEMMA FaultyRuns == Spec => FaultyAndBoots!LoopSpec \/ []~(part = "faulty")
<1>1. Init /\ part = "faulty" => FaultyAndBoots!LoopInit
  BY FaultyIsProved DEF Init
<1>2. part = "faulty" /\ [Next]_allVars => [FaultyAndBoots!LoopNext]_FaultyAndBoots!loopVars
  BY FaultyIsProved DEF Next, allVars, loopVars, FaultyAndBoots!loopVars
<1>3. [Next]_allVars => ((part = "faulty")' <=> part = "faulty")
  BY PartStays
<1> QED BY <1>1, <1>2, <1>3, PTL DEF Spec, FaultyAndBoots!LoopSpec

-----------------------------------------------------------------------------
(* Calls, the sandbox and the circuit breaker.                             *)

\* What is proved of the part call is said of it.
LEMMA CallIsProved ==
  /\ Invocation!CallInit => CallAndPicked!CallInit
  /\ Invocation!CallNext => CallAndPicked!CallNext
  /\ CallAndPicked!VerdictIsTheCalls => Invocation!VerdictIsTheCalls
  /\ CallAndPicked!SilenceIsBounded => Invocation!SilenceIsBounded
<1>1. Invocation!CallInit => CallAndPicked!CallInit
  BY Zenon DEF Invocation!NoKey, Invocation!CallInit, CallAndPicked!NoKey, CallAndPicked!CallInit
<1>2. Invocation!CallNext => CallAndPicked!CallNext
  BY Zenon DEF Invocation!Speaking, Invocation!Trip, Invocation!CallerAborts,
    Invocation!CreateSession, Invocation!CreateFails, Invocation!Tick, Invocation!HardTimer,
    Invocation!Rearm, Invocation!StallTimer, Invocation!Alive, Invocation!Byte, Invocation!Message,
    Invocation!Delta, Invocation!Streak, Invocation!ToolCall, Invocation!Folded,
    Invocation!RequestFails, Invocation!RetrySucceeds, Invocation!TurnAborted,
    Invocation!PromptEnds, Invocation!WatchdogWins, Invocation!Outcome, Invocation!Return,
    Invocation!Stream, Invocation!CallNext, CallAndPicked!Speaking, CallAndPicked!Trip,
    CallAndPicked!CallerAborts, CallAndPicked!CreateSession, CallAndPicked!CreateFails,
    CallAndPicked!Tick, CallAndPicked!HardTimer, CallAndPicked!Rearm, CallAndPicked!StallTimer,
    CallAndPicked!Alive, CallAndPicked!Byte, CallAndPicked!Message, CallAndPicked!Delta,
    CallAndPicked!Streak, CallAndPicked!ToolCall, CallAndPicked!Folded, CallAndPicked!RequestFails,
    CallAndPicked!RetrySucceeds, CallAndPicked!TurnAborted, CallAndPicked!PromptEnds,
    CallAndPicked!WatchdogWins, CallAndPicked!Outcome, CallAndPicked!Return, CallAndPicked!Stream,
    CallAndPicked!CallNext
<1>3. CallAndPicked!VerdictIsTheCalls => Invocation!VerdictIsTheCalls
  BY Zenon DEF Invocation!Speaking, Invocation!Causes, Invocation!VerdictIsTheCalls,
    CallAndPicked!Speaking, CallAndPicked!Causes, CallAndPicked!VerdictIsTheCalls
<1>4. CallAndPicked!SilenceIsBounded => Invocation!SilenceIsBounded
  BY Zenon DEF Invocation!SilenceIsBounded, CallAndPicked!SilenceIsBounded
<1> QED BY <1>1, <1>2, <1>3, <1>4

\* A behaviour of the part call is one of AgentCall.
LEMMA CallRuns == Spec => CallAndPicked!CallSpec \/ []~(part = "call")
<1>1. Init /\ part = "call" => CallAndPicked!CallInit
  BY CallIsProved DEF Init
<1>2. part = "call" /\ [Next]_allVars => [CallAndPicked!CallNext]_CallAndPicked!callVars
  BY CallIsProved DEF Next, allVars, callVars, CallAndPicked!callVars
<1>3. [Next]_allVars => ((part = "call")' <=> part = "call")
  BY PartStays
<1> QED BY <1>1, <1>2, <1>3, PTL DEF Spec, CallAndPicked!CallSpec

\* What is proved of the part boxed is said of it.
LEMMA BoxedIsProved ==
  /\ SandboxInit => BoxedAndDropped!SandboxInit
  /\ SandboxNext => BoxedAndDropped!SandboxNext
  /\ BoxedAndDropped!TmpdirIsTheRuns => TmpdirIsTheRuns
  /\ BoxedAndDropped!FileToolsRunAlone => FileToolsRunAlone
<1>1. SandboxInit => BoxedAndDropped!SandboxInit
  BY Zenon DEF NoJob, NoContext, SandboxInit, BoxedAndDropped!NoJob, BoxedAndDropped!NoContext,
    BoxedAndDropped!SandboxInit
<1>2. SandboxNext => BoxedAndDropped!SandboxNext
  BY Zenon DEF NoJob, NoContext, JobsOf, EditAllowlist, StartRun, Call, CallGate, MyTurn, LineAfter,
    Leaves, Over, FileToolTurn, Clashes, Refuse, Claim, WrapTurn, Wrap, Unwrapped, ClaimAfterWrap,
    Spawn, NotSpawned, Exit, BeginFile, Still, Reaped, Touch, Touched, AbortSession, CloseRun,
    SandboxStep, SandboxNext, BoxedAndDropped!NoJob, BoxedAndDropped!NoContext, BoxedAndDropped!JobsOf,
    BoxedAndDropped!EditAllowlist, BoxedAndDropped!StartRun, BoxedAndDropped!Call, BoxedAndDropped!CallGate,
    BoxedAndDropped!MyTurn, BoxedAndDropped!LineAfter, BoxedAndDropped!Leaves, BoxedAndDropped!Over,
    BoxedAndDropped!FileToolTurn, BoxedAndDropped!Clashes, BoxedAndDropped!Refuse, BoxedAndDropped!Claim,
    BoxedAndDropped!WrapTurn, BoxedAndDropped!Wrap, BoxedAndDropped!Unwrapped, BoxedAndDropped!ClaimAfterWrap,
    BoxedAndDropped!Spawn, BoxedAndDropped!NotSpawned, BoxedAndDropped!Exit, BoxedAndDropped!BeginFile,
    BoxedAndDropped!Still, BoxedAndDropped!Reaped, BoxedAndDropped!Touch, BoxedAndDropped!Touched,
    BoxedAndDropped!AbortSession, BoxedAndDropped!CloseRun, BoxedAndDropped!SandboxStep,
    BoxedAndDropped!SandboxNext
<1>3. BoxedAndDropped!TmpdirIsTheRuns => TmpdirIsTheRuns
  BY Zenon DEF TmpdirIsTheRuns, BoxedAndDropped!TmpdirIsTheRuns
<1>4. BoxedAndDropped!FileToolsRunAlone => FileToolsRunAlone
  BY Zenon DEF JobsOf, FileToolsRunAlone, BoxedAndDropped!JobsOf, BoxedAndDropped!FileToolsRunAlone
<1> QED BY <1>1, <1>2, <1>3, <1>4

\* A behaviour of the part boxed is one of Sandbox.
LEMMA BoxedRuns == Spec => BoxedAndDropped!SandboxSpec \/ []~(part = "boxed")
<1>1. Init /\ part = "boxed" => BoxedAndDropped!SandboxInit
  BY BoxedIsProved DEF Init
<1>2. part = "boxed" /\ [Next]_allVars => [BoxedAndDropped!SandboxNext]_BoxedAndDropped!sandboxVars
  BY BoxedIsProved DEF Next, allVars, sandboxVars, BoxedAndDropped!sandboxVars
<1>3. [Next]_allVars => ((part = "boxed")' <=> part = "boxed")
  BY PartStays
<1> QED BY <1>1, <1>2, <1>3, PTL DEF Spec, BoxedAndDropped!SandboxSpec

\* What is proved of the part breaker is said of it.
LEMMA BreakerIsProved ==
  /\ Breaker!BreakerInit => CritiquedAndBreaker!BreakerInit
  /\ Breaker!BreakerNext => CritiquedAndBreaker!BreakerNext
  /\ CritiquedAndBreaker!OpensOnEvidence => Breaker!OpensOnEvidence
<1>1. Breaker!BreakerInit => CritiquedAndBreaker!BreakerInit
  BY Zenon DEF Breaker!Closed, Breaker!Free, Breaker!BreakerInit, CritiquedAndBreaker!Closed,
    CritiquedAndBreaker!Free, CritiquedAndBreaker!BreakerInit
<1>2. Breaker!BreakerNext => CritiquedAndBreaker!BreakerNext
  BY Zenon DEF Breaker!Closed, Breaker!Free, Breaker!Kinds, Breaker!BreakerOpen, Breaker!CooledDown,
    Breaker!Call, Breaker!Observe, Breaker!Succeed, Breaker!Neutral, Breaker!Fails,
    Breaker!LimitWait, Breaker!WaitFor, Breaker!Opens, Breaker!Record, Breaker!Mid,
    Breaker!Undisturbed, Breaker!StrikeBound, Breaker!Tick, Breaker!BreakerStep,
    Breaker!BreakerNext, CritiquedAndBreaker!Closed, CritiquedAndBreaker!Free,
    CritiquedAndBreaker!Kinds, CritiquedAndBreaker!BreakerOpen, CritiquedAndBreaker!CooledDown,
    CritiquedAndBreaker!Call, CritiquedAndBreaker!Observe, CritiquedAndBreaker!Succeed,
    CritiquedAndBreaker!Neutral, CritiquedAndBreaker!Fails, CritiquedAndBreaker!LimitWait,
    CritiquedAndBreaker!WaitFor, CritiquedAndBreaker!Opens, CritiquedAndBreaker!Record,
    CritiquedAndBreaker!Mid, CritiquedAndBreaker!Undisturbed, CritiquedAndBreaker!StrikeBound,
    CritiquedAndBreaker!Tick, CritiquedAndBreaker!BreakerStep, CritiquedAndBreaker!BreakerNext
<1>3. CritiquedAndBreaker!OpensOnEvidence => Breaker!OpensOnEvidence
  BY Zenon DEF Breaker!OpensOnEvidence, CritiquedAndBreaker!OpensOnEvidence
<1> QED BY <1>1, <1>2, <1>3

\* A behaviour of the part breaker is one of CircuitBreaker.
LEMMA BreakerRuns == Spec => CritiquedAndBreaker!BreakerSpec \/ []~(part = "breaker")
<1>1. Init /\ part = "breaker" => CritiquedAndBreaker!BreakerInit
  BY BreakerIsProved DEF Init
<1>2. part = "breaker" /\ [Next]_allVars => [CritiquedAndBreaker!BreakerNext]_CritiquedAndBreaker!breakerVars
  BY BreakerIsProved DEF Next, allVars, breakerVars, CritiquedAndBreaker!breakerVars
<1>3. [Next]_allVars => ((part = "breaker")' <=> part = "breaker")
  BY PartStays
<1> QED BY <1>1, <1>2, <1>3, PTL DEF Spec, CritiquedAndBreaker!BreakerSpec

-----------------------------------------------------------------------------
(* Logins.                                                                 *)

\* What is proved of the part login is said of it.
LEMMA LoginIsProved ==
  /\ Login!LoginInit => MeddledAndLogin!LoginInit
  /\ Login!LoginNext => MeddledAndLogin!LoginNext
  /\ MeddledAndLogin!AnswersItsQuestion => Login!AnswersItsQuestion
<1>1. Login!LoginInit => MeddledAndLogin!LoginInit
  BY Zenon DEF Login!Blank, Login!LoginInit, MeddledAndLogin!Blank, MeddledAndLogin!LoginInit
<1>2. Login!LoginNext => MeddledAndLogin!LoginNext
  BY Zenon DEF Login!Live, Login!Blank, Login!Brief, Login!IsLive, Login!Due, Login!Swept,
    Login!Stopped, Login!SweptFlows, Login!StartLogin, Login!Poll, Login!AnswerLogin,
    Login!AnswerRefused, Login!CancelLogin, Login!Notify, Login!Ask, Login!Withdraw,
    Login!LoginResolves, Login!LoginRejects, Login!Passes, Login!LoginNext, MeddledAndLogin!Live,
    MeddledAndLogin!Blank, MeddledAndLogin!Brief, MeddledAndLogin!IsLive, MeddledAndLogin!Due,
    MeddledAndLogin!Swept, MeddledAndLogin!Stopped, MeddledAndLogin!SweptFlows,
    MeddledAndLogin!StartLogin, MeddledAndLogin!Poll, MeddledAndLogin!AnswerLogin,
    MeddledAndLogin!AnswerRefused, MeddledAndLogin!CancelLogin, MeddledAndLogin!Notify,
    MeddledAndLogin!Ask, MeddledAndLogin!Withdraw, MeddledAndLogin!LoginResolves,
    MeddledAndLogin!LoginRejects, MeddledAndLogin!Passes, MeddledAndLogin!LoginNext
<1>3. MeddledAndLogin!AnswersItsQuestion => Login!AnswersItsQuestion
  BY Zenon DEF Login!AnswersItsQuestion, MeddledAndLogin!AnswersItsQuestion
<1> QED BY <1>1, <1>2, <1>3

\* A behaviour of the part login is one of ProviderLogin.
LEMMA LoginRuns == Spec => MeddledAndLogin!LoginSpec \/ []~(part = "login")
<1>1. Init /\ part = "login" => MeddledAndLogin!LoginInit
  BY LoginIsProved DEF Init
<1>2. part = "login" /\ [Next]_allVars => [MeddledAndLogin!LoginNext]_MeddledAndLogin!loginVars
  BY LoginIsProved DEF Next, allVars, loginVars, MeddledAndLogin!loginVars
<1>3. [Next]_allVars => ((part = "login")' <=> part = "login")
  BY PartStays
<1> QED BY <1>1, <1>2, <1>3, PTL DEF Spec, MeddledAndLogin!LoginSpec

-----------------------------------------------------------------------------
(* Epics.                                                                  *)

\* What is proved of the part whole is said of it.
LEMMA WholeIsProved ==
  /\ Whole!EpicsInit => WholeAndEdited!EpicsInit
  /\ Whole!EpicsNext => WholeAndEdited!EpicsNext
  /\ WholeAndEdited!EpicDoneIsWhole => Whole!EpicDoneIsWhole
<1>1. Whole!EpicsInit => WholeAndEdited!EpicsInit
  BY Zenon DEF Whole!Epic, Whole!AllCards, Whole!Nothing, Whole!EpicsInit, WholeAndEdited!Epic,
    WholeAndEdited!AllCards, WholeAndEdited!Nothing, WholeAndEdited!EpicsInit
<1>2. Whole!EpicsNext => WholeAndEdited!EpicsNext
  BY Zenon DEF Whole!Epic, Whole!AllCards, Whole!Nothing, Whole!Finished, Whole!Scopable,
    Whole!Positions, Whole!Status, Whole!Children, Whole!HasChildren, Whole!Load, Whole!Queue,
    Whole!LastOf, Whole!Unmet, Whole!HeldByEpicOrder, Whole!Acyclic, Whole!EpicFinished, Whole!Free,
    Whole!Set, Whole!MoveCard, Whole!Stopped, Whole!ReadPieces, Whole!CompleteEpic, Whole!Press,
    Whole!NextRows, Whole!ApplyBreakdown, Whole!QueueCard, Whole!Start, Whole!StartCard,
    Whole!StartEpic, Whole!PauseEpic, Whole!ResumeCard, Whole!Reorder, Whole!CancelCard,
    Whole!ResetCard, Whole!Abandon, Whole!DeleteCard, Whole!ProposePlan, Whole!PlanWritten,
    Whole!AdoptScopingPlan, Whole!TurnFails, Whole!ApprovePlan, Whole!LoopReady, Whole!Waiting,
    Whole!Manual, Whole!Candidates, Whole!PlanNext, Whole!Pass, Whole!Deliver, Whole!Park,
    Whole!EpicsNext, WholeAndEdited!Epic, WholeAndEdited!AllCards, WholeAndEdited!Nothing,
    WholeAndEdited!Finished, WholeAndEdited!Scopable, WholeAndEdited!Positions,
    WholeAndEdited!Status, WholeAndEdited!Children, WholeAndEdited!HasChildren, WholeAndEdited!Load,
    WholeAndEdited!Queue, WholeAndEdited!LastOf, WholeAndEdited!Unmet,
    WholeAndEdited!HeldByEpicOrder, WholeAndEdited!Acyclic, WholeAndEdited!EpicFinished,
    WholeAndEdited!Free, WholeAndEdited!Set, WholeAndEdited!MoveCard, WholeAndEdited!Stopped,
    WholeAndEdited!ReadPieces, WholeAndEdited!CompleteEpic, WholeAndEdited!Press,
    WholeAndEdited!NextRows, WholeAndEdited!ApplyBreakdown, WholeAndEdited!QueueCard,
    WholeAndEdited!Start, WholeAndEdited!StartCard, WholeAndEdited!StartEpic,
    WholeAndEdited!PauseEpic, WholeAndEdited!ResumeCard, WholeAndEdited!Reorder,
    WholeAndEdited!CancelCard, WholeAndEdited!ResetCard, WholeAndEdited!Abandon,
    WholeAndEdited!DeleteCard, WholeAndEdited!ProposePlan, WholeAndEdited!PlanWritten,
    WholeAndEdited!AdoptScopingPlan, WholeAndEdited!TurnFails, WholeAndEdited!ApprovePlan,
    WholeAndEdited!LoopReady, WholeAndEdited!Waiting, WholeAndEdited!Manual,
    WholeAndEdited!Candidates, WholeAndEdited!PlanNext, WholeAndEdited!Pass, WholeAndEdited!Deliver,
    WholeAndEdited!Park, WholeAndEdited!EpicsNext, Whole!Cardinality, WholeAndEdited!Cardinality
<1>3. WholeAndEdited!EpicDoneIsWhole => Whole!EpicDoneIsWhole
  BY Zenon DEF Whole!Epic, Whole!Nothing, Whole!Finished, Whole!Status, Whole!Children,
    Whole!EpicDoneIsWhole, WholeAndEdited!Epic, WholeAndEdited!Nothing, WholeAndEdited!Finished,
    WholeAndEdited!Status, WholeAndEdited!Children, WholeAndEdited!EpicDoneIsWhole
<1> QED BY <1>1, <1>2, <1>3

\* A behaviour of the part whole is one of Epics.
LEMMA WholeRuns == Spec => WholeAndEdited!EpicsSpec \/ []~(part = "whole")
<1>1. Init /\ part = "whole" => WholeAndEdited!EpicsInit
  BY WholeIsProved DEF Init
<1>2. part = "whole" /\ [Next]_allVars => [WholeAndEdited!EpicsNext]_WholeAndEdited!epicVars
  BY WholeIsProved DEF Next, allVars, epicVars, WholeAndEdited!epicVars
<1>3. [Next]_allVars => ((part = "whole")' <=> part = "whole")
  BY PartStays
<1> QED BY <1>1, <1>2, <1>3, PTL DEF Spec, WholeAndEdited!EpicsSpec

\* What is proved of the part graph is said of it.
LEMMA GraphIsProved ==
  /\ Graph!EpicsInit => GraphAndCrowded!EpicsInit
  /\ Graph!EpicsNext => GraphAndCrowded!EpicsNext
  /\ GraphAndCrowded!DependenciesFirst => Graph!DependenciesFirst
<1>1. Graph!EpicsInit => GraphAndCrowded!EpicsInit
  BY Zenon DEF Graph!Epic, Graph!AllCards, Graph!Nothing, Graph!EpicsInit, GraphAndCrowded!Epic,
    GraphAndCrowded!AllCards, GraphAndCrowded!Nothing, GraphAndCrowded!EpicsInit
<1>2. Graph!EpicsNext => GraphAndCrowded!EpicsNext
  BY Zenon DEF Graph!Epic, Graph!AllCards, Graph!Nothing, Graph!Finished, Graph!Scopable,
    Graph!Positions, Graph!Status, Graph!Children, Graph!HasChildren, Graph!Load, Graph!Queue,
    Graph!LastOf, Graph!Unmet, Graph!HeldByEpicOrder, Graph!Acyclic, Graph!EpicFinished, Graph!Free,
    Graph!Set, Graph!MoveCard, Graph!Stopped, Graph!ReadPieces, Graph!CompleteEpic, Graph!Press,
    Graph!NextRows, Graph!ApplyBreakdown, Graph!QueueCard, Graph!Start, Graph!StartCard,
    Graph!StartEpic, Graph!PauseEpic, Graph!ResumeCard, Graph!Reorder, Graph!CancelCard,
    Graph!ResetCard, Graph!Abandon, Graph!DeleteCard, Graph!ProposePlan, Graph!PlanWritten,
    Graph!AdoptScopingPlan, Graph!TurnFails, Graph!ApprovePlan, Graph!LoopReady, Graph!Waiting,
    Graph!Manual, Graph!Candidates, Graph!PlanNext, Graph!Pass, Graph!Deliver, Graph!Park,
    Graph!EpicsNext, GraphAndCrowded!Epic, GraphAndCrowded!AllCards, GraphAndCrowded!Nothing,
    GraphAndCrowded!Finished, GraphAndCrowded!Scopable, GraphAndCrowded!Positions,
    GraphAndCrowded!Status, GraphAndCrowded!Children, GraphAndCrowded!HasChildren,
    GraphAndCrowded!Load, GraphAndCrowded!Queue, GraphAndCrowded!LastOf, GraphAndCrowded!Unmet,
    GraphAndCrowded!HeldByEpicOrder, GraphAndCrowded!Acyclic, GraphAndCrowded!EpicFinished,
    GraphAndCrowded!Free, GraphAndCrowded!Set, GraphAndCrowded!MoveCard, GraphAndCrowded!Stopped,
    GraphAndCrowded!ReadPieces, GraphAndCrowded!CompleteEpic, GraphAndCrowded!Press,
    GraphAndCrowded!NextRows, GraphAndCrowded!ApplyBreakdown, GraphAndCrowded!QueueCard,
    GraphAndCrowded!Start, GraphAndCrowded!StartCard, GraphAndCrowded!StartEpic,
    GraphAndCrowded!PauseEpic, GraphAndCrowded!ResumeCard, GraphAndCrowded!Reorder,
    GraphAndCrowded!CancelCard, GraphAndCrowded!ResetCard, GraphAndCrowded!Abandon,
    GraphAndCrowded!DeleteCard, GraphAndCrowded!ProposePlan, GraphAndCrowded!PlanWritten,
    GraphAndCrowded!AdoptScopingPlan, GraphAndCrowded!TurnFails, GraphAndCrowded!ApprovePlan,
    GraphAndCrowded!LoopReady, GraphAndCrowded!Waiting, GraphAndCrowded!Manual,
    GraphAndCrowded!Candidates, GraphAndCrowded!PlanNext, GraphAndCrowded!Pass,
    GraphAndCrowded!Deliver, GraphAndCrowded!Park, GraphAndCrowded!EpicsNext, Graph!Cardinality,
    GraphAndCrowded!Cardinality
<1>3. GraphAndCrowded!DependenciesFirst => Graph!DependenciesFirst
  BY Zenon DEF Graph!Epic, Graph!Finished, Graph!Status, Graph!Children, Graph!Unmet,
    Graph!DependenciesFirst, GraphAndCrowded!Epic, GraphAndCrowded!Finished, GraphAndCrowded!Status,
    GraphAndCrowded!Children, GraphAndCrowded!Unmet, GraphAndCrowded!DependenciesFirst
<1> QED BY <1>1, <1>2, <1>3

\* A behaviour of the part graph is one of Epics.
LEMMA GraphRuns == Spec => GraphAndCrowded!EpicsSpec \/ []~(part = "graph")
<1>1. Init /\ part = "graph" => GraphAndCrowded!EpicsInit
  BY GraphIsProved DEF Init
<1>2. part = "graph" /\ [Next]_allVars => [GraphAndCrowded!EpicsNext]_GraphAndCrowded!epicVars
  BY GraphIsProved DEF Next, allVars, epicVars, GraphAndCrowded!epicVars
<1>3. [Next]_allVars => ((part = "graph")' <=> part = "graph")
  BY PartStays
<1> QED BY <1>1, <1>2, <1>3, PTL DEF Spec, GraphAndCrowded!EpicsSpec

-----------------------------------------------------------------------------
(* Rounds.                                                                 *)

\* What is proved of the part critiqued is said of it.
LEMMA CritiquedIsProved ==
  /\ Critiqued!RoundInit => CritiquedAndBreaker!RoundInit
  /\ Critiqued!RoundNext => CritiquedAndBreaker!RoundNext
  /\ CritiquedAndBreaker!EvidenceIsOfThisCycle => Critiqued!EvidenceIsOfThisCycle
  /\ CritiquedAndBreaker!FeedbackIsAnswered => Critiqued!FeedbackIsAnswered
  /\ CritiquedAndBreaker!RevisionsAreBounded => Critiqued!RevisionsAreBounded
  /\ CritiquedAndBreaker!OwnVerdict => Critiqued!OwnVerdict
<1>1. Critiqued!RoundInit => CritiquedAndBreaker!RoundInit
  BY Zenon DEF Critiqued!NoFile, Critiqued!NoStage, Critiqued!RoundInit, CritiquedAndBreaker!NoFile,
    CritiquedAndBreaker!NoStage, CritiquedAndBreaker!RoundInit
<1>2. Critiqued!RoundNext => CritiquedAndBreaker!RoundNext
  BY Zenon DEF Critiqued!InStage, Critiqued!StatusOf, Critiqued!NoFile, Critiqued!NoStage,
    Critiqued!Begin, Critiqued!Newest, Critiqued!OfKind, Critiqued!Cycle, Critiqued!Asking,
    Critiqued!Asked, Critiqued!Pending, Critiqued!FailedBefore, Critiqued!SentBack,
    Critiqued!Critics, Critiqued!Prechecks, Critiqued!PriorRevisions, Critiqued!Row, Critiqued!Move,
    Critiqued!Finish, Critiqued!Start, Critiqued!PumpTodo, Critiqued!ClaimLoop, Critiqued!OpenRow,
    Critiqued!ClearPlannerArtifacts, Critiqued!PreparePlanner, Critiqued!PrepareCritic,
    Critiqued!PrepareEvaluator, Critiqued!ClearForLoop, Critiqued!PrepareLoop,
    Critiqued!PreparationThrows, Critiqued!RunGate, Critiqued!AgentWrites, Critiqued!AgentEnds,
    Critiqued!Fail, Critiqued!Drop, Critiqued!Destination, Critiqued!AskQuestions,
    Critiqued!MayRevise, Critiqued!WritePlan, Critiqued!RoutePlan, Critiqued!DecideCritique,
    Critiqued!NoVerdictOfTheCancelled, Critiqued!LoopDone, Critiqued!LoopFails,
    Critiqued!DecideEvaluation, Critiqued!May, Critiqued!Queue, Critiqued!Restart,
    Critiqued!ApprovePlan, Critiqued!Cancel, Critiqued!Reject, Critiqued!Approve,
    Critiqued!RetryMerge, Critiqued!RetryStep, Critiqued!Crash, Critiqued!Automatic,
    Critiqued!RoundNext, CritiquedAndBreaker!InStage, CritiquedAndBreaker!StatusOf,
    CritiquedAndBreaker!NoFile, CritiquedAndBreaker!NoStage, CritiquedAndBreaker!Begin,
    CritiquedAndBreaker!Newest, CritiquedAndBreaker!OfKind, CritiquedAndBreaker!Cycle,
    CritiquedAndBreaker!Asking, CritiquedAndBreaker!Asked, CritiquedAndBreaker!Pending,
    CritiquedAndBreaker!FailedBefore, CritiquedAndBreaker!SentBack, CritiquedAndBreaker!Critics,
    CritiquedAndBreaker!Prechecks, CritiquedAndBreaker!PriorRevisions, CritiquedAndBreaker!Row,
    CritiquedAndBreaker!Move, CritiquedAndBreaker!Finish, CritiquedAndBreaker!Start,
    CritiquedAndBreaker!PumpTodo, CritiquedAndBreaker!ClaimLoop, CritiquedAndBreaker!OpenRow,
    CritiquedAndBreaker!ClearPlannerArtifacts, CritiquedAndBreaker!PreparePlanner,
    CritiquedAndBreaker!PrepareCritic, CritiquedAndBreaker!PrepareEvaluator,
    CritiquedAndBreaker!ClearForLoop, CritiquedAndBreaker!PrepareLoop,
    CritiquedAndBreaker!PreparationThrows, CritiquedAndBreaker!RunGate,
    CritiquedAndBreaker!AgentWrites, CritiquedAndBreaker!AgentEnds, CritiquedAndBreaker!Fail,
    CritiquedAndBreaker!Drop, CritiquedAndBreaker!Destination, CritiquedAndBreaker!AskQuestions,
    CritiquedAndBreaker!MayRevise, CritiquedAndBreaker!WritePlan, CritiquedAndBreaker!RoutePlan,
    CritiquedAndBreaker!DecideCritique, CritiquedAndBreaker!NoVerdictOfTheCancelled,
    CritiquedAndBreaker!LoopDone, CritiquedAndBreaker!LoopFails,
    CritiquedAndBreaker!DecideEvaluation, CritiquedAndBreaker!May, CritiquedAndBreaker!Queue,
    CritiquedAndBreaker!Restart, CritiquedAndBreaker!ApprovePlan, CritiquedAndBreaker!Cancel,
    CritiquedAndBreaker!Reject, CritiquedAndBreaker!Approve, CritiquedAndBreaker!RetryMerge,
    CritiquedAndBreaker!RetryStep, CritiquedAndBreaker!Crash, CritiquedAndBreaker!Automatic,
    CritiquedAndBreaker!RoundNext, Critiqued!Cardinality, Critiqued!Max,
    CritiquedAndBreaker!Cardinality, CritiquedAndBreaker!Max
<1>3. CritiquedAndBreaker!EvidenceIsOfThisCycle => Critiqued!EvidenceIsOfThisCycle
  BY Zenon DEF Critiqued!EvidenceIsOfThisCycle, CritiquedAndBreaker!EvidenceIsOfThisCycle
<1>4. CritiquedAndBreaker!FeedbackIsAnswered => Critiqued!FeedbackIsAnswered
  BY Zenon DEF Critiqued!Newest, Critiqued!Asking, Critiqued!Asked, Critiqued!FeedbackIsAnswered,
    CritiquedAndBreaker!Newest, CritiquedAndBreaker!Asking, CritiquedAndBreaker!Asked,
    CritiquedAndBreaker!FeedbackIsAnswered, Critiqued!Max, CritiquedAndBreaker!Max
<1>5. CritiquedAndBreaker!RevisionsAreBounded => Critiqued!RevisionsAreBounded
  BY Zenon DEF Critiqued!Newest, Critiqued!OfKind, Critiqued!Cycle, Critiqued!SentBack,
    Critiqued!Critics, Critiqued!Prechecks, Critiqued!PriorRevisions, Critiqued!RevisionsAreBounded,
    CritiquedAndBreaker!Newest, CritiquedAndBreaker!OfKind, CritiquedAndBreaker!Cycle,
    CritiquedAndBreaker!SentBack, CritiquedAndBreaker!Critics, CritiquedAndBreaker!Prechecks,
    CritiquedAndBreaker!PriorRevisions, CritiquedAndBreaker!RevisionsAreBounded,
    Critiqued!Cardinality, Critiqued!Max, CritiquedAndBreaker!Cardinality, CritiquedAndBreaker!Max
<1>6. CritiquedAndBreaker!OwnVerdict => Critiqued!OwnVerdict
  BY Zenon DEF Critiqued!OwnVerdict, CritiquedAndBreaker!OwnVerdict
<1> QED BY <1>1, <1>2, <1>3, <1>4, <1>5, <1>6

\* A behaviour of the part critiqued is one of Rounds.
LEMMA CritiquedRuns == Spec => CritiquedAndBreaker!RoundSpec \/ []~(part = "critiqued")
<1>1. Init /\ part = "critiqued" => CritiquedAndBreaker!RoundInit
  BY CritiquedIsProved DEF Init
<1>2. part = "critiqued" /\ [Next]_allVars => [CritiquedAndBreaker!RoundNext]_CritiquedAndBreaker!roundVars
  BY CritiquedIsProved DEF Next, allVars, roundVars, CritiquedAndBreaker!roundVars
<1>3. [Next]_allVars => ((part = "critiqued")' <=> part = "critiqued")
  BY PartStays
<1> QED BY <1>1, <1>2, <1>3, PTL DEF Spec, CritiquedAndBreaker!RoundSpec

\* What is proved of the part meddled is said of it.
LEMMA MeddledIsProved ==
  /\ Meddled!RoundInit => MeddledAndLogin!RoundInit
  /\ Meddled!RoundNext => MeddledAndLogin!RoundNext
  /\ MeddledAndLogin!EvidenceIsOfThisCycle => Meddled!EvidenceIsOfThisCycle
  /\ MeddledAndLogin!FeedbackIsAnswered => Meddled!FeedbackIsAnswered
  /\ MeddledAndLogin!OwnVerdict => Meddled!OwnVerdict
<1>1. Meddled!RoundInit => MeddledAndLogin!RoundInit
  BY Zenon DEF Meddled!NoFile, Meddled!NoStage, Meddled!RoundInit, MeddledAndLogin!NoFile,
    MeddledAndLogin!NoStage, MeddledAndLogin!RoundInit
<1>2. Meddled!RoundNext => MeddledAndLogin!RoundNext
  BY Zenon DEF Meddled!InStage, Meddled!StatusOf, Meddled!NoFile, Meddled!NoStage, Meddled!Begin,
    Meddled!Newest, Meddled!OfKind, Meddled!Cycle, Meddled!Asking, Meddled!Asked, Meddled!Pending,
    Meddled!FailedBefore, Meddled!SentBack, Meddled!Critics, Meddled!Prechecks,
    Meddled!PriorRevisions, Meddled!Row, Meddled!Move, Meddled!Finish, Meddled!Start,
    Meddled!PumpTodo, Meddled!ClaimLoop, Meddled!OpenRow, Meddled!ClearPlannerArtifacts,
    Meddled!PreparePlanner, Meddled!PrepareCritic, Meddled!PrepareEvaluator, Meddled!ClearForLoop,
    Meddled!PrepareLoop, Meddled!PreparationThrows, Meddled!RunGate, Meddled!AgentWrites,
    Meddled!AgentEnds, Meddled!Fail, Meddled!Drop, Meddled!Destination, Meddled!AskQuestions,
    Meddled!MayRevise, Meddled!WritePlan, Meddled!RoutePlan, Meddled!DecideCritique,
    Meddled!NoVerdictOfTheCancelled, Meddled!LoopDone, Meddled!LoopFails, Meddled!DecideEvaluation,
    Meddled!May, Meddled!Queue, Meddled!Restart, Meddled!ApprovePlan, Meddled!Cancel,
    Meddled!Reject, Meddled!Approve, Meddled!RetryMerge, Meddled!RetryStep, Meddled!Crash,
    Meddled!Automatic, Meddled!RoundNext, MeddledAndLogin!InStage, MeddledAndLogin!StatusOf,
    MeddledAndLogin!NoFile, MeddledAndLogin!NoStage, MeddledAndLogin!Begin, MeddledAndLogin!Newest,
    MeddledAndLogin!OfKind, MeddledAndLogin!Cycle, MeddledAndLogin!Asking, MeddledAndLogin!Asked,
    MeddledAndLogin!Pending, MeddledAndLogin!FailedBefore, MeddledAndLogin!SentBack,
    MeddledAndLogin!Critics, MeddledAndLogin!Prechecks, MeddledAndLogin!PriorRevisions,
    MeddledAndLogin!Row, MeddledAndLogin!Move, MeddledAndLogin!Finish, MeddledAndLogin!Start,
    MeddledAndLogin!PumpTodo, MeddledAndLogin!ClaimLoop, MeddledAndLogin!OpenRow,
    MeddledAndLogin!ClearPlannerArtifacts, MeddledAndLogin!PreparePlanner,
    MeddledAndLogin!PrepareCritic, MeddledAndLogin!PrepareEvaluator, MeddledAndLogin!ClearForLoop,
    MeddledAndLogin!PrepareLoop, MeddledAndLogin!PreparationThrows, MeddledAndLogin!RunGate,
    MeddledAndLogin!AgentWrites, MeddledAndLogin!AgentEnds, MeddledAndLogin!Fail,
    MeddledAndLogin!Drop, MeddledAndLogin!Destination, MeddledAndLogin!AskQuestions,
    MeddledAndLogin!MayRevise, MeddledAndLogin!WritePlan, MeddledAndLogin!RoutePlan,
    MeddledAndLogin!DecideCritique, MeddledAndLogin!NoVerdictOfTheCancelled,
    MeddledAndLogin!LoopDone, MeddledAndLogin!LoopFails, MeddledAndLogin!DecideEvaluation,
    MeddledAndLogin!May, MeddledAndLogin!Queue, MeddledAndLogin!Restart,
    MeddledAndLogin!ApprovePlan, MeddledAndLogin!Cancel, MeddledAndLogin!Reject,
    MeddledAndLogin!Approve, MeddledAndLogin!RetryMerge, MeddledAndLogin!RetryStep,
    MeddledAndLogin!Crash, MeddledAndLogin!Automatic, MeddledAndLogin!RoundNext,
    Meddled!Cardinality, Meddled!Max, MeddledAndLogin!Cardinality, MeddledAndLogin!Max
<1>3. MeddledAndLogin!EvidenceIsOfThisCycle => Meddled!EvidenceIsOfThisCycle
  BY Zenon DEF Meddled!EvidenceIsOfThisCycle, MeddledAndLogin!EvidenceIsOfThisCycle
<1>4. MeddledAndLogin!FeedbackIsAnswered => Meddled!FeedbackIsAnswered
  BY Zenon DEF Meddled!Newest, Meddled!Asking, Meddled!Asked, Meddled!FeedbackIsAnswered,
    MeddledAndLogin!Newest, MeddledAndLogin!Asking, MeddledAndLogin!Asked,
    MeddledAndLogin!FeedbackIsAnswered, Meddled!Max, MeddledAndLogin!Max
<1>5. MeddledAndLogin!OwnVerdict => Meddled!OwnVerdict
  BY Zenon DEF Meddled!OwnVerdict, MeddledAndLogin!OwnVerdict
<1> QED BY <1>1, <1>2, <1>3, <1>4, <1>5

\* A behaviour of the part meddled is one of Rounds.
LEMMA MeddledRuns == Spec => MeddledAndLogin!RoundSpec \/ []~(part = "meddled")
<1>1. Init /\ part = "meddled" => MeddledAndLogin!RoundInit
  BY MeddledIsProved DEF Init
<1>2. part = "meddled" /\ [Next]_allVars => [MeddledAndLogin!RoundNext]_MeddledAndLogin!roundVars
  BY MeddledIsProved DEF Next, allVars, roundVars, MeddledAndLogin!roundVars
<1>3. [Next]_allVars => ((part = "meddled")' <=> part = "meddled")
  BY PartStays
<1> QED BY <1>1, <1>2, <1>3, PTL DEF Spec, MeddledAndLogin!RoundSpec

\* What is proved of the part by_hand is said of it.
LEMMA ByHandIsProved ==
  /\ ByHand!RoundInit => ByHandAndFeed!RoundInit
  /\ ByHand!RoundNext => ByHandAndFeed!RoundNext
  /\ ByHandAndFeed!EvidenceIsOfThisCycle => ByHand!EvidenceIsOfThisCycle
  /\ ByHandAndFeed!FeedbackIsAnswered => ByHand!FeedbackIsAnswered
  /\ ByHandAndFeed!OwnVerdict => ByHand!OwnVerdict
<1>1. ByHand!RoundInit => ByHandAndFeed!RoundInit
  BY Zenon DEF ByHand!NoFile, ByHand!NoStage, ByHand!RoundInit, ByHandAndFeed!NoFile,
    ByHandAndFeed!NoStage, ByHandAndFeed!RoundInit
<1>2. ByHand!RoundNext => ByHandAndFeed!RoundNext
  BY Zenon DEF ByHand!InStage, ByHand!StatusOf, ByHand!NoFile, ByHand!NoStage, ByHand!Begin,
    ByHand!Newest, ByHand!OfKind, ByHand!Cycle, ByHand!Asking, ByHand!Asked, ByHand!Pending,
    ByHand!FailedBefore, ByHand!SentBack, ByHand!Critics, ByHand!Prechecks, ByHand!PriorRevisions,
    ByHand!Row, ByHand!Move, ByHand!Finish, ByHand!Start, ByHand!PumpTodo, ByHand!ClaimLoop,
    ByHand!OpenRow, ByHand!ClearPlannerArtifacts, ByHand!PreparePlanner, ByHand!PrepareCritic,
    ByHand!PrepareEvaluator, ByHand!ClearForLoop, ByHand!PrepareLoop, ByHand!PreparationThrows,
    ByHand!RunGate, ByHand!AgentWrites, ByHand!AgentEnds, ByHand!Fail, ByHand!Drop,
    ByHand!Destination, ByHand!AskQuestions, ByHand!MayRevise, ByHand!WritePlan, ByHand!RoutePlan,
    ByHand!DecideCritique, ByHand!NoVerdictOfTheCancelled, ByHand!LoopDone, ByHand!LoopFails,
    ByHand!DecideEvaluation, ByHand!May, ByHand!Queue, ByHand!Restart, ByHand!ApprovePlan,
    ByHand!Cancel, ByHand!Reject, ByHand!Approve, ByHand!RetryMerge, ByHand!RetryStep, ByHand!Crash,
    ByHand!Automatic, ByHand!RoundNext, ByHandAndFeed!InStage, ByHandAndFeed!StatusOf,
    ByHandAndFeed!NoFile, ByHandAndFeed!NoStage, ByHandAndFeed!Begin, ByHandAndFeed!Newest,
    ByHandAndFeed!OfKind, ByHandAndFeed!Cycle, ByHandAndFeed!Asking, ByHandAndFeed!Asked,
    ByHandAndFeed!Pending, ByHandAndFeed!FailedBefore, ByHandAndFeed!SentBack,
    ByHandAndFeed!Critics, ByHandAndFeed!Prechecks, ByHandAndFeed!PriorRevisions,
    ByHandAndFeed!Row, ByHandAndFeed!Move, ByHandAndFeed!Finish, ByHandAndFeed!Start,
    ByHandAndFeed!PumpTodo, ByHandAndFeed!ClaimLoop, ByHandAndFeed!OpenRow,
    ByHandAndFeed!ClearPlannerArtifacts, ByHandAndFeed!PreparePlanner,
    ByHandAndFeed!PrepareCritic, ByHandAndFeed!PrepareEvaluator, ByHandAndFeed!ClearForLoop,
    ByHandAndFeed!PrepareLoop, ByHandAndFeed!PreparationThrows, ByHandAndFeed!RunGate,
    ByHandAndFeed!AgentWrites, ByHandAndFeed!AgentEnds, ByHandAndFeed!Fail, ByHandAndFeed!Drop,
    ByHandAndFeed!Destination, ByHandAndFeed!AskQuestions, ByHandAndFeed!MayRevise,
    ByHandAndFeed!WritePlan, ByHandAndFeed!RoutePlan, ByHandAndFeed!DecideCritique,
    ByHandAndFeed!NoVerdictOfTheCancelled, ByHandAndFeed!LoopDone, ByHandAndFeed!LoopFails,
    ByHandAndFeed!DecideEvaluation, ByHandAndFeed!May, ByHandAndFeed!Queue,
    ByHandAndFeed!Restart, ByHandAndFeed!ApprovePlan, ByHandAndFeed!Cancel,
    ByHandAndFeed!Reject, ByHandAndFeed!Approve, ByHandAndFeed!RetryMerge,
    ByHandAndFeed!RetryStep, ByHandAndFeed!Crash, ByHandAndFeed!Automatic,
    ByHandAndFeed!RoundNext, ByHand!Cardinality, ByHand!Max, ByHandAndFeed!Cardinality,
    ByHandAndFeed!Max
<1>3. ByHandAndFeed!EvidenceIsOfThisCycle => ByHand!EvidenceIsOfThisCycle
  BY Zenon DEF ByHand!EvidenceIsOfThisCycle, ByHandAndFeed!EvidenceIsOfThisCycle
<1>4. ByHandAndFeed!FeedbackIsAnswered => ByHand!FeedbackIsAnswered
  BY Zenon DEF ByHand!Newest, ByHand!Asking, ByHand!Asked, ByHand!FeedbackIsAnswered,
    ByHandAndFeed!Newest, ByHandAndFeed!Asking, ByHandAndFeed!Asked,
    ByHandAndFeed!FeedbackIsAnswered, ByHand!Max, ByHandAndFeed!Max
<1>5. ByHandAndFeed!OwnVerdict => ByHand!OwnVerdict
  BY Zenon DEF ByHand!OwnVerdict, ByHandAndFeed!OwnVerdict
<1> QED BY <1>1, <1>2, <1>3, <1>4, <1>5

\* A behaviour of the part by_hand is one of Rounds.
LEMMA ByHandRuns == Spec => ByHandAndFeed!RoundSpec \/ []~(part = "by_hand")
<1>1. Init /\ part = "by_hand" => ByHandAndFeed!RoundInit
  BY ByHandIsProved DEF Init
<1>2. part = "by_hand" /\ [Next]_allVars => [ByHandAndFeed!RoundNext]_ByHandAndFeed!roundVars
  BY ByHandIsProved DEF Next, allVars, roundVars, ByHandAndFeed!roundVars
<1>3. [Next]_allVars => ((part = "by_hand")' <=> part = "by_hand")
  BY PartStays
<1> QED BY <1>1, <1>2, <1>3, PTL DEF Spec, ByHandAndFeed!RoundSpec

-----------------------------------------------------------------------------
(* The integrity checks.                                                   *)

\* What is proved of the part edited is said of it.
LEMMA EditedIsProved ==
  /\ Edited!IntegrityInit => WholeAndEdited!IntegrityInit
  /\ Edited!IntegrityNext => WholeAndEdited!IntegrityNext
  /\ WholeAndEdited!ExplainedAlarm => Edited!ExplainedAlarm
  /\ WholeAndEdited!Vetted => Edited!Vetted
<1>1. Edited!IntegrityInit => WholeAndEdited!IntegrityInit
  BY Zenon DEF Edited!CardRuns, Edited!Refs, Edited!Unstarted, Edited!FirstBaseline,
    Edited!IntegrityInit, WholeAndEdited!CardRuns, WholeAndEdited!Refs, WholeAndEdited!Unstarted,
    WholeAndEdited!FirstBaseline, WholeAndEdited!IntegrityInit
<1>2. Edited!IntegrityNext => WholeAndEdited!IntegrityNext
  BY Zenon DEF Edited!integrityVars, Edited!CardRuns, Edited!Refs, Edited!Touched, Edited!Outside,
    Edited!Capture, Edited!CaptureRefs, Edited!Changed, Edited!Inspect, Edited!ReadRefs,
    Edited!Written, Edited!Unexplained, Edited!Violates, Edited!Conclude, Edited!MayBeADelivery,
    Edited!CompareRefs, Edited!Settle, Edited!Approve, Edited!ClaimDelivery,
    Edited!CheckBeforeMerge, Edited!Commit, Edited!Record, Edited!Complete, Edited!Die, Edited!Reap,
    Edited!ReviewConfig, Edited!Retry, Edited!ApproveConfig, Edited!Settled, Edited!IntegrityNext,
    WholeAndEdited!integrityVars, WholeAndEdited!CardRuns, WholeAndEdited!Refs,
    WholeAndEdited!Touched, WholeAndEdited!Outside, WholeAndEdited!Capture,
    WholeAndEdited!CaptureRefs, WholeAndEdited!Changed, WholeAndEdited!Inspect,
    WholeAndEdited!ReadRefs, WholeAndEdited!Written, WholeAndEdited!Unexplained,
    WholeAndEdited!Violates, WholeAndEdited!Conclude, WholeAndEdited!MayBeADelivery,
    WholeAndEdited!CompareRefs, WholeAndEdited!Settle, WholeAndEdited!Approve,
    WholeAndEdited!ClaimDelivery, WholeAndEdited!CheckBeforeMerge, WholeAndEdited!Commit,
    WholeAndEdited!Record, WholeAndEdited!Complete, WholeAndEdited!Die, WholeAndEdited!Reap,
    WholeAndEdited!ReviewConfig, WholeAndEdited!Retry, WholeAndEdited!ApproveConfig,
    WholeAndEdited!Settled, WholeAndEdited!IntegrityNext, Edited!Cardinality,
    WholeAndEdited!Cardinality
<1>3. WholeAndEdited!ExplainedAlarm => Edited!ExplainedAlarm
  BY Zenon DEF Edited!CardRuns, Edited!WritesSince, Edited!Unrecorded, Edited!ExplainedAlarm,
    WholeAndEdited!CardRuns, WholeAndEdited!WritesSince, WholeAndEdited!Unrecorded,
    WholeAndEdited!ExplainedAlarm, Edited!Cardinality, WholeAndEdited!Cardinality
<1>4. WholeAndEdited!Vetted => Edited!Vetted
  BY Zenon DEF Edited!CardRuns, Edited!Vetted, WholeAndEdited!CardRuns, WholeAndEdited!Vetted
<1> QED BY <1>1, <1>2, <1>3, <1>4

\* A behaviour of the part edited is one of Integrity.
LEMMA EditedRuns == Spec => WholeAndEdited!IntegritySpec \/ []~(part = "edited")
<1>1. Init /\ part = "edited" => WholeAndEdited!IntegrityInit
  BY EditedIsProved DEF Init
<1>2. part = "edited" /\ [Next]_allVars => [WholeAndEdited!IntegrityNext]_WholeAndEdited!integrityVars
  BY EditedIsProved DEF Next, allVars, checkVars, WholeAndEdited!integrityVars
<1>3. [Next]_allVars => ((part = "edited")' <=> part = "edited")
  BY PartStays
<1> QED BY <1>1, <1>2, <1>3, PTL DEF Spec, WholeAndEdited!IntegritySpec

\* What is proved of the part crowded is said of it.
LEMMA CrowdedIsProved ==
  /\ Crowded!IntegrityInit => GraphAndCrowded!IntegrityInit
  /\ Crowded!IntegrityNext => GraphAndCrowded!IntegrityNext
  /\ GraphAndCrowded!ExplainedAlarm => Crowded!ExplainedAlarm
  /\ GraphAndCrowded!Vetted => Crowded!Vetted
<1>1. Crowded!IntegrityInit => GraphAndCrowded!IntegrityInit
  BY Zenon DEF Crowded!CardRuns, Crowded!Refs, Crowded!Unstarted, Crowded!FirstBaseline,
    Crowded!IntegrityInit, GraphAndCrowded!CardRuns, GraphAndCrowded!Refs,
    GraphAndCrowded!Unstarted, GraphAndCrowded!FirstBaseline, GraphAndCrowded!IntegrityInit
<1>2. Crowded!IntegrityNext => GraphAndCrowded!IntegrityNext
  BY Zenon DEF Crowded!integrityVars, Crowded!CardRuns, Crowded!Refs, Crowded!Touched,
    Crowded!Outside, Crowded!Capture, Crowded!CaptureRefs, Crowded!Changed, Crowded!Inspect,
    Crowded!ReadRefs, Crowded!Written, Crowded!Unexplained, Crowded!Violates, Crowded!Conclude,
    Crowded!MayBeADelivery, Crowded!CompareRefs, Crowded!Settle, Crowded!Approve,
    Crowded!ClaimDelivery, Crowded!CheckBeforeMerge, Crowded!Commit, Crowded!Record,
    Crowded!Complete, Crowded!Die, Crowded!Reap, Crowded!ReviewConfig, Crowded!Retry,
    Crowded!ApproveConfig, Crowded!Settled, Crowded!IntegrityNext, GraphAndCrowded!integrityVars,
    GraphAndCrowded!CardRuns, GraphAndCrowded!Refs, GraphAndCrowded!Touched,
    GraphAndCrowded!Outside, GraphAndCrowded!Capture, GraphAndCrowded!CaptureRefs,
    GraphAndCrowded!Changed, GraphAndCrowded!Inspect, GraphAndCrowded!ReadRefs,
    GraphAndCrowded!Written, GraphAndCrowded!Unexplained, GraphAndCrowded!Violates,
    GraphAndCrowded!Conclude, GraphAndCrowded!MayBeADelivery, GraphAndCrowded!CompareRefs,
    GraphAndCrowded!Settle, GraphAndCrowded!Approve, GraphAndCrowded!ClaimDelivery,
    GraphAndCrowded!CheckBeforeMerge, GraphAndCrowded!Commit, GraphAndCrowded!Record,
    GraphAndCrowded!Complete, GraphAndCrowded!Die, GraphAndCrowded!Reap,
    GraphAndCrowded!ReviewConfig, GraphAndCrowded!Retry, GraphAndCrowded!ApproveConfig,
    GraphAndCrowded!Settled, GraphAndCrowded!IntegrityNext, Crowded!Cardinality,
    GraphAndCrowded!Cardinality
<1>3. GraphAndCrowded!ExplainedAlarm => Crowded!ExplainedAlarm
  BY Zenon DEF Crowded!CardRuns, Crowded!WritesSince, Crowded!Unrecorded, Crowded!ExplainedAlarm,
    GraphAndCrowded!CardRuns, GraphAndCrowded!WritesSince, GraphAndCrowded!Unrecorded,
    GraphAndCrowded!ExplainedAlarm, Crowded!Cardinality, GraphAndCrowded!Cardinality
<1>4. GraphAndCrowded!Vetted => Crowded!Vetted
  BY Zenon DEF Crowded!CardRuns, Crowded!Vetted, GraphAndCrowded!CardRuns, GraphAndCrowded!Vetted
<1> QED BY <1>1, <1>2, <1>3, <1>4

\* A behaviour of the part crowded is one of Integrity.
LEMMA CrowdedRuns == Spec => GraphAndCrowded!IntegritySpec \/ []~(part = "crowded")
<1>1. Init /\ part = "crowded" => GraphAndCrowded!IntegrityInit
  BY CrowdedIsProved DEF Init
<1>2. part = "crowded" /\ [Next]_allVars => [GraphAndCrowded!IntegrityNext]_GraphAndCrowded!integrityVars
  BY CrowdedIsProved DEF Next, allVars, checkVars, GraphAndCrowded!integrityVars
<1>3. [Next]_allVars => ((part = "crowded")' <=> part = "crowded")
  BY PartStays
<1> QED BY <1>1, <1>2, <1>3, PTL DEF Spec, GraphAndCrowded!IntegritySpec

-----------------------------------------------------------------------------
(* The settings.                                                           *)

\* What is proved of the part boots is said of it.
LEMMA BootsIsProved ==
  /\ Boots!SettingsInit => LongAndBoots!SettingsInit
  /\ Boots!SettingsNext => LongAndBoots!SettingsNext
  /\ LongAndBoots!OneSecret => Boots!OneSecret
<1>1. Boots!SettingsInit => LongAndBoots!SettingsInit
  BY Zenon DEF Boots!Keys, Boots!Renamed, Boots!KeyAs, Boots!GetSettings, Boots!NoTyping,
    Boots!Closed, Boots!SettingsInit, LongAndBoots!Keys, LongAndBoots!Renamed, LongAndBoots!KeyAs,
    LongAndBoots!GetSettings, LongAndBoots!NoTyping, LongAndBoots!Closed, LongAndBoots!SettingsInit
<1>2. Boots!SettingsNext => LongAndBoots!SettingsNext
  BY Zenon DEF Boots!Keys, Boots!Values, Boots!Renamed, Boots!KeyAs, Boots!GetSettings,
    Boots!Redacted, Boots!StoredKey, Boots!PatchSettings, Boots!NoTyping, Boots!Closed,
    Boots!Serving, Boots!Load, Boots!Edit, Boots!Save, Boots!Patch, Boots!Adopt, Boots!SaveFails,
    Boots!Boot, Boots!Create, Boots!Write, Boots!Wait, Boots!Die, Boots!Rotate, Boots!SettingsNext,
    LongAndBoots!Keys, LongAndBoots!Values, LongAndBoots!Renamed, LongAndBoots!KeyAs,
    LongAndBoots!GetSettings, LongAndBoots!Redacted, LongAndBoots!StoredKey,
    LongAndBoots!PatchSettings, LongAndBoots!NoTyping, LongAndBoots!Closed, LongAndBoots!Serving,
    LongAndBoots!Load, LongAndBoots!Edit, LongAndBoots!Save, LongAndBoots!Patch, LongAndBoots!Adopt,
    LongAndBoots!SaveFails, LongAndBoots!Boot, LongAndBoots!Create, LongAndBoots!Write,
    LongAndBoots!Wait, LongAndBoots!Die, LongAndBoots!Rotate, LongAndBoots!SettingsNext
<1>3. LongAndBoots!OneSecret => Boots!OneSecret
  BY Zenon DEF Boots!Up, Boots!OneSecret, LongAndBoots!Up, LongAndBoots!OneSecret
<1> QED BY <1>1, <1>2, <1>3

\* A behaviour of the part boots is one of Settings.
LEMMA BootsRuns == Spec => LongAndBoots!SettingsSpec \/ []~(part = "boots")
<1>1. Init /\ part = "boots" => LongAndBoots!SettingsInit
  BY BootsIsProved DEF Init
<1>2. part = "boots" /\ [Next]_allVars => [LongAndBoots!SettingsNext]_LongAndBoots!settingVars
  BY BootsIsProved DEF Next, allVars, settingVars, LongAndBoots!settingVars
<1>3. [Next]_allVars => ((part = "boots")' <=> part = "boots")
  BY PartStays
<1> QED BY <1>1, <1>2, <1>3, PTL DEF Spec, LongAndBoots!SettingsSpec

\* What is proved of the part forms is said of it.
LEMMA FormsIsProved ==
  /\ Forms!SettingsInit => RepairedAndForms!SettingsInit
  /\ Forms!SettingsNext => RepairedAndForms!SettingsNext
  /\ RepairedAndForms!SavedIsRead => Forms!SavedIsRead
  /\ RepairedAndForms!EditsAreKept => Forms!EditsAreKept
<1>1. Forms!SettingsInit => RepairedAndForms!SettingsInit
  BY Zenon DEF Forms!Keys, Forms!Renamed, Forms!KeyAs, Forms!GetSettings, Forms!NoTyping,
    Forms!Closed, Forms!SettingsInit, RepairedAndForms!Keys, RepairedAndForms!Renamed,
    RepairedAndForms!KeyAs, RepairedAndForms!GetSettings, RepairedAndForms!NoTyping,
    RepairedAndForms!Closed, RepairedAndForms!SettingsInit
<1>2. Forms!SettingsNext => RepairedAndForms!SettingsNext
  BY Zenon DEF Forms!Keys, Forms!Values, Forms!Renamed, Forms!KeyAs, Forms!GetSettings,
    Forms!Redacted, Forms!StoredKey, Forms!PatchSettings, Forms!NoTyping, Forms!Closed,
    Forms!Serving, Forms!Load, Forms!Edit, Forms!Save, Forms!Patch, Forms!Adopt, Forms!SaveFails,
    Forms!Boot, Forms!Create, Forms!Write, Forms!Wait, Forms!Die, Forms!Rotate, Forms!SettingsNext,
    RepairedAndForms!Keys, RepairedAndForms!Values, RepairedAndForms!Renamed,
    RepairedAndForms!KeyAs, RepairedAndForms!GetSettings, RepairedAndForms!Redacted,
    RepairedAndForms!StoredKey, RepairedAndForms!PatchSettings, RepairedAndForms!NoTyping,
    RepairedAndForms!Closed, RepairedAndForms!Serving, RepairedAndForms!Load, RepairedAndForms!Edit,
    RepairedAndForms!Save, RepairedAndForms!Patch, RepairedAndForms!Adopt,
    RepairedAndForms!SaveFails, RepairedAndForms!Boot, RepairedAndForms!Create,
    RepairedAndForms!Write, RepairedAndForms!Wait, RepairedAndForms!Die, RepairedAndForms!Rotate,
    RepairedAndForms!SettingsNext
<1>3. RepairedAndForms!SavedIsRead => Forms!SavedIsRead
  BY Zenon DEF Forms!Keys, Forms!Renamed, Forms!KeyAs, Forms!GetSettings, Forms!Up,
    Forms!SavedIsRead, RepairedAndForms!Keys, RepairedAndForms!Renamed, RepairedAndForms!KeyAs,
    RepairedAndForms!GetSettings, RepairedAndForms!Up, RepairedAndForms!SavedIsRead
<1>4. RepairedAndForms!EditsAreKept => Forms!EditsAreKept
  BY Zenon DEF Forms!Keys, Forms!EditsAreKept, RepairedAndForms!Keys, RepairedAndForms!EditsAreKept
<1> QED BY <1>1, <1>2, <1>3, <1>4

\* A behaviour of the part forms is one of Settings.
LEMMA FormsRuns == Spec => RepairedAndForms!SettingsSpec \/ []~(part = "forms")
<1>1. Init /\ part = "forms" => RepairedAndForms!SettingsInit
  BY FormsIsProved DEF Init
<1>2. part = "forms" /\ [Next]_allVars => [RepairedAndForms!SettingsNext]_RepairedAndForms!settingVars
  BY FormsIsProved DEF Next, allVars, settingVars, RepairedAndForms!settingVars
<1>3. [Next]_allVars => ((part = "forms")' <=> part = "forms")
  BY PartStays
<1> QED BY <1>1, <1>2, <1>3, PTL DEF Spec, RepairedAndForms!SettingsSpec

-----------------------------------------------------------------------------
(* The event feed and the transcripts.                                     *)

\* What is proved of the part feed is said of it.
LEMMA FeedIsProved ==
  /\ Feed!FeedInit => ByHandAndFeed!FeedInit
  /\ Feed!FeedNext => ByHandAndFeed!FeedNext
  /\ ByHandAndFeed!BusDeliversOnce => Feed!BusDeliversOnce
<1>1. Feed!FeedInit => ByHandAndFeed!FeedInit
  BY Zenon DEF Feed!Ids, Feed!NotAsked, Feed!Requested, Feed!Booted, Feed!FeedInit,
    ByHandAndFeed!Ids, ByHandAndFeed!NotAsked, ByHandAndFeed!Requested, ByHandAndFeed!Booted,
    ByHandAndFeed!FeedInit
<1>2. Feed!FeedNext => ByHandAndFeed!FeedNext
  BY Zenon DEF Feed!Ids, Feed!NotAsked, Feed!Requested, Feed!Booted, Feed!Change, Feed!Written,
    Feed!Heard, Feed!Bus, Feed!EmitEvent, Feed!Foreign, Feed!Forgotten, Feed!TailEventsOnce,
    Feed!Cut, Feed!RestartWeb, Feed!Disconnect, Feed!Connect, Feed!Idle, Feed!SendFetch,
    Feed!Opened, Feed!Lost, Feed!Receive, Feed!Refetch, Feed!Serve, Feed!HandleCards, Feed!FeedNext,
    ByHandAndFeed!Ids, ByHandAndFeed!NotAsked, ByHandAndFeed!Requested, ByHandAndFeed!Booted,
    ByHandAndFeed!Change, ByHandAndFeed!Written, ByHandAndFeed!Heard, ByHandAndFeed!Bus,
    ByHandAndFeed!EmitEvent, ByHandAndFeed!Foreign, ByHandAndFeed!Forgotten,
    ByHandAndFeed!TailEventsOnce, ByHandAndFeed!Cut, ByHandAndFeed!RestartWeb,
    ByHandAndFeed!Disconnect, ByHandAndFeed!Connect, ByHandAndFeed!Idle, ByHandAndFeed!SendFetch,
    ByHandAndFeed!Opened, ByHandAndFeed!Lost, ByHandAndFeed!Receive, ByHandAndFeed!Refetch,
    ByHandAndFeed!Serve, ByHandAndFeed!HandleCards, ByHandAndFeed!FeedNext, Feed!Cardinality,
    ByHandAndFeed!Cardinality
<1>3. ByHandAndFeed!BusDeliversOnce => Feed!BusDeliversOnce
  BY Zenon DEF Feed!Ids, Feed!BusDeliversOnce, ByHandAndFeed!Ids, ByHandAndFeed!BusDeliversOnce
<1> QED BY <1>1, <1>2, <1>3

\* A behaviour of the part feed is one of EventFeed.
LEMMA FeedRuns == Spec => ByHandAndFeed!FeedSpec \/ []~(part = "feed")
<1>1. Init /\ part = "feed" => ByHandAndFeed!FeedInit
  BY FeedIsProved DEF Init
<1>2. part = "feed" /\ [Next]_allVars => [ByHandAndFeed!FeedNext]_ByHandAndFeed!feedVars
  BY FeedIsProved DEF Next, allVars, feedVars, ByHandAndFeed!feedVars
<1>3. [Next]_allVars => ((part = "feed")' <=> part = "feed")
  BY PartStays
<1> QED BY <1>1, <1>2, <1>3, PTL DEF Spec, ByHandAndFeed!FeedSpec

\* What is proved of the part dropped is said of it.
LEMMA DroppedIsProved ==
  /\ Dropped!LiveInit => BoxedAndDropped!LiveInit
  /\ Dropped!LiveNext => BoxedAndDropped!LiveNext
  /\ BoxedAndDropped!PushesAreGapless => Dropped!PushesAreGapless
  /\ BoxedAndDropped!NoLineSkipped => Dropped!NoLineSkipped
<1>1. Dropped!LiveInit => BoxedAndDropped!LiveInit
  BY Zenon DEF Dropped!Files, Dropped!NoWatcher, Dropped!NoFetch, Dropped!LiveInit,
    BoxedAndDropped!Files, BoxedAndDropped!NoWatcher, BoxedAndDropped!NoFetch,
    BoxedAndDropped!LiveInit
<1>2. Dropped!LiveNext => BoxedAndDropped!LiveNext
  BY Zenon DEF Dropped!Files, Dropped!NoWatcher, Dropped!NoFetch, Dropped!Noticed, Dropped!Write,
    Dropped!StartIteration, Dropped!FinishRun, Dropped!Orphans, Dropped!StopRunWatcher,
    Dropped!SyncRunWatcher, Dropped!HearNews, Dropped!Scan, Dropped!ChunkEnd, Dropped!HasMore,
    Dropped!PumpFree, Dropped!Pump, Dropped!PumpReads, Dropped!PumpEmits, Dropped!Loads,
    Dropped!Mounted, Dropped!Pick, Dropped!Settled, Dropped!Serve, Dropped!LinesOf,
    Dropped!Response, Dropped!CatchUp, Dropped!Decision, Dropped!Receive, Dropped!Drop,
    Dropped!Reconnect, Dropped!LiveNext, BoxedAndDropped!Files, BoxedAndDropped!NoWatcher,
    BoxedAndDropped!NoFetch, BoxedAndDropped!Noticed, BoxedAndDropped!Write,
    BoxedAndDropped!StartIteration, BoxedAndDropped!FinishRun, BoxedAndDropped!Orphans,
    BoxedAndDropped!StopRunWatcher, BoxedAndDropped!SyncRunWatcher, BoxedAndDropped!HearNews,
    BoxedAndDropped!Scan, BoxedAndDropped!ChunkEnd, BoxedAndDropped!HasMore,
    BoxedAndDropped!PumpFree, BoxedAndDropped!Pump, BoxedAndDropped!PumpReads,
    BoxedAndDropped!PumpEmits, BoxedAndDropped!Loads, BoxedAndDropped!Mounted, BoxedAndDropped!Pick,
    BoxedAndDropped!Settled, BoxedAndDropped!Serve, BoxedAndDropped!LinesOf,
    BoxedAndDropped!Response, BoxedAndDropped!CatchUp, BoxedAndDropped!Decision,
    BoxedAndDropped!Receive, BoxedAndDropped!Drop, BoxedAndDropped!Reconnect,
    BoxedAndDropped!LiveNext
<1>3. BoxedAndDropped!PushesAreGapless => Dropped!PushesAreGapless
  BY Zenon DEF Dropped!PushesAreGapless, BoxedAndDropped!PushesAreGapless
<1>4. BoxedAndDropped!NoLineSkipped => Dropped!NoLineSkipped
  BY Zenon DEF Dropped!NoLineSkipped, BoxedAndDropped!NoLineSkipped
<1> QED BY <1>1, <1>2, <1>3, <1>4

\* A behaviour of the part dropped is one of LiveTranscript.
LEMMA DroppedRuns == Spec => BoxedAndDropped!LiveSpec \/ []~(part = "dropped")
<1>1. Init /\ part = "dropped" => BoxedAndDropped!LiveInit
  BY DroppedIsProved DEF Init
<1>2. part = "dropped" /\ [Next]_allVars => [BoxedAndDropped!LiveNext]_BoxedAndDropped!liveVars
  BY DroppedIsProved DEF Next, allVars, liveVars, BoxedAndDropped!liveVars
<1>3. [Next]_allVars => ((part = "dropped")' <=> part = "dropped")
  BY PartStays
<1> QED BY <1>1, <1>2, <1>3, PTL DEF Spec, BoxedAndDropped!LiveSpec

\* What is proved of the part picked is said of it.
LEMMA PickedIsProved ==
  /\ Picked!LiveInit => CallAndPicked!LiveInit
  /\ Picked!LiveNext => CallAndPicked!LiveNext
  /\ CallAndPicked!PushesAreGapless => Picked!PushesAreGapless
<1>1. Picked!LiveInit => CallAndPicked!LiveInit
  BY Zenon DEF Picked!Files, Picked!NoWatcher, Picked!NoFetch, Picked!LiveInit, CallAndPicked!Files,
    CallAndPicked!NoWatcher, CallAndPicked!NoFetch, CallAndPicked!LiveInit
<1>2. Picked!LiveNext => CallAndPicked!LiveNext
  BY Zenon DEF Picked!Files, Picked!NoWatcher, Picked!NoFetch, Picked!Noticed, Picked!Write,
    Picked!StartIteration, Picked!FinishRun, Picked!Orphans, Picked!StopRunWatcher,
    Picked!SyncRunWatcher, Picked!HearNews, Picked!Scan, Picked!ChunkEnd, Picked!HasMore,
    Picked!PumpFree, Picked!Pump, Picked!PumpReads, Picked!PumpEmits, Picked!Loads, Picked!Mounted,
    Picked!Pick, Picked!Settled, Picked!Serve, Picked!LinesOf, Picked!Response, Picked!CatchUp,
    Picked!Decision, Picked!Receive, Picked!Drop, Picked!Reconnect, Picked!LiveNext,
    CallAndPicked!Files, CallAndPicked!NoWatcher, CallAndPicked!NoFetch, CallAndPicked!Noticed,
    CallAndPicked!Write, CallAndPicked!StartIteration, CallAndPicked!FinishRun,
    CallAndPicked!Orphans, CallAndPicked!StopRunWatcher, CallAndPicked!SyncRunWatcher,
    CallAndPicked!HearNews, CallAndPicked!Scan, CallAndPicked!ChunkEnd, CallAndPicked!HasMore,
    CallAndPicked!PumpFree, CallAndPicked!Pump, CallAndPicked!PumpReads, CallAndPicked!PumpEmits,
    CallAndPicked!Loads, CallAndPicked!Mounted, CallAndPicked!Pick, CallAndPicked!Settled,
    CallAndPicked!Serve, CallAndPicked!LinesOf, CallAndPicked!Response, CallAndPicked!CatchUp,
    CallAndPicked!Decision, CallAndPicked!Receive, CallAndPicked!Drop, CallAndPicked!Reconnect,
    CallAndPicked!LiveNext
<1>3. CallAndPicked!PushesAreGapless => Picked!PushesAreGapless
  BY Zenon DEF Picked!PushesAreGapless, CallAndPicked!PushesAreGapless
<1> QED BY <1>1, <1>2, <1>3

\* A behaviour of the part picked is one of LiveTranscript.
LEMMA PickedRuns == Spec => CallAndPicked!LiveSpec \/ []~(part = "picked")
<1>1. Init /\ part = "picked" => CallAndPicked!LiveInit
  BY PickedIsProved DEF Init
<1>2. part = "picked" /\ [Next]_allVars => [CallAndPicked!LiveNext]_CallAndPicked!liveVars
  BY PickedIsProved DEF Next, allVars, liveVars, CallAndPicked!liveVars
<1>3. [Next]_allVars => ((part = "picked")' <=> part = "picked")
  BY PartStays
<1> QED BY <1>1, <1>2, <1>3, PTL DEF Spec, CallAndPicked!LiveSpec

-----------------------------------------------------------------------------
(* What the constants are.                                                 *)

\* None and Mask are no numbers, no records and no functions.
Absences ==
  /\ None \notin Int /\ Mask \notin Int /\ Mask # None
  /\ \A S, T : None \notin [secret : S, written : T] /\ None \notin [value : S, under : T]
  /\ \A S, T : None \notin [S -> T]
  /\ \A S, T, U, V : None \notin [hooks : S, config : T, refs : U, since : V]
  /\ None \notin {p1, q1, q2}

\* Every call is of a run, there are finitely many at a time, and what may
\* supervise a run is one of the three.
Supervised ==
  /\ IsFiniteSet(Jobs) /\ RunOf \in [Jobs -> Runs]
  /\ Supervisors \in [Runs -> SUBSET {"cgroup", "namespace", "none"}]

LEMMA PartsAreSound ==
  /\ LongAndBoots!Budgets /\ RepairedAndForms!Budgets /\ FaultyAndBoots!Budgets
  /\ CallAndPicked!CallLimits
  /\ BoxedAndDropped!TranscriptBounds /\ CallAndPicked!TranscriptBounds
  /\ ByHandAndFeed!FeedBounds
  /\ CritiquedAndBreaker!OneProcess /\ MeddledAndLogin!LoginSpans
  /\ CritiquedAndBreaker!RoundBounds /\ MeddledAndLogin!RoundBounds /\ ByHandAndFeed!RoundBounds
  /\ WholeAndEdited!Numbered /\ GraphAndCrowded!Numbered
<1>1. LongAndBoots!Budgets /\ RepairedAndForms!Budgets /\ FaultyAndBoots!Budgets
  BY DEF LongAndBoots!Budgets, RepairedAndForms!Budgets, FaultyAndBoots!Budgets
<1>2. CallAndPicked!CallLimits
  BY DEF CallAndPicked!CallLimits
<1>3. CritiquedAndBreaker!OneProcess /\ MeddledAndLogin!LoginSpans
  BY DEF CritiquedAndBreaker!OneProcess, MeddledAndLogin!LoginSpans, MeddledAndLogin!Brief
<1>4. CritiquedAndBreaker!RoundBounds /\ MeddledAndLogin!RoundBounds /\ ByHandAndFeed!RoundBounds
  BY DEF CritiquedAndBreaker!RoundBounds, MeddledAndLogin!RoundBounds, ByHandAndFeed!RoundBounds
<1>5. WholeAndEdited!Numbered /\ GraphAndCrowded!Numbered
  BY DEF WholeAndEdited!Numbered, GraphAndCrowded!Numbered
<1>6. BoxedAndDropped!TranscriptBounds /\ CallAndPicked!TranscriptBounds
  BY DEF BoxedAndDropped!TranscriptBounds, CallAndPicked!TranscriptBounds
<1>7. ByHandAndFeed!FeedBounds
  <2>1. IsFiniteSet({"web", "worker"})
    <3>1. IsFiniteSet({"web"}) /\ {"web", "worker"} = {"web"} \cup {"worker"}
      BY FS_Singleton, Zenon
    <3> QED BY <3>1, FS_AddElement, Zenon
  <2> QED BY Zenon, <2>1, 2 \in Nat, 1 \in Nat
          DEF ByHandAndFeed!FeedBounds, ByHandAndFeed!IsFiniteSet, IsFiniteSet
<1> QED BY <1>1, <1>2, <1>3, <1>4, <1>5, <1>6, <1>7

LEMMA SettingsAreSane ==
  ASSUME Absences PROVE LongAndBoots!SettingsSane /\ RepairedAndForms!SettingsSane
<1>1. LongAndBoots!SettingsSane
  <2>1. "web" \in {"web", "worker"} /\ 0 \in Nat /\ 4 \in Nat /\ 2 \in Nat
    OBVIOUS
  <2>2. None \notin [LongAndBoots!Keys -> LongAndBoots!Shown]
    BY DEF Absences
  <2>3. None \notin LongAndBoots!Forms
    BY <2>2 DEF LongAndBoots!Forms
  <2> HIDE DEF LongAndBoots!Forms
  <2> QED BY Zenon, <2>1, <2>3 DEF Absences, LongAndBoots!SettingsSane
<1>2. RepairedAndForms!SettingsSane
  <2>1. "web" \in {"web"} /\ 2 \in Nat /\ 1 \in Nat
    OBVIOUS
  <2>2. None \notin [RepairedAndForms!Keys -> RepairedAndForms!Shown]
    BY DEF Absences
  <2>3. None \notin RepairedAndForms!Forms
    BY <2>2 DEF RepairedAndForms!Forms
  <2> HIDE DEF RepairedAndForms!Forms
  <2> QED BY Zenon, <2>1, <2>3 DEF Absences, RepairedAndForms!SettingsSane
<1> QED BY <1>1, <1>2

LEMMA ChecksAreSound ==
  ASSUME Absences PROVE WholeAndEdited!ChecksSound /\ GraphAndCrowded!ChecksSound
<1>1. IsFiniteSet({p1} \cup {q1}) /\ IsFiniteSet({p1} \cup {q1, q2})
  <2>1. IsFiniteSet({p1}) /\ IsFiniteSet({q1}) /\ IsFiniteSet({q2})
    BY FS_Singleton
  <2>2. {q1, q2} = {q1} \cup {q2}
    OBVIOUS
  <2> QED BY Zenon, <2>1, <2>2, FS_Union
<1>2. WholeAndEdited!ChecksSound
  <2>1. None \notin Nat
    BY DEF Absences
  <2>2. None \notin WholeAndEdited!RefMaps /\ None \notin WholeAndEdited!Baselines
    BY Zenon DEF Absences, WholeAndEdited!RefMaps, WholeAndEdited!Baselines
  <2>3. WholeAndEdited!CardRuns = {p1} \cup {q1}
    BY DEF WholeAndEdited!CardRuns
  <2>4. None \notin WholeAndEdited!CardRuns /\ IsFiniteSet(WholeAndEdited!CardRuns)
    BY <1>1, <2>3 DEF Absences
  <2> QED BY Zenon, <2>1, <2>2, <2>4 DEF WholeAndEdited!ChecksSound, WholeAndEdited!IsFiniteSet, IsFiniteSet
<1>3. GraphAndCrowded!ChecksSound
  <2>1. None \notin Nat
    BY DEF Absences
  <2>2. None \notin GraphAndCrowded!RefMaps /\ None \notin GraphAndCrowded!Baselines
    BY Zenon DEF Absences, GraphAndCrowded!RefMaps, GraphAndCrowded!Baselines
  <2>3. GraphAndCrowded!CardRuns = {p1} \cup {q1, q2}
    BY DEF GraphAndCrowded!CardRuns
  <2>4. None \notin GraphAndCrowded!CardRuns /\ IsFiniteSet(GraphAndCrowded!CardRuns)
    BY <1>1, <2>3 DEF Absences
  <2> QED BY Zenon, <2>1, <2>2, <2>4 DEF GraphAndCrowded!ChecksSound, GraphAndCrowded!IsFiniteSet, IsFiniteSet
<1> QED BY <1>2, <1>3

-----------------------------------------------------------------------------
(* The theorems.                                                           *)

\* runLoop: in each part a run ticks no more tasks than it has had iterations and
\* hands over no open task and no merge, a run that gets nowhere stops, and one
\* repair and two sync or gate rounds are handed back at most.
THEOREM LoopsSound == Spec => []LoopsAreSound
<1>1. LongAndBoots!LoopSpec => [](/\ LongAndBoots!OneTickPerIteration
                                  /\ LongAndBoots!EvaluatedIsWhole
                                  /\ LongAndBoots!UnproductiveRunsStop)
  BY PartsAreSound, LongAndBoots!TicksAreWorkedFor, LongAndBoots!HandedOverWhole,
     LongAndBoots!IdlersAreStopped, PTL
<1>2. RepairedAndForms!LoopSpec => [](/\ RepairedAndForms!OneTickPerIteration
                                      /\ RepairedAndForms!EvaluatedIsWhole
                                      /\ RepairedAndForms!RepairsAreBounded)
  BY PartsAreSound, RepairedAndForms!TicksAreWorkedFor, RepairedAndForms!HandedOverWhole,
     RepairedAndForms!RepairsAreFew, PTL
<1>3. FaultyAndBoots!LoopSpec => [](/\ FaultyAndBoots!OneTickPerIteration
                                    /\ FaultyAndBoots!EvaluatedIsWhole)
  BY PartsAreSound, FaultyAndBoots!TicksAreWorkedFor, FaultyAndBoots!HandedOverWhole, PTL
<1> DEFINE L == /\ LongAndBoots!OneTickPerIteration /\ LongAndBoots!EvaluatedIsWhole
                /\ LongAndBoots!UnproductiveRunsStop
           R == /\ RepairedAndForms!OneTickPerIteration /\ RepairedAndForms!EvaluatedIsWhole
                /\ RepairedAndForms!RepairsAreBounded
           F == FaultyAndBoots!OneTickPerIteration /\ FaultyAndBoots!EvaluatedIsWhole
<1>4. /\ L \/ ~(part = "long")
      /\ R \/ ~(part = "repaired")
      /\ F \/ ~(part = "faulty")
      => LoopsAreSound
  BY LongIsProved, RepairedIsProved, FaultyIsProved DEF LoopsAreSound
<1>5. Spec => [](L \/ ~(part = "long"))
  BY <1>1, LongRuns, PTL
<1>6. Spec => [](R \/ ~(part = "repaired"))
  BY <1>2, RepairedRuns, PTL
<1>7. Spec => [](F \/ ~(part = "faulty"))
  BY <1>3, FaultyRuns, PTL
<1> HIDE DEF L, R, F
<1> QED BY <1>4, <1>5, <1>6, <1>7, PTL

\* runAgentCall, serializeSandboxWrap, guardedTools, recordFailure: in each part a
\* call has failed exactly if something has made it fail and no silence outlasts its
\* limit; a command's TMPDIR is that of its run and a trusted tool runs alone; and
\* one process's breaker opens on what its calls have met.
THEOREM CallsSound == ASSUME Supervised PROVE Spec => []CallsAreSound
<1> DEFINE C == CallAndPicked!VerdictIsTheCalls /\ CallAndPicked!SilenceIsBounded
           X == BoxedAndDropped!TmpdirIsTheRuns /\ BoxedAndDropped!FileToolsRunAlone
           B == CritiquedAndBreaker!OpensOnEvidence
<1>1. CallAndPicked!CallSpec => []C
  BY PartsAreSound, CallAndPicked!VerdictsAreTheCalls, CallAndPicked!SilenceEnds, PTL
<1>2. BoxedAndDropped!SandboxSpec => []X
  <2>1. BoxedAndDropped!BoxBounds
    BY Zenon DEF Supervised, BoxedAndDropped!BoxBounds, BoxedAndDropped!IsFiniteSet, IsFiniteSet
  <2> QED BY <2>1, BoxedAndDropped!TmpdirIsBorrowed, BoxedAndDropped!FileToolsAreAlone, PTL
<1>3. CritiquedAndBreaker!BreakerSpec => []B
  BY PartsAreSound, CritiquedAndBreaker!BreakerHasEvidence, PTL
<1>4. /\ C \/ ~(part = "call")
      /\ X \/ ~(part = "boxed")
      /\ B \/ ~(part = "breaker")
      => CallsAreSound
  BY CallIsProved, BoxedIsProved, BreakerIsProved DEF CallsAreSound
<1>5. Spec => [](C \/ ~(part = "call"))
  BY <1>1, CallRuns, PTL
<1>6. Spec => [](X \/ ~(part = "boxed"))
  BY <1>2, BoxedRuns, PTL
<1>7. Spec => [](B \/ ~(part = "breaker"))
  BY <1>3, BreakerRuns, PTL
<1> HIDE DEF C, X, B
<1> QED BY <1>4, <1>5, <1>6, <1>7, PTL

\* tailEventsOnce, startTranscriptPush, transcriptPushDecision: in each part a process
\* hears each event since it booted once, what a watcher pushes has no gap, and the
\* page of a transcript whose stream drops skips no line of what it shows.
THEOREM NothingSkipped == Spec => []NothingIsSkipped
<1> DEFINE F == ByHandAndFeed!BusDeliversOnce
           D == BoxedAndDropped!PushesAreGapless /\ BoxedAndDropped!NoLineSkipped
           P == CallAndPicked!PushesAreGapless
<1>1. ByHandAndFeed!FeedSpec => []F
  BY PartsAreSound, ByHandAndFeed!EventsAreHeardOnce
<1>2. BoxedAndDropped!LiveSpec => []D
  BY PartsAreSound, BoxedAndDropped!PushesHaveNoGaps, BoxedAndDropped!NoLineIsSkipped, PTL
<1>3. CallAndPicked!LiveSpec => []P
  BY PartsAreSound, CallAndPicked!PushesHaveNoGaps
<1>4. /\ F \/ ~(part = "feed")
      /\ D \/ ~(part = "dropped")
      /\ P \/ ~(part = "picked")
      => NothingIsSkipped
  BY FeedIsProved, DroppedIsProved, PickedIsProved DEF NothingIsSkipped
<1>5. Spec => [](F \/ ~(part = "feed"))
  BY <1>1, FeedRuns, PTL
<1>6. Spec => [](D \/ ~(part = "dropped"))
  BY <1>2, DroppedRuns, PTL
<1>7. Spec => [](P \/ ~(part = "picked"))
  BY <1>3, PickedRuns, PTL
<1> HIDE DEF F, D, P
<1> QED BY <1>4, <1>5, <1>6, <1>7, PTL

\* A step that changes anything in a part has changed the part's own variables.
LEMMA StepsAreOwn ==
  ASSUME [Next]_allVars
  PROVE  /\ part = "login" /\ UNCHANGED loginVars => UNCHANGED allVars
         /\ part \in {"critiqued", "meddled", "by_hand"} /\ UNCHANGED roundVars => UNCHANGED allVars
         /\ part \in {"edited", "crowded"} /\ UNCHANGED checkVars => UNCHANGED allVars
BY DEF Next, allVars

\* answerProviderLogin: an answer resolves the question that its tab was showing.
THEOREM AnswersReach == Spec => AnswersReachTheirQuestion
<1> DEFINE A == part = "login" => Login!AnswersItsQuestion
<1>1. MeddledAndLogin!LoginSpec => [][MeddledAndLogin!AnswersItsQuestion]_MeddledAndLogin!loginVars
  BY PartsAreSound, MeddledAndLogin!AnswersAreForTheirQuestion
<1>2. /\ [Next]_allVars
      /\ [MeddledAndLogin!AnswersItsQuestion]_MeddledAndLogin!loginVars
      => [A]_allVars
  BY LoginIsProved, StepsAreOwn DEF loginVars, MeddledAndLogin!loginVars
<1>3. [Next]_allVars /\ ~(part = "login") => [A]_allVars
  OBVIOUS
<1> HIDE DEF A
<1>4. Spec => [][A]_allVars
  BY <1>1, <1>2, <1>3, LoginRuns, PTL DEF Spec
<1> QED BY <1>4 DEF A, AnswersReachTheirQuestion

\* completeEpicIfFinished, heldByEpicOrder: where no scoping turn writes plans, Done
\* is the epic whose pieces are all finished, and under `graph` a piece that runs
\* has nothing left to wait for.
THEOREM EpicsWhole == Spec => []EpicsAreWhole
<1>1. WholeAndEdited!EpicsSpec => []WholeAndEdited!EpicDoneIsWhole
  <2>1. WholeAndEdited!Nothing \notin {"parallel", "ordered", "graph"}
    BY DEF WholeAndEdited!Nothing
  <2> QED BY <2>1, PartsAreSound, WholeAndEdited!DoneIsWhole
<1>2. GraphAndCrowded!EpicsSpec => []GraphAndCrowded!DependenciesFirst
  BY PartsAreSound, GraphAndCrowded!GraphIsFollowed
<1>3. /\ WholeAndEdited!EpicDoneIsWhole \/ ~(part = "whole")
      /\ GraphAndCrowded!DependenciesFirst \/ ~(part = "graph")
      => EpicsAreWhole
  BY WholeIsProved, GraphIsProved DEF EpicsAreWhole
<1> QED BY <1>1, <1>2, <1>3, WholeRuns, GraphRuns, PTL

\* ensureAuthSecret, getSettings, useSettingsData: processes that boot at a time share
\* one secret, every process reads what was last saved, and what is typed while a
\* save is under way is kept.
THEOREM SettingsKept == ASSUME Absences PROVE Spec => []SettingsAreKept
<1>1. LongAndBoots!SettingsSpec => []LongAndBoots!OneSecret
  BY SettingsAreSane, LongAndBoots!SecretIsShared
<1>2. RepairedAndForms!SettingsSpec => [](RepairedAndForms!SavedIsRead /\ RepairedAndForms!EditsAreKept)
  BY SettingsAreSane, RepairedAndForms!SavedIsWhatIsRead, RepairedAndForms!EditsStay, PTL
<1>3. /\ LongAndBoots!OneSecret \/ ~(part = "boots")
      /\ (RepairedAndForms!SavedIsRead /\ RepairedAndForms!EditsAreKept) \/ ~(part = "forms")
      => SettingsAreKept
  BY BootsIsProved, FormsIsProved DEF SettingsAreKept
<1> QED BY <1>1, <1>2, <1>3, BootsRuns, FormsRuns, PTL

\* inspectRepoIntegrity, compareRefs: in both parts an alarm has a cause outside
\* Radulf or a delivery's that was not written down, and what is merged has hooks
\* and config that its run has started with or that the operator has agreed to.
THEOREM ChecksExact == ASSUME Absences PROVE Spec => ChecksAreExact
<1> DEFINE A == /\ part = "edited" => Edited!ExplainedAlarm /\ Edited!Vetted
                /\ part = "crowded" => Crowded!ExplainedAlarm /\ Crowded!Vetted
<1>1. WholeAndEdited!IntegritySpec =>
        [][WholeAndEdited!ExplainedAlarm /\ WholeAndEdited!Vetted]_WholeAndEdited!integrityVars
  BY ChecksAreSound, WholeAndEdited!AlarmsExplained, WholeAndEdited!MergesVetted, PTL
<1>2. GraphAndCrowded!IntegritySpec =>
        [][GraphAndCrowded!ExplainedAlarm /\ GraphAndCrowded!Vetted]_GraphAndCrowded!integrityVars
  BY ChecksAreSound, GraphAndCrowded!AlarmsExplained, GraphAndCrowded!MergesVetted, PTL
<1>3. /\ [Next]_allVars
      /\ \/ [WholeAndEdited!ExplainedAlarm /\ WholeAndEdited!Vetted]_WholeAndEdited!integrityVars
         \/ ~(part = "edited")
      /\ \/ [GraphAndCrowded!ExplainedAlarm /\ GraphAndCrowded!Vetted]_GraphAndCrowded!integrityVars
         \/ ~(part = "crowded")
      => [A]_allVars
  BY EditedIsProved, CrowdedIsProved, StepsAreOwn
     DEF checkVars, WholeAndEdited!integrityVars, GraphAndCrowded!integrityVars
<1> HIDE DEF A
<1>4. Spec => [][A]_allVars
  BY <1>1, <1>2, <1>3, EditedRuns, CrowdedRuns, PTL DEF Spec
<1> QED BY <1>4 DEF A, ChecksAreExact

\* decideCritique, decideEvaluation, loadFeedback: in each part what the critic and
\* the evaluator are shown is of their round, their verdict is the one that they have
\* written, a version of the plan answers the newest feedback on the last, and with
\* one verb what sends a card back does so a bounded number of times.
THEOREM RoundsSound == Spec => RoundsAreSound
<1> DEFINE C == /\ CritiquedAndBreaker!EvidenceIsOfThisCycle /\ CritiquedAndBreaker!FeedbackIsAnswered
                /\ CritiquedAndBreaker!RevisionsAreBounded
           M == MeddledAndLogin!EvidenceIsOfThisCycle /\ MeddledAndLogin!FeedbackIsAnswered
           H == ByHandAndFeed!EvidenceIsOfThisCycle /\ ByHandAndFeed!FeedbackIsAnswered
           S == /\ part = "critiqued" => /\ Critiqued!EvidenceIsOfThisCycle
                                         /\ Critiqued!FeedbackIsAnswered
                                         /\ Critiqued!RevisionsAreBounded
                /\ part = "meddled" => Meddled!EvidenceIsOfThisCycle /\ Meddled!FeedbackIsAnswered
                /\ part = "by_hand" => ByHand!EvidenceIsOfThisCycle /\ ByHand!FeedbackIsAnswered
           A == /\ part = "critiqued" => Critiqued!OwnVerdict
                /\ part = "meddled" => Meddled!OwnVerdict
                /\ part = "by_hand" => ByHand!OwnVerdict
<1>1. CritiquedAndBreaker!RoundSpec =>
        []C /\ [][CritiquedAndBreaker!OwnVerdict]_CritiquedAndBreaker!roundVars
  BY PartsAreSound, CritiquedAndBreaker!EvidenceIsFresh, CritiquedAndBreaker!FeedbackAnswered,
     CritiquedAndBreaker!RevisionsBounded, CritiquedAndBreaker!VerdictsAreOwn, PTL
<1>2. MeddledAndLogin!RoundSpec => []M /\ [][MeddledAndLogin!OwnVerdict]_MeddledAndLogin!roundVars
  BY PartsAreSound, MeddledAndLogin!EvidenceIsFresh, MeddledAndLogin!FeedbackAnswered,
     MeddledAndLogin!VerdictsAreOwn, PTL
<1>3. ByHandAndFeed!RoundSpec => []H /\ [][ByHandAndFeed!OwnVerdict]_ByHandAndFeed!roundVars
  BY PartsAreSound, ByHandAndFeed!EvidenceIsFresh, ByHandAndFeed!FeedbackAnswered,
     ByHandAndFeed!VerdictsAreOwn, PTL
<1>4. /\ C \/ ~(part = "critiqued")
      /\ M \/ ~(part = "meddled")
      /\ H \/ ~(part = "by_hand")
      => S
  BY CritiquedIsProved, MeddledIsProved, ByHandIsProved
<1>5. /\ [Next]_allVars
      /\ [CritiquedAndBreaker!OwnVerdict]_CritiquedAndBreaker!roundVars \/ ~(part = "critiqued")
      /\ [MeddledAndLogin!OwnVerdict]_MeddledAndLogin!roundVars \/ ~(part = "meddled")
      /\ [ByHandAndFeed!OwnVerdict]_ByHandAndFeed!roundVars \/ ~(part = "by_hand")
      => [A]_allVars
  BY CritiquedIsProved, MeddledIsProved, ByHandIsProved, StepsAreOwn
     DEF roundVars, CritiquedAndBreaker!roundVars, MeddledAndLogin!roundVars,
         ByHandAndFeed!roundVars
<1> HIDE DEF C, M, H, S, A
<1>6. Spec => []S /\ [][A]_allVars
  BY <1>1, <1>2, <1>3, <1>4, <1>5, CritiquedRuns, MeddledRuns, ByHandRuns, PTL DEF Spec
<1> QED BY <1>6 DEF S, A, RoundsAreSound
=============================================================================
