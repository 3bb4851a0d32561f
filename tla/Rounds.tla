------------------------------ MODULE Rounds ------------------------------
(***************************************************************************)
(* The rounds of one card: plan, pre-check, critic, loop and evaluator,    *)
(* what each sends back and who answers it (planningService.ts,            *)
(* planCriticService.ts, evaluationService.ts, previousAttempt.ts,         *)
(* shared/failedStep.ts and the entry points of orchestrator.ts).          *)
(*                                                                         *)
(* One process; a stage is over before the next one of the card starts     *)
(* (overlapping continuations are Pipeline's).  A file of the worktree is  *)
(* what it says and the run that wrote it; a run is its number.            *)
(***************************************************************************)
EXTENDS Integers, Sequences, FiniteSetsExt

CONSTANTS CriticOn, ReviewPlan,   \* of the card
          RoundVerbs, MaxVerbs,   \* what operators do, how often; "crash" is one
          MaxRuns

VARIABLES status,   \* of the card
          plans,    \* Seq of the run whose feedback a version answers, 0 for none
          runs,     \* Seq of run rows
          files,    \* draft, critique, evaluation; the loops that the code, the notes
            \* and the gate's result are of; the checklist's end and DONE
          stage,    \* the continuation that is under way
          verbs     \* used

roundVars == <<status, plans, runs, files, stage, verbs>>

InStage == {"planning", "looping", "evaluating"}
StatusOf == [plan |-> "planning", critique |-> "planning", loop |-> "looping",
             evaluate |-> "evaluating"]
NoFile == [by |-> 0, says |-> "nothing"]
NoStage == [kind |-> "none", pc |-> "off", run |-> 0, aborted |-> FALSE, revise |-> FALSE,
            answers |-> 0, drafts |-> 0, gate |-> 0, notes |-> 0]
Begin(kind) == [NoStage EXCEPT !.kind = kind, !.pc = "prep"]

RoundTypeOK ==
  /\ status \in {"backlog", "todo", "planning", "plan_review", "ready", "looping",
                 "evaluating", "review", "needs_attention", "done"}
  /\ plans \in Seq(0..MaxRuns)
  /\ runs \in Seq([kind : {"plan", "critique", "loop", "evaluate"}, plan : 0..MaxRuns,
                   status : {"running", "completed", "failed", "interrupted", "cancelled"},
                   exit : {"none", "ok", "approve", "limit", "revise", "precheck",
                           "questions", "blocked", "exhausted", "failed"},
                   rejected : BOOLEAN])
  /\ Len(runs) <= MaxRuns
  /\ LET File(says) == [by : 0..MaxRuns, says : {"nothing"} \cup says] IN
     files \in [draft : File({"plan", "questions"}), critique : File({"approve", "revise"}),
                evaluation : File({"approve", "revise"}), code : 0..MaxRuns,
                notes : 0..MaxRuns, gate : 0..MaxRuns, ticked : BOOLEAN, done : BOOLEAN]
  /\ stage \in [kind : {"none", "plan", "critique", "loop", "evaluate"},
                pc : {"off", "prep", "gate", "agent", "after", "commit"},
                run : 0..MaxRuns, aborted : BOOLEAN, revise : BOOLEAN,
                answers : 0..MaxRuns, drafts : 0..MaxRuns, gate : 0..MaxRuns,
                notes : 0..MaxRuns]
  /\ verbs \in 0..MaxVerbs

RoundInit ==
  /\ status = "todo" /\ plans = <<>> /\ runs = <<>> /\ stage = NoStage /\ verbs = 0
  /\ files = [draft |-> NoFile, critique |-> NoFile, evaluation |-> NoFile,
              code |-> 0, notes |-> 0, gate |-> 0, ticked |-> FALSE, done |-> FALSE]

-----------------------------------------------------------------------------
(* What the rows say.                                                      *)

Newest(S) == IF S = {} THEN 0 ELSE Max(S)
OfKind(kind) == {i \in DOMAIN runs : runs[i].kind = kind}
\* The latest loop run.
Cycle == Newest(OfKind("loop"))

Asking == {"revise", "precheck", "blocked", "exhausted"}
Asked(p) == {i \in DOMAIN runs :
               runs[i].plan = p /\ (runs[i].exit \in Asking \/ runs[i].rejected)}

\* pendingReplanFeedback: the newest feedback on the latest version.
Pending == IF plans = <<>> THEN 0 ELSE Newest(Asked(Len(plans)))

\* previousFailedAttempt: the run before, when it was of this kind and failed.
FailedBefore(kind) ==
  LET last == Len(runs) IN
  IF last > 0 /\ runs[last].kind = kind /\ runs[last].status \in {"failed", "interrupted"}
  THEN last ELSE 0

\* consecutivePlanRevisions: how often the plan came back since the last loop.
SentBack(kind, exit) ==
  Cardinality({i \in OfKind(kind) : i > Cycle /\ runs[i].exit = exit})
Critics == SentBack("critique", "revise")
Prechecks == SentBack("plan", "precheck")

\* Mutant of PriorRevisions: since the last loop only.
PriorRevisionsOfCycle ==
  Cardinality({i \in OfKind("evaluate") : i > Cycle /\ runs[i].exit = "revise"})

PriorRevisions == Cardinality({i \in OfKind("evaluate") : runs[i].exit = "revise"})

-----------------------------------------------------------------------------
(* What the stages write.                                                  *)

Row(kind, rowStatus) ==
  [kind |-> kind, plan |-> IF kind = "plan" THEN 0 ELSE Len(plans), status |-> rowStatus,
   exit |-> "none", rejected |-> FALSE]
Move(from, to) == status' = IF status = from THEN to ELSE status
\* finishRun: the first ending counts.
Finish(i, to, exit) ==
  runs' = IF runs[i].status = "running"
          THEN [runs EXCEPT ![i] = [@ EXCEPT !.status = to, !.exit = exit]] ELSE runs

\* startCard: re-plan what has feedback or no plan, else queue for the loop.
Start ==
  IF plans # <<>> /\ Pending = 0
  THEN status' = "ready" /\ UNCHANGED stage
  ELSE status' = "planning" /\ stage' = Begin("plan")

\* The pump starts a card of Todo.
PumpTodo ==
  /\ status = "todo" /\ stage = NoStage
  /\ Start
  /\ UNCHANGED <<plans, runs, files, verbs>>

ClaimLoop ==
  /\ status = "ready" /\ stage = NoStage /\ Len(runs) < MaxRuns
  /\ status' = "looping"
  /\ runs' = Append(runs, Row("loop", "running"))
  /\ stage' = [Begin("loop") EXCEPT !.run = Len(runs')]
  /\ UNCHANGED <<plans, files, verbs>>

\* The row of a stage whose card has left meanwhile is a cancelled one.
OpenRow(kind, next) ==
  /\ Len(runs) < MaxRuns
  /\ IF status = StatusOf[kind]
     THEN /\ runs' = Append(runs, Row(kind, "running"))
          /\ stage' = [next EXCEPT !.run = Len(runs')]
     ELSE runs' = Append(runs, Row(kind, "cancelled")) /\ stage' = NoStage

ClearPlannerArtifacts == [files EXCEPT !.draft = NoFile]

PreparePlanner ==
  /\ stage.kind = "plan" /\ stage.pc = "prep"
  /\ files' = ClearPlannerArtifacts
  /\ OpenRow("plan", [stage EXCEPT !.pc = "agent", !.answers = Pending,
                      !.drafts = IF FailedBefore("plan") # 0 THEN files.draft.by ELSE 0])
  /\ UNCHANGED <<status, plans, verbs>>

PrepareCritic ==
  /\ stage.kind = "critique" /\ stage.pc = "prep"
  /\ files' = [files EXCEPT !.critique = NoFile]
  /\ OpenRow("critique", [stage EXCEPT !.pc = "agent"])
  /\ UNCHANGED <<status, plans, verbs>>

PrepareEvaluator ==
  /\ stage.kind = "evaluate" /\ stage.pc = "prep"
  /\ files' = [files EXCEPT !.evaluation = NoFile,
                            !.notes = IF FailedBefore("evaluate") # 0 THEN @ ELSE 0]
  /\ OpenRow("evaluate", [stage EXCEPT !.pc = "gate",
                          !.notes = IF FailedBefore("evaluate") # 0 THEN files.notes ELSE 0])
  /\ UNCHANGED <<status, plans, verbs>>

\* Mutant of ClearForLoop: the result of the last gate stays.
ClearKeepingGate ==
  [files EXCEPT !.evaluation = NoFile, !.done = FALSE, !.code = stage.run]

ClearForLoop ==
  [files EXCEPT !.evaluation = NoFile, !.gate = 0, !.done = FALSE, !.code = stage.run]

PrepareLoop ==
  /\ stage.kind = "loop" /\ stage.pc = "prep"
  /\ files' = ClearForLoop
  /\ stage' = [stage EXCEPT !.pc = "agent"]
  /\ UNCHANGED <<status, plans, runs, verbs>>

\* Preparation throws: there is no row yet, except that of a loop.
PreparationThrows ==
  /\ stage.pc = "prep"
  /\ Move(StatusOf[stage.kind], "needs_attention")
  /\ IF stage.kind = "loop" THEN Finish(stage.run, "failed", "failed") ELSE UNCHANGED runs
  /\ stage' = NoStage
  /\ UNCHANGED <<plans, files, verbs>>

\* The evaluator runs the gate only when the loop has left no result.
RunGate ==
  /\ stage.pc = "gate" /\ ~stage.aborted
  /\ LET gate == IF files.gate = 0 THEN files.code ELSE files.gate IN
     /\ files' = [files EXCEPT !.gate = gate]
     /\ stage' = [stage EXCEPT !.pc = "agent", !.gate = gate]
  /\ UNCHANGED <<status, plans, runs, verbs>>

-----------------------------------------------------------------------------
(* The agents.  What one has written stays, however its session ends.      *)

AgentWrites ==
  /\ stage.pc = "agent"
  /\ \/ /\ stage.kind = "plan" /\ files.draft.by # stage.run
        /\ \E says \in {"plan", "questions"} :
             files' = [files EXCEPT !.draft = [by |-> stage.run, says |-> says]]
     \/ /\ stage.kind = "critique" /\ files.critique.by # stage.run
        /\ \E says \in {"approve", "revise"} :
             files' = [files EXCEPT !.critique = [by |-> stage.run, says |-> says]]
     \/ /\ stage.kind = "evaluate" /\ files.evaluation.by # stage.run
        /\ \E says \in {"approve", "revise"} :
             files' = [files EXCEPT !.evaluation = [by |-> stage.run, says |-> says],
                                    !.notes = files.code]
     \/ /\ stage.kind = "evaluate" /\ files.notes # files.code
        /\ files' = [files EXCEPT !.notes = files.code]
  /\ UNCHANGED <<status, plans, runs, stage, verbs>>

\* The session ends well, or a watchdog ends it after its artifact was whole.
AgentEnds ==
  /\ stage.pc = "agent" /\ stage.kind # "loop" /\ ~stage.aborted
  /\ stage' = [stage EXCEPT !.pc = "after"]
  /\ UNCHANGED <<status, plans, runs, files, verbs>>

\* It fails, or its result is refused: off its branch, commits, other files.
Fail ==
  /\ stage.pc \in {"gate", "agent", "after"} /\ stage.kind # "loop" /\ ~stage.aborted
  /\ Finish(stage.run, "failed", "failed")
  /\ Move(StatusOf[stage.kind], "needs_attention")
  /\ stage' = NoStage
  /\ UNCHANGED <<plans, files, verbs>>

\* A cancelled stage notices.
Drop ==
  /\ stage.aborted /\ stage.pc # "prep"
  /\ ~(stage.kind = "critique" /\ stage.pc = "after")
  /\ stage' = NoStage
  /\ UNCHANGED <<status, plans, runs, files, verbs>>

-----------------------------------------------------------------------------
(* The planner's and the critic's decisions.                               *)

Destination == IF ReviewPlan THEN "plan_review" ELSE "ready"

AskQuestions ==
  /\ stage.kind = "plan" /\ stage.pc = "after" /\ ~stage.aborted
  /\ files.draft.says = "questions"
  /\ Finish(stage.run, "completed", "questions")
  /\ Move("planning", "needs_attention")
  /\ stage' = NoStage
  /\ UNCHANGED <<plans, files, verbs>>

\* One pre-check revision per cycle, within the cap shared with the critic.
MayRevise == Prechecks = 0 /\ Critics + Prechecks < 2

\* The pre-check is over; the row of the plan is written, and committed next.
WritePlan ==
  /\ stage.kind = "plan" /\ stage.pc = "after" /\ ~stage.aborted
  /\ files.draft.says = "plan"
  /\ plans' = Append(plans, stage.answers)
  /\ runs' = [runs EXCEPT ![stage.run].plan = Len(plans')]
  /\ \E alreadyPassing \in BOOLEAN :
       stage' = [stage EXCEPT !.pc = "commit", !.revise = alreadyPassing /\ MayRevise]
  /\ files' = [files EXCEPT !.draft = NoFile, !.ticked = FALSE]
  /\ UNCHANGED <<status, verbs>>

RoutePlan ==
  /\ stage.pc = "commit" /\ ~stage.aborted
  /\ IF stage.revise
     THEN /\ Finish(stage.run, "completed", "precheck")
          /\ stage' = Begin("plan") /\ UNCHANGED status
     ELSE /\ Finish(stage.run, "completed", "ok")
          /\ IF CriticOn THEN stage' = Begin("critique") /\ UNCHANGED status
             ELSE stage' = NoStage /\ Move("planning", Destination)
  /\ UNCHANGED <<plans, files, verbs>>

\* The critic looks at no signal after its session: a revise verdict of a
\* cancelled run still starts a planner, which finds its card gone.
DecideCritique ==
  /\ stage.kind = "critique" /\ stage.pc = "after" /\ files.critique.says # "nothing"
  /\ files' = [files EXCEPT !.critique = NoFile]
  /\ IF files.critique.says = "approve"
     THEN /\ Finish(stage.run, "completed", "approve")
          /\ Move("planning", Destination) /\ stage' = NoStage
     ELSE IF Critics + Prechecks >= 2
     THEN /\ Finish(stage.run, "completed", "limit")
          /\ Move("planning", "plan_review") /\ stage' = NoStage
     ELSE /\ Finish(stage.run, "completed", "revise")
          /\ stage' = Begin("plan") /\ UNCHANGED status
  /\ UNCHANGED <<plans, verbs>>

NoVerdictOfTheCancelled ==
  /\ stage.kind = "critique" /\ stage.pc = "after" /\ stage.aborted
  /\ files.critique.says = "nothing"
  /\ stage' = NoStage
  /\ UNCHANGED <<status, plans, runs, files, verbs>>

-----------------------------------------------------------------------------
(* The loop's endings and the evaluator's decision.                        *)

\* LoopRun has the inside.  Every task is ticked and DONE is there: it is handed
\* to the evaluator with the result of the gate, or the run fails after that.
LoopDone ==
  /\ stage.kind = "loop" /\ stage.pc = "agent" /\ ~stage.aborted /\ ~files.ticked
  /\ \/ /\ Finish(stage.run, "completed", "ok")
        /\ files' = [files EXCEPT !.gate = stage.run, !.ticked = TRUE, !.done = TRUE]
        /\ Move("looping", "evaluating") /\ stage' = Begin("evaluate")
     \/ /\ Finish(stage.run, "failed", "failed")
        /\ \E gate \in {files.gate, stage.run} :
             files' = [files EXCEPT !.gate = gate, !.ticked = TRUE, !.done = TRUE]
        /\ Move("looping", "needs_attention") /\ stage' = NoStage
  /\ UNCHANGED <<plans, verbs>>

\* Or there is no DONE: a blocker, a failure, or nothing left to hand out.
LoopFails ==
  /\ stage.kind = "loop" /\ stage.pc = "agent" /\ ~stage.aborted
  /\ \E exit \in IF files.ticked THEN {"exhausted", "failed"}
                 ELSE {"blocked", "exhausted", "failed"} :
       /\ Finish(stage.run, "failed", exit)
       /\ files' = [files EXCEPT !.ticked = @ \/ exit = "exhausted"]
  /\ Move("looping", "needs_attention") /\ stage' = NoStage
  /\ UNCHANGED <<plans, verbs>>

DecideEvaluation ==
  /\ stage.kind = "evaluate" /\ stage.pc = "after" /\ ~stage.aborted
  /\ files.evaluation.says # "nothing"
  /\ IF files.evaluation.says = "revise" /\ PriorRevisions < 2
     THEN /\ Finish(stage.run, "completed", "revise")
          /\ Move("evaluating", "planning") /\ stage' = Begin("plan")
     ELSE /\ Finish(stage.run, "completed",
                    IF files.evaluation.says = "approve" THEN "approve" ELSE "limit")
          /\ Move("evaluating", "review") /\ stage' = NoStage
  /\ UNCHANGED <<plans, files, verbs>>

-----------------------------------------------------------------------------
(* Operators, and the loss of the worker.                                  *)

May(verb) == verb \in RoundVerbs /\ verbs < MaxVerbs /\ verbs' = verbs + 1

Queue ==
  /\ May("queue") /\ status = "backlog" /\ status' = "todo"
  /\ UNCHANGED <<plans, runs, files, stage>>
Restart ==
  /\ May("restart") /\ status = "needs_attention" /\ stage = NoStage
  /\ Start
  /\ UNCHANGED <<plans, runs, files>>
ApprovePlan ==
  /\ May("approve_plan") /\ status = "plan_review" /\ status' = "ready"
  /\ UNCHANGED <<plans, runs, files, stage>>

\* The run row of the stage is cancelled and its signal aborted.
Cancel ==
  /\ May("cancel") /\ status \notin {"backlog", "done"} /\ status' = "backlog"
  /\ IF stage.run # 0
     THEN Finish(stage.run, "cancelled", "none") /\ stage' = [stage EXCEPT !.aborted = TRUE]
     ELSE UNCHANGED <<runs, stage>>
  /\ UNCHANGED <<plans, files>>

\* reject: the card waits in Todo as a manual start.
Reject ==
  /\ May("reject") /\ status = "review" /\ status' = "todo"
  /\ runs' = [runs EXCEPT ![Cycle].rejected = TRUE]
  /\ UNCHANGED <<plans, files, stage>>

\* The delivery itself is Delivery's.
Approve ==
  /\ May("approve") /\ status = "review" /\ status' = "done"
  /\ UNCHANGED <<plans, runs, files, stage>>
RetryMerge ==
  /\ May("retry_merge") /\ status = "needs_attention"
  /\ Cycle # 0 /\ (Cycle # 0 => runs[Cycle].status = "completed")
  /\ LET last == Newest(OfKind("evaluate")) IN
     last # 0 => runs[last].exit \in {"approve", "limit"}
  /\ status' = "done"
  /\ UNCHANGED <<plans, runs, files, stage>>

\* retryFailedStep: the step that failed last, in place.
RetryStep ==
  LET last == Len(runs)
      step == IF last = 0 THEN "none" ELSE runs[last].kind IN
  /\ May("retry") /\ status = "needs_attention" /\ stage = NoStage
  /\ step # "none" /\ FailedBefore(step) # 0
  /\ last > 0 => runs[last].exit \notin {"blocked", "exhausted"}
  /\ IF step = "loop" /\ ~(files.ticked /\ files.done)
     THEN status' = "ready" /\ UNCHANGED stage
     ELSE LET again == IF step = "loop" THEN "evaluate" ELSE step IN
          status' = StatusOf[again] /\ stage' = Begin(again)
  /\ UNCHANGED <<plans, runs, files>>

\* The worker is lost, in a loop maybe after its last tick, and what it ran is
\* reaped: a loop with a task left is resumed.
Crash ==
  /\ May("crash") /\ stage # NoStage
  /\ stage' = NoStage
  /\ \E ticked \in IF stage.kind = "loop" /\ stage.pc = "agent" THEN BOOLEAN ELSE {FALSE} :
       files' = [files EXCEPT !.ticked = @ \/ ticked, !.done = @ \/ ticked]
  /\ IF stage.run # 0 THEN Finish(stage.run, "interrupted", "failed") ELSE UNCHANGED runs
  /\ status' = IF status = "looping" /\ ~files'.ticked THEN "ready"
               ELSE IF status \in InStage THEN "needs_attention" ELSE status
  /\ UNCHANGED plans

Automatic ==
  \/ PumpTodo \/ ClaimLoop \/ PreparePlanner \/ PrepareCritic \/ PrepareEvaluator
  \/ PrepareLoop \/ PreparationThrows \/ RunGate \/ AgentEnds \/ Fail \/ Drop
  \/ AskQuestions \/ WritePlan \/ RoutePlan \/ DecideCritique \/ NoVerdictOfTheCancelled
  \/ LoopDone \/ LoopFails \/ DecideEvaluation
RoundNext ==
  \/ Automatic \/ AgentWrites
  \/ Queue \/ Restart \/ ApprovePlan \/ Cancel \/ Reject \/ Approve \/ RetryMerge
  \/ RetryStep \/ Crash

RoundSpec == RoundInit /\ [][RoundNext]_roundVars

-----------------------------------------------------------------------------
(* Properties.                                                             *)

\* A plan is stored, and a run concludes, from what its own agent has written.
OwnVerdict ==
  /\ Len(plans') > Len(plans) => files.draft.by = stage.run
  /\ \A i \in DOMAIN runs :
       runs'[i].exit # runs[i].exit =>
         CASE runs'[i].exit = "questions" -> files.draft.by = i
           [] runs'[i].exit \in {"approve", "limit", "revise"} ->
                i = (IF runs[i].kind = "critique" THEN files.critique.by
                     ELSE files.evaluation.by)
           [] OTHER -> TRUE

\* What an agent is shown of others' work is about the code there is, or the
\* draft of the run right before it.
EvidenceIsOfThisCycle ==
  stage.pc = "agent" =>
    /\ stage.kind = "evaluate" => stage.gate = files.code /\ stage.notes \in {0, files.code}
    /\ stage.drafts # 0 => stage.drafts = stage.run - 1

\* Between two loops a plan comes back twice at most, once from the pre-check;
\* the evaluator sends a card back twice in all.
RevisionsAreBounded ==
  Prechecks <= 1 /\ Critics + Prechecks <= 2 /\ PriorRevisions <= 2

\* A version answers the newest feedback on the one before, and no other.
FeedbackIsAnswered ==
  \A p \in DOMAIN plans : plans[p] = IF p = 1 THEN 0 ELSE Newest(Asked(p - 1))

\* shared/evaluation.ts:13: a loop run is merge-eligible only when an evaluate
\* run has cleared it.
MergedWereCleared ==
  status = "done" =>
    \E i \in OfKind("evaluate") : i > Cycle /\ runs[i].exit \in {"approve", "limit"}
=============================================================================
