------------------------------ MODULE Pipeline ------------------------------
(***************************************************************************)
(* The card pipeline of one repository (src/server/orchestrator.ts and the *)
(* planning, critic and evaluation services it starts), as run by several  *)
(* processes that share one SQLite database.                               *)
(*                                                                         *)
(* Atomicity.  better-sqlite3 is synchronous: between two awaits a process *)
(* runs alone IN ITS OWN PROCESS, but another process's statements fall    *)
(* between its own.  A step is one statement, or one BEGIN IMMEDIATE       *)
(* transaction; what a synchronous segment still has to write after a step *)
(* is kept in seg[p], and process p does nothing else until it is written. *)
(***************************************************************************)
EXTENDS Naturals, FiniteSets

CONSTANTS
  Cards,      \* the cards of one repository (repositories never share slots)
  Workers,    \* processes with the worker role
  Web,        \* processes with the web role alone: "passive" orchestrators
  Later,      \* BOUND: the workers that have not started yet; none starts twice
  UiWorkers,  \* the workers that also serve the UI (the single-process default)
  Runs,       \* slots for run rows; a slot is reused once nothing can read it
  None,       \* the absent card, worker or control value
  Limit,      \* concurrencyLimit(): cards of the repository run at once
  MaxPrep,    \* BOUND: stages of one kind that get past their first awaits
  Verbs,      \* the operator verbs of this instance
  Faults,     \* the faults and rare events of this instance
  CriticOn,   \* criticEnabled(card, settings)
  ReviewPlan  \* card.reviewPlanBeforeImplementation

Procs == Workers \cup Web

ASSUME PipelineAssumption ==
  /\ IsFiniteSet(Cards)
  /\ None \notin Cards \cup Workers \cup {"cancel", "pause"}
  /\ UiWorkers \subseteq Workers /\ Later \subseteq Workers
  /\ Workers \cap Web = {}
  /\ Limit \in Nat \ {0}
  /\ MaxPrep \in Nat \ {0}
  /\ CriticOn \in BOOLEAN
  /\ ReviewPlan \in BOOLEAN

VARIABLES
  status,             \* cards.status
  evaluationPending,  \* cards.evaluation_pending
  plan,               \* what the card's latest plan row and checklist amount to
  retryable,          \* what retryableFailedStep() answers for the card
  row,                \* the runs table
  session,            \* the async function of each run, in its owner's memory
  prep,               \* stage functions started whose run row does not exist yet
  worker,             \* the worker processes
  heartbeat,          \* workers.heartbeat_at, against workerStaleSeconds
  seg                 \* the rest of each process's synchronous segment

cardVars == <<status, evaluationPending, plan, retryable>>
procVars == <<worker, heartbeat>>
vars == <<status, evaluationPending, plan, retryable, row, session, prep,
          worker, heartbeat, seg>>

Running == {"planning", "looping", "evaluating"}           \* RUNNING_STATUSES
Statuses == Running \cup {"backlog", "todo", "plan_review", "ready", "paused",
                          "review", "needs_attention"}
Pullback == Statuses \ {"backlog"}                         \* PULLBACK_STATUSES

\* none: no plan row; open: a task is unchecked; finished: every task ticked
\* and DONE written; stale: pendingReplanFeedback() answers with feedback.
PlanStates == {"none", "open", "finished", "stale"}

StageKinds == {"plan", "critique", "evaluate"}
Kinds == StageKinds \cup {"loop"}
StageOf(k) == IF k = "evaluate" THEN "evaluating" ELSE "planning"

\* Which ending a closed row has is read only by retryableFailedStep(), so the
\* row keeps no more than that it is closed, and `retryable` keeps the answer.
Free == [card |-> None, kind |-> "loop", owner |-> None, st |-> "free",
         control |-> None]
Rows == [card : Cards, kind : Kinds, owner : Workers,
         st : {"running", "closed"}, control : {None, "cancel", "pause"}]

\* setup: claimed, controller not registered; live: the harness may be running;
\* written: a planner past its plan row; aborted: the AbortController fired and
\* the function has not noticed yet.
Phases == {"none", "setup", "live", "written", "aborted"}
Registered == {"live", "written"}           \* this.controllers holds it, unfired

\* A process registers under a fresh id, so a restart is another worker.
Lives == {"new", "booting", "up", "draining", "exiting", "gone"}

Idle == [op |-> "idle"]
Segments == {Idle}
  \cup [op : {"move"}, card : Cards, from : Statuses, to : Statuses]
  \cup [op : {"sweep"}, card : Cards, from : Statuses]
  \cup [op : {"close"}, card : Cards, run : Runs]
  \cup [op : {"replan", "advance", "evaluate", "park", "pull", "pause", "queue"},
        card : Cards]

TypeOK ==
  /\ status \in [Cards -> Statuses]
  /\ evaluationPending \in [Cards -> BOOLEAN]
  /\ plan \in [Cards -> PlanStates]
  /\ retryable \in [Cards -> Kinds \cup {"none"}]
  /\ row \in [Runs -> Rows \cup {Free}]
  /\ session \in [Runs -> Phases]
  /\ prep \in [Workers -> [Cards -> [StageKinds -> 0 .. MaxPrep]]]
  /\ worker \in [Workers -> Lives]
  /\ heartbeat \in [Workers -> {"fresh", "stale"}]
  /\ seg \in [Procs -> Segments]

-----------------------------------------------------------------------------
(* What a process can see and do.                                          *)

RunningRow(c, r) == row[r].st = "running" /\ row[r].card = c
HasRunningRow(c) == \E r \in Runs : RunningRow(c, r)

\* loadFor: distinct cards in a running status or with a running run row.
Load == Cardinality({c \in Cards : status[c] \in Running \/ HasRunningRow(c)})

Awake(w) == worker[w] \in {"up", "draining"} /\ seg[w] = Idle
Serves(p) == \/ p \in Web /\ seg[p] = Idle
             \/ p \in UiWorkers /\ Awake(p)
Verb(p, v) == v \in Verbs /\ Serves(p)
Passive(p) == p \in Web

\* Mutants of Live: the process forgets its own id, so that its own late
\* heartbeat counts against it; every process ever registered is live.
LiveByHeartbeat(w) == {v \in Workers : heartbeat[v] = "fresh"}
LiveForever(w) == Workers

\* liveWorkerIds(), plus the process's own id: "our own runs are never stale".
Live(w) == {v \in Workers : heartbeat[v] = "fresh"} \cup {w}

FreeSlot(r) == row[r] = Free /\ session[r] = "none"

-----------------------------------------------------------------------------
(* The writes the actions are built from.                                  *)

Leave(p) == seg' = [seg EXCEPT ![p] = Idle]
Then(p, s) == seg' = [seg EXCEPT ![p] = s]
Move(c, from, to) == [op |-> "move", card |-> c, from |-> from, to |-> to]
Do(op, c) == [op |-> op, card |-> c]

\* Mutant of MoveCard: the update forgets `status = from`.
MoveCardBlindly(c, from, to) ==
  /\ status' = [status EXCEPT ![c] = to]
  /\ evaluationPending' =
       IF from = "needs_attention"
       THEN [evaluationPending EXCEPT ![c] = FALSE] ELSE evaluationPending

\* moveCard: a compare-and-set on the status; leaving Needs Attention by this
\* route clears the queued-evaluation flag.
MoveCard(c, from, to) ==
  /\ status' = IF status[c] = from THEN [status EXCEPT ![c] = to] ELSE status
  /\ evaluationPending' =
       IF status[c] = from /\ from = "needs_attention"
       THEN [evaluationPending EXCEPT ![c] = FALSE] ELSE evaluationPending

\* The row side of finishRun and interruptRun: a compare-and-set on `running`.
\* A slot nobody's function holds any more is free once its row is closed.
CloseRow(r, sess) ==
  row' = IF row[r].st # "running"
         THEN IF sess = "none" THEN [row EXCEPT ![r] = Free] ELSE row
         ELSE [row EXCEPT ![r] = IF sess = "none" THEN Free
                                 ELSE [row[r] EXCEPT !.st = "closed"]]

\* Mutant of Offer: the ending is written over an earlier one.
OfferAlways(r, st, offer) ==
  retryable' = [retryable EXCEPT ![row[r].card] =
                  IF st \in {"failed", "interrupted"} /\ offer
                  THEN row[r].kind ELSE "none"]

\* Which step the failed-step button then offers: failed and interrupted runs
\* are offered, a `config` failure is not (offer = FALSE).
Offer(r, st, offer) ==
  retryable' = IF row[r].st # "running" THEN retryable
               ELSE [retryable EXCEPT ![row[r].card] =
                       IF st \in {"failed", "interrupted"} /\ offer
                       THEN row[r].kind ELSE "none"]

\* finishRun by the function that holds run r, which ends in phase sess.
FinishRun(r, st, offer, sess) ==
  /\ CloseRow(r, sess)
  /\ Offer(r, st, offer)
  /\ session' = [session EXCEPT ![r] = sess]

\* Starting a stage function: its awaits come before its run row.  Those past
\* the bound are taken to stay in their awaits.
StartStage(w, c, k) ==
  prep' = [prep EXCEPT ![w][c][k] = IF @ < MaxPrep THEN @ + 1 ELSE @]

\* claimStage: one BEGIN IMMEDIATE transaction.
ClaimStage(c, from, to) ==
  /\ status[c] = from
  /\ Load < Limit
  /\ MoveCard(c, from, to)

Insert(r, c, k, w) ==
  /\ FreeSlot(r)
  /\ row' = [row EXCEPT ![r] = [card |-> c, kind |-> k, owner |-> w,
                                st |-> "running", control |-> None]]
  /\ retryable' = [retryable EXCEPT ![c] = "none"]

-----------------------------------------------------------------------------
(* Operator verbs, served by any process with the web role.                *)

QueueCard(p, c) ==
  /\ Verb(p, "queue")
  /\ status[c] = "backlog"
  /\ status' = [status EXCEPT ![c] = "todo"]
  /\ UNCHANGED <<evaluationPending, plan, retryable, row, session, prep,
                 procVars, seg>>

\* With a plan and no pending feedback the card goes straight to the loop
\* queue; otherwise it is planned now, or waits in Todo when this process is
\* passive or the repository is at its cap.
StartCard(p, c) ==
  /\ status[c] \in {"todo", "needs_attention"}
  /\ \/ /\ plan[c] \in {"open", "finished"}
        /\ MoveCard(c, status[c], "ready")
        /\ UNCHANGED prep
     \/ /\ plan[c] \notin {"open", "finished"}
        /\ Passive(p) \/ Load >= Limit
        /\ status[c] = "needs_attention"
        /\ MoveCard(c, "needs_attention", "todo")
        /\ UNCHANGED prep
     \/ /\ plan[c] \notin {"open", "finished"}
        /\ ~Passive(p)
        /\ ClaimStage(c, status[c], "planning")
        /\ StartStage(p, c, "plan")
  /\ UNCHANGED <<plan, retryable, row, session, procVars, seg>>

StartVerb(p, c) == Verb(p, "start") /\ StartCard(p, c)

\* The move route's check and endActiveRun's query; the writes follow one by
\* one.  Two running rows of one card are taken in either order (startedAt has
\* only millisecond precision).
CancelCard(p, c) ==
  /\ Verb(p, "cancel")
  /\ status[c] \in Pullback
  /\ \/ \E r \in Runs :
          /\ RunningRow(c, r)
          /\ Then(p, [op |-> "close", card |-> c, run |-> r])
     \/ ~HasRunningRow(c) /\ Then(p, Do("pull", c))
  /\ UNCHANGED <<cardVars, row, session, prep, procVars>>

\* endActiveRun: finish the row, ask its owner to abort, abort a local one.
CloseSegment(p) ==
  /\ seg[p].op = "close"
  /\ LET r == seg[p].run
         mine == row[r].owner = p /\ session[r] \in Registered
         won == RunningRow(seg[p].card, r)
     IN /\ row' = IF ~won THEN row
                  ELSE IF session[r] = "none" THEN [row EXCEPT ![r] = Free]
                  ELSE [row EXCEPT ![r] = [@ EXCEPT !.st = "closed", !.control = "cancel"]]
        /\ retryable' = IF won THEN [retryable EXCEPT ![seg[p].card] = "none"]
                        ELSE retryable
        /\ session' = IF won /\ mine THEN [session EXCEPT ![r] = "aborted"]
                      ELSE session
  /\ Then(p, Do("pull", seg[p].card))
  /\ UNCHANGED <<status, evaluationPending, plan, prep, procVars>>

\* cancelCard's last write: unconditional, and the flag is left alone.
PullSegment(p) ==
  /\ seg[p].op = "pull"
  /\ status' = [status EXCEPT ![seg[p].card] = "backlog"]
  /\ Leave(p)
  /\ UNCHANGED <<evaluationPending, plan, retryable, row, session, prep, procVars>>

PauseCard(p, c) ==
  /\ Verb(p, "pause")
  /\ status[c] = "looping"
  /\ MoveCard(c, "looping", "paused")
  /\ Then(p, Do("pause", c))
  /\ UNCHANGED <<plan, retryable, row, session, prep, procVars>>

\* requestPause
PauseSegment(p) ==
  /\ seg[p].op = "pause"
  /\ row' = [r \in Runs |-> IF RunningRow(seg[p].card, r)
                            THEN [row[r] EXCEPT !.control = "pause"] ELSE row[r]]
  /\ Leave(p)
  /\ UNCHANGED <<cardVars, session, prep, procVars>>

ResumeCard(p, c) ==
  /\ Verb(p, "resume")
  /\ ~HasRunningRow(c)
  /\ status[c] = "paused"
  /\ MoveCard(c, "paused", "ready")
  /\ UNCHANGED <<plan, retryable, row, session, prep, procVars, seg>>

ApprovePlan(p, c) ==
  /\ Verb(p, "approve_plan")
  /\ status[c] = "plan_review"
  /\ MoveCard(c, "plan_review", "ready")
  /\ UNCHANGED <<plan, retryable, row, session, prep, procVars, seg>>

\* A human sends the diff back; the steps in between are module Delivery's.
RejectReview(p, c) ==
  /\ Verb(p, "reject")
  /\ status[c] = "review"
  /\ MoveCard(c, "review", "todo")
  /\ plan' = [plan EXCEPT ![c] = "stale"]
  /\ UNCHANGED <<retryable, row, session, prep, procVars, seg>>

\* retryFailedStep, one disjunct per step it may retry.  A finished loop is
\* sent to evaluation behind a busy check that is not part of a claim.
RetryFailedStep(p, c) ==
  /\ Verb(p, "retry")
  /\ status[c] = "needs_attention"
  /\ \/ /\ retryable[c] = "loop" /\ plan[c] = "finished"
        /\ \/ Passive(p) /\ Then(p, Do("queue", c))
           \/ ~Passive(p) /\ Load < Limit /\ Then(p, Do("evaluate", c))
        /\ UNCHANGED <<status, evaluationPending, prep>>
     \/ /\ retryable[c] = "loop" /\ plan[c] \in {"open", "stale"}
        /\ MoveCard(c, "needs_attention", "ready")
        /\ UNCHANGED <<prep, seg>>
     \/ /\ retryable[c] = "evaluate" /\ Passive(p)
        /\ Then(p, Do("queue", c))
        /\ UNCHANGED <<status, evaluationPending, prep>>
     \/ /\ retryable[c] = "plan" /\ Passive(p)
        /\ MoveCard(c, "needs_attention", "todo")
        /\ UNCHANGED <<prep, seg>>
     \/ /\ retryable[c] \in StageKinds /\ ~Passive(p)
        /\ ClaimStage(c, "needs_attention", StageOf(retryable[c]))
        /\ StartStage(p, c, retryable[c])
        /\ UNCHANGED seg
  /\ UNCHANGED <<plan, retryable, row, session, procVars>>

\* queueEvaluation: unconditional.
QueueSegment(p) ==
  /\ seg[p].op = "queue"
  /\ evaluationPending' = [evaluationPending EXCEPT ![seg[p].card] = TRUE]
  /\ Leave(p)
  /\ UNCHANGED <<status, plan, retryable, row, session, prep, procVars>>

\* approveInstallScripts, after its awaits: a finished checklist is evaluated
\* next, or queued when the repository is at its cap.
ApproveInstall(p, c) ==
  /\ Verb(p, "approve_install")
  /\ ~Passive(p)
  /\ status[c] = "needs_attention"
  /\ \/ /\ plan[c] = "finished" /\ Load >= Limit
        /\ Then(p, Do("queue", c))
        /\ UNCHANGED <<status, evaluationPending, prep>>
     \/ /\ plan[c] = "finished"
        /\ ClaimStage(c, "needs_attention", "evaluating")
        /\ StartStage(p, c, "evaluate")
        /\ UNCHANGED seg
     \/ /\ plan[c] \in {"open", "stale"}
        /\ MoveCard(c, "needs_attention", "ready")
        /\ UNCHANGED <<prep, seg>>
  /\ UNCHANGED <<plan, retryable, row, session, procVars>>

-----------------------------------------------------------------------------
(* pump(): queued evaluations first, then Ready, then Todo.  Each start is *)
(* its own transaction, so a pass is modelled by its successive starts.    *)

Pumping(w) == worker[w] = "up" /\ seg[w] = Idle
Queued == {c \in Cards : status[c] = "needs_attention" /\ evaluationPending[c]}
Startable == {c \in Cards : status[c] = "ready" /\ ~HasRunningRow(c)}

PumpEvaluation(w, c) ==
  /\ Pumping(w)
  /\ c \in Queued
  /\ ClaimStage(c, "needs_attention", "evaluating")
  /\ StartStage(w, c, "evaluate")
  /\ UNCHANGED <<plan, retryable, row, session, procVars, seg>>

\* Mutants of ClaimLoopRun: it does not look for a running row; it does not
\* count the load again.
ClaimLoopRunUnchecked(w, c, r) ==
  /\ status[c] = "ready"
  /\ Load < Limit
  /\ MoveCard(c, "ready", "looping")
  /\ Insert(r, c, "loop", w)

ClaimLoopRunOverCap(w, c, r) ==
  /\ status[c] = "ready"
  /\ ~HasRunningRow(c)
  /\ MoveCard(c, "ready", "looping")
  /\ Insert(r, c, "loop", w)

\* claimLoopRun: still Ready, no running row for the card, a free slot; the
\* card's move and the row's insertion commit together.
ClaimLoopRun(w, c, r) ==
  /\ status[c] = "ready"
  /\ ~HasRunningRow(c)
  /\ Load < Limit
  /\ MoveCard(c, "ready", "looping")
  /\ Insert(r, c, "loop", w)

PumpReady(w, c, r) ==
  /\ Pumping(w)
  /\ Queued = {}
  /\ ClaimLoopRun(w, c, r)
  /\ session' = [session EXCEPT ![r] = "setup"]
  /\ UNCHANGED <<plan, prep, procVars, seg>>

PumpTodo(w, c) ==
  /\ Pumping(w)
  /\ Queued = {} /\ Startable = {}
  /\ Load < Limit
  /\ status[c] = "todo"
  /\ StartCard(w, c)

-----------------------------------------------------------------------------
(* Planner, critic and evaluator.                                          *)

\* The awaits before the row are over: the row is inserted, and a card that
\* left the stage meanwhile has it closed at once and no harness started.
StageInserts(w, c, k, r) ==
  /\ Awake(w)
  /\ prep[w][c][k] > 0
  /\ FreeSlot(r)
  /\ prep' = [prep EXCEPT ![w][c][k] = @ - 1]
  /\ IF status[c] = StageOf(k)
     THEN /\ Insert(r, c, k, w)
          /\ session' = [session EXCEPT ![r] = "live"]
     ELSE /\ retryable' = [retryable EXCEPT ![c] = "none"]
          /\ UNCHANGED <<row, session>>
  /\ UNCHANGED <<status, evaluationPending, plan, procVars, seg>>

\* Mutant of StageThrows: the catch only logs.
StageThrowsSilently(w, c, k) ==
  /\ Awake(w)
  /\ prep[w][c][k] > 0
  /\ prep' = [prep EXCEPT ![w][c][k] = @ - 1]
  /\ UNCHANGED <<cardVars, row, session, procVars, seg>>

\* startStage's and startCritic's catch: the stage threw before its row.
StageThrows(w, c, k) ==
  /\ Awake(w)
  /\ prep[w][c][k] > 0
  /\ prep' = [prep EXCEPT ![w][c][k] = @ - 1]
  /\ MoveCard(c, StageOf(k), "needs_attention")
  /\ UNCHANGED <<plan, retryable, row, session, procVars, seg>>

\* A run's function resumes from an await in one of the given phases.
Resumes(r, kinds, phases) ==
  /\ session[r] \in phases
  /\ row[r].kind \in kinds
  /\ Awake(row[r].owner)

\* The function returns without writing anything: its row stays as it is.
EndSession(r) ==
  /\ session' = [session EXCEPT ![r] = "none"]
  /\ row' = IF row[r].st = "running" THEN row ELSE [row EXCEPT ![r] = Free]

\* `if (controller.signal.aborted) return`, right after the harness.  The last
\* awaits come after it, so what follows may still run with the signal fired.
StageAborts(r) ==
  /\ Resumes(r, StageKinds, {"aborted"})
  /\ EndSession(r)
  /\ UNCHANGED <<cardVars, prep, procVars, seg>>

\* The stages' fail(), and the planner's follow-up questions: finishRun's
\* answer is not looked at before the card is moved.
StageFails(r, st, offer) ==
  /\ Resumes(r, StageKinds, {"live", "aborted"})
  /\ st = "completed" => row[r].kind = "plan"
  /\ FinishRun(r, st, offer, "none")
  /\ Then(row[r].owner,
          Move(row[r].card, StageOf(row[r].kind), "needs_attention"))
  /\ UNCHANGED <<status, evaluationPending, plan, prep, procVars>>

PlanDestination == IF ReviewPlan THEN "plan_review" ELSE "ready"

\* writePlanRow, after the pre-check's awaits and before the plan's commit.
PlanSaved(r) ==
  /\ Resumes(r, {"plan"}, {"live"})
  /\ row[r].st = "running"
  /\ plan' = [plan EXCEPT ![row[r].card] = "open"]
  /\ session' = [session EXCEPT ![r] = "written"]
  /\ UNCHANGED <<status, evaluationPending, retryable, row, prep, procVars, seg>>

\* The planner looks at finishRun's answer.  A plan whose checks already pass
\* is planned again; otherwise the critic reads it, or the card moves on.
PlanWritten(r) ==
  /\ Resumes(r, {"plan"}, {"written"})
  /\ row[r].st = "running"
  /\ FinishRun(r, "completed", FALSE, "none")
  /\ LET c == row[r].card
         w == row[r].owner
     IN \/ /\ plan' = [plan EXCEPT ![c] = "stale"]
           /\ StartStage(w, c, "plan")
           /\ UNCHANGED seg
        \/ /\ UNCHANGED plan
           /\ IF CriticOn THEN StartStage(w, c, "critique") /\ UNCHANGED seg
              ELSE Then(w, Move(c, "planning", PlanDestination)) /\ UNCHANGED prep
  /\ UNCHANGED <<status, evaluationPending, procVars>>

\* Someone closed the planner's row while it was away: it stops.
PlanLost(r) ==
  /\ Resumes(r, {"plan"}, {"live", "written", "aborted"})
  /\ row[r].st # "running"
  /\ FinishRun(r, "completed", FALSE, "none")
  /\ UNCHANGED <<status, evaluationPending, plan, prep, procVars, seg>>

\* The planner's catch, past its plan row: unlike fail(), it looks at finishRun's
\* answer before it moves the card.
PlanThrows(r) ==
  /\ Resumes(r, {"plan"}, {"written"})
  /\ row[r].st = "running"
  /\ FinishRun(r, "failed", TRUE, "none")
  /\ Then(row[r].owner, Move(row[r].card, "planning", "needs_attention"))
  /\ UNCHANGED <<status, evaluationPending, plan, prep, procVars>>

\* approve, or the revision limit, which escalates to the plan review.
CriticPasses(r, dest) ==
  /\ Resumes(r, {"critique"}, {"live", "aborted"})
  /\ dest \in {PlanDestination, "plan_review"}
  /\ FinishRun(r, "completed", FALSE, "none")
  /\ Then(row[r].owner, Move(row[r].card, "planning", dest))
  /\ UNCHANGED <<status, evaluationPending, plan, prep, procVars>>

\* revise: the feedback counts only with the exit reason finishRun writes, but
\* the re-plan starts either way.
CriticRevises(r) ==
  /\ Resumes(r, {"critique"}, {"live", "aborted"})
  /\ FinishRun(r, "completed", FALSE, "none")
  /\ plan' = IF row[r].st = "running"
             THEN [plan EXCEPT ![row[r].card] = "stale"] ELSE plan
  /\ StartStage(row[r].owner, row[r].card, "plan")
  /\ UNCHANGED <<status, evaluationPending, procVars, seg>>

\* approve, or the revision limit: advanceToReview.
EvaluatorPasses(r) ==
  /\ Resumes(r, {"evaluate"}, {"live", "aborted"})
  /\ FinishRun(r, "completed", FALSE, "none")
  /\ Then(row[r].owner, Move(row[r].card, "evaluating", "review"))
  /\ UNCHANGED <<status, evaluationPending, plan, prep, procVars>>

EvaluatorRevises(r) ==
  /\ Resumes(r, {"evaluate"}, {"live", "aborted"})
  /\ FinishRun(r, "completed", FALSE, "none")
  /\ plan' = IF row[r].st = "running"
             THEN [plan EXCEPT ![row[r].card] = "stale"] ELSE plan
  /\ Then(row[r].owner, Do("replan", row[r].card))
  /\ UNCHANGED <<status, evaluationPending, prep, procVars>>

-----------------------------------------------------------------------------
(* The loop.                                                               *)

\* isRunActive
Active(r) ==
  /\ session[r] # "aborted"
  /\ row[r].st = "running"
  /\ status[row[r].card] \in {"looping", "paused"}

\* this.controllers.set(runId, controller)
LoopRegisters(r) ==
  /\ Resumes(r, {"loop"}, {"setup"})
  /\ session' = [session EXCEPT ![r] = "live"]
  /\ UNCHANGED <<cardVars, row, prep, procVars, seg>>

\* pump's catch around runLoop: it ends whichever run of the card is running.
\* Throwing after somebody else closed its row is a rare event ("late_throw").
LoopThrows(r) ==
  /\ Resumes(r, {"loop"}, {"setup", "live", "aborted"})
  /\ row[r].st = "running" \/ "late_throw" \in Faults
  /\ LET c == row[r].card
         w == row[r].owner
     IN \/ \E q \in Runs :
             /\ RunningRow(c, q)
             /\ session' = [i \in Runs |->
                  IF i = r THEN "none"
                  ELSE IF i = q /\ session[q] \in Registered /\ row[q].owner = w THEN "aborted"
                  ELSE session[i]]
             /\ row' = [i \in Runs |->
                  IF i = q /\ session'[q] # "none"
                  THEN [row[q] EXCEPT !.st = "closed", !.control = "cancel"]
                  ELSE IF i = q \/ (i = r /\ row[r].st # "running") THEN Free
                  ELSE row[i]]
             /\ Offer(q, "failed", TRUE)
        \/ /\ ~HasRunningRow(c)
           /\ EndSession(r)
           /\ UNCHANGED retryable
        /\ Then(w, Move(c, "looping", "needs_attention"))
  /\ UNCHANGED <<status, evaluationPending, plan, prep, procVars>>

\* `if (!active()) return`
LoopExits(r) ==
  /\ Resumes(r, {"loop"}, {"live", "aborted"})
  /\ ~Active(r)
  /\ EndSession(r)
  /\ UNCHANGED <<cardVars, prep, procVars, seg>>

\* The checklist after an iteration: its last task may have been ticked.
Ticked(c, done) ==
  plan' = IF done /\ plan[c] = "open" THEN [plan EXCEPT ![c] = "finished"]
          ELSE plan

\* Mutant of LoopFails: finishRun's answer is not looked at.
LoopFailsAnyway(r, offer, done, stops) ==
  /\ Resumes(r, {"loop"}, {"live", "aborted"})
  /\ FinishRun(r, "failed", offer, "none")
  /\ Ticked(row[r].card, done)
  /\ Then(row[r].owner, Move(row[r].card, "looping", "needs_attention"))
  /\ UNCHANGED <<status, evaluationPending, prep, procVars>>

\* fail(): only the writer that closes the row moves the card.  The run gave
\* up on an error, a bound or a timeout (stops = FALSE), or stopped for the
\* planner, blocked or with an exhausted checklist (stops = TRUE).
LoopFails(r, offer, done, stops) ==
  /\ Resumes(r, {"loop"}, {"live", "aborted"})
  /\ row[r].st = "running"
  /\ stops => ~offer /\ ~done
  /\ FinishRun(r, "failed", offer, "none")
  /\ IF stops THEN plan' = [plan EXCEPT ![row[r].card] = "stale"]
     ELSE Ticked(row[r].card, done)
  /\ Then(row[r].owner, Move(row[r].card, "looping", "needs_attention"))
  /\ UNCHANGED <<status, evaluationPending, prep, procVars>>

\* The disk watchdog finishes the run itself, then aborts the harness.
WatchdogTrips(r) ==
  /\ Resumes(r, {"loop"}, {"live"})
  /\ row[r].st = "running"
  /\ FinishRun(r, "failed", TRUE, "aborted")
  /\ Then(row[r].owner, Move(row[r].card, "looping", "needs_attention"))
  /\ UNCHANGED <<status, evaluationPending, plan, prep, procVars>>

\* DONE, every check passed: the card goes on to evaluation if finishRun won.
LoopDone(r) ==
  /\ Resumes(r, {"loop"}, {"live", "aborted"})
  /\ row[r].st = "running"
  /\ FinishRun(r, "completed", FALSE, "none")
  /\ Ticked(row[r].card, TRUE)
  /\ Then(row[r].owner, Do("advance", row[r].card))
  /\ UNCHANGED <<status, evaluationPending, prep, procVars>>

\* checkInstallGate: finishRun's answer is not looked at.
LoopGate(r, done) ==
  /\ "install" \in Faults
  /\ Resumes(r, {"loop"}, {"live", "aborted"})
  /\ FinishRun(r, "completed", FALSE, "none")
  /\ Ticked(row[r].card, done)
  /\ Then(row[r].owner, Move(row[r].card, "looping", "needs_attention"))
  /\ UNCHANGED <<status, evaluationPending, prep, procVars>>

\* A pause is seen at the iteration boundary; the card has moved already.
LoopPauses(r) ==
  /\ Resumes(r, {"loop"}, {"live", "aborted"})
  /\ status[row[r].card] = "paused" \/ row[r].control = "pause"
  /\ FinishRun(r, "paused", FALSE, "none")
  /\ UNCHANGED <<status, evaluationPending, plan, prep, procVars, seg>>

\* So is a drain: the card goes back to Ready, whatever finishRun answered.
LoopDrains(r) ==
  /\ Resumes(r, {"loop"}, {"live", "aborted"})
  /\ worker[row[r].owner] = "draining"
  /\ ~(status[row[r].card] = "paused" \/ row[r].control = "pause")
  /\ FinishRun(r, "interrupted", TRUE, "none")
  /\ Then(row[r].owner, Move(row[r].card, "looping", "ready"))
  /\ UNCHANGED <<status, evaluationPending, plan, prep, procVars>>

\* applyControlSignals, for the runs this worker holds a controller of.
ControlPoll(r) ==
  /\ Resumes(r, Kinds, Registered)
  /\ row[r].control = "cancel"
  /\ session' = [session EXCEPT ![r] = "aborted"]
  /\ row' = [row EXCEPT ![r].control = None]
  /\ UNCHANGED <<cardVars, prep, procVars, seg>>

-----------------------------------------------------------------------------
(* The rest of a synchronous segment.                                      *)

MoveSegment(p) ==
  /\ seg[p].op = "move"
  /\ MoveCard(seg[p].card, seg[p].from, seg[p].to)
  /\ Leave(p)
  /\ UNCHANGED <<plan, retryable, row, session, prep, procVars>>

\* A move into a stage whose function is started only if the card moved.
MoveInto(p, op, from, to, k) ==
  /\ seg[p].op = op
  /\ IF status[seg[p].card] \in from
     THEN /\ MoveCard(seg[p].card, status[seg[p].card], to)
          /\ StartStage(p, seg[p].card, k)
     ELSE UNCHANGED <<status, evaluationPending, prep>>
  /\ Leave(p)
  /\ UNCHANGED <<plan, retryable, row, session, procVars>>

\* Mutant of ReplanSegment: the card is moved to the run's kind, not its stage.
ReplanIntoKind(p) == MoveInto(p, "replan", {"evaluating"}, "plan", "plan")

ReplanSegment(p) == MoveInto(p, "replan", {"evaluating"}, "planning", "plan")
AdvanceSegment(p) ==
  MoveInto(p, "advance", {"looping", "paused"}, "evaluating", "evaluate")
EvaluateSegment(p) ==
  MoveInto(p, "evaluate", {"needs_attention"}, "evaluating", "evaluate")

\* parkOrResume, for the card read in status `from`: a checkpointed loop goes
\* back to Ready, any other stage to a human.  loopIsResumable's worktree is
\* not modelled: it exists.
ParkOrResume(c, from) ==
  IF from \in Running
  THEN MoveCard(c, from, IF from = "looping" /\ plan[c] \in {"open", "stale"}
                         THEN "ready" ELSE "needs_attention")
  ELSE UNCHANGED <<status, evaluationPending>>

\* interruptRun reads the card again after its row.
ParkSegment(p) ==
  /\ seg[p].op = "park"
  /\ ParkOrResume(seg[p].card, status[seg[p].card])
  /\ Leave(p)
  /\ UNCHANGED <<plan, retryable, row, session, prep, procVars>>

\* The orphan sweep acts on the card as its query read it.
SweepSegment(p) ==
  /\ seg[p].op = "sweep"
  /\ ParkOrResume(seg[p].card, seg[p].from)
  /\ Leave(p)
  /\ UNCHANGED <<plan, retryable, row, session, prep, procVars>>

-----------------------------------------------------------------------------
(* Heartbeats, crashes, reaping and shutdown.                              *)

Ticking(w) == worker[w] \in {"booting", "up", "draining"} /\ seg[w] = Idle

Beats(w) ==
  /\ Ticking(w)
  /\ heartbeat[w] = "stale"
  /\ heartbeat' = [heartbeat EXCEPT ![w] = "fresh"]
  /\ UNCHANGED <<cardVars, row, session, prep, worker, seg>>

\* workerStaleSeconds pass: always after a death; for a running process only
\* if it stalls (fault "stall").
Ages(w) ==
  /\ heartbeat[w] = "fresh"
  /\ worker[w] = "gone" \/ "stall" \in Faults
  /\ heartbeat' = [heartbeat EXCEPT ![w] = "stale"]
  /\ UNCHANGED <<cardVars, row, session, prep, worker, seg>>

\* interruptRun by process w, then parkOrResume.
Interrupt(w, r) ==
  /\ row[r].st = "running"
  /\ CloseRow(r, session[r])
  /\ Offer(r, "interrupted", TRUE)
  /\ Then(w, Do("park", row[r].card))

\* reapStaleRuns: the row's owner is not live.
Reap(w, r) ==
  /\ Ticking(w)
  /\ row[r].owner \notin Live(w)
  /\ Interrupt(w, r)
  /\ UNCHANGED <<status, evaluationPending, plan, session, prep, procVars>>

\* The boot-only orphan sweep.  How long the card has been in its stage is not
\* modelled: the sweep may judge any card it finds in one without a run.
SweepOrphan(w, c) ==
  /\ worker[w] = "booting" /\ seg[w] = Idle
  /\ status[c] \in Running
  /\ ~HasRunningRow(c)
  /\ Then(w, [op |-> "sweep", card |-> c, from |-> status[c]])
  /\ UNCHANGED <<cardVars, row, session, prep, procVars>>

Boots(w) ==
  /\ worker[w] = "new"
  /\ worker' = [worker EXCEPT ![w] = "booting"]
  /\ heartbeat' = [heartbeat EXCEPT ![w] = "fresh"]
  /\ UNCHANGED <<cardVars, row, session, prep, seg>>

BootEnds(w) ==
  /\ worker[w] = "booting" /\ seg[w] = Idle
  /\ worker' = [worker EXCEPT ![w] = "up"]
  /\ UNCHANGED <<cardVars, row, session, prep, heartbeat, seg>>

\* Everything in w's memory is gone.
Dies(w) ==
  /\ worker' = [worker EXCEPT ![w] = "gone"]
  /\ session' = [r \in Runs |-> IF row[r].owner = w THEN "none" ELSE session[r]]
  /\ row' = [r \in Runs |-> IF row[r].owner = w /\ row[r].st # "running"
                            THEN Free ELSE row[r]]
  /\ prep' = [prep EXCEPT ![w] = [c \in Cards |-> [k \in StageKinds |-> 0]]]
  /\ seg' = [seg EXCEPT ![w] = Idle]

Crashes(w) ==
  /\ "crash" \in Faults
  /\ worker[w] \notin {"new", "gone"}
  /\ Dies(w)
  /\ UNCHANGED <<cardVars, heartbeat>>

WebCrashes(p) ==
  /\ "crash" \in Faults
  /\ p \in Web /\ seg[p] # Idle
  /\ Leave(p)
  /\ UNCHANGED <<cardVars, row, session, prep, procVars>>

Drains(w) ==
  /\ "drain" \in Faults
  /\ worker[w] = "up" /\ seg[w] = Idle
  /\ worker' = [worker EXCEPT ![w] = "draining"]
  /\ UNCHANGED <<cardVars, row, session, prep, heartbeat, seg>>

\* releaseOwnedWork, one synchronous segment that ends the process: the drain
\* window elapsed, own runs are interrupted, the workers row goes last.
GivesUp(w) ==
  /\ worker[w] = "draining" /\ seg[w] = Idle
  /\ worker' = [worker EXCEPT ![w] = "exiting"]
  /\ UNCHANGED <<cardVars, row, session, prep, heartbeat, seg>>

Releases(w, r) ==
  /\ worker[w] = "exiting" /\ seg[w] = Idle
  /\ row[r].owner = w
  /\ Interrupt(w, r)
  /\ UNCHANGED <<status, evaluationPending, plan, session, prep, procVars>>

Exits(w) ==
  /\ worker[w] = "exiting" /\ seg[w] = Idle
  /\ \A r \in Runs : row[r].st = "running" => row[r].owner # w
  /\ Dies(w)
  /\ heartbeat' = [heartbeat EXCEPT ![w] = "stale"]
  /\ UNCHANGED cardVars

-----------------------------------------------------------------------------
(* The specification.  It starts with a board of Backlog cards and every   *)
(* worker but the later ones just booted.                                  *)

Init ==
  /\ status = [c \in Cards |-> "backlog"]
  /\ evaluationPending = [c \in Cards |-> FALSE]
  /\ plan = [c \in Cards |-> "none"]
  /\ retryable = [c \in Cards |-> "none"]
  /\ row = [r \in Runs |-> Free]
  /\ session = [r \in Runs |-> "none"]
  /\ prep = [w \in Workers |-> [c \in Cards |-> [k \in StageKinds |-> 0]]]
  /\ worker = [w \in Workers |-> IF w \in Later THEN "new" ELSE "up"]
  /\ heartbeat = [w \in Workers |-> IF w \in Later THEN "stale" ELSE "fresh"]
  /\ seg = [p \in Procs |-> Idle]

Operator(p, c) ==
  \/ QueueCard(p, c) \/ StartVerb(p, c) \/ CancelCard(p, c)
  \/ PauseCard(p, c) \/ ResumeCard(p, c) \/ ApprovePlan(p, c)
  \/ RejectReview(p, c) \/ RetryFailedStep(p, c) \/ ApproveInstall(p, c)

Segment(p) ==
  \/ CloseSegment(p) \/ PullSegment(p) \/ PauseSegment(p) \/ QueueSegment(p)
  \/ MoveSegment(p)
  \/ p \in Workers /\ (ReplanSegment(p) \/ AdvanceSegment(p) \/ EvaluateSegment(p))
  \/ ParkSegment(p) \/ SweepSegment(p)

Pump(w) ==
  \E c \in Cards :
    \/ PumpEvaluation(w, c)
    \/ \E r \in Runs : PumpReady(w, c, r)
    \/ PumpTodo(w, c)

StageBegins(w) ==
  \E c \in Cards, k \in StageKinds :
    \/ \E r \in Runs : StageInserts(w, c, k, r)
    \/ StageThrows(w, c, k)

StageEnds(r) ==
  \/ StageAborts(r)
  \/ \E st \in {"failed", "completed"}, offer \in BOOLEAN : StageFails(r, st, offer)
  \/ PlanSaved(r) \/ PlanWritten(r) \/ PlanThrows(r) \/ PlanLost(r)
  \/ \E dest \in {"plan_review", "ready"} : CriticPasses(r, dest)
  \/ CriticRevises(r) \/ EvaluatorPasses(r) \/ EvaluatorRevises(r)

LoopEnds(r) ==
  \/ LoopThrows(r) \/ LoopExits(r) \/ LoopDone(r)
  \/ \E offer, done, stops \in BOOLEAN : LoopFails(r, offer, done, stops)
  \/ \E done \in BOOLEAN : LoopGate(r, done)
  \/ LoopPauses(r) \/ LoopDrains(r)

Session(r) ==
  StageEnds(r) \/ LoopRegisters(r) \/ LoopEnds(r) \/ WatchdogTrips(r) \/ ControlPoll(r)

Liveliness(w) ==
  \/ Beats(w) \/ Ages(w) \/ Boots(w) \/ BootEnds(w)
  \/ \E r \in Runs : Reap(w, r)
  \/ \E c \in Cards : SweepOrphan(w, c)

Shutdown(w) ==
  \/ Crashes(w) \/ Drains(w) \/ GivesUp(w) \/ Exits(w)
  \/ \E r \in Runs : Releases(w, r)

Next ==
  \/ \E p \in Procs : Segment(p) \/ WebCrashes(p) \/ \E c \in Cards : Operator(p, c)
  \/ \E w \in Workers : Pump(w) \/ StageBegins(w) \/ Liveliness(w) \/ Shutdown(w)
  \/ \E r \in Runs : Session(r)

Spec == Init /\ [][Next]_vars

\* The steps a process takes by itself (the event loop, the pump and heartbeat
\* timers, the harness timeouts): what module MCRecovery asks fairness of.
ProcessStep(p) ==
  \/ Segment(p)
  \/ p \in Workers /\ (Pump(p) \/ StageBegins(p) \/ Beats(p) \/ BootEnds(p))
  \/ \E r \in Runs : row[r].owner = p /\ Session(r)

\* Revisions are bounded (MAX_CRITIC_REVISIONS, one pre-check revision,
\* MAX_EVALUATOR_REVISIONS): the planner's and the evaluator's runs do not ask
\* for another plan for ever.
PlanAccepted(r) == PlanWritten(r) /\ plan' = plan
CriticConcludes(r) == \E dest \in {"plan_review", "ready"} : CriticPasses(r, dest)

-----------------------------------------------------------------------------
(* Safety.                                                                 *)

\* Two workers never run the same card's loop: a card has at most one running
\* loop row, whatever is cancelled, reaped, crashed or stalled meanwhile
\* (claimLoopRun refuses a card with a running row).
OneLoopRun ==
  \A q, r \in Runs :
    /\ row[q].st = "running" /\ row[q].kind = "loop"
    /\ row[r].st = "running" /\ row[r].kind = "loop"
    /\ row[q].card = row[r].card
    => q = r

\* While no process is lost, a card in a stage always has somebody who will
\* take it out: a running row, a stage function about to insert one, or a
\* segment that still has its move to write (nothing else ever looks for it
\* before a boot).
Attended(c) ==
  \/ HasRunningRow(c)
  \/ \E w \in Workers, k \in StageKinds : prep[w][c][k] > 0
  \/ \E p \in Procs : seg[p] # Idle /\ seg[p].card = c
StageHasAnActor == \A c \in Cards : status[c] \in Running => Attended(c)

\* A running row of a live worker belongs to a function that will close it:
\* nobody reaps a live worker's row, and it holds its card's slot for good.
NoAbandonedRow ==
  \A r \in Runs :
    row[r].st = "running" /\ worker[row[r].owner] \in {"up", "draining"}
    => session[r] # "none"

\* Nothing is stranded: what holds a card's stage or its slot will let it go.
NothingIsStranded == StageHasAnActor /\ NoAbandonedRow

\* A card pulled back to Backlog stays there until it is queued again: no late
\* continuation, reaper or pump of any process moves it.
PulledBackStays ==
  [][\A c \in Cards : status[c] = "backlog" => status'[c] \in {"backlog", "todo"}]_vars

\* The first ending of a run wins: a card is offered a retry of a step only by
\* closing a run of that step that was still running.
FirstEndingWins ==
  [][\A c \in Cards :
       retryable'[c] \notin {"none", retryable[c]}
       => \E r \in Runs : RunningRow(c, r) /\ row[r].kind = retryable'[c]
                          /\ row'[r].st # "running"]_vars

\* A card enters a stage from outside only into a free slot of its repository.
Enters(c, stages) == status[c] \notin Running /\ status'[c] \in stages
StartsWithinCap ==
  [][\A c \in Cards : Enters(c, Running) => Load' <= Limit]_vars

\* The same for the two starts every worker's pump makes on its own.
ClaimsWithinCap ==
  [][\A c \in Cards : Enters(c, {"planning", "looping"}) => Load' <= Limit]_vars

\* A function that is still at work, its signal unfired, loses its running row.
AtWork == {"setup", "live", "written"}
CutOff(r) ==
  row[r].st = "running" /\ row'[r].st # "running" /\ session'[r] \in AtWork

\* Nobody closes the row under a function that goes on working, but for three
\* reasons: somebody ended the card's run and asks the owner to stop; the owner
\* lets go of the run itself as it exits, and parks the card next; or another
\* process reaps a stalled owner.  A crashed worker's runs are reaped beside it
\* all the while, and a worker is never its own reaper, however late its
\* heartbeat is.  Where nobody stalls, the last reason is none.
LiveRunsNotReaped ==
  [][\A r \in Runs : CutOff(r) =>
       LET w == row[r].owner IN
       \/ row'[r].control = "cancel"
       \/ worker[w] = "exiting" /\ seg'[w] = Do("park", row[r].card)
       \/ "stall" \in Faults /\ heartbeat[w] = "stale" /\ seg'[w] = seg[w]]_vars

\* A run's continuation moves its card only when it closed the run itself: one
\* that lost to a cancel or a reaper must not push a card that runs a new loop
\* into Needs Attention.
OnlyTheOwnRunParks ==
  [][\A c \in Cards :
       status[c] = "looping" /\ status'[c] = "needs_attention" => ~HasRunningRow(c)]_vars
=============================================================================
