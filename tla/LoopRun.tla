------------------------------ MODULE LoopRun ------------------------------
(***************************************************************************)
(* What one loop run does to the card's private checklist and worktree:    *)
(* Orchestrator.runLoop with bookkeeping.ts, checklist.ts, baseSync.ts,    *)
(* gate.ts and acceptanceProbe.ts.  Pipeline sees the same run from the    *)
(* outside (rows, statuses, cancels); here its iterations are the subject. *)
(*                                                                         *)
(* One run of the card is live at a time.  Texts and wall clocks are       *)
(* abstracted: the checklist is a sequence of ticks, an iteration has one  *)
(* of a few outcomes, and a run that is out of time is a choice.           *)
(***************************************************************************)
EXTENDS Integers, Sequences, FiniteSets

CONSTANTS MaxIterations, \* maxIterations of the card
          PlanSizes,     \* sizes of the plans the planner writes
          MaxRuns,       \* runs of the card
          Outcomes,      \* how an iteration ends: "ok", "error", "fatal", "timeout"
          LoopFaults     \* of "unclean", "gate", "probe", "conflict", "cancel", "crash"

VARIABLES tasks, \* PLAN.md: which tasks are ticked, in order
          tree,  \* the worktree: edits, merge and signal files
          run,   \* the live run's locals
          card   \* where the card waits, and what its last run came to

loopVars == <<tasks, tree, run, card>>

MaxSyncGateRounds == 2

\* n counts iterations, idle those since the checklist last moved.
NoRun == [pc |-> "idle", n |-> 0, last |-> FALSE, result |-> "ok", touched |-> FALSE,
          failures |-> 0, stalls |-> 0, timeouts |-> 0, unsignalled |-> 0,
          repaired |-> FALSE, rounds |-> 0, wasDirty |-> FALSE, hadSignal |-> FALSE,
          idle |-> 0, ticked |-> 0, length |-> 0]

Open == {k \in 1..Len(tasks) : ~tasks[k]}
FirstUnchecked == CHOOSE k \in Open : \A j \in Open : k <= j
Ticked == Cardinality({k \in 1..Len(tasks) : tasks[k]})
Fresh(size) == [k \in 1..size |-> FALSE]
AppendTask(s) == Append(s, FALSE)

LoopTypeOK ==
  /\ tasks \in Seq(BOOLEAN)
  /\ tree \in [dirty : BOOLEAN, merge : BOOLEAN, behind : BOOLEAN,
               iterDone : BOOLEAN, done : BOOLEAN, blocked : BOOLEAN]
  /\ run.pc \in {"idle", "top", "agent", "after", "done", "sync", "gate"}
  /\ run.n \in 0..MaxIterations /\ run.timeouts \in 0..1
  /\ run.failures \in 0..2 /\ run.stalls \in 0..2 /\ run.rounds \in 0..MaxSyncGateRounds
  /\ card.at \in {"ready", "looping", "needs_attention", "backlog", "evaluating"}
  /\ card.runs \in 0..MaxRuns

LoopInit ==
  /\ \E size \in PlanSizes : tasks = Fresh(size)
  /\ tree = [dirty |-> FALSE, merge |-> FALSE, behind |-> FALSE,
             iterDone |-> FALSE, done |-> FALSE, blocked |-> FALSE]
  /\ run = NoRun
  /\ card = [at |-> "ready", runs |-> 0]

\* finishRun and moveCard: a run somebody else closed moves nothing.
EndRun(status) ==
  /\ run' = NoRun
  /\ card' = [card EXCEPT !.at = IF @ = "looping" THEN status ELSE @]
Fail == EndRun("needs_attention")
\* What an iteration leaves behind is only its counters.
NextIteration == [run EXCEPT !.pc = "top", !.last = FALSE, !.result = "ok", !.touched = FALSE,
                             !.wasDirty = FALSE, !.hadSignal = FALSE]
Goto(pc) == run' = [NextIteration EXCEPT !.pc = pc]
Live == card.at = "looping"

-----------------------------------------------------------------------------
(* Between runs.                                                           *)

\* A retry, or a resume after an interruption: a merge left in progress is
\* aborted, stale DONE files go, everything else in the worktree stays.
StartRun ==
  /\ run.pc = "idle" /\ card.at \in {"ready", "needs_attention"} /\ card.runs < MaxRuns
  /\ card' = [at |-> "looping", runs |-> card.runs + 1]
  /\ tree' = [tree EXCEPT !.merge = FALSE, !.dirty = @ /\ ~tree.merge, !.done = FALSE]
  /\ run' = [NoRun EXCEPT !.pc = "top", !.ticked = Ticked, !.length = Len(tasks)]
  /\ UNCHANGED tasks

\* A planning run replaces the checklist and commits only .ralph.
Replan ==
  /\ run.pc = "idle" /\ card.at \in {"needs_attention", "backlog"} /\ card.runs < MaxRuns
  /\ \E size \in PlanSizes : tasks' = Fresh(size)
  /\ card' = [card EXCEPT !.at = "ready"]
  /\ UNCHANGED <<tree, run>>

\* Another card's delivery moves the base branch.
BaseMoves ==
  /\ "conflict" \in LoopFaults /\ ~tree.behind
  /\ tree' = [tree EXCEPT !.behind = TRUE]
  /\ UNCHANGED <<tasks, run, card>>

Cancel ==
  /\ "cancel" \in LoopFaults /\ Live
  /\ card' = [card EXCEPT !.at = "backlog"]
  /\ UNCHANGED <<tasks, tree, run>>

\* The process dies; recover() or a reaper hands the card back.
Crash ==
  /\ "crash" \in LoopFaults /\ run.pc # "idle"
  /\ EndRun("ready")
  /\ UNCHANGED <<tasks, tree>>

-----------------------------------------------------------------------------
(* An iteration.                                                           *)

\* Preflight, breaker or sandbox says no; or the run is out of its time.
RefusedOrLate ==
  /\ run.pc = "top" /\ "unclean" \in LoopFaults
  /\ Fail /\ UNCHANGED <<tasks, tree>>

Exhausted ==
  /\ run.pc = "top" /\ (run.n = MaxIterations \/ Open = {})
  /\ Fail /\ UNCHANGED <<tasks, tree>>

Inject ==
  /\ run.pc = "top" /\ run.n < MaxIterations /\ Open # {}
  /\ run' = [run EXCEPT !.pc = "agent", !.n = @ + 1, !.idle = @ + 1,
                        !.last = Open = {FirstUnchecked},
                        !.wasDirty = tree.dirty \/ tree.merge,
                        !.hadSignal = tree.iterDone]
  /\ UNCHANGED <<tasks, tree, card>>

\* The agent edits, or not, and leaves any of the signal files; one that an
\* earlier iteration left is still there.  Commits of its own are left out.
AgentEnds ==
  /\ run.pc = "agent"
  /\ \E result \in Outcomes, touched, iterDone, done, blocked \in BOOLEAN :
       /\ run' = IF Live THEN [run EXCEPT !.pc = "after", !.result = result, !.touched = touched]
                         ELSE NoRun
       /\ tree' = [tree EXCEPT !.dirty = @ \/ touched, !.done = @ \/ done, !.blocked = @ \/ blocked,
                               !.iterDone = @ \/ iterDone]
  /\ UNCHANGED <<tasks, card>>

\* A process group survives the reap, or the worktree is on another branch.
Unclean ==
  /\ run.pc \in {"after", "done"} /\ "unclean" \in LoopFaults
  /\ Fail /\ UNCHANGED <<tasks, tree>>

\* Mutant of PrematureDone: a DONE counts whenever it is there.
AnyDone(files) == files

\* A DONE before the last task is removed unread.
PrematureDone(files) == [files EXCEPT !.done = @ /\ run.last]

Blocked ==
  /\ run.pc = "after" /\ tree.blocked
  /\ tree' = [tree EXCEPT !.blocked = FALSE, !.iterDone = FALSE, !.done = FALSE]
  /\ Fail /\ UNCHANGED tasks

\* markChecked on the first unchecked item.
Tick == IF Open = {} THEN tasks ELSE [tasks EXCEPT ![FirstUnchecked] = TRUE]

Committed(files) == [files EXCEPT !.dirty = FALSE, !.merge = FALSE]

\* performIterationBookkeeping: "none" without a signal, "phantom" for one
\* without work in the tree, else the task is ticked and all is committed.
Banked ==
  IF ~tree.iterDone \/ Open = {} THEN "none"
  ELSE IF run.wasDirty \/ tree.dirty \/ tree.merge THEN "advanced" ELSE "phantom"
BankTasks == IF Banked = "advanced" THEN Tick ELSE tasks
BankTree == LET files == [PrematureDone(tree) EXCEPT !.iterDone = FALSE] IN
            IF Banked = "advanced" THEN Committed(files) ELSE files

Unsignalled == IF Banked = "none" THEN run.unsignalled + 1 ELSE 0
\* Iterations that moved nothing; a leftover signal is not held against one.
Idle == IF Banked = "advanced" \/ run.hadSignal THEN 0 ELSE run.idle

Reading == run.pc = "after" /\ ~tree.blocked /\ ~PrematureDone(tree).done

TimedOut ==
  /\ Reading /\ run.result = "timeout"
  /\ tasks' = BankTasks /\ tree' = BankTree
  /\ IF run.timeouts >= 1 THEN Fail
     ELSE /\ run' = [NextIteration EXCEPT !.timeouts = @ + 1, !.unsignalled = Unsignalled,
                                !.stalls = IF Banked = "advanced" THEN 0 ELSE @, !.idle = Idle]
          /\ UNCHANGED card

\* A limit or configuration error, or no connection at the first iteration,
\* ends the run; what was signalled is not read.
Failed ==
  /\ Reading /\ run.result \in {"error", "fatal"}
  /\ tree' = PrematureDone(tree)
  /\ IF run.failures >= 2 \/ run.result = "fatal" THEN Fail
     ELSE /\ run' = [NextIteration EXCEPT !.failures = @ + 1]
          /\ UNCHANGED card
  /\ UNCHANGED tasks

\* buildProgressState before and after: edits, the checklist, and the signal
\* file itself if it was there before the iteration.
Progress == run.touched \/ Banked = "advanced" \/ run.hadSignal
Stalls == IF Progress THEN 0 ELSE run.stalls + 1

Ends ==
  /\ Reading /\ run.result = "ok"
  /\ tasks' = BankTasks /\ tree' = BankTree
  /\ \/ /\ (Banked = "none" /\ Unsignalled >= 2) \/ Stalls >= 3
        /\ Fail
     \/ /\ ~((Banked = "none" /\ Unsignalled >= 2) \/ Stalls >= 3)
        /\ run' = [NextIteration EXCEPT !.failures = 0, !.stalls = Stalls,
                              !.unsignalled = Unsignalled, !.idle = Idle]
        /\ UNCHANGED card

\* The install gate, prompt bloat, a pause or a drain stop it at this boundary.
Stopped ==
  /\ Reading /\ run.result = "ok" /\ "gate" \in LoopFaults
  /\ tasks' = BankTasks /\ tree' = BankTree
  /\ \E status \in {"needs_attention", "ready"} : EndRun(status)

-----------------------------------------------------------------------------
(* DONE: bookkeeping, then what stands between it and the evaluator.       *)

\* An ITERATION_DONE of the same iteration is consumed first; the DONE then
\* ticks what is left open, if anything, and commits.
Done ==
  /\ run.pc = "after" /\ ~tree.blocked /\ PrematureDone(tree).done
  /\ tasks' = LET first == BankTasks
                  left == {k \in 1..Len(first) : ~first[k]} IN
              IF left = {} THEN first
              ELSE [first EXCEPT ![CHOOSE k \in left : \A j \in left : k <= j] = TRUE]
  /\ tree' = LET files == [tree EXCEPT !.iterDone = FALSE] IN
             IF Open = {} THEN files ELSE Committed(files)
  /\ run' = [NextIteration EXCEPT !.pc = "done", !.idle = 0]
  /\ UNCHANGED card

\* Handed back to the loop as one more task, the signal cleared.
HandBack(repaired, rounds, merge) ==
  /\ tasks' = AppendTask(tasks)
  /\ tree' = [tree EXCEPT !.done = FALSE, !.merge = merge]
  /\ run' = [NextIteration EXCEPT !.repaired = repaired, !.rounds = rounds]
  /\ UNCHANGED card

\* A criterion's own check exits the wrong way and did not pass before.
ProbeFails ==
  /\ run.pc = "done" /\ "probe" \in LoopFaults /\ ~run.repaired
  /\ HandBack(TRUE, run.rounds, tree.merge)

ProbePasses ==
  /\ run.pc = "done" /\ Goto("sync") /\ UNCHANGED <<tasks, tree, card>>

\* syncWithBase, whose outcome is looked at only if the run is still live.
SyncClean ==
  /\ run.pc = "sync"
  /\ tree' = [tree EXCEPT !.behind = FALSE]
  /\ IF Live THEN Goto("gate") ELSE run' = NoRun
  /\ UNCHANGED <<tasks, card>>

\* Mutant of SyncConflicts: one round more than the limit.
SyncConflictsOnceMore ==
  /\ run.pc = "sync" /\ tree.behind
  /\ IF ~Live THEN /\ tree' = [tree EXCEPT !.merge = TRUE]
                   /\ run' = NoRun /\ UNCHANGED <<tasks, card>>
     ELSE IF run.rounds > MaxSyncGateRounds THEN Fail /\ UNCHANGED <<tasks, tree>>
     ELSE HandBack(run.repaired, run.rounds + 1, TRUE)

SyncConflicts ==
  /\ run.pc = "sync" /\ tree.behind
  /\ IF ~Live THEN /\ tree' = [tree EXCEPT !.merge = TRUE]
                   /\ run' = NoRun /\ UNCHANGED <<tasks, card>>
     ELSE IF run.rounds >= MaxSyncGateRounds THEN Fail /\ UNCHANGED <<tasks, tree>>
     ELSE HandBack(run.repaired, run.rounds + 1, TRUE)

SyncFails ==
  /\ run.pc = "sync" /\ tree.behind
  /\ Fail /\ UNCHANGED <<tasks, tree>>

GateFails ==
  /\ run.pc = "gate" /\ "gate" \in LoopFaults
  /\ IF ~Live THEN run' = NoRun /\ UNCHANGED <<tasks, tree, card>>
     ELSE IF run.rounds >= MaxSyncGateRounds THEN Fail /\ UNCHANGED <<tasks, tree>>
     ELSE HandBack(run.repaired, run.rounds + 1, tree.merge)

\* No gate, exit zero, or a gate that could not run: on to the evaluator.
HandOver ==
  /\ run.pc = "gate" /\ EndRun("evaluating") /\ UNCHANGED <<tasks, tree>>

\* The evaluator asks for a revision: a re-plan on top of the branch.
Revise ==
  /\ card.at = "evaluating" /\ run.pc = "idle"
  /\ card' = [card EXCEPT !.at = "backlog"]
  /\ tree' = [tree EXCEPT !.done = FALSE]
  /\ UNCHANGED <<tasks, run>>

LoopNext ==
  \/ StartRun \/ Replan \/ BaseMoves \/ Cancel \/ Crash
  \/ RefusedOrLate \/ Exhausted \/ Inject \/ AgentEnds \/ Unclean \/ Blocked
  \/ TimedOut \/ Failed \/ Ends \/ Stopped
  \/ Done \/ ProbeFails \/ ProbePasses
  \/ SyncClean \/ SyncConflicts \/ SyncFails \/ GateFails \/ HandOver \/ Revise

LoopSpec == LoopInit /\ [][LoopNext]_loopVars

-----------------------------------------------------------------------------
(* Properties.                                                             *)

\* A premature DONE never credits the next task (orchestrator.ts:2196): a run
\* has ticked no more tasks than it has had iterations, whatever files the
\* agent leaves and whichever bookkeeping reads them.
OneTickPerIteration == run.pc # "idle" => Ticked - run.ticked <= run.n

\* What reaches the evaluator is whole: no open task, no half-finished merge.
EvaluatedIsWhole == card.at = "evaluating" => Open = {} /\ ~tree.merge

\* The loop hands itself at most one repair and two sync-or-gate rounds per
\* run (spec 18 §7, spec 29), however cancels, failures and DONEs alternate.
RepairsAreBounded == run.pc # "idle" => Len(tasks) - run.length <= 1 + MaxSyncGateRounds

\* The counters of failures, stalls, timeouts and missing signals each reset
\* on something the others count, and still stop a run that gets nowhere long
\* before its iteration budget does.
WastedBound == 13
UnproductiveRunsStop == run.idle <= WastedBound
=============================================================================
