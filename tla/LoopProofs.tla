---------------------------- MODULE LoopProofs ------------------------------
(***************************************************************************)
(* What a loop run and the settings that every process reads keep, for     *)
(* any budgets, plans, faults, processes, edits and boots.                 *)
(***************************************************************************)
EXTENDS LoopRun, Settings, FiniteSetTheorems, WellFoundedInduction, TLAPS

(***************************************************************************)
(* The loop run: it ticks no more than it worked for, hands a whole card   *)
(* over, hands itself back a bounded number of times, and stops when it    *)
(* gets nowhere.                                                           *)
(***************************************************************************)

Budgets ==
  /\ MaxIterations \in Nat /\ MaxRuns \in Nat /\ PlanSizes \subseteq Nat

-----------------------------------------------------------------------------
(* The inductive invariant.                                                *)

Runs == [pc : {"idle", "top", "agent", "after", "done", "sync", "gate"}, n : 0..MaxIterations,
         last : BOOLEAN, result : Outcomes \cup {"ok"}, touched : BOOLEAN,
         failures : 0..2, stalls : 0..2, timeouts : 0..1, unsignalled : Nat,
         repaired : BOOLEAN, rounds : 0..MaxSyncGateRounds, wasDirty : BOOLEAN,
         hadSignal : BOOLEAN, idle : Nat, ticked : Nat, length : Nat]
Trees == [dirty : BOOLEAN, merge : BOOLEAN, behind : BOOLEAN,
          iterDone : BOOLEAN, done : BOOLEAN, blocked : BOOLEAN]
Cards == [at : {"ready", "looping", "needs_attention", "backlog", "evaluating"}, runs : 0..MaxRuns]

Typing == tasks \in Seq(BOOLEAN) /\ tree \in Trees /\ run \in Runs /\ card \in Cards

Working == run.pc \in {"agent", "after"}
Handing == run.pc \in {"done", "sync", "gate"}

\* While a run is live its card is at it, or was cancelled.
CardIsAtIt == run.pc # "idle" => card.at \in {"looping", "backlog"}

\* The iteration that is under way has ticked nothing yet.
TicksAreEarned ==
  run.pc # "idle" => Ticked - run.ticked <= IF Working THEN run.n - 1 ELSE run.n

\* An iteration has a task, its last one if it is marked so; past the last
\* nothing is open and nothing half merged.
TaskIsOpen ==
  /\ Working => Open # {} /\ (run.last => Open = {FirstUnchecked})
  /\ Handing => Open = {} /\ ~tree.merge
  /\ card.at = "evaluating" => Open = {} /\ ~tree.merge

\* Every task that was added is one of the repair or of a round.
AddedTasks ==
  run.pc # "idle" => Len(tasks) - run.length <= (IF run.repaired THEN 1 ELSE 0) + run.rounds

\* What idle iterations have used up: failures and the one time-out, thrice as
\* many for every stall; or the one iteration that edited and did not say so, and
\* its edits are still there.
Spent == run.failures + run.timeouts + (IF Working THEN 1 ELSE 0)
IdleIsCounted ==
  /\ \/ run.idle <= Spent + 3 * run.stalls
     \/ run.idle <= Spent + 9 /\ (tree.dirty \/ tree.merge) /\ run.unsignalled >= 1
  /\ run.pc \notin {"top", "agent", "after"} => run.idle = 0
  /\ run.pc = "after" /\ run.touched => tree.dirty

LInv ==
  /\ Typing /\ CardIsAtIt /\ TicksAreEarned /\ TaskIsOpen /\ AddedTasks /\ IdleIsCounted

-----------------------------------------------------------------------------
(* Checklists.                                                             *)

\* A nonempty set of positions has a first one.
LEMMA FirstExists ==
  ASSUME NEW n \in Nat, NEW S, S \subseteq 1..n, S # {}
  PROVE  \E x \in S : \A y \in S : x <= y
<1> DEFINE R == {ss \in Nat \X Nat : ss[1] < ss[2]}
<1>1. IsWellFoundedOn(R, Nat)
  BY NatLessThanWellFounded, Zenon DEF OpToRel
<1>2. S \subseteq Nat
  OBVIOUS
<1>3. PICK x \in S : \A y \in S : ~(<<y, x>> \in R)
  <2> HIDE DEF R
  <2> QED BY <1>1, <1>2, WFMin
<1>4. \A y \in S : x <= y
  <2> TAKE y \in S
  <2>1. y \in Nat /\ x \in Nat /\ <<y, x>> \notin R
    <3> HIDE DEF R
    <3> QED BY <1>2, <1>3
  <2>2. ~(y < x)
    BY <2>1
  <2> QED BY <2>1, <2>2
<1> QED BY <1>4

\* What is ticked, and what is open, in any checklist.
TicksOf(s) == Cardinality({k \in 1..Len(s) : s[k]})
OpenOf(s) == {k \in 1..Len(s) : ~s[k]}

LEMMA ListsNow ==
  /\ Ticked = TicksOf(tasks) /\ Ticked' = TicksOf(tasks')
  /\ Open = OpenOf(tasks) /\ Open' = OpenOf(tasks')
BY DEF Ticked, Open, TicksOf, OpenOf

LEMMA TicksAreCounted ==
  ASSUME NEW s \in Seq(BOOLEAN)
  PROVE  TicksOf(s) \in Nat /\ IsFiniteSet({k \in 1..Len(s) : s[k]})
<1>1. Len(s) \in Nat /\ {k \in 1..Len(s) : s[k]} \subseteq 1..Len(s)
  OBVIOUS
<1>2. IsFiniteSet(1..Len(s))
  BY <1>1, FS_Interval
<1>3. IsFiniteSet({k \in 1..Len(s) : s[k]})
  BY <1>1, <1>2, FS_Subset
<1> QED BY <1>3, FS_CardinalityType DEF TicksOf

LEMMA FirstIsOpen ==
  ASSUME tasks \in Seq(BOOLEAN), Open # {}
  PROVE  FirstUnchecked \in Open /\ \A j \in Open : FirstUnchecked <= j
<1>1. Len(tasks) \in Nat /\ Open \subseteq 1..Len(tasks)
  BY DEF Open
<1>2. \E k \in Open : \A j \in Open : k <= j
  BY <1>1, FirstExists
<1> QED BY <1>2 DEF FirstUnchecked

\* Ticking an open task.
LEMMA TickOne ==
  ASSUME NEW s \in Seq(BOOLEAN), NEW k \in OpenOf(s)
  PROVE  LET t == [s EXCEPT ![k] = TRUE] IN
         /\ t \in Seq(BOOLEAN) /\ Len(t) = Len(s)
         /\ TicksOf(t) = TicksOf(s) + 1 /\ OpenOf(t) = OpenOf(s) \ {k}
<1> DEFINE t == [s EXCEPT ![k] = TRUE]
<1>1. k \in 1..Len(s) /\ ~s[k] /\ Len(s) \in Nat
  BY DEF OpenOf
<1>2. t \in Seq(BOOLEAN) /\ Len(t) = Len(s)
  BY <1>1
<1>3. t[k] = TRUE /\ \A j \in 1..Len(s) : j # k => t[j] = s[j]
  BY <1>1
<1> HIDE DEF t
<1> DEFINE T == {j \in 1..Len(s) : s[j]}
<1>4. {j \in 1..Len(t) : t[j]} = T \cup {k}
  BY <1>1, <1>2, <1>3
<1>5. k \notin T /\ IsFiniteSet(T)
  BY <1>1, TicksAreCounted
<1>6. Cardinality(T \cup {k}) = Cardinality(T) + 1
  <2> HIDE DEF T
  <2> QED BY <1>5, FS_AddElement
<1>7. TicksOf(t) = TicksOf(s) + 1
  BY <1>4, <1>6 DEF TicksOf
<1>8. OpenOf(t) = OpenOf(s) \ {k}
  BY <1>1, <1>2, <1>3 DEF OpenOf
<1> QED BY <1>2, <1>7, <1>8 DEF t

\* Adding an open one.
LEMMA AppendOne ==
  ASSUME NEW s \in Seq(BOOLEAN)
  PROVE  /\ AppendTask(s) \in Seq(BOOLEAN) /\ Len(AppendTask(s)) = Len(s) + 1
         /\ TicksOf(AppendTask(s)) = TicksOf(s)
<1> DEFINE t == Append(s, FALSE)
<1>1. Len(s) \in Nat
  OBVIOUS
<1>2. t \in Seq(BOOLEAN) /\ Len(t) = Len(s) + 1
  OBVIOUS
<1>3. t[Len(s) + 1] = FALSE /\ \A j \in 1..Len(s) : t[j] = s[j]
  OBVIOUS
<1> HIDE DEF t
<1>4. {j \in 1..Len(t) : t[j]} = {j \in 1..Len(s) : s[j]}
  <2>1. \A j \in 1..Len(t) : j = Len(s) + 1 \/ j \in 1..Len(s)
    BY <1>1, <1>2
  <2>2. 1..Len(s) \subseteq 1..Len(t)
    BY <1>1, <1>2
  <2> QED BY <1>3, <2>1, <2>2, Zenon
<1>5. TicksOf(t) = TicksOf(s)
  BY <1>4 DEF TicksOf
<1> QED BY <1>2, <1>5 DEF t, AppendTask

LEMMA FreshPlan ==
  ASSUME NEW size \in Nat
  PROVE  Fresh(size) \in Seq(BOOLEAN)
<1>1. Fresh(size) \in [1..size -> BOOLEAN]
  BY DEF Fresh
<1> QED BY <1>1

-----------------------------------------------------------------------------
(* Between two iterations.                                                 *)

LEMMA Typed ==
  ASSUME LInv
  PROVE  /\ tasks \in Seq(BOOLEAN) /\ Len(tasks) \in Nat /\ tree \in Trees
         /\ run \in Runs /\ card \in Cards
BY DEF LInv, Typing

LEMMA NoRunIs ==
  ASSUME Budgets
  PROVE  /\ NoRun \in Runs /\ NoRun.pc = "idle" /\ NoRun.idle = 0
         /\ NoRun.n = 0 /\ NoRun.failures = 0 /\ NoRun.timeouts = 0 /\ NoRun.stalls = 0
         /\ NoRun.rounds = 0 /\ NoRun.repaired = FALSE
BY DEF Budgets, NoRun, Runs, MaxSyncGateRounds

LEMMA NextIs ==
  ASSUME run \in Runs
  PROVE  /\ NextIteration \in Runs /\ NextIteration.pc = "top"
         /\ \A f \in {"n", "failures", "stalls", "timeouts", "unsignalled", "repaired",
                      "rounds", "idle", "ticked", "length"} : NextIteration[f] = run[f]
BY DEF NextIteration, Runs

LEMMA BankedIs ==
  ASSUME Typing, Open # {}
  PROVE  /\ BankTasks \in Seq(BOOLEAN) /\ Len(BankTasks) = Len(tasks)
         /\ TicksOf(BankTasks) <= TicksOf(tasks) + 1
         /\ BankTree \in Trees
         /\ Banked \in {"none", "phantom", "advanced"}
         /\ Banked # "advanced" => BankTree.dirty = tree.dirty /\ BankTree.merge = tree.merge
         /\ Banked = "phantom" => ~tree.dirty /\ ~tree.merge
<1>1. FirstUnchecked \in OpenOf(tasks)
  BY FirstIsOpen, ListsNow DEF Typing
<1>2. Tick = [tasks EXCEPT ![FirstUnchecked] = TRUE]
  BY DEF Tick
<1>3. TicksOf(tasks) \in Nat
  BY TicksAreCounted DEF Typing
<1>4. BankTasks \in Seq(BOOLEAN) /\ Len(BankTasks) = Len(tasks)
      /\ TicksOf(BankTasks) <= TicksOf(tasks) + 1
  <2>1. CASE Banked = "advanced"
    <3>1. BankTasks = [tasks EXCEPT ![FirstUnchecked] = TRUE]
      BY <1>2, <2>1 DEF BankTasks
    <3>2. /\ [tasks EXCEPT ![FirstUnchecked] = TRUE] \in Seq(BOOLEAN)
          /\ Len([tasks EXCEPT ![FirstUnchecked] = TRUE]) = Len(tasks)
          /\ TicksOf([tasks EXCEPT ![FirstUnchecked] = TRUE]) = TicksOf(tasks) + 1
      BY <1>1, TickOne, Zenon DEF Typing
    <3> QED BY <1>3, <3>1, <3>2
  <2>2. CASE Banked # "advanced"
    BY <1>3, <2>2 DEF BankTasks, Typing
  <2> QED BY <2>1, <2>2
<1>5. Banked \in {"none", "phantom", "advanced"} /\ (Banked = "phantom" => ~tree.dirty /\ ~tree.merge)
  BY DEF Banked
<1> DEFINE p == PrematureDone(tree)
<1>6. p \in Trees /\ p.dirty = tree.dirty /\ p.merge = tree.merge
  BY DEF PrematureDone, Trees, Typing, Runs
<1> DEFINE q == [p EXCEPT !.iterDone = FALSE]
<1>7. q \in Trees /\ q.dirty = tree.dirty /\ q.merge = tree.merge
  <2> HIDE DEF p
  <2> QED BY <1>6 DEF Trees
<1>8. Committed(q) \in Trees
  <2> HIDE DEF q
  <2> QED BY <1>7 DEF Trees, Committed
<1>9. BankTree = IF Banked = "advanced" THEN Committed(q) ELSE q
  BY Zenon DEF BankTree
<1> HIDE DEF q, p
<1>10. BankTree \in Trees
       /\ (Banked # "advanced" => BankTree.dirty = tree.dirty /\ BankTree.merge = tree.merge)
  BY <1>7, <1>8, <1>9
<1> QED BY <1>4, <1>5, <1>10

\* A step that ends the run.
LEMMA EndingKeeps ==
  ASSUME Budgets, LInv, run' = NoRun, tasks' \in Seq(BOOLEAN), tree' \in Trees, card' \in Cards,
         card'.at = "evaluating" => OpenOf(tasks') = {} /\ ~tree'.merge
  PROVE  LInv'
<1>1. run' \in Runs /\ run'.pc = "idle" /\ run'.idle = 0
  BY NoRunIs
<1>2. Typing'
  BY <1>1 DEF Typing
<1>3. CardIsAtIt' /\ TicksAreEarned' /\ AddedTasks'
  BY <1>1 DEF CardIsAtIt, TicksAreEarned, AddedTasks
<1>4. TaskIsOpen'
  BY <1>1, ListsNow DEF TaskIsOpen, Working, Handing
<1>5. IdleIsCounted'
  <2>1. Spent' \in Nat /\ run'.stalls \in Nat
    BY <1>1 DEF Spent, Runs, Working
  <2> DEFINE p == Spent'
  <2>2. run'.idle <= p + 3 * run'.stalls
    <3>1. p \in Nat
      BY <2>1
    <3> HIDE DEF p
    <3> QED BY <1>1, <2>1, <3>1
  <2> QED BY <1>1, <2>2 DEF IdleIsCounted
<1> QED BY <1>2, <1>3, <1>4, <1>5 DEF LInv

LEMMA EndRunIs ==
  ASSUME Budgets, LInv, run.pc # "idle", NEW status \in {"ready", "needs_attention", "evaluating"},
         EndRun(status)
  PROVE  /\ run' = NoRun /\ card' \in Cards
         /\ card'.at = "evaluating" => status = "evaluating"
<1>1. card \in Cards /\ card.at \in {"looping", "backlog"}
  BY DEF LInv, Typing, CardIsAtIt
<1>2. run' = NoRun /\ card' = [card EXCEPT !.at = IF @ = "looping" THEN status ELSE @]
  BY DEF EndRun
<1>3. card' \in Cards /\ card'.at = IF card.at = "looping" THEN status ELSE card.at
  BY <1>1, <1>2 DEF Cards
<1> QED BY <1>1, <1>2, <1>3

\* A step that fails the run, or gives it back.
LEMMA StopKeeps ==
  ASSUME Budgets, LInv, run.pc # "idle", NEW status \in {"ready", "needs_attention"},
         EndRun(status), tasks' \in Seq(BOOLEAN), tree' \in Trees
  PROVE  LInv'
<1>1. run' = NoRun /\ card' \in Cards /\ card'.at # "evaluating"
  BY EndRunIs
<1> QED BY <1>1, EndingKeeps

\* A step that goes on to the next iteration.
LEMMA GoesOnKeeps ==
  ASSUME Budgets, LInv, run.pc = "after", UNCHANGED card,
         tasks' \in Seq(BOOLEAN), Len(tasks') = Len(tasks), TicksOf(tasks') <= TicksOf(tasks) + 1,
         tree' \in Trees,
         run' \in Runs, run'.pc = "top", run'.n = run.n, run'.ticked = run.ticked,
         run'.length = run.length, run'.repaired = run.repaired, run'.rounds = run.rounds,
         \/ run'.idle <= run'.failures + run'.timeouts + 3 * run'.stalls
         \/ /\ run'.idle <= run'.failures + run'.timeouts + 9
            /\ tree'.dirty \/ tree'.merge
            /\ run'.unsignalled >= 1
  PROVE  LInv'
<1>1. Typing' /\ CardIsAtIt'
  BY DEF LInv, Typing, CardIsAtIt
<1>2. TicksAreEarned'
  <2>1. TicksOf(tasks) - run.ticked <= run.n - 1
    BY ListsNow DEF LInv, TicksAreEarned, Working
  <2>2. TicksOf(tasks) \in Nat /\ TicksOf(tasks') \in Nat
    BY Typed, TicksAreCounted
  <2>5. run.ticked \in Nat /\ run.n \in Int
    BY Typed DEF Runs, Budgets
  <2>3. TicksOf(tasks') - run'.ticked <= run'.n
    BY <2>1, <2>2, <2>5
  <2>4. ~Working'
    BY DEF Working
  <2> QED BY <2>3, <2>4, ListsNow DEF TicksAreEarned
<1>3. TaskIsOpen'
  BY DEF LInv, CardIsAtIt, TaskIsOpen, Working, Handing
<1>4. AddedTasks'
  BY DEF LInv, AddedTasks
<1>5. IdleIsCounted'
  <2> DEFINE p == Spent'
  <2>1. p = run'.failures + run'.timeouts
    BY DEF Spent, Working, Runs
  <2>2. \/ run'.idle <= p + 3 * run'.stalls
        \/ run'.idle <= p + 9 /\ (tree'.dirty \/ tree'.merge) /\ run'.unsignalled >= 1
    <3> HIDE DEF p
    <3> QED BY <2>1
  <2> QED BY <2>2 DEF IdleIsCounted
<1> QED BY <1>1, <1>2, <1>3, <1>4, <1>5 DEF LInv

-----------------------------------------------------------------------------
(* Every step keeps the invariant.                                         *)

LEMMA InitInv == ASSUME Budgets, LoopInit PROVE LInv
<1>1. PICK size \in PlanSizes : tasks = Fresh(size)
  BY DEF LoopInit
<1>2. tasks \in Seq(BOOLEAN)
  BY <1>1, FreshPlan DEF Budgets
<1>3. tree \in Trees /\ card \in Cards /\ card.at = "ready"
  BY DEF LoopInit, Trees, Cards, Budgets
<1>4. run \in Runs /\ run.pc = "idle" /\ run.idle = 0 /\ run.stalls = 0
      /\ run.failures = 0 /\ run.timeouts = 0
  BY NoRunIs DEF LoopInit, NoRun
<1>5. Typing
  BY <1>2, <1>3, <1>4 DEF Typing
<1>6. CardIsAtIt /\ TicksAreEarned /\ AddedTasks /\ TaskIsOpen
  BY <1>3, <1>4 DEF CardIsAtIt, TicksAreEarned, AddedTasks, TaskIsOpen, Working, Handing
<1>7. IdleIsCounted
  BY <1>4 DEF IdleIsCounted, Spent, Working
<1> QED BY <1>5, <1>6, <1>7 DEF LInv

LEMMA StartRunKeeps == ASSUME Budgets, LInv, StartRun PROVE LInv'
<1>1. /\ card.at \in {"ready", "needs_attention"} /\ card.runs < MaxRuns
      /\ card' = [at |-> "looping", runs |-> card.runs + 1]
      /\ tree' = [tree EXCEPT !.merge = FALSE, !.dirty = @ /\ ~tree.merge, !.done = FALSE]
      /\ run' = [NoRun EXCEPT !.pc = "top", !.ticked = Ticked, !.length = Len(tasks)]
      /\ tasks' = tasks
  BY DEF StartRun
<1>2. Ticked \in Nat /\ Ticked' = Ticked
  BY Typed, TicksAreCounted, ListsNow, <1>1
<1>3. card' \in Cards /\ card'.at = "looping"
  BY <1>1, Typed DEF Cards, Budgets
<1>4. tree' \in Trees
  BY <1>1, Typed DEF Trees
<1>5. /\ run' \in Runs /\ run'.pc = "top" /\ run'.n = 0 /\ run'.idle = 0 /\ run'.failures = 0
      /\ run'.timeouts = 0 /\ run'.stalls = 0 /\ run'.ticked = Ticked /\ run'.length = Len(tasks)
      /\ run'.rounds = 0 /\ run'.repaired = FALSE
  BY <1>1, <1>2, Typed, NoRunIs DEF Runs
<1>6. Typing'
  BY <1>1, <1>3, <1>4, <1>5, Typed DEF Typing
<1>7. CardIsAtIt' /\ TicksAreEarned' /\ AddedTasks' /\ TaskIsOpen'
  BY <1>1, <1>2, <1>3, <1>5, Typed
     DEF CardIsAtIt, TicksAreEarned, AddedTasks, TaskIsOpen, Working, Handing
<1>8. IdleIsCounted'
  BY <1>5 DEF IdleIsCounted, Spent, Working
<1> QED BY <1>6, <1>7, <1>8 DEF LInv

\* Between runs and beside them: the card, the plan or the base moves.
LEMMA RestingKeeps ==
  ASSUME Budgets, LInv, run.pc = "idle", UNCHANGED run, tasks' \in Seq(BOOLEAN), tree' \in Trees,
         card' \in Cards, card'.at # "evaluating"
  PROVE  LInv'
<1>1. Typing'
  BY Typed DEF Typing
<1>2. CardIsAtIt' /\ TicksAreEarned' /\ AddedTasks' /\ TaskIsOpen'
  BY DEF CardIsAtIt, TicksAreEarned, AddedTasks, TaskIsOpen, Working, Handing
<1>3. run.idle = 0
  BY DEF LInv, IdleIsCounted
<1>4. Spent \in Nat /\ run.stalls \in Nat /\ ~Working
  BY Typed DEF Spent, Runs, Working
<1>5. Spent' = Spent
  BY DEF Spent, Working
<1>6. IdleIsCounted'
  <2>1. run'.idle <= Spent' + 3 * run'.stalls
    BY <1>3, <1>4, <1>5
  <2> QED BY <1>3, <2>1 DEF IdleIsCounted
<1> QED BY <1>1, <1>2, <1>6 DEF LInv

LEMMA ReplanKeeps == ASSUME Budgets, LInv, Replan PROVE LInv'
<1>1. run.pc = "idle" /\ UNCHANGED <<tree, run>> /\ card' = [card EXCEPT !.at = "ready"]
  BY DEF Replan
<1>2. tasks' \in Seq(BOOLEAN)
  BY FreshPlan DEF Replan, Budgets
<1>3. card' \in Cards /\ card'.at = "ready"
  BY <1>1, Typed DEF Cards
<1> QED BY <1>1, <1>2, <1>3, Typed, RestingKeeps

LEMMA ReviseKeeps == ASSUME Budgets, LInv, Revise PROVE LInv'
<1>1. /\ run.pc = "idle" /\ UNCHANGED <<tasks, run>> /\ card' = [card EXCEPT !.at = "backlog"]
      /\ tree' = [tree EXCEPT !.done = FALSE]
  BY DEF Revise
<1>2. card' \in Cards /\ card'.at = "backlog" /\ tree' \in Trees
  BY <1>1, Typed DEF Cards, Trees
<1> QED BY <1>1, <1>2, Typed, RestingKeeps

\* The base moves, or the card is cancelled under the run.
LEMMA BesideKeeps ==
  ASSUME Budgets, LInv, UNCHANGED <<tasks, run>>, tree' \in Trees,
         tree'.merge = tree.merge, tree'.dirty = tree.dirty,
         card' \in Cards, card'.at = card.at \/ (card.at = "looping" /\ card'.at = "backlog")
  PROVE  LInv'
<1>1. Typing' /\ CardIsAtIt'
  BY Typed DEF LInv, Typing, CardIsAtIt
<1>2. TicksAreEarned' /\ AddedTasks'
  BY ListsNow DEF LInv, TicksAreEarned, AddedTasks, Working
<1>3. FirstUnchecked' = FirstUnchecked /\ Open' = Open
  BY DEF FirstUnchecked, Open
<1>4. TaskIsOpen'
  BY <1>3 DEF LInv, TaskIsOpen, Working, Handing
<1>5. Spent' = Spent
  BY DEF Spent, Working
<1>6. IdleIsCounted'
  BY <1>5 DEF LInv, IdleIsCounted
<1> QED BY <1>1, <1>2, <1>4, <1>6 DEF LInv

LEMMA BaseMovesKeeps == ASSUME Budgets, LInv, BaseMoves PROVE LInv'
<1>1. tree' = [tree EXCEPT !.behind = TRUE] /\ UNCHANGED <<tasks, run, card>>
  BY DEF BaseMoves
<1>2. tree' \in Trees /\ tree'.merge = tree.merge /\ tree'.dirty = tree.dirty
  BY <1>1, Typed DEF Trees
<1>3. card' \in Cards /\ card'.at = card.at
  BY <1>1, Typed
<1>4. UNCHANGED <<tasks, run>>
  BY <1>1
<1> QED BY <1>2, <1>3, <1>4, BesideKeeps

LEMMA CancelKeeps == ASSUME Budgets, LInv, Cancel PROVE LInv'
<1>1. card' = [card EXCEPT !.at = "backlog"] /\ UNCHANGED <<tasks, tree, run>>
      /\ card.at = "looping"
  BY DEF Cancel, Live
<1>2. card' \in Cards /\ card'.at = "backlog"
  BY <1>1, Typed DEF Cards
<1> QED BY <1>1, <1>2, Typed, BesideKeeps

LEMMA CrashKeeps == ASSUME Budgets, LInv, Crash PROVE LInv'
BY Typed, StopKeeps DEF Crash

LEMMA RefusedOrLateKeeps == ASSUME Budgets, LInv, RefusedOrLate PROVE LInv'
BY Typed, StopKeeps DEF RefusedOrLate, Fail

LEMMA ExhaustedKeeps == ASSUME Budgets, LInv, Exhausted PROVE LInv'
BY Typed, StopKeeps DEF Exhausted, Fail

LEMMA UncleanKeeps == ASSUME Budgets, LInv, Unclean PROVE LInv'
BY Typed, StopKeeps DEF Unclean, Fail

LEMMA SyncFailsKeeps == ASSUME Budgets, LInv, SyncFails PROVE LInv'
BY Typed, StopKeeps DEF SyncFails, Fail

LEMMA BlockedKeeps == ASSUME Budgets, LInv, Blocked PROVE LInv'
<1>1. tree' \in Trees
  BY Typed DEF Blocked, Trees
<1> QED BY <1>1, Typed, StopKeeps DEF Blocked, Fail

LEMMA HandOverKeeps == ASSUME Budgets, LInv, HandOver PROVE LInv'
<1>1. run.pc = "gate" /\ EndRun("evaluating") /\ UNCHANGED <<tasks, tree>>
  BY DEF HandOver
<1>2. Open = {} /\ ~tree.merge
  BY <1>1 DEF LInv, TaskIsOpen, Handing
<1>3. run' = NoRun /\ card' \in Cards
  BY <1>1, EndRunIs
<1> QED BY <1>1, <1>2, <1>3, Typed, ListsNow, EndingKeeps

\* The iteration begins, and its agent ends.
LEMMA InjectKeeps == ASSUME Budgets, LInv, Inject PROVE LInv'
<1>1. /\ run.pc = "top" /\ run.n < MaxIterations /\ Open # {} /\ UNCHANGED <<tasks, tree, card>>
      /\ run' = [run EXCEPT !.pc = "agent", !.n = @ + 1, !.idle = @ + 1,
                            !.last = Open = {FirstUnchecked},
                            !.wasDirty = tree.dirty \/ tree.merge,
                            !.hadSignal = tree.iterDone]
  BY DEF Inject
<1> DEFINE l == Open = {FirstUnchecked}
           d == tree.dirty \/ tree.merge
           h == tree.iterDone
           n == run.n + 1
           i == run.idle + 1
<1>2. l \in BOOLEAN /\ d \in BOOLEAN /\ h \in BOOLEAN
  BY Typed DEF Trees
<1>3. run' = [run EXCEPT !.pc = "agent", !.n = n, !.idle = i, !.last = l,
                         !.wasDirty = d, !.hadSignal = h]
  BY <1>1
<1>4. run.n \in Int /\ run.n + 1 \in 0..MaxIterations /\ run.idle \in Nat
  BY <1>1, Typed DEF Runs, Budgets
<1>13. n \in 0..MaxIterations /\ i \in Nat
  BY <1>4
<1>5. /\ run' \in Runs /\ run'.pc = "agent" /\ run'.n = n /\ run'.idle = i
      /\ run'.last = l /\ run'.failures = run.failures /\ run'.stalls = run.stalls
      /\ run'.timeouts = run.timeouts /\ run'.unsignalled = run.unsignalled
      /\ run'.repaired = run.repaired /\ run'.rounds = run.rounds
      /\ run'.ticked = run.ticked /\ run'.length = run.length
  <2> HIDE DEF l, d, h, n, i
  <2> QED BY <1>2, <1>3, <1>13, Typed DEF Runs
<1>6. Typing' /\ CardIsAtIt'
  BY <1>1, <1>5, Typed DEF LInv, Typing, CardIsAtIt
<1>7. Working' /\ ~Handing' /\ ~Working
  BY <1>1, <1>5 DEF Working, Handing
<1>8. Ticked \in Nat /\ Ticked' = Ticked /\ run.ticked \in Nat
  BY <1>1, Typed, TicksAreCounted, ListsNow DEF Runs
<1>9. TicksAreEarned'
  <2>1. Ticked - run.ticked <= run.n
    BY <1>1, <1>7 DEF LInv, TicksAreEarned
  <2>2. Ticked' - run'.ticked <= run'.n - 1
    BY <1>4, <1>5, <1>8, <2>1
  <2> QED BY <1>7, <2>2 DEF TicksAreEarned
<1>10. TaskIsOpen'
  <2>1. Open' = Open /\ FirstUnchecked' = FirstUnchecked
    BY <1>1 DEF Open, FirstUnchecked
  <2>2. card'.at # "evaluating"
    BY <1>1 DEF LInv, CardIsAtIt
  <2> QED BY <1>1, <1>5, <1>7, <2>1, <2>2 DEF TaskIsOpen
<1>11. AddedTasks'
  BY <1>1, <1>5 DEF LInv, AddedTasks
<1>12. IdleIsCounted'
  <2> DEFINE p == Spent'
             q == Spent
  <2>1. q \in Nat /\ p = q + 1
    BY <1>5, <1>7, Typed DEF Spent, Runs
  <2>2. \/ run.idle <= q + 3 * run.stalls
        \/ run.idle <= q + 9 /\ (tree.dirty \/ tree.merge) /\ run.unsignalled >= 1
    BY DEF LInv, IdleIsCounted
  <2>3. \/ run'.idle <= p + 3 * run'.stalls
        \/ run'.idle <= p + 9 /\ (tree'.dirty \/ tree'.merge) /\ run'.unsignalled >= 1
    <3>1. run.stalls \in Nat
      BY Typed DEF Runs
    <3> HIDE DEF p, q
    <3> QED BY <1>1, <1>4, <1>5, <2>1, <2>2, <3>1
  <2> QED BY <1>5, <2>3 DEF IdleIsCounted
<1> QED BY <1>6, <1>9, <1>10, <1>11, <1>12 DEF LInv

LEMMA AgentEndsKeeps == ASSUME Budgets, LInv, AgentEnds PROVE LInv'
<1>1. PICK result \in Outcomes, touched \in BOOLEAN, iterDone \in BOOLEAN, done \in BOOLEAN,
           blocked \in BOOLEAN :
        /\ run' = IF Live THEN [run EXCEPT !.pc = "after", !.result = result, !.touched = touched]
                          ELSE NoRun
        /\ tree' = [tree EXCEPT !.dirty = @ \/ touched, !.done = @ \/ done,
                                !.blocked = @ \/ blocked, !.iterDone = @ \/ iterDone]
  BY DEF AgentEnds
<1>2. run.pc = "agent" /\ UNCHANGED <<tasks, card>>
  BY DEF AgentEnds
<1>3. /\ tree' \in Trees /\ (tree.dirty => tree'.dirty) /\ (touched => tree'.dirty)
      /\ tree'.merge = tree.merge
  BY <1>1, Typed DEF Trees
<1>4. card'.at # "evaluating"
  BY <1>2 DEF LInv, CardIsAtIt
<1>5. CASE ~Live
  BY <1>1, <1>2, <1>3, <1>4, <1>5, Typed, EndingKeeps
<1>6. CASE Live
  <2>1. run' = [run EXCEPT !.pc = "after", !.result = result, !.touched = touched]
    BY <1>1, <1>6
  <2>2. /\ run' \in Runs /\ run'.pc = "after" /\ run'.touched = touched /\ run'.n = run.n
        /\ run'.idle = run.idle /\ run'.last = run.last /\ run'.failures = run.failures
        /\ run'.stalls = run.stalls /\ run'.timeouts = run.timeouts
        /\ run'.unsignalled = run.unsignalled /\ run'.repaired = run.repaired
        /\ run'.rounds = run.rounds /\ run'.ticked = run.ticked /\ run'.length = run.length
    BY <2>1, Typed DEF Runs
  <2>3. Typing' /\ CardIsAtIt'
    BY <1>2, <1>3, <2>2, Typed DEF LInv, Typing, CardIsAtIt
  <2>4. Working' /\ ~Handing' /\ Working
    BY <1>2, <2>2 DEF Working, Handing
  <2>5. Ticked' = Ticked /\ Open' = Open /\ FirstUnchecked' = FirstUnchecked
    BY <1>2 DEF Ticked, Open, FirstUnchecked
  <2>6. TicksAreEarned' /\ AddedTasks'
    BY <1>2, <2>2, <2>4, <2>5 DEF LInv, TicksAreEarned, AddedTasks
  <2>7. TaskIsOpen'
    BY <1>4, <2>2, <2>4, <2>5 DEF LInv, TaskIsOpen
  <2>8. Spent' = Spent
    BY <2>2, <2>4 DEF Spent
  <2>9. IdleIsCounted'
    BY <1>3, <2>2, <2>8 DEF LInv, IdleIsCounted
  <2> QED BY <2>3, <2>6, <2>7, <2>9 DEF LInv
<1> QED BY <1>5, <1>6

-----------------------------------------------------------------------------
(* What the loop reads once its agent has ended.                           *)

\* The iteration has used up its share of what the counters allow.
LEMMA ReadingIs ==
  ASSUME Budgets, LInv, Reading
  PROVE  /\ run.pc = "after" /\ Open # {} /\ Working
         /\ run.idle \in Nat /\ run.failures \in 0..2 /\ run.timeouts \in 0..1
         /\ run.stalls \in 0..2 /\ run.unsignalled \in Nat
         /\ run.touched => tree.dirty
         /\ \/ run.idle <= run.failures + run.timeouts + 1 + 3 * run.stalls
            \/ /\ run.idle <= run.failures + run.timeouts + 10
               /\ tree.dirty \/ tree.merge
               /\ run.unsignalled >= 1
<1>1. run.pc = "after" /\ Working
  BY DEF Reading, Working
<1>2. Open # {} /\ (run.touched => tree.dirty)
  BY <1>1 DEF LInv, TaskIsOpen, IdleIsCounted
<1>3. /\ run.idle \in Nat /\ run.failures \in 0..2 /\ run.timeouts \in 0..1
      /\ run.stalls \in 0..2 /\ run.unsignalled \in Nat
  BY Typed DEF Runs
<1>4. Spent = run.failures + run.timeouts + 1
  BY <1>1 DEF Spent
<1>5. \/ run.idle <= Spent + 3 * run.stalls
      \/ run.idle <= Spent + 9 /\ (tree.dirty \/ tree.merge) /\ run.unsignalled >= 1
  BY DEF LInv, IdleIsCounted
<1> QED BY <1>1, <1>2, <1>3, <1>4, <1>5

\* What a banked iteration leaves of its counters.
LEMMA CountersAre ==
  ASSUME Budgets, LInv, Reading
  PROVE  /\ Unsignalled \in Nat /\ (Banked = "none" => Unsignalled >= 1)
         /\ Idle \in Nat /\ Idle <= run.idle
         /\ Banked = "advanced" => Idle = 0
         /\ Banked = "none" => Unsignalled = run.unsignalled + 1
         /\ run.hadSignal => Idle = 0
         /\ Stalls \in 0..3
<1>1. run.idle \in Nat /\ run.unsignalled \in Nat /\ run.stalls \in 0..2
  BY ReadingIs
<1>2. Stalls \in 0..3
  BY <1>1 DEF Stalls
<1>3. Idle \in Nat /\ Idle <= run.idle /\ (Banked = "advanced" => Idle = 0)
      /\ (run.hadSignal => Idle = 0)
  BY <1>1 DEF Idle
<1>4. Unsignalled \in Nat /\ (Banked = "none" => Unsignalled = run.unsignalled + 1)
  BY <1>1 DEF Unsignalled
<1> QED BY <1>1, <1>2, <1>3, <1>4

LEMMA TimedOutKeeps == ASSUME Budgets, LInv, TimedOut PROVE LInv'
<1>1. Reading /\ tasks' = BankTasks /\ tree' = BankTree
  BY DEF TimedOut
<1>2. run.pc = "after" /\ Open # {}
  BY <1>1, ReadingIs
<1>3. /\ tasks' \in Seq(BOOLEAN) /\ Len(tasks') = Len(tasks)
      /\ TicksOf(tasks') <= TicksOf(tasks) + 1 /\ tree' \in Trees
      /\ Banked \in {"none", "phantom", "advanced"}
      /\ Banked # "advanced" => tree'.dirty = tree.dirty /\ tree'.merge = tree.merge
      /\ Banked = "phantom" => ~tree.dirty /\ ~tree.merge
  BY <1>1, <1>2, BankedIs DEF LInv
<1>4. CASE Fail
  BY <1>2, <1>3, <1>4, StopKeeps DEF Fail
<1>5. ASSUME run.timeouts < 1, UNCHANGED card,
             run' = [NextIteration EXCEPT !.timeouts = @ + 1, !.unsignalled = Unsignalled,
                                !.stalls = IF Banked = "advanced" THEN 0 ELSE @, !.idle = Idle]
      PROVE  LInv'
  <2> DEFINE b == NextIteration
             t == b.timeouts + 1
             s == IF Banked = "advanced" THEN 0 ELSE b.stalls
             u == Unsignalled
             i == Idle
  <2>1. /\ b \in Runs /\ b.pc = "top" /\ b.n = run.n /\ b.ticked = run.ticked
        /\ b.length = run.length /\ b.repaired = run.repaired /\ b.rounds = run.rounds
        /\ b.failures = run.failures /\ b.timeouts = run.timeouts /\ b.stalls = run.stalls
    BY Typed, NextIs
  <2>2. u \in Nat /\ i \in Nat /\ s \in 0..2 /\ t = 1
        /\ run.timeouts = 0 /\ s = IF Banked = "advanced" THEN 0 ELSE run.stalls
    <3> HIDE DEF b
    <3> QED BY <1>1, <1>5, <2>1, ReadingIs, CountersAre
  <2>3. run' = [b EXCEPT !.timeouts = t, !.unsignalled = u, !.stalls = s, !.idle = i]
    BY <1>5
  <2>4. /\ run' \in Runs /\ run'.pc = "top" /\ run'.n = run.n /\ run'.ticked = run.ticked
        /\ run'.length = run.length /\ run'.repaired = run.repaired /\ run'.rounds = run.rounds
        /\ run'.failures = run.failures /\ run'.timeouts = 1 /\ run'.stalls = s
        /\ run'.unsignalled = u /\ run'.idle = i
    <3> DEFINE r == [b EXCEPT !.timeouts = t, !.unsignalled = u, !.stalls = s, !.idle = i]
    <3>2. b \in Runs /\ u \in Nat /\ i \in Nat /\ s \in 0..2 /\ t \in 0..1
      BY <2>1, <2>2
    <3>3. run' = r
      BY <2>3
    <3> HIDE DEF t, s, u, i, b
    <3>4. /\ r \in Runs /\ r.timeouts = t /\ r.unsignalled = u /\ r.stalls = s
          /\ r.idle = i /\ r.pc = b.pc /\ r.n = b.n /\ r.ticked = b.ticked
          /\ r.length = b.length /\ r.repaired = b.repaired /\ r.rounds = b.rounds
          /\ r.failures = b.failures
      BY <3>2 DEF Runs
    <3> HIDE DEF r
    <3> QED BY <2>1, <2>2, <3>3, <3>4
  <2>5. \/ run'.idle <= run'.failures + run'.timeouts + 3 * run'.stalls
        \/ /\ run'.idle <= run'.failures + run'.timeouts + 9
           /\ tree'.dirty \/ tree'.merge
           /\ run'.unsignalled >= 1
    <3>1. CASE Banked = "advanced"
      BY <1>1, <2>4, <3>1, ReadingIs, CountersAre
    <3>2. CASE Banked = "phantom"
      BY <1>1, <1>3, <2>2, <2>4, <3>2, ReadingIs, CountersAre
    <3>3. CASE Banked = "none"
      BY <1>1, <1>3, <2>2, <2>4, <3>3, ReadingIs, CountersAre
    <3> QED BY <1>3, <3>1, <3>2, <3>3
  <2> QED BY <1>2, <1>3, <1>5, <2>4, <2>5, GoesOnKeeps
<1>6. run.timeouts \in 0..1
  BY <1>1, ReadingIs
<1> QED BY <1>4, <1>5, <1>6 DEF TimedOut

LEMMA FailedKeeps == ASSUME Budgets, LInv, Failed PROVE LInv'
<1>1. Reading /\ tree' = PrematureDone(tree) /\ UNCHANGED tasks
  BY DEF Failed
<1>2. run.pc = "after"
  BY <1>1, ReadingIs
<1>3. tree' \in Trees /\ tree'.dirty = tree.dirty /\ tree'.merge = tree.merge
  BY <1>1, Typed DEF PrematureDone, Trees, Runs
<1>4. CASE Fail
  BY <1>1, <1>2, <1>3, <1>4, Typed, StopKeeps DEF Fail
<1>5. ASSUME run.failures < 2, UNCHANGED card, run' = [NextIteration EXCEPT !.failures = @ + 1]
      PROVE  LInv'
  <2> DEFINE b == NextIteration
             f == b.failures + 1
  <2>1. /\ b \in Runs /\ b.pc = "top" /\ b.n = run.n /\ b.ticked = run.ticked
        /\ b.length = run.length /\ b.repaired = run.repaired /\ b.rounds = run.rounds
        /\ b.failures = run.failures /\ b.timeouts = run.timeouts /\ b.stalls = run.stalls
        /\ b.unsignalled = run.unsignalled /\ b.idle = run.idle
    BY Typed, NextIs
  <2>2. f \in 0..2 /\ f = run.failures + 1
    <3> HIDE DEF b
    <3> QED BY <1>1, <1>5, <2>1, ReadingIs
  <2>3. run' = [b EXCEPT !.failures = f]
    BY <1>5
  <2>4. /\ run' \in Runs /\ run'.pc = "top" /\ run'.n = run.n /\ run'.ticked = run.ticked
        /\ run'.length = run.length /\ run'.repaired = run.repaired /\ run'.rounds = run.rounds
        /\ run'.failures = f /\ run'.timeouts = run.timeouts /\ run'.stalls = run.stalls
        /\ run'.unsignalled = run.unsignalled /\ run'.idle = run.idle
    <3> HIDE DEF f, b
    <3> QED BY <2>1, <2>2, <2>3 DEF Runs
  <2>5. \/ run'.idle <= run'.failures + run'.timeouts + 3 * run'.stalls
        \/ /\ run'.idle <= run'.failures + run'.timeouts + 9
           /\ tree'.dirty \/ tree'.merge
           /\ run'.unsignalled >= 1
    <3> HIDE DEF f
    <3> QED BY <1>1, <1>3, <2>2, <2>4, ReadingIs
  <2>6. TicksOf(tasks') <= TicksOf(tasks) + 1
    <3>1. TicksOf(tasks') = TicksOf(tasks) /\ TicksOf(tasks) \in Nat
      BY <1>1, Typed, TicksAreCounted
    <3> QED BY <3>1
  <2> QED BY <1>1, <1>2, <1>3, <1>5, <2>4, <2>5, <2>6, Typed, GoesOnKeeps
<1>6. run.failures \in 0..2
  BY <1>1, ReadingIs
<1> QED BY <1>4, <1>5, <1>6 DEF Failed

LEMMA EndsKeeps == ASSUME Budgets, LInv, Ends PROVE LInv'
<1>1. Reading /\ tasks' = BankTasks /\ tree' = BankTree
  BY DEF Ends
<1>2. run.pc = "after" /\ Open # {}
  BY <1>1, ReadingIs
<1>3. /\ tasks' \in Seq(BOOLEAN) /\ Len(tasks') = Len(tasks)
      /\ TicksOf(tasks') <= TicksOf(tasks) + 1 /\ tree' \in Trees
      /\ Banked \in {"none", "phantom", "advanced"}
      /\ Banked # "advanced" => tree'.dirty = tree.dirty /\ tree'.merge = tree.merge
      /\ Banked = "phantom" => ~tree.dirty /\ ~tree.merge
  BY <1>1, <1>2, BankedIs DEF LInv
<1>4. CASE Fail
  BY <1>2, <1>3, <1>4, StopKeeps DEF Fail
<1>5. ASSUME ~((Banked = "none" /\ Unsignalled >= 2) \/ Stalls >= 3), UNCHANGED card,
             run' = [NextIteration EXCEPT !.failures = 0, !.stalls = Stalls,
                                          !.unsignalled = Unsignalled, !.idle = Idle]
      PROVE  LInv'
  <2> DEFINE b == NextIteration
             z == 0
             s == Stalls
             u == Unsignalled
             i == Idle
  <2>1. /\ b \in Runs /\ b.pc = "top" /\ b.n = run.n /\ b.ticked = run.ticked
        /\ b.length = run.length /\ b.repaired = run.repaired /\ b.rounds = run.rounds
        /\ b.timeouts = run.timeouts
    BY Typed, NextIs
  <2>2. u \in Nat /\ i \in Nat /\ s \in 0..2 /\ z \in 0..2 /\ z = 0
    <3>1. s \in 0..3 /\ ~(s >= 3) /\ u \in Nat /\ i \in Nat
      BY <1>1, <1>5, CountersAre
    <3> HIDE DEF s, u, i
    <3> QED BY <3>1
  <2>3. run' = [b EXCEPT !.failures = z, !.stalls = s, !.unsignalled = u, !.idle = i]
    BY <1>5
  <2>4. /\ run' \in Runs /\ run'.pc = "top" /\ run'.n = run.n /\ run'.ticked = run.ticked
        /\ run'.length = run.length /\ run'.repaired = run.repaired /\ run'.rounds = run.rounds
        /\ run'.failures = 0 /\ run'.timeouts = run.timeouts /\ run'.stalls = s
        /\ run'.unsignalled = u /\ run'.idle = i
    <3> DEFINE r == [b EXCEPT !.failures = z, !.stalls = s, !.unsignalled = u, !.idle = i]
    <3>2. b \in Runs /\ u \in Nat /\ i \in Nat /\ s \in 0..2 /\ z \in 0..2
      BY <2>1, <2>2
    <3>3. run' = r
      BY <2>3
    <3> HIDE DEF z, s, u, i, b
    <3>4. /\ r \in Runs /\ r.failures = z /\ r.unsignalled = u /\ r.stalls = s
          /\ r.idle = i /\ r.pc = b.pc /\ r.n = b.n /\ r.ticked = b.ticked
          /\ r.length = b.length /\ r.repaired = b.repaired /\ r.rounds = b.rounds
          /\ r.timeouts = b.timeouts
      BY <3>2 DEF Runs
    <3> HIDE DEF r
    <3> QED BY <2>1, <2>2, <3>3, <3>4
  <2>5. \/ run'.idle <= run'.failures + run'.timeouts + 3 * run'.stalls
        \/ /\ run'.idle <= run'.failures + run'.timeouts + 9
           /\ tree'.dirty \/ tree'.merge
           /\ run'.unsignalled >= 1
    <3>1. CASE Banked = "advanced" \/ run.hadSignal
      <4>1. i = 0
        BY <1>1, <3>1, CountersAre
      <4>2. run.timeouts \in 0..1
        BY <1>1, ReadingIs
      <4> HIDE DEF s, u, i, b
      <4> QED BY <2>2, <2>4, <4>1, <4>2
    <3>2. ASSUME Banked # "advanced", ~run.hadSignal, ~run.touched
          PROVE  run'.idle <= run'.failures + run'.timeouts + 3 * run'.stalls
      <4>1. s = run.stalls + 1
        BY <3>2 DEF Stalls, Progress
      <4>2. i <= run.idle /\ u \in Nat /\ (Banked = "none" => u = run.unsignalled + 1)
            /\ ~(Banked = "none" /\ u >= 2)
        BY <1>1, <1>5, CountersAre
      <4>3. run.idle <= run.failures + run.timeouts + 1 + 3 * run.stalls
        <5> HIDE DEF u
        <5> QED BY <1>1, <1>3, <3>2, <4>2, ReadingIs
      <4>4. /\ run.idle \in Nat /\ run.failures \in 0..2 /\ run.timeouts \in 0..1
            /\ run.stalls \in 0..2
        BY <1>1, ReadingIs
      <4>5. i <= run.timeouts + 3 * s
        <5> HIDE DEF s, u, i, b
        <5> QED BY <2>2, <4>1, <4>2, <4>3, <4>4
      <4> HIDE DEF s, u, i, b
      <4> QED BY <2>2, <2>4, <4>4, <4>5
    <3>3. ASSUME Banked # "advanced", run.touched
          PROVE  /\ run'.idle <= run'.failures + run'.timeouts + 9
                 /\ tree'.dirty \/ tree'.merge
                 /\ run'.unsignalled >= 1
      <4>1. tree.dirty
        BY <1>1, <3>3, ReadingIs
      <4>2. Banked = "none" /\ tree'.dirty
        BY <1>3, <3>3, <4>1
      <4>3. i <= run.idle /\ u = run.unsignalled + 1 /\ ~(u >= 2)
        BY <1>1, <1>5, <4>2, CountersAre
      <4>4. /\ run.idle \in Nat /\ run.failures \in 0..2 /\ run.timeouts \in 0..1
            /\ run.stalls \in 0..2 /\ run.unsignalled \in Nat
        BY <1>1, ReadingIs
      <4>5. run.idle <= run.failures + run.timeouts + 1 + 3 * run.stalls
        <5> HIDE DEF u
        <5> QED BY <1>1, <4>3, <4>4, ReadingIs
      <4> HIDE DEF s, u, i, b
      <4> QED BY <2>2, <2>4, <4>2, <4>3, <4>4, <4>5
    <3> QED BY <3>1, <3>2, <3>3
  <2> QED BY <1>2, <1>3, <1>5, <2>4, <2>5, GoesOnKeeps
<1> QED BY <1>4, <1>5 DEF Ends

LEMMA StoppedKeeps == ASSUME Budgets, LInv, Stopped PROVE LInv'
<1>1. Reading /\ tasks' = BankTasks /\ tree' = BankTree
  BY DEF Stopped
<1>2. run.pc = "after" /\ Open # {}
  BY <1>1, ReadingIs
<1>3. tasks' \in Seq(BOOLEAN) /\ tree' \in Trees
  BY <1>1, <1>2, BankedIs DEF LInv
<1>4. PICK status \in {"needs_attention", "ready"} : EndRun(status)
  BY DEF Stopped
<1> QED BY <1>2, <1>3, <1>4, StopKeeps

-----------------------------------------------------------------------------
(* DONE, and what follows it.                                              *)

\* A DONE that counts ticks the one task that is left.
LEMMA DoneTicks ==
  ASSUME Budgets, LInv, Done
  PROVE  /\ tasks' \in Seq(BOOLEAN) /\ Len(tasks') = Len(tasks)
         /\ TicksOf(tasks') = TicksOf(tasks) + 1 /\ OpenOf(tasks') = {}
         /\ tree' \in Trees /\ ~tree'.merge
<1>1. run.pc = "after" /\ PrematureDone(tree).done
  BY DEF Done
<1>2. run.last
  BY <1>1, Typed DEF PrematureDone, Trees, Runs
<1>3. Open = {FirstUnchecked} /\ FirstUnchecked \in OpenOf(tasks)
  BY <1>1, <1>2, ListsNow DEF LInv, TaskIsOpen, Working
<1> DEFINE k == FirstUnchecked
           t == [tasks EXCEPT ![k] = TRUE]
           left == {j \in 1..Len(BankTasks) : ~BankTasks[j]}
<1>4. /\ t \in Seq(BOOLEAN) /\ Len(t) = Len(tasks)
      /\ TicksOf(t) = TicksOf(tasks) + 1 /\ OpenOf(t) = OpenOf(tasks) \ {k}
  BY <1>3, Typed, TickOne, Zenon
<1>5. OpenOf(t) = {}
  BY <1>3, <1>4, ListsNow
<1>6. tasks' = IF left = {} THEN BankTasks
               ELSE [BankTasks EXCEPT ![CHOOSE j \in left : \A m \in left : j <= m] = TRUE]
  BY DEF Done
<1>7. left = OpenOf(BankTasks)
  BY DEF OpenOf
<1>8. tasks' = t
  <2>1. CASE Banked = "advanced"
    <3>1. BankTasks = t
      BY <1>3, <2>1 DEF BankTasks, Tick
    <3>2. left = {}
      BY <1>5, <1>7, <3>1
    <3> HIDE DEF t, left
    <3> QED BY <1>6, <3>1, <3>2
  <2>2. CASE Banked # "advanced"
    <3>1. BankTasks = tasks
      BY <2>2 DEF BankTasks
    <3>2. left = {k} /\ k \in Nat
      BY <1>3, <1>7, <3>1, ListsNow DEF OpenOf
    <3>3. (CHOOSE j \in left : \A m \in left : j <= m) = k
      <4> HIDE DEF left, k
      <4>1. k \in left /\ \A m \in left : k <= m
        BY <3>2
      <4>2. \A j \in left : j = k
        BY <3>2
      <4> QED BY <4>1, <4>2
    <3> HIDE DEF left, k
    <3> QED BY <1>6, <3>1, <3>2, <3>3
  <2> QED BY <2>1, <2>2
<1>9. tree' = Committed([tree EXCEPT !.iterDone = FALSE])
  BY <1>3 DEF Done
<1> DEFINE q == [tree EXCEPT !.iterDone = FALSE]
<1>10. q \in Trees
  BY Typed DEF Trees
<1>11. tree' \in Trees /\ ~tree'.merge
  <2> HIDE DEF q
  <2>1. tree' = [q EXCEPT !.dirty = FALSE, !.merge = FALSE]
    BY <1>9 DEF Committed, q
  <2> QED BY <1>10, <2>1 DEF Trees
<1> HIDE DEF t
<1> QED BY <1>4, <1>5, <1>8, <1>11

LEMMA DoneKeeps == ASSUME Budgets, LInv, Done PROVE LInv'
<1>1. /\ run.pc = "after" /\ run' = [NextIteration EXCEPT !.pc = "done", !.idle = 0]
      /\ UNCHANGED card
  BY DEF Done
<1> DEFINE b == NextIteration
           z == 0
<1>2. /\ b \in Runs /\ b.n = run.n /\ b.ticked = run.ticked /\ b.length = run.length
      /\ b.repaired = run.repaired /\ b.rounds = run.rounds
  BY Typed, NextIs
<1>3. run' = [b EXCEPT !.pc = "done", !.idle = z]
  BY <1>1
<1>4. /\ run' \in Runs /\ run'.pc = "done" /\ run'.idle = z /\ run'.n = b.n
      /\ run'.ticked = b.ticked /\ run'.length = b.length /\ run'.repaired = b.repaired
      /\ run'.rounds = b.rounds
  <2>1. b \in Runs /\ z \in Nat
    BY <1>2
  <2> HIDE DEF b, z
  <2> QED BY <1>3, <2>1 DEF Runs
<1>5. /\ run'.n = run.n /\ run'.ticked = run.ticked /\ run'.length = run.length
      /\ run'.repaired = run.repaired /\ run'.rounds = run.rounds /\ run'.idle = 0
  <2> HIDE DEF b
  <2> QED BY <1>2, <1>4
<1>6. Typing' /\ CardIsAtIt'
  BY <1>1, <1>4, Typed, DoneTicks DEF LInv, Typing, CardIsAtIt
<1>7. ~Working' /\ Working
  BY <1>1, <1>4 DEF Working
<1>8. TicksAreEarned'
  <2>1. Ticked - run.ticked <= run.n - 1
    BY <1>1, <1>7 DEF LInv, TicksAreEarned
  <2>2. Ticked' = Ticked + 1 /\ Ticked \in Nat
    BY Typed, DoneTicks, TicksAreCounted, ListsNow
  <2>3. run.ticked \in Nat /\ run.n \in Int
    BY Typed DEF Runs, Budgets
  <2>4. Ticked' - run'.ticked <= run'.n
    <3> HIDE DEF b
    <3> QED BY <1>5, <2>1, <2>2, <2>3
  <2> QED BY <1>7, <2>4 DEF TicksAreEarned
<1>9. TaskIsOpen'
  BY <1>7, DoneTicks, ListsNow DEF TaskIsOpen
<1>10. AddedTasks'
  BY <1>1, <1>5, DoneTicks DEF LInv, AddedTasks
<1>11. IdleIsCounted'
  <2> DEFINE p == Spent'
  <2>1. p \in Nat /\ run'.stalls \in Nat
    BY <1>4, <1>7 DEF Spent, Runs
  <2>2. run'.idle <= p + 3 * run'.stalls
    <3> HIDE DEF p
    <3> QED BY <1>5, <2>1
  <2> QED BY <1>4, <1>5, <2>2 DEF IdleIsCounted
<1> QED BY <1>6, <1>8, <1>9, <1>10, <1>11 DEF LInv

\* What is true of a run between its DONE and the evaluator.
LEMMA HandingIs ==
  ASSUME Budgets, LInv, Handing
  PROVE  /\ run.pc # "idle" /\ run.idle = 0 /\ ~Working
         /\ Ticked - run.ticked <= run.n /\ Open = {} /\ ~tree.merge
         /\ card.at # "evaluating"
<1>1. run.pc # "idle" /\ ~Working /\ run.pc \notin {"top", "agent", "after"}
  BY DEF Handing, Working
<1> QED BY <1>1 DEF LInv, IdleIsCounted, TicksAreEarned, TaskIsOpen, CardIsAtIt

LEMMA HandBackKeeps ==
  ASSUME Budgets, LInv, Handing, NEW repaired \in BOOLEAN, NEW rounds \in 0..MaxSyncGateRounds,
         NEW merge \in BOOLEAN, HandBack(repaired, rounds, merge),
         (IF repaired THEN 1 ELSE 0) + rounds >= (IF run.repaired THEN 1 ELSE 0) + run.rounds + 1
  PROVE  LInv'
<1>1. /\ tasks' = AppendTask(tasks) /\ tree' = [tree EXCEPT !.done = FALSE, !.merge = merge]
      /\ run' = [NextIteration EXCEPT !.repaired = repaired, !.rounds = rounds]
      /\ UNCHANGED card
  BY DEF HandBack
<1> DEFINE b == NextIteration
<1>2. /\ b \in Runs /\ b.pc = "top" /\ b.n = run.n /\ b.ticked = run.ticked
      /\ b.length = run.length /\ b.idle = run.idle
  BY Typed, NextIs
<1>3. /\ run' \in Runs /\ run'.pc = b.pc /\ run'.n = b.n /\ run'.ticked = b.ticked
      /\ run'.length = b.length /\ run'.idle = b.idle /\ run'.repaired = repaired
      /\ run'.rounds = rounds
  <2>1. b \in Runs /\ run' = [b EXCEPT !.repaired = repaired, !.rounds = rounds]
    BY <1>1, <1>2
  <2> HIDE DEF b
  <2> QED BY <2>1 DEF Runs
<1>4. /\ run'.pc = "top" /\ run'.n = run.n /\ run'.ticked = run.ticked
      /\ run'.length = run.length /\ run'.idle = 0
  <2> HIDE DEF b
  <2> QED BY <1>2, <1>3, HandingIs
<1>5. /\ tasks' \in Seq(BOOLEAN) /\ Len(tasks') = Len(tasks) + 1
      /\ TicksOf(tasks') = TicksOf(tasks)
  BY <1>1, Typed, AppendOne
<1>6. tree' \in Trees
  BY <1>1, Typed DEF Trees
<1>7. Typing' /\ CardIsAtIt'
  BY <1>1, <1>3, <1>5, <1>6, Typed, HandingIs DEF LInv, Typing, CardIsAtIt
<1>8. ~Working' /\ ~Handing'
  BY <1>4 DEF Working, Handing
<1>9. TicksAreEarned'
  BY <1>4, <1>5, <1>8, HandingIs, ListsNow DEF TicksAreEarned
<1>10. TaskIsOpen'
  BY <1>1, <1>8, HandingIs DEF TaskIsOpen
<1>11. AddedTasks'
  <2>1. Len(tasks) - run.length <= (IF run.repaired THEN 1 ELSE 0) + run.rounds
    BY HandingIs DEF LInv, AddedTasks
  <2>2. Len(tasks) \in Nat /\ run.length \in Nat /\ run.rounds \in Int /\ rounds \in Int
    BY Typed DEF Runs, MaxSyncGateRounds
  <2>3. Len(tasks') - run'.length <= (IF repaired THEN 1 ELSE 0) + rounds
    BY <1>4, <1>5, <2>1, <2>2
  <2> QED BY <1>3, <2>3 DEF AddedTasks
<1>12. IdleIsCounted'
  <2> DEFINE p == Spent'
  <2>1. p \in Nat /\ run'.stalls \in Nat
    BY <1>3, <1>8 DEF Spent, Runs
  <2>2. run'.idle <= p + 3 * run'.stalls
    <3> HIDE DEF p
    <3> QED BY <1>4, <2>1
  <2> QED BY <1>4, <2>2 DEF IdleIsCounted
<1> QED BY <1>7, <1>9, <1>10, <1>11, <1>12 DEF LInv

LEMMA GotoKeeps ==
  ASSUME Budgets, LInv, Handing, NEW pc \in {"sync", "gate"}, Goto(pc),
         UNCHANGED <<tasks, card>>, tree' \in Trees, tree'.merge = tree.merge
  PROVE  LInv'
<1> DEFINE b == NextIteration
<1>2. /\ b \in Runs /\ b.n = run.n /\ b.ticked = run.ticked /\ b.repaired = run.repaired
      /\ b.length = run.length /\ b.idle = run.idle /\ b.rounds = run.rounds
  BY Typed, NextIs
<1>3. /\ run' \in Runs /\ run'.pc = pc /\ run'.n = b.n /\ run'.ticked = b.ticked
      /\ run'.length = b.length /\ run'.idle = b.idle /\ run'.repaired = b.repaired
      /\ run'.rounds = b.rounds
  <2>1. b \in Runs /\ run' = [b EXCEPT !.pc = pc]
    BY <1>2 DEF Goto
  <2> HIDE DEF b
  <2> QED BY <2>1 DEF Runs
<1>4. /\ run'.n = run.n /\ run'.ticked = run.ticked /\ run'.length = run.length
      /\ run'.idle = 0 /\ run'.repaired = run.repaired /\ run'.rounds = run.rounds
  <2> HIDE DEF b
  <2> QED BY <1>2, <1>3, HandingIs
<1>5. Typing' /\ CardIsAtIt'
  BY <1>3, Typed, HandingIs DEF LInv, Typing, CardIsAtIt
<1>6. ~Working'
  BY <1>3 DEF Working
<1>7. TicksAreEarned' /\ AddedTasks'
  BY <1>4, <1>6, HandingIs, ListsNow DEF LInv, TicksAreEarned, AddedTasks
<1>8. TaskIsOpen'
  BY <1>6, HandingIs, ListsNow DEF TaskIsOpen
<1>9. IdleIsCounted'
  <2> DEFINE p == Spent'
  <2>1. p \in Nat /\ run'.stalls \in Nat
    BY <1>3, <1>6 DEF Spent, Runs
  <2>2. run'.idle <= p + 3 * run'.stalls
    <3> HIDE DEF p
    <3> QED BY <1>4, <2>1
  <2> QED BY <1>3, <1>4, <2>2 DEF IdleIsCounted
<1> QED BY <1>5, <1>7, <1>8, <1>9 DEF LInv

\* A cancelled run that is noticed after its DONE only ends.
LEMMA DroppedKeeps ==
  ASSUME Budgets, LInv, Handing, run' = NoRun, UNCHANGED <<tasks, card>>, tree' \in Trees
  PROVE  LInv'
BY Typed, HandingIs, EndingKeeps

LEMMA ProbeFailsKeeps == ASSUME Budgets, LInv, ProbeFails PROVE LInv'
<1>1. Handing /\ ~run.repaired /\ HandBack(TRUE, run.rounds, tree.merge)
  BY DEF ProbeFails, Handing
<1>2. run.rounds \in 0..MaxSyncGateRounds /\ tree.merge \in BOOLEAN
  BY Typed DEF Runs, Trees
<1>3. (IF TRUE THEN 1 ELSE 0) + run.rounds >= (IF run.repaired THEN 1 ELSE 0) + run.rounds + 1
  BY <1>1, <1>2 DEF MaxSyncGateRounds
<1> QED BY <1>1, <1>2, <1>3, HandBackKeeps

LEMMA ProbePassesKeeps == ASSUME Budgets, LInv, ProbePasses PROVE LInv'
BY Typed, GotoKeeps DEF ProbePasses, Handing

LEMMA SyncCleanKeeps == ASSUME Budgets, LInv, SyncClean PROVE LInv'
<1>1. Handing /\ tree' = [tree EXCEPT !.behind = FALSE] /\ UNCHANGED <<tasks, card>>
  BY DEF SyncClean, Handing
<1>2. tree' \in Trees /\ tree'.merge = tree.merge
  BY <1>1, Typed DEF Trees
<1>3. CASE Live
  BY <1>1, <1>2, <1>3, GotoKeeps DEF SyncClean
<1>4. CASE ~Live
  BY <1>1, <1>2, <1>4, DroppedKeeps DEF SyncClean
<1> QED BY <1>3, <1>4

\* One more round, while there is one.
LEMMA RoundKeeps ==
  ASSUME Budgets, LInv, Handing, ~(run.rounds >= MaxSyncGateRounds), NEW merge \in BOOLEAN,
         HandBack(run.repaired, run.rounds + 1, merge)
  PROVE  LInv'
<1> DEFINE n == run.rounds + 1
<1>1. n \in 0..MaxSyncGateRounds /\ run.repaired \in BOOLEAN /\ run.rounds \in Int
  BY Typed DEF Runs, MaxSyncGateRounds
<1>2. (IF run.repaired THEN 1 ELSE 0) + n >= (IF run.repaired THEN 1 ELSE 0) + run.rounds + 1
  BY <1>1
<1>3. HandBack(run.repaired, n, merge)
  OBVIOUS
<1> HIDE DEF n
<1> QED BY <1>1, <1>2, <1>3, HandBackKeeps

LEMMA SyncConflictsKeeps == ASSUME Budgets, LInv, SyncConflicts PROVE LInv'
<1>1. Handing
  BY DEF SyncConflicts, Handing
<1>2. CASE ~Live
  <2>1. tree' = [tree EXCEPT !.merge = TRUE] /\ run' = NoRun /\ UNCHANGED <<tasks, card>>
    BY <1>2 DEF SyncConflicts
  <2>2. tree' \in Trees
    BY <2>1, Typed DEF Trees
  <2> QED BY <1>1, <2>1, <2>2, DroppedKeeps
<1>3. CASE Live /\ run.rounds >= MaxSyncGateRounds
  BY <1>1, <1>3, Typed, HandingIs, StopKeeps DEF SyncConflicts, Fail
<1>4. CASE Live /\ ~(run.rounds >= MaxSyncGateRounds)
  BY <1>1, <1>4, RoundKeeps DEF SyncConflicts
<1> QED BY <1>2, <1>3, <1>4

LEMMA GateFailsKeeps == ASSUME Budgets, LInv, GateFails PROVE LInv'
<1>1. Handing
  BY DEF GateFails, Handing
<1>2. CASE ~Live
  BY <1>1, <1>2, Typed, DroppedKeeps DEF GateFails
<1>3. CASE Live /\ run.rounds >= MaxSyncGateRounds
  BY <1>1, <1>3, Typed, HandingIs, StopKeeps DEF GateFails, Fail
<1>4. CASE Live /\ ~(run.rounds >= MaxSyncGateRounds)
  <2>1. tree.merge \in BOOLEAN
    BY Typed DEF Trees
  <2> QED BY <1>1, <1>4, <2>1, RoundKeeps DEF GateFails
<1> QED BY <1>2, <1>3, <1>4

LEMMA LoopStepKeeps == ASSUME Budgets, LInv, [LoopNext]_loopVars PROVE LInv'
<1>1. CASE UNCHANGED loopVars
  <2>1. card' = card /\ tree' = tree /\ UNCHANGED <<tasks, run>>
    BY <1>1 DEF loopVars
  <2> QED BY <2>1, Typed, BesideKeeps
<1>2. CASE LoopNext
  <2>1. CASE StartRun \/ Replan \/ BaseMoves \/ Cancel \/ Crash
    BY <2>1, StartRunKeeps, ReplanKeeps, BaseMovesKeeps, CancelKeeps, CrashKeeps
  <2>2. CASE RefusedOrLate \/ Exhausted \/ Inject \/ AgentEnds \/ Unclean \/ Blocked
    BY <2>2, RefusedOrLateKeeps, ExhaustedKeeps, InjectKeeps, AgentEndsKeeps, UncleanKeeps,
       BlockedKeeps
  <2>3. CASE TimedOut \/ Failed \/ Ends \/ Stopped
    BY <2>3, TimedOutKeeps, FailedKeeps, EndsKeeps, StoppedKeeps
  <2>4. CASE Done \/ ProbeFails \/ ProbePasses
    BY <2>4, DoneKeeps, ProbeFailsKeeps, ProbePassesKeeps
  <2>5. CASE SyncClean \/ SyncConflicts \/ SyncFails \/ GateFails \/ HandOver \/ Revise
    BY <2>5, SyncCleanKeeps, SyncConflictsKeeps, SyncFailsKeeps, GateFailsKeeps, HandOverKeeps,
       ReviseKeeps
  <2> QED BY <1>2, <2>1, <2>2, <2>3, <2>4, <2>5, Zenon DEF LoopNext
<1> QED BY <1>1, <1>2

LEMMA LoopInvHolds == ASSUME Budgets PROVE LoopSpec => []LInv
<1>1. LoopInit => LInv
  BY InitInv
<1>2. LInv /\ [LoopNext]_loopVars => LInv'
  BY LoopStepKeeps
<1> QED BY <1>1, <1>2, PTL DEF LoopSpec

-----------------------------------------------------------------------------
(* The theorems.                                                           *)

\* The checklist, the worktree, the run's locals and the card keep their types:
\* the failure, stall and round counters of runLoop never pass their limits.
THEOREM LoopsAreTyped == ASSUME Budgets PROVE LoopSpec => []LoopTypeOK
<1>1. LInv => LoopTypeOK
  BY Typed DEF LoopTypeOK, Trees, Runs, Cards
<1> QED BY <1>1, LoopInvHolds, PTL

\* A loop run ticks no more tasks than it has had iterations, whichever signal
\* files the agent leaves and in whatever order they are read.
THEOREM TicksAreWorkedFor == ASSUME Budgets PROVE LoopSpec => []OneTickPerIteration
<1>1. LInv => OneTickPerIteration
  <2> SUFFICES ASSUME LInv, run.pc # "idle" PROVE Ticked - run.ticked <= run.n
    BY DEF OneTickPerIteration
  <2>1. Ticked - run.ticked <= run.n - 1 \/ Ticked - run.ticked <= run.n
    BY DEF LInv, TicksAreEarned
  <2>2. Ticked \in Nat
    BY Typed, TicksAreCounted, ListsNow
  <2>3. run.ticked \in Nat /\ run.n \in Int
    BY Typed DEF Runs, Budgets
  <2> QED BY <2>1, <2>2, <2>3
<1> QED BY <1>1, LoopInvHolds, PTL

\* No card waits for its evaluator with a task open or a merge half done, after
\* any mixture of conflicts, failed gates, cancels and crashes.
THEOREM HandedOverWhole == ASSUME Budgets PROVE LoopSpec => []EvaluatedIsWhole
<1>1. LInv => EvaluatedIsWhole
  BY DEF LInv, TaskIsOpen, EvaluatedIsWhole
<1> QED BY <1>1, LoopInvHolds, PTL

\* The checklist of a live run has grown by at most the one repair of its
\* criteria and the rounds of its sync and gate.
THEOREM RepairsAreFew == ASSUME Budgets PROVE LoopSpec => []RepairsAreBounded
<1>1. LInv => RepairsAreBounded
  <2> SUFFICES ASSUME LInv, run.pc # "idle"
               PROVE  Len(tasks) - run.length <= 1 + MaxSyncGateRounds
    BY DEF RepairsAreBounded
  <2>1. Len(tasks) - run.length <= (IF run.repaired THEN 1 ELSE 0) + run.rounds
    BY DEF LInv, AddedTasks
  <2>2. Len(tasks) \in Nat /\ run.length \in Nat /\ run.rounds \in 0..2
    BY Typed DEF Runs, MaxSyncGateRounds
  <2> QED BY <2>1, <2>2 DEF MaxSyncGateRounds
<1> QED BY <1>1, LoopInvHolds, PTL

\* However failures, time-outs, empty iterations and unsaid edits alternate, a
\* run that moves nothing is stopped before its fourteenth such iteration,
\* whatever its budget of iterations.
THEOREM IdlersAreStopped == ASSUME Budgets PROVE LoopSpec => []UnproductiveRunsStop
<1>1. LInv => UnproductiveRunsStop
  <2> SUFFICES ASSUME LInv PROVE run.idle <= 13
    BY DEF UnproductiveRunsStop, WastedBound
  <2> DEFINE p == Spent
  <2>1. run.idle <= p + 3 * run.stalls \/ run.idle <= p + 9
    BY DEF LInv, IdleIsCounted
  <2>2. p \in 0..4 /\ run.stalls \in 0..2 /\ run.idle \in Nat
    BY Typed DEF Spent, Runs
  <2> HIDE DEF p
  <2> QED BY <2>1, <2>2
<1> QED BY <1>1, LoopInvHolds, PTL

(***************************************************************************)
(* The settings: processes of one secret's time share it, every process    *)
(* reads what was last saved, and what is typed during a save is kept.     *)
(***************************************************************************)

\* What kind of value each constant is: nothing is neither a setting nor a
\* secret nor a row, and the mask is no setting.
SettingsSane ==
  /\ Web \in Procs
  /\ MaxEdits \in Nat /\ MaxBoots \in Nat /\ MaxRotations \in Nat
  /\ None \notin Int /\ Mask \notin Int /\ Mask # None
  /\ None \notin [secret : Secrets, written : BOOLEAN]
  /\ None \notin [value : Values, under : Secrets \cup {None}]
  /\ None \notin Forms

-----------------------------------------------------------------------------
(* One secret.                                                             *)

\* Who has the secret of an epoch: the process that created the file, also
\* before it has written it, and those that have read it.
Holders == {p \in Procs : procs[p].pc \in {"write", "up"}}

\* Nobody is ahead of the rotations; the file that is there now is that of all
\* who have booted since the last one, and so were those before it.
SecretInv ==
  /\ \A p \in Procs : procs[p].pc \in {"create", "write", "up"} => procs[p].env # None
  /\ \A p \in Procs : procs[p].epoch <= rotations
  /\ \A p \in Holders : procs[p].epoch = rotations =>
       file # None /\ file.secret = procs[p].env
  /\ \A p, q \in Holders : procs[p].epoch = procs[q].epoch => procs[p].env = procs[q].env

-----------------------------------------------------------------------------
(* What is saved, and what is typed.                                       *)

\* The table holds what was last saved, whatever secret the key is under.
RowsInv ==
  /\ meant["key"] = IF rows.key = None THEN 0 ELSE rows.key.value
  /\ \A k \in Keys \ {"key"} : meant[k] = GetSettings(Web, rows)[k]

\* What has been typed since a save began is in the form, and is not what was
\* sent, so that the answer leaves it alone.
TabsInv ==
  \A t \in Tabs :
    /\ tabs[t].answer # None => tabs[t].sent # None
    /\ tabs[t].sent # None => tabs[t].form # None
    /\ \A k \in Keys : tabs[t].typed[k] # None =>
         /\ tabs[t].form[k] = tabs[t].typed[k]
         /\ tabs[t].sent # None => tabs[t].sent[k] # tabs[t].typed[k]

SInv == SettingsTypeOK /\ SecretInv /\ RowsInv /\ TabsInv

-----------------------------------------------------------------------------
(* The types.                                                              *)

ProcRecord == [pc : {"down", "create", "write", "wait", "up"},
               env : Secrets \cup {None}, epoch : 0..MaxRotations]
FileRecord == [secret : Secrets, written : BOOLEAN]

LEMMA FormOf ==
  ASSUME NEW a \in Shown, NEW b \in Shown, NEW c \in Shown, NEW d \in Shown,
         Mask \notin {a, b, d}
  PROVE  [plain |-> a, renamed |-> b, key |-> c, template |-> d] \in Forms
<1> DEFINE f == [plain |-> a, renamed |-> b, key |-> c, template |-> d]
<1>1. DOMAIN f = Keys /\ f = [k \in Keys |-> f[k]]
  BY DEF Keys
<1>2. f["plain"] = a /\ f["renamed"] = b /\ f["key"] = c /\ f["template"] = d
  OBVIOUS
<1> HIDE DEF f
<1>3. \A k \in Keys : f[k] \in Shown
  BY <1>2 DEF Keys
<1>4. f \in [Keys -> Shown]
  BY <1>1, <1>3
<1>5. f \in Forms
  BY <1>2, <1>4 DEF Forms, Keys
<1> QED
  BY <1>5 DEF f

\* Every process reads settings; a page is shown a form.
LEMMA ReadIsForm ==
  ASSUME SettingsSane, NEW p, NEW table \in StoredRows
  PROVE  /\ GetSettings(p, table).key \in Values
         /\ Redacted(GetSettings(p, table)) \in Forms
<1> DEFINE a == IF table.plain = None THEN 0 ELSE table.plain
           b == Renamed(table)
           c == KeyAs(p, table.key)
           d == IF table.template = None THEN 0 ELSE table.template
           m == IF c = 0 THEN 0 ELSE Mask
<1>1. a \in Values /\ b \in Values /\ c \in Values /\ d \in Values
  BY DEF SettingsSane, StoredRows, Values, Renamed, KeyAs
<1>2. GetSettings(p, table) = [plain |-> a, renamed |-> b, key |-> c, template |-> d]
  BY DEF GetSettings
<1>3. Redacted(GetSettings(p, table)) = [plain |-> a, renamed |-> b, key |-> m, template |-> d]
  BY <1>2 DEF Redacted
<1>4. a \in Shown /\ b \in Shown /\ m \in Shown /\ d \in Shown /\ Mask \notin {a, b, d}
  BY <1>1 DEF SettingsSane, Shown, Values
<1> HIDE DEF a, b, c, d, m
<1> QED
  BY <1>1, <1>2, <1>3, <1>4, FormOf

LEMMA InitIsTyped ==
  ASSUME SettingsSane, SettingsInit
  PROVE  SettingsTypeOK
<1>1. rows \in StoredRows
  <2>1. CASE rows = [plain |-> None, renamed |-> None, legacy |-> None, key |-> None,
                     template |-> None]
    BY <2>1 DEF StoredRows
  <2>2. CASE rows = [plain |-> 1, renamed |-> None, legacy |-> 1,
                     key |-> [value |-> 1, under |-> None], template |-> 1]
    BY <2>2 DEF StoredRows, Values
  <2> QED
    BY <2>1, <2>2 DEF SettingsInit
<1>2. procs \in [Procs -> ProcRecord] /\ boots \in 0..MaxBoots /\ edits \in 0..MaxEdits
      /\ rotations \in 0..MaxRotations
  BY DEF SettingsInit, ProcRecord, SettingsSane
<1>3. NoTyping \in [Keys -> Values \cup {None}]
  BY DEF NoTyping
<1>4. Closed \in TabRecord
  BY <1>3 DEF Closed, TabRecord
<1>5. tabs \in [Tabs -> TabRecord]
  BY <1>4 DEF SettingsInit
<1> QED
  BY <1>1, <1>2, <1>5 DEF SettingsTypeOK, SettingsInit, ProcRecord

\* What a step of a page leaves of the type.
Same == UNCHANGED <<rows, file, procs, boots, rotations>>

LEMMA OneTab ==
  ASSUME SettingsTypeOK, NEW t \in Tabs, NEW v \in TabRecord, tabs' = [tabs EXCEPT ![t] = v]
  PROVE  tabs' \in [Tabs -> TabRecord] /\ \A u \in Tabs : tabs'[u] = IF u = t THEN v ELSE tabs[u]
BY DEF SettingsTypeOK

LEMMA LoadIsTyped ==
  ASSUME SettingsSane, SettingsTypeOK, NEW t \in Tabs, Load(t)
  PROVE  tabs' \in [Tabs -> TabRecord]
<1> DEFINE loaded == Redacted(GetSettings(Web, rows))
           v == [Closed EXCEPT !.form = loaded, !.persisted = loaded]
<1>1. loaded \in Forms
  BY ReadIsForm DEF SettingsTypeOK
<1>2. NoTyping \in [Keys -> Values \cup {None}]
  BY DEF NoTyping
<1> HIDE DEF loaded
<1>3. v \in TabRecord
  BY <1>1, <1>2 DEF Closed, TabRecord
<1>4. tabs' = [tabs EXCEPT ![t] = v]
  BY DEF Load, loaded
<1> HIDE DEF v
<1> QED
  BY <1>3, <1>4, OneTab

LEMMA EditIsTyped ==
  ASSUME SettingsSane, SettingsTypeOK, NEW t \in Tabs, NEW k \in Keys, NEW value \in Values, Edit(t, k, value)
  PROVE  tabs' \in [Tabs -> TabRecord] /\ edits' \in 0..MaxEdits
<1> DEFINE tab == tabs[t]
           form == [tab.form EXCEPT ![k] = value]
           typed == [tab.typed EXCEPT ![k] = IF tab.sent # None /\ tab.sent[k] = value THEN None ELSE value]
           v == [tab EXCEPT !.form = form, !.typed = typed]
<1>1. tab \in TabRecord /\ tab.form \in Forms /\ tab.typed \in [Keys -> Values \cup {None}]
  BY DEF SettingsTypeOK, TabRecord, Edit
<1>2. form \in Forms
  BY <1>1 DEF Forms, Shown, Values, SettingsSane
<1>3. typed \in [Keys -> Values \cup {None}]
  BY <1>1
<1>4. tabs' = [tabs EXCEPT ![t] = v]
  BY DEF Edit
<1> HIDE DEF form, typed, tab
<1>5. v \in TabRecord
  BY <1>1, <1>2, <1>3 DEF TabRecord
<1>6. edits' \in 0..MaxEdits
  BY DEF Edit, SettingsTypeOK, SettingsSane
<1> HIDE DEF v
<1> QED
  BY <1>4, <1>5, <1>6, OneTab

LEMMA SaveIsTyped ==
  ASSUME SettingsTypeOK, NEW t \in Tabs, Save(t) \/ SaveFails(t)
  PROVE  tabs' \in [Tabs -> TabRecord]
<1>1. NoTyping \in [Keys -> Values \cup {None}]
  BY DEF NoTyping
<1>2. CASE Save(t)
  <2> DEFINE v == [tabs[t] EXCEPT !.sent = tabs[t].form, !.typed = NoTyping]
  <2>1. v \in TabRecord /\ tabs' = [tabs EXCEPT ![t] = v]
    BY <1>1, <1>2 DEF Save, SettingsTypeOK, TabRecord
  <2> HIDE DEF v
  <2> QED
    BY <2>1, OneTab
<1>3. CASE SaveFails(t)
  <2> DEFINE v == [tabs[t] EXCEPT !.sent = None, !.answer = None]
  <2>1. v \in TabRecord /\ tabs' = [tabs EXCEPT ![t] = v]
    BY <1>3 DEF SaveFails, SettingsTypeOK, TabRecord
  <2> HIDE DEF v
  <2> QED
    BY <2>1, OneTab
<1> QED
  BY <1>2, <1>3

\* What a page sends is stored.
LEMMA StoredIsTyped ==
  ASSUME SettingsSane, SettingsTypeOK, NEW form \in Forms
  PROVE  PatchSettings(Web, form) \in StoredRows
<1> DEFINE key == StoredKey(Web, form.key)
           template == IF form.template = 0 THEN None ELSE form.template
<1>1. /\ form.plain \in Values /\ form.renamed \in Values /\ form.template \in Values
      /\ form.key \in Values \cup {Mask}
  BY DEF Forms, Keys, Shown
<1>2. procs[Web].env \in Secrets \cup {None}
  BY DEF SettingsSane, SettingsTypeOK
<1>3. key \in [value : Values, under : Secrets \cup {None}] \cup {None}
  BY <1>1, <1>2 DEF StoredKey, SettingsTypeOK, StoredRows, Values
<1>4. PatchSettings(Web, form) = [rows EXCEPT !.plain = form.plain, !.renamed = form.renamed,
                                              !.key = key, !.template = template]
  BY DEF PatchSettings
<1> HIDE DEF key
<1> QED
  BY <1>1, <1>3, <1>4 DEF SettingsTypeOK, StoredRows

LEMMA PatchIsTyped ==
  ASSUME SettingsSane, SettingsTypeOK, NEW t \in Tabs, Patch(t)
  PROVE  rows' \in StoredRows /\ tabs' \in [Tabs -> TabRecord]
<1> DEFINE table == PatchSettings(Web, tabs[t].sent)
           answer == Redacted(GetSettings(Web, table))
           v == [tabs[t] EXCEPT !.answer = answer]
<1>1. tabs[t] \in TabRecord /\ tabs[t].sent \in Forms
  BY DEF Patch, SettingsTypeOK, TabRecord
<1>2. table \in StoredRows
  BY <1>1, StoredIsTyped
<1>3. rows' = table /\ tabs' = [tabs EXCEPT ![t] = v]
  BY DEF Patch
<1> HIDE DEF table
<1>4. answer \in Forms
  BY <1>2, ReadIsForm
<1> HIDE DEF answer
<1>5. v \in TabRecord
  BY <1>1, <1>4 DEF TabRecord
<1> HIDE DEF v
<1> QED
  BY <1>2, <1>3, <1>5, OneTab

LEMMA AdoptIsTyped ==
  ASSUME SettingsSane, SettingsTypeOK, TabsInv, NEW t \in Tabs, Adopt(t)
  PROVE  tabs' \in [Tabs -> TabRecord]
<1> DEFINE tab == tabs[t]
           form == [k \in Keys |-> IF tab.form[k] # tab.sent[k] THEN tab.form[k] ELSE tab.answer[k]]
           v == [tab EXCEPT !.form = form, !.persisted = tab.answer, !.sent = None, !.answer = None]
<1>1. tab \in TabRecord /\ tab.form \in Forms /\ tab.answer \in Forms
  BY DEF Adopt, SettingsTypeOK, TabRecord, TabsInv
<1>2. tabs' = [tabs EXCEPT ![t] = v]
  BY DEF Adopt
<1> HIDE DEF tab
<1>3. form \in Forms
  BY <1>1 DEF Forms
<1> HIDE DEF form
<1>4. v \in TabRecord
  BY <1>1, <1>3 DEF TabRecord
<1> HIDE DEF v
<1> QED
  BY <1>2, <1>4, OneTab

\* The pages.
PageStep(t) ==
  \/ Load(t) \/ Save(t) \/ Patch(t) \/ Adopt(t) \/ SaveFails(t)
  \/ \E k \in Keys, value \in Values : Edit(t, k, value)

LEMMA PageIsTyped ==
  ASSUME SettingsSane, SettingsTypeOK, TabsInv, NEW t \in Tabs, PageStep(t)
  PROVE  SettingsTypeOK'
<1>1. UNCHANGED <<file, procs, boots, rotations>>
  BY DEF PageStep, Load, Save, Patch, Adopt, SaveFails, Edit
<1>2. CASE Patch(t)
  BY <1>1, <1>2, PatchIsTyped DEF SettingsTypeOK, Patch
<1>3. CASE \E k \in Keys, value \in Values : Edit(t, k, value)
  <2>1. rows' = rows
    BY <1>3 DEF Edit
  <2> QED
    BY <1>1, <1>3, <2>1, EditIsTyped DEF SettingsTypeOK
<1>4. CASE Load(t) \/ Save(t) \/ Adopt(t) \/ SaveFails(t)
  <2>1. tabs' \in [Tabs -> TabRecord]
    BY <1>4, LoadIsTyped, SaveIsTyped, AdoptIsTyped
  <2>2. rows' = rows /\ edits' = edits
    BY <1>4 DEF Load, Save, Adopt, SaveFails
  <2> QED
    BY <1>1, <2>1, <2>2 DEF SettingsTypeOK
<1> QED
  BY <1>2, <1>3, <1>4 DEF PageStep

\* The processes.
ProcStep(p) == Boot(p) \/ Create(p) \/ Write(p) \/ Wait(p) \/ Die(p)

\* What a step makes of a process, whose file is as it was or typed.
LEMMA OneProc ==
  ASSUME SettingsTypeOK, NEW p \in Procs, NEW v \in ProcRecord, procs' = [procs EXCEPT ![p] = v]
  PROVE  /\ procs' \in [Procs -> ProcRecord]
         /\ \A q \in Procs : procs'[q] = IF q = p THEN v ELSE procs[q]
BY DEF SettingsTypeOK, ProcRecord

LEMMA ProcIsTyped ==
  ASSUME SettingsSane, SettingsTypeOK, SecretInv, NEW p \in Procs, ProcStep(p)
  PROVE  /\ SettingsTypeOK'
         /\ \A q \in Procs \ {p} : procs'[q] = procs[q]
<1>0. /\ procs[p] \in ProcRecord /\ rotations \in 0..MaxRotations /\ boots \in 0..MaxBoots
      /\ file # None => file \in FileRecord
  BY DEF SettingsTypeOK, ProcRecord, FileRecord
<1>1. PICK v \in ProcRecord : procs' = [procs EXCEPT ![p] = v]
  <2>1. CASE Boot(p)
    <3> DEFINE v == IF file # None /\ (file # None => file.written)
                    THEN [pc |-> "up", env |-> file.secret, epoch |-> rotations]
                    ELSE [pc |-> "create", env |-> boots', epoch |-> rotations]
    <3>1. boots' \in Secrets
      BY <2>1, <1>0 DEF Boot, Secrets, SettingsSane
    <3>2. v \in ProcRecord
      BY <1>0, <3>1 DEF ProcRecord, FileRecord
    <3>3. procs' = [procs EXCEPT ![p] = v]
      BY <2>1 DEF Boot
    <3> HIDE DEF v
    <3> QED
      BY <3>2, <3>3
  <2>2. CASE Create(p)
    <3>1. CASE file = None
      <4> DEFINE v == [procs[p] EXCEPT !.pc = "write", !.epoch = rotations]
      <4>1. v \in ProcRecord /\ procs' = [procs EXCEPT ![p] = v]
        BY <1>0, <2>2, <3>1 DEF Create, ProcRecord
      <4> HIDE DEF v
      <4> QED
        BY <4>1
    <3>2. CASE file # None
      <4> DEFINE v == [procs[p] EXCEPT !.pc = "wait"]
      <4>1. v \in ProcRecord /\ procs' = [procs EXCEPT ![p] = v]
        BY <1>0, <2>2, <3>2 DEF Create, ProcRecord
      <4> HIDE DEF v
      <4> QED
        BY <4>1
    <3> QED
      BY <3>1, <3>2
  <2>3. CASE Write(p)
    <3> DEFINE v == [procs[p] EXCEPT !.pc = "up"]
    <3>1. v \in ProcRecord /\ procs' = [procs EXCEPT ![p] = v]
      BY <1>0, <2>3 DEF Write, ProcRecord
    <3> HIDE DEF v
    <3> QED
      BY <3>1
  <2>4. CASE Wait(p)
    BY <1>0, <2>4 DEF Wait, ProcRecord, FileRecord
  <2>5. CASE Die(p)
    <3> DEFINE v == [pc |-> "down", env |-> None, epoch |-> 0]
    <3>1. v \in ProcRecord /\ procs' = [procs EXCEPT ![p] = v]
      BY <2>5 DEF Die, ProcRecord, SettingsSane
    <3> HIDE DEF v
    <3> QED
      BY <3>1
  <2> QED
    BY <2>1, <2>2, <2>3, <2>4, <2>5 DEF ProcStep
<1>2. /\ procs' \in [Procs -> ProcRecord]
      /\ \A q \in Procs : procs'[q] = IF q = p THEN v ELSE procs[q]
  BY <1>1, OneProc
<1>3. boots' \in 0..MaxBoots
  BY <1>0 DEF ProcStep, Boot, Create, Write, Wait, Die, SettingsSane
<1>4. file' \in FileRecord \cup {None}
  <2>1. CASE Create(p)
    <3>1. CASE file = None
      <4>1. procs[p].env \in Secrets
        BY <1>0, <2>1 DEF Create, SecretInv, ProcRecord
      <4>2. file' = [secret |-> procs[p].env, written |-> FALSE]
        BY <2>1, <3>1 DEF Create
      <4> QED
        BY <4>1, <4>2 DEF FileRecord
    <3>2. CASE file # None
      <4>1. file' = file
        BY <2>1, <3>2 DEF Create
      <4> QED
        BY <1>0, <3>2, <4>1
    <3> QED
      BY <3>1, <3>2
  <2>2. CASE Write(p)
    BY <1>0, <2>2 DEF Write, FileRecord
  <2>3. CASE Boot(p) \/ Wait(p) \/ Die(p)
    BY <1>0, <2>3 DEF Boot, Wait, Die
  <2> QED
    BY <2>1, <2>2, <2>3 DEF ProcStep
<1>5. UNCHANGED <<rows, tabs, edits, rotations>>
  BY DEF ProcStep, Boot, Create, Write, Wait, Die
<1> QED
  BY <1>2, <1>3, <1>4, <1>5 DEF SettingsTypeOK, ProcRecord, FileRecord

LEMMA RotateIsTyped ==
  ASSUME SettingsSane, SettingsTypeOK, Rotate
  PROVE  SettingsTypeOK'
BY DEF SettingsSane, SettingsTypeOK, Rotate

-----------------------------------------------------------------------------
(* One secret.                                                             *)

LEMMA InitSecret ==
  ASSUME SettingsSane, SettingsInit
  PROVE  SecretInv
BY DEF SettingsSane, SettingsInit, SecretInv, Holders

LEMMA PageSecret ==
  ASSUME SecretInv, UNCHANGED <<file, procs, rotations>>
  PROVE  SecretInv'
BY DEF SecretInv, Holders

LEMMA RotateSecret ==
  ASSUME SettingsSane, SettingsTypeOK, SecretInv, Rotate
  PROVE  SecretInv'
<1>1. procs' = procs /\ rotations' = rotations + 1
  BY DEF Rotate
<1>2. rotations \in Int /\ \A p \in Procs : procs[p].epoch \in Int
  BY DEF SettingsTypeOK, SettingsSane
<1>3. Holders' = Holders
  BY <1>1 DEF Holders
<1>4. \A p \in Procs : procs'[p].epoch <= rotations' /\ procs'[p].epoch # rotations'
  BY <1>1, <1>2 DEF SecretInv
<1>5. \A p \in Procs : procs'[p].pc \in {"create", "write", "up"} => procs'[p].env # None
  BY <1>1 DEF SecretInv
<1>6. \A p, q \in Holders' : procs'[p].epoch = procs'[q].epoch => procs'[p].env = procs'[q].env
  BY <1>1, <1>3 DEF SecretInv
<1>7. Holders' \subseteq Procs
  BY DEF Holders
<1> QED
  BY <1>4, <1>5, <1>6, <1>7 DEF SecretInv

\* A process steps: a file that was there has the same secret, and whoever comes
\* to hold one has that of the file there is, in the epoch there is.
LEMMA HoldersAgree ==
  ASSUME SecretInv, NEW p \in Procs,
         rotations' = rotations, rotations \in Int, \A q \in Procs : procs[q].epoch \in Int,
         \A q \in Procs \ {p} : procs'[q] = procs[q],
         file # None => file' # None /\ file'.secret = file.secret,
         procs'[p].epoch <= rotations,
         procs'[p].pc \in {"create", "write", "up"} => procs'[p].env # None,
         procs'[p].pc \in {"write", "up"} =>
           \/ /\ file' # None /\ procs'[p].env = file'.secret /\ procs'[p].epoch = rotations
           \/ p \in Holders /\ procs'[p].env = procs[p].env /\ procs'[p].epoch = procs[p].epoch
  PROVE  SecretInv'
<1>1. \A q \in Holders' : procs'[q].epoch = rotations => file' # None /\ file'.secret = procs'[q].env
  BY DEF SecretInv, Holders
<1>2. ASSUME NEW q \in Holders', procs'[q].epoch # rotations
      PROVE  q \in Holders /\ procs'[q].env = procs[q].env /\ procs'[q].epoch = procs[q].epoch
  BY <1>2 DEF Holders
<1>3. \A q, r \in Holders' : procs'[q].epoch = procs'[r].epoch => procs'[q].env = procs'[r].env
  <2> SUFFICES ASSUME NEW q \in Holders', NEW r \in Holders', procs'[q].epoch = procs'[r].epoch
               PROVE  procs'[q].env = procs'[r].env
    OBVIOUS
  <2>1. CASE procs'[q].epoch = rotations
    BY <1>1, <2>1
  <2>2. CASE procs'[q].epoch # rotations
    BY <1>2, <2>2 DEF SecretInv
  <2> QED
    BY <2>1, <2>2
<1>4. \A q \in Procs : procs'[q].epoch <= rotations'
  BY DEF SecretInv
<1>5. \A q \in Procs : procs'[q].pc \in {"create", "write", "up"} => procs'[q].env # None
  BY DEF SecretInv
<1> QED
  BY <1>1, <1>3, <1>4, <1>5 DEF SecretInv

LEMMA ProcSecret ==
  ASSUME SettingsSane, SettingsTypeOK, SecretInv, NEW p \in Procs, ProcStep(p)
  PROVE  SecretInv'
<1>0. /\ procs \in [Procs -> ProcRecord] /\ rotations' = rotations /\ rotations \in Int
      /\ \A q \in Procs : procs[q].epoch \in Int
      /\ file # None => file \in FileRecord
      /\ \A f \in FileRecord : f # None /\ f.secret # None
  BY DEF SettingsTypeOK, SettingsSane, ProcRecord, FileRecord, Secrets, ProcStep, Boot, Create, Write, Wait, Die
<1>1. /\ \A q \in Procs \ {p} : procs'[q] = procs[q]
      /\ procs[p].epoch <= rotations
  BY ProcIsTyped DEF SecretInv
<1>2. CASE Boot(p)
  <2>1. file' = file
    BY <1>2 DEF Boot
  <2>2. CASE file # None /\ (file # None => file.written)
    <3>1. procs'[p] = [pc |-> "up", env |-> file.secret, epoch |-> rotations]
      BY <1>0, <1>2, <2>2 DEF Boot
    <3> QED
      BY <1>0, <1>1, <2>1, <2>2, <3>1, HoldersAgree
  <2>3. CASE ~(file # None /\ (file # None => file.written))
    <3>1. procs'[p] = [pc |-> "create", env |-> boots', epoch |-> rotations]
      BY <1>0, <1>2, <2>3 DEF Boot
    <3>2. boots' # None
      BY <1>2 DEF Boot, SettingsTypeOK, SettingsSane
    <3> QED
      BY <1>0, <1>1, <2>1, <3>1, <3>2, HoldersAgree
  <2> QED
    BY <2>2, <2>3
<1>3. CASE Create(p)
  <2>1. procs[p].pc = "create" /\ procs[p].env # None
    BY <1>3 DEF Create, SecretInv
  <2>2. CASE file = None
    <3>1. /\ procs'[p].pc = "write" /\ procs'[p].env = procs[p].env
          /\ procs'[p].epoch = rotations
      BY <1>0, <1>3, <2>2 DEF Create, ProcRecord
    <3>2. file' = [secret |-> procs[p].env, written |-> FALSE]
      BY <1>3, <2>2 DEF Create
    <3>3. file' \in FileRecord
      BY <1>0, <2>1, <3>2 DEF FileRecord, ProcRecord
    <3>4. file' # None /\ file'.secret = procs[p].env
      BY <1>0, <3>2, <3>3
    <3> QED
      BY <1>0, <1>1, <2>1, <2>2, <3>1, <3>4, HoldersAgree
  <2>3. CASE file # None
    <3>1. procs'[p].pc = "wait" /\ procs'[p].epoch = procs[p].epoch /\ file' = file
      BY <1>0, <1>3, <2>3 DEF Create, ProcRecord
    <3> QED
      BY <1>0, <1>1, <3>1, HoldersAgree
  <2> QED
    BY <2>2, <2>3
<1>4. CASE Write(p)
  <2>1. /\ procs'[p].pc = "up" /\ procs'[p].env = procs[p].env
        /\ procs'[p].epoch = procs[p].epoch
    BY <1>0, <1>4 DEF Write, ProcRecord
  <2>2. p \in Holders /\ procs[p].env # None
    BY <1>4 DEF Write, Holders, SecretInv
  <2>3. file # None => file' # None /\ file'.secret = file.secret
    <3>1. CASE file # None /\ (file # None => file.secret = procs[p].env)
      <4>1. file' = [file EXCEPT !.written = TRUE]
        BY <1>4, <3>1 DEF Write
      <4>2. file' \in FileRecord /\ file'.secret = file.secret
        BY <1>0, <3>1, <4>1 DEF FileRecord
      <4> QED
        BY <1>0, <4>2
    <3>2. CASE ~(file # None /\ (file # None => file.secret = procs[p].env))
      BY <1>4, <3>2 DEF Write
    <3> QED
      BY <3>1, <3>2
  <2> QED
    BY <1>0, <1>1, <2>1, <2>2, <2>3, HoldersAgree
<1>5. CASE Wait(p)
  <2>1. /\ file # None /\ file' = file
        /\ procs'[p] = [pc |-> "up", env |-> file.secret, epoch |-> rotations]
    BY <1>0, <1>5 DEF Wait
  <2> QED
    BY <1>0, <1>1, <2>1, HoldersAgree
<1>6. CASE Die(p)
  <2>1. file' = file /\ procs'[p] = [pc |-> "down", env |-> None, epoch |-> 0]
    BY <1>0, <1>6 DEF Die
  <2>2. 0 <= rotations
    BY DEF SettingsTypeOK, SettingsSane
  <2> QED
    BY <1>0, <1>1, <2>1, <2>2, HoldersAgree
<1> QED
  BY <1>2, <1>3, <1>4, <1>5, <1>6 DEF ProcStep

-----------------------------------------------------------------------------
(* What is saved and typed.                                                *)

LEMMA InitRowsAndTabs ==
  ASSUME SettingsSane, SettingsInit
  PROVE  RowsInv /\ TabsInv
<1>1. TabsInv
  BY DEF SettingsInit, TabsInv, Closed, NoTyping
<1>2. meant = GetSettings(Web, rows)
  BY DEF SettingsInit
<1>3. procs[Web].env = None /\ GetSettings(Web, rows).key = KeyAs(Web, rows.key)
  BY DEF SettingsInit, SettingsSane, GetSettings
<1>4. rows.key = None \/ (rows.key # None /\ rows.key.under = None)
  BY DEF SettingsInit
<1>5. meant.key = IF rows.key = None THEN 0 ELSE rows.key.value
  BY <1>2, <1>3, <1>4 DEF KeyAs
<1> QED
  BY <1>1, <1>2, <1>5 DEF RowsInv

\* Whatever a process does, no row changes.
LEMMA SameRows ==
  ASSUME RowsInv, UNCHANGED <<rows, meant>>
  PROVE  RowsInv'
BY DEF RowsInv, GetSettings, Renamed, Keys

\* What a page does to the table, and what was meant by it.
LEMMA PageRows ==
  ASSUME SettingsSane, SettingsTypeOK, TabsInv, RowsInv, NEW t \in Tabs, PageStep(t)
  PROVE  RowsInv'
<1>1. CASE Patch(t)
  <2> DEFINE form == tabs[t].sent
             key == StoredKey(Web, form.key)
             template == IF form.template = 0 THEN None ELSE form.template
             table == PatchSettings(Web, form)
  <2>1. form \in Forms /\ rows' = table /\ procs' = procs
    BY <1>1 DEF Patch, SettingsTypeOK, TabRecord
  <2>2. meant' = [k \in Keys |-> IF form[k] = Mask THEN meant[k] ELSE form[k]]
    BY <1>1 DEF Patch
  <2>3. table = [rows EXCEPT !.plain = form.plain, !.renamed = form.renamed,
                             !.key = key, !.template = template]
    BY DEF PatchSettings
  <2>4. /\ form.plain \in Values /\ form.renamed \in Values /\ form.template \in Values
        /\ form.key \in Values \cup {Mask}
    BY <2>1 DEF Forms, Keys, Shown
  <2>5. /\ rows'.plain = form.plain /\ rows'.renamed = form.renamed /\ rows'.key = key
        /\ rows'.template = template
    <3> HIDE DEF form, key, template, table
    <3> QED
      BY <2>1, <2>3 DEF SettingsTypeOK, StoredRows
  <2>6. /\ meant'["plain"] = form.plain /\ meant'["renamed"] = form.renamed
        /\ meant'["template"] = form.template
        /\ meant'["key"] = IF form.key = Mask THEN meant["key"] ELSE form.key
    <3> HIDE DEF form
    <3> QED
      BY <2>2, <2>4 DEF Keys, Values, SettingsSane
  <2>7. meant'["key"] = IF rows'.key = None THEN 0 ELSE rows'.key.value
    <3>1. CASE form.key = Mask
      BY <2>5, <2>6, <3>1 DEF StoredKey, RowsInv
    <3>2. CASE form.key # Mask
      <4>1. key \in [value : Values, under : Secrets \cup {None}] /\ key.value = form.key
        <5> HIDE DEF form
        <5>1. procs[Web].env \in Secrets \cup {None}
          BY DEF SettingsSane, SettingsTypeOK
        <5> QED
          BY <2>4, <3>2, <5>1 DEF StoredKey, Values
      <4> QED
        BY <2>5, <2>6, <3>2, <4>1 DEF SettingsSane
    <3> QED
      BY <3>1, <3>2
  <2>8. GetSettings(Web, rows)'.plain = form.plain /\ GetSettings(Web, rows)'.renamed = form.renamed
        /\ GetSettings(Web, rows)'.template = form.template
    <3> HIDE DEF form
    <3> QED
      BY <2>4, <2>5 DEF GetSettings, Renamed, SettingsSane, Values
  <2> HIDE DEF form
  <2> QED
    BY <2>6, <2>7, <2>8 DEF RowsInv, Keys
<1>2. CASE ~Patch(t)
  <2>1. UNCHANGED <<rows, meant>>
    BY <1>2 DEF PageStep, Load, Save, Adopt, SaveFails, Edit
  <2> QED
    BY <2>1, SameRows
<1> QED
  BY <1>1, <1>2

\* What is asked of a page.
Kept(tab) ==
  /\ tab.answer # None => tab.sent # None
  /\ tab.sent # None => tab.form # None
  /\ \A k \in Keys : tab.typed[k] # None =>
       /\ tab.form[k] = tab.typed[k]
       /\ tab.sent # None => tab.sent[k] # tab.typed[k]

LEMMA OnePage ==
  ASSUME SettingsTypeOK, TabsInv, NEW t \in Tabs, NEW v, Kept(v), tabs' = [tabs EXCEPT ![t] = v]
  PROVE  TabsInv'
<1>1. \A u \in Tabs : tabs'[u] = IF u = t THEN v ELSE tabs[u]
  BY DEF SettingsTypeOK
<1> QED
  BY <1>1 DEF Kept, TabsInv

LEMMA PageTabs ==
  ASSUME SettingsSane, SettingsTypeOK, TabsInv, NEW t \in Tabs, PageStep(t)
  PROVE  TabsInv'
<1> DEFINE tab == tabs[t]
<1>0. tab \in TabRecord /\ Kept(tab) /\ \A f \in Forms : f # None
  BY DEF SettingsTypeOK, TabsInv, Kept, SettingsSane
<1>1. \A k \in Keys : NoTyping[k] = None
  BY DEF NoTyping
<1>2. CASE Load(t)
  <2> DEFINE loaded == Redacted(GetSettings(Web, rows))
             v == [Closed EXCEPT !.form = loaded, !.persisted = loaded]
  <2>1. tabs' = [tabs EXCEPT ![t] = v]
    BY <1>2 DEF Load
  <2> HIDE DEF loaded
  <2>2. v.answer = None /\ v.sent = None /\ v.typed = NoTyping
    BY DEF Closed
  <2> HIDE DEF v
  <2>3. Kept(v)
    BY <1>1, <2>2 DEF Kept
  <2> QED
    BY <2>1, <2>3, OnePage
<1>3. CASE Save(t)
  <2> DEFINE v == [tab EXCEPT !.sent = tab.form, !.typed = NoTyping]
  <2>1. tabs' = [tabs EXCEPT ![t] = v] /\ tab.form # None /\ tab.sent = None
    BY <1>3 DEF Save
  <2>2. v.answer = tab.answer /\ v.sent = tab.form /\ v.form = tab.form /\ v.typed = NoTyping
    BY <1>0 DEF TabRecord
  <2> HIDE DEF v, tab
  <2>3. Kept(v)
    BY <1>0, <1>1, <2>1, <2>2 DEF Kept
  <2> QED
    BY <2>1, <2>3, OnePage
<1>4. CASE Patch(t)
  <2> DEFINE answer == Redacted(GetSettings(Web, PatchSettings(Web, tab.sent)))
             v == [tab EXCEPT !.answer = answer]
  <2>1. tabs' = [tabs EXCEPT ![t] = v] /\ tab.sent # None
    BY <1>4 DEF Patch
  <2> HIDE DEF answer
  <2>2. v.sent = tab.sent /\ v.form = tab.form /\ v.typed = tab.typed
    BY <1>0 DEF TabRecord
  <2> HIDE DEF v, tab
  <2>3. Kept(v)
    BY <1>0, <2>1, <2>2 DEF Kept
  <2> QED
    BY <2>1, <2>3, OnePage
<1>5. CASE Adopt(t)
  <2> DEFINE form == [k \in Keys |-> IF tab.form[k] # tab.sent[k] THEN tab.form[k] ELSE tab.answer[k]]
             v == [tab EXCEPT !.form = form, !.persisted = tab.answer, !.sent = None, !.answer = None]
  <2>1. tabs' = [tabs EXCEPT ![t] = v] /\ tab.answer # None
    BY <1>5 DEF Adopt
  <2>2. v.answer = None /\ v.sent = None /\ v.form = form /\ v.typed = tab.typed
    BY <1>0 DEF TabRecord
  <2>3. \A k \in Keys : tab.typed[k] # None => form[k] = tab.typed[k]
    BY <1>0, <2>1 DEF Kept
  <2> HIDE DEF v, tab, form
  <2>4. Kept(v)
    BY <2>2, <2>3 DEF Kept
  <2> QED
    BY <2>1, <2>4, OnePage
<1>6. CASE SaveFails(t)
  <2> DEFINE v == [tab EXCEPT !.sent = None, !.answer = None]
  <2>1. tabs' = [tabs EXCEPT ![t] = v]
    BY <1>6 DEF SaveFails
  <2>2. v.answer = None /\ v.sent = None /\ v.form = tab.form /\ v.typed = tab.typed
    BY <1>0 DEF TabRecord
  <2> HIDE DEF v, tab
  <2>3. Kept(v)
    BY <1>0, <2>2 DEF Kept
  <2> QED
    BY <2>1, <2>3, OnePage
<1>7. CASE \E k \in Keys, value \in Values : Edit(t, k, value)
  <2> PICK k \in Keys, value \in Values : Edit(t, k, value)
    BY <1>7
  <2> DEFINE form == [tab.form EXCEPT ![k] = value]
             entry == IF tab.sent # None /\ tab.sent[k] = value THEN None ELSE value
             typed == [tab.typed EXCEPT ![k] = entry]
             v == [tab EXCEPT !.form = form, !.typed = typed]
  <2>1. tabs' = [tabs EXCEPT ![t] = v] /\ tab.form # None
    BY DEF Edit
  <2>2. v.answer = tab.answer /\ v.sent = tab.sent /\ v.form = form /\ v.typed = typed
    BY <1>0 DEF TabRecord
  <2>3. tab.form \in Forms /\ DOMAIN tab.typed = Keys /\ DOMAIN tab.form = Keys
    BY <1>0, <2>1 DEF TabRecord, Forms
  <2>4. form # None
    <3> HIDE DEF tab
    <3>1. form \in Forms
      BY <2>3 DEF Forms, Shown, Values, SettingsSane
    <3> QED
      BY <1>0, <3>1
  <2>5. \A j \in Keys : /\ form[j] = IF j = k THEN value ELSE tab.form[j]
                        /\ typed[j] = IF j = k THEN entry ELSE tab.typed[j]
    <3> HIDE DEF tab, entry
    <3> QED
      BY <2>3
  <2>6. entry # None => entry = value /\ (tab.sent # None => tab.sent[k] # value)
    OBVIOUS
  <2> HIDE DEF v, tab, form, typed, entry
  <2>7. Kept(v)
    BY <1>0, <2>2, <2>4, <2>5, <2>6 DEF Kept
  <2> QED
    BY <2>1, <2>7, OnePage
<1> QED
  BY <1>2, <1>3, <1>4, <1>5, <1>6, <1>7 DEF PageStep

-----------------------------------------------------------------------------
(* The theorems.                                                           *)

LEMMA SettingsStepKeeps ==
  ASSUME SettingsSane, SInv, [SettingsNext]_settingVars
  PROVE  SInv'
<1> USE DEF SInv
<1>1. CASE \E t \in Tabs : PageStep(t)
  <2> PICK t \in Tabs : PageStep(t)
    BY <1>1
  <2>1. UNCHANGED <<file, procs, rotations>>
    BY DEF PageStep, Load, Save, Patch, Adopt, SaveFails, Edit
  <2> QED
    BY <2>1, PageIsTyped, PageSecret, PageRows, PageTabs
<1>2. CASE \E p \in Procs : ProcStep(p)
  <2> PICK p \in Procs : ProcStep(p)
    BY <1>2
  <2>1. UNCHANGED <<rows, tabs, meant>>
    BY DEF ProcStep, Boot, Create, Write, Wait, Die
  <2> QED
    BY <2>1, ProcIsTyped, ProcSecret, SameRows DEF TabsInv
<1>3. CASE Rotate
  <2>1. UNCHANGED <<rows, tabs, meant>>
    BY <1>3 DEF Rotate
  <2> QED
    BY <1>3, <2>1, RotateIsTyped, RotateSecret, SameRows DEF TabsInv
<1>4. CASE UNCHANGED settingVars
  <2>1. UNCHANGED <<rows, file, procs, tabs, edits, boots, rotations, meant>>
    BY <1>4 DEF settingVars
  <2> QED
    BY <2>1, PageSecret, SameRows DEF SettingsTypeOK, TabsInv
<1> QED
  BY <1>1, <1>2, <1>3, <1>4 DEF SettingsNext, PageStep, ProcStep

LEMMA SettingsInvariant == ASSUME SettingsSane PROVE SettingsSpec => []SInv
<1>1. SettingsInit => SInv
  BY InitIsTyped, InitSecret, InitRowsAndTabs DEF SInv
<1>2. SInv /\ [SettingsNext]_settingVars => SInv'
  BY SettingsStepKeeps
<1> QED
  BY <1>1, <1>2, PTL DEF SettingsSpec

\* SettingsTypeOK: every variable keeps its type, the stored key that of a key
\* and the forms of the pages that of a form.
THEOREM SettingsAreTyped == ASSUME SettingsSane PROVE SettingsSpec => []SettingsTypeOK
<1>1. SInv => SettingsTypeOK
  BY DEF SInv
<1> QED
  BY <1>1, SettingsInvariant, PTL

\* OneSecret: however the boots of the processes interleave with each other,
\* with deaths and with deletions of the file, those that have booted between
\* two deletions have the same secret (authSecret.ts, ensureAuthSecret).
THEOREM SecretIsShared == ASSUME SettingsSane PROVE SettingsSpec => []OneSecret
<1>1. SInv => OneSecret
  BY DEF SInv, SecretInv, OneSecret, Up, Holders
<1> QED
  BY <1>1, SettingsInvariant, PTL

\* SavedIsRead: every process reads what was last saved, whoever saved it and
\* whatever name or secret the row is under (settings.ts, settingsCrypto.ts).
THEOREM SavedIsWhatIsRead == ASSUME SettingsSane PROVE SettingsSpec => []SavedIsRead
<1>1. ASSUME SInv PROVE SavedIsRead
  <2> SUFFICES ASSUME NEW p \in Up, NEW k \in Keys
               PROVE  \/ GetSettings(p, rows)[k] = meant[k]
                      \/ k = "key" /\ rows.key # None /\ rows.key.under # procs[p].env
    BY DEF SavedIsRead
  <2>1. CASE k = "key"
    <3>1. GetSettings(p, rows)[k] = KeyAs(p, rows.key)
      BY <2>1 DEF GetSettings
    <3>2. procs[p].env # None
      BY <1>1 DEF SInv, SecretInv, Up
    <3> QED
      BY <1>1, <2>1, <3>1 DEF KeyAs, SInv, RowsInv
  <2>2. CASE k # "key"
    <3>1. GetSettings(p, rows)[k] = GetSettings(Web, rows)[k]
      BY <2>2 DEF GetSettings, Keys
    <3> QED
      BY <1>1, <2>2, <3>1 DEF SInv, RowsInv
  <2> QED
    BY <2>1, <2>2
<1>2. SInv => SavedIsRead
  BY <1>1
<1> QED
  BY <1>2, SettingsInvariant, PTL

\* EditsAreKept: what is typed into a page while its save is under way is in its
\* form when the answer has been taken over, or was lost (useSettingsData.ts).
THEOREM EditsStay == ASSUME SettingsSane PROVE SettingsSpec => []EditsAreKept
<1>1. SInv => EditsAreKept
  BY DEF SInv, TabsInv, EditsAreKept
<1> QED
  BY <1>1, SettingsInvariant, PTL

=============================================================================
