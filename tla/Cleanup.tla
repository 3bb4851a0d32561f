------------------------------ MODULE Cleanup ------------------------------
(***************************************************************************)
(* What a card leaves on disk and in the tables, and who removes it:       *)
(* an approval's and an abandon's tail (reviewService.ts), a reset         *)
(* (orchestrator.ts), the delete route, the workers' sweep of finished     *)
(* cards and the daily pruning (retention.ts, boot.ts).                    *)
(*                                                                         *)
(* Every handler checks the card, awaits git or the disk, and goes on, so  *)
(* it is a job of two or three steps; a process may die between them.      *)
(***************************************************************************)
EXTENDS Integers, FiniteSets

CONSTANTS Cards,
          Jobs,        \* handlers under way, in any process
          RunsPerCard, \* loop runs a card has at most
          Days,        \* days that pass
          Offered,     \* kinds of job that occur
          Fragile      \* kinds of job whose process may die

VARIABLES status,      \* [Cards -> "waiting", "running", "backlog", ...]
          runs,        \* [Cards -> run number -> [row, aged]]
          baseline,    \* [Cards -> numbers of the runs with a baseline file]
          tree,        \* [Cards -> [dir, row, owner]]: worktree and its row
          jobs,        \* [Jobs -> [kind, card, pc, runs]]
          day,         \* the day
          sweptOn,     \* the marker row: day of the last sweep
          sweeps       \* sweeps claimed, by day

cleanVars == <<status, runs, baseline, tree, jobs, day, sweptOn, sweeps>>

RunNumbers == 1..RunsPerCard
Finished == {"done", "abandoned"}
JobKinds == {"approve", "abandon", "reset", "delete", "reclaim", "prune"}
NoJob == [kind |-> "none", card |-> {}, pc |-> "idle", runs |-> {}]
NoTree == [dir |-> FALSE, row |-> "none", owner |-> 0]

CleanTypeOK ==
  /\ status \in [Cards -> Finished \cup {"waiting", "running", "backlog", "deleted"}]
  /\ runs \in [Cards -> [RunNumbers -> [row : BOOLEAN, used : BOOLEAN, aged : BOOLEAN]]]
  /\ baseline \in [Cards -> SUBSET RunNumbers]
  /\ tree \in [Cards -> [dir : BOOLEAN, row : {"none", "open", "removed"}, owner : 0..RunsPerCard]]
  /\ jobs \in [Jobs -> [kind : JobKinds \cup {"none"}, card : {{}} \cup {{c} : c \in Cards},
                        pc : {"idle", "tree", "rows", "dirs"}, runs : SUBSET RunNumbers]]
  /\ day \in 0..Days /\ sweptOn \in -1..Days /\ sweeps \in [0..Days -> Nat]

CleanInit ==
  /\ status = [c \in Cards |-> "backlog"]
  /\ runs = [c \in Cards |-> [n \in RunNumbers |-> [row |-> FALSE, used |-> FALSE, aged |-> FALSE]]]
  /\ baseline = [c \in Cards |-> {}]
  /\ tree = [c \in Cards |-> NoTree]
  /\ jobs = [j \in Jobs |-> NoJob]
  /\ day = 0 /\ sweptOn = -1 /\ sweeps = [d \in 0..Days |-> 0]

RowsOf(c) == {n \in RunNumbers : runs[c][n].row}
Latest(c) == CHOOSE n \in RowsOf(c) : \A m \in RowsOf(c) : m <= n
WithoutRows(c, S) == [runs EXCEPT ![c] = [n \in RunNumbers |->
                        [runs[c][n] EXCEPT !.row = @ /\ n \notin S]]]
\* Deleting a run's row sets the worktree row's run to null.
Orphaned(t, S) == IF t.owner \in S THEN [t EXCEPT !.owner = 0] ELSE t
\* removeWorktree: git and rm, then the stamp on the row if there is one.
RemovedTree(t) == [t EXCEPT !.dir = FALSE, !.row = IF @ = "open" THEN "removed" ELSE @]
\* latestWorktreeRun, or the existsSync of resetCard.
HasTree(c) == tree[c].dir /\ RowsOf(c) # {}

Begin(j, kind, c, S) ==
  /\ jobs[j] = NoJob /\ kind \in Offered
  /\ jobs' = [jobs EXCEPT ![j] = [kind |-> kind, card |-> {c}, pc |-> "tree", runs |-> S]]
At(j, kind, pc, c) == jobs[j].kind = kind /\ jobs[j].pc = pc /\ jobs[j].card = {c}
Goto(j, pc) == jobs' = [jobs EXCEPT ![j] = [@ EXCEPT !.pc = pc]]
End(j) == jobs' = [jobs EXCEPT ![j] = NoJob]

-----------------------------------------------------------------------------
(* The card's runs: a loop run takes the card's worktree or makes one.     *)

StartRun(c) ==
  /\ status[c] \in {"waiting", "backlog"}
  /\ \E n \in RunNumbers :
       /\ ~runs[c][n].used /\ \A m \in 1..(n - 1) : runs[c][m].used
       /\ runs' = [runs EXCEPT ![c] = [@ EXCEPT ![n] = [row |-> TRUE, used |-> TRUE, aged |-> FALSE]]]
       /\ baseline' = [baseline EXCEPT ![c] = @ \cup {n}]
       /\ tree' = [tree EXCEPT ![c] = IF HasTree(c) THEN @ ELSE [dir |-> TRUE, row |-> "open", owner |-> n]]
  /\ status' = [status EXCEPT ![c] = "running"]
  /\ UNCHANGED <<jobs, day, sweptOn, sweeps>>

RunEnds(c) ==
  /\ status[c] = "running" /\ status' = [status EXCEPT ![c] = "waiting"]
  /\ UNCHANGED <<runs, baseline, tree, jobs, day, sweptOn, sweeps>>

-----------------------------------------------------------------------------
(* The operators' verbs.                                                   *)

\* completeApproval: Done first, then the baseline of the run reviewed goes
\* and its worktree is removed.
Approve(j, c) ==
  /\ status[c] = "waiting" /\ RowsOf(c) # {}
  /\ Begin(j, "approve", c, {Latest(c)})
  /\ status' = [status EXCEPT ![c] = "done"]
  /\ UNCHANGED <<runs, baseline, tree, day, sweptOn, sweeps>>

\* The deletion order of a clean-up: the baseline is gone before the await.
DropBaselines(j, c) ==
  /\ jobs[j].runs # {}
  /\ baseline' = [baseline EXCEPT ![c] = @ \ jobs[j].runs]
  /\ jobs' = [jobs EXCEPT ![j] = [@ EXCEPT !.runs = {}]]
  /\ UNCHANGED <<status, runs, tree, day, sweptOn, sweeps>>

DropTree(j, c) ==
  /\ jobs[j].runs = {}
  /\ tree' = [tree EXCEPT ![c] = RemovedTree(@)]
  /\ End(j)
  /\ UNCHANGED <<status, runs, baseline, day, sweptOn, sweeps>>

Tidies(j, c) == At(j, "approve", "tree", c) \/ At(j, "reclaim", "tree", c)
TidyBaseline(j, c) == Tidies(j, c) /\ DropBaselines(j, c)
TidyTree(j, c) == Tidies(j, c) /\ DropTree(j, c)

\* abandon: a web-only process moves the card and leaves the rest.
Abandon(j, c, passive) ==
  /\ status[c] \in {"waiting", "backlog"} /\ jobs[j] = NoJob
  /\ status' = [status EXCEPT ![c] = "abandoned"]
  /\ IF passive \/ ~HasTree(c) THEN UNCHANGED jobs ELSE Begin(j, "abandon", c, {})
  /\ UNCHANGED <<runs, baseline, tree, day, sweptOn, sweeps>>

AbandonTree(j, c) == At(j, "abandon", "tree", c) /\ DropTree(j, c)

\* resetCard: the card is checked once; every run's worktree and baseline go,
\* then all its rows, and the card moves if it is still where it was.
Reset(j, c) ==
  /\ status[c] = "waiting"
  /\ Begin(j, "reset", c, RowsOf(c))
  /\ UNCHANGED <<status, runs, baseline, tree, day, sweptOn, sweeps>>

ResetTree(j, c) ==
  /\ At(j, "reset", "tree", c)
  /\ tree' = [tree EXCEPT ![c] = RemovedTree(@)]
  /\ baseline' = [baseline EXCEPT ![c] = @ \ jobs[j].runs]
  /\ Goto(j, "rows")
  /\ UNCHANGED <<status, runs, day, sweptOn, sweeps>>

ResetRows(j, c) ==
  /\ At(j, "reset", "rows", c)
  /\ runs' = WithoutRows(c, RunNumbers)
  /\ tree' = [tree EXCEPT ![c] = Orphaned(@, RunNumbers)]
  /\ status' = [status EXCEPT ![c] = IF @ = "waiting" THEN "backlog" ELSE @]
  /\ End(j)
  /\ UNCHANGED <<baseline, day, sweptOn, sweeps>>

\* DELETE /api/cards/:id: the same, with the card's row last.
DeleteCard(j, c) ==
  /\ status[c] \notin {"running", "deleted"}
  /\ Begin(j, "delete", c, RowsOf(c))
  /\ UNCHANGED <<status, runs, baseline, tree, day, sweptOn, sweeps>>

DeleteTree(j, c) ==
  /\ At(j, "delete", "tree", c)
  /\ tree' = [tree EXCEPT ![c] = IF HasTree(c) THEN RemovedTree(@) ELSE @]
  /\ Goto(j, "rows")
  /\ UNCHANGED <<status, runs, baseline, day, sweptOn, sweeps>>

DeleteRows(j, c) ==
  /\ At(j, "delete", "rows", c)
  /\ runs' = WithoutRows(c, RunNumbers)
  /\ tree' = [tree EXCEPT ![c] = Orphaned(@, RunNumbers)]
  /\ status' = [status EXCEPT ![c] = "deleted"]
  /\ End(j)
  /\ UNCHANGED <<baseline, day, sweptOn, sweeps>>

-----------------------------------------------------------------------------
(* The workers' sweeps.                                                    *)

\* Mutant of Reclaimable: abandoned cards are forgotten.
ReclaimableDone(c) ==
  /\ tree[c].row = "open" /\ tree[c].owner \in RowsOf(c)
  /\ status[c] = "done"

\* removeFinishedWorktrees: rows not stamped, of runs of finished cards.
Reclaimable(c) ==
  /\ tree[c].row = "open" /\ tree[c].owner \in RowsOf(c)
  /\ status[c] \in Finished

Reclaim(j, c) ==
  /\ Reclaimable(c)
  /\ Begin(j, "reclaim", c, {tree[c].owner})
  /\ UNCHANGED <<status, runs, baseline, tree, day, sweptOn, sweeps>>

NextDay ==
  /\ day < Days /\ day' = day + 1
  /\ runs' = [c \in Cards |-> [n \in RunNumbers |->
       [runs[c][n] EXCEPT !.aged = @ \/ (runs[c][n].row /\ ~(status[c] = "running" /\ n = Latest(c)))]]]
  /\ UNCHANGED <<status, baseline, tree, jobs, sweptOn, sweeps>>

\* claimDailySweep: the upsert changes the marker, or the day is taken.
Unswept == sweptOn # day

\* pruneRuntimeHistory: ended runs of finished cards past the cutoff, read
\* once; their transcripts are removed while the job waits.
Prune(j, c) ==
  LET old == {n \in RowsOf(c) : runs[c][n].aged} IN
  /\ Unswept /\ status[c] \in Finished /\ old # {}
  /\ sweptOn' = day /\ sweeps' = [sweeps EXCEPT ![day] = @ + 1]
  /\ Begin(j, "prune", c, old)
  /\ UNCHANGED <<status, runs, baseline, tree, day>>

\* Then the rows go, and the paths no run that is left refers to.
PruneRows(j, c) ==
  /\ At(j, "prune", "tree", c)
  /\ runs' = WithoutRows(c, jobs[j].runs)
  /\ tree' = [tree EXCEPT ![c] = Orphaned(@, jobs[j].runs)]
  /\ IF RowsOf(c) \subseteq jobs[j].runs THEN Goto(j, "dirs") ELSE End(j)
  /\ UNCHANGED <<status, baseline, day, sweptOn, sweeps>>

PruneDirs(j, c) ==
  /\ At(j, "prune", "dirs", c)
  /\ tree' = [tree EXCEPT ![c] = IF @.dir THEN RemovedTree(@) ELSE @]
  /\ End(j)
  /\ UNCHANGED <<status, runs, baseline, day, sweptOn, sweeps>>

\* The process dies: the job is gone, what it did stays.
Die(j) ==
  /\ jobs[j].kind \in Fragile
  /\ End(j)
  /\ UNCHANGED <<status, runs, baseline, tree, day, sweptOn, sweeps>>

Verb(j, c) ==
  \/ Approve(j, c) \/ Reset(j, c) \/ DeleteCard(j, c)
  \/ \E passive \in BOOLEAN : Abandon(j, c, passive)
Goes(j, c) ==
  \/ TidyBaseline(j, c) \/ TidyTree(j, c) \/ AbandonTree(j, c)
  \/ ResetTree(j, c) \/ ResetRows(j, c) \/ DeleteTree(j, c) \/ DeleteRows(j, c)
  \/ PruneRows(j, c) \/ PruneDirs(j, c)

CleanNext ==
  \/ NextDay
  \/ \E c \in Cards : StartRun(c) \/ RunEnds(c)
  \/ \E j \in Jobs : \/ Die(j)
                     \/ \E c \in Cards : Verb(j, c) \/ Goes(j, c) \/ Reclaim(j, c) \/ Prune(j, c)

CleanSpec == CleanInit /\ [][CleanNext]_cleanVars

-----------------------------------------------------------------------------
(* Properties.                                                             *)

\* The workers' hourly timers prune once a day between them.
OneSweepADay == \A d \in 0..Days : sweeps[d] <= 1

=============================================================================
