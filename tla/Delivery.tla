------------------------------ MODULE Delivery ------------------------------
(***************************************************************************)
(* The delivery of approved cards of one repository: the review service    *)
(* (src/server/reviewService.ts), the repository lease                     *)
(* (src/server/repoLeases.ts), git's side of a merge (src/server/git.ts)   *)
(* and the orchestrator's reaping of deliveries.                           *)
(*                                                                         *)
(* A step is one statement or one transaction on the shared database, or   *)
(* one git or GitHub operation on the shared checkout; between two steps   *)
(* of one function any other process runs, or the process dies.            *)
(***************************************************************************)
EXTENDS Naturals, FiniteSets

CONSTANTS
  Cards,      \* the cards of one repository (it has one lease)
  Workers,    \* processes with the worker role
  Web,        \* processes with the web role alone: they only ask for deliveries
  UiWorkers,  \* the workers that also serve the UI
  Later,      \* BOUND: the workers that have not started yet; none starts twice
  Slots,      \* BOUND: for the review_deliveries rows that something still reads
  None,       \* no card, no worker
  MaxRuns,    \* BOUND: loop runs per card
  Faults      \* the faults of this instance

Procs == Workers \cup Web

ASSUME DeliveryAssumption ==
  /\ UiWorkers \subseteq Workers /\ Later \subseteq Workers
  /\ Workers \cap Web = {}
  /\ None \notin Cards \cup Workers
  /\ MaxRuns \in Nat \ {0}

VARIABLES
  status,     \* cards.status; "pipeline" is every status module Pipeline owns
  run,        \* the number of the card's latest loop run
  mergeable,  \* it completed, and the latest evaluation, if any, is a clearance
  review,     \* reviews.decision of each run
  merged,     \* the <<card, run>> whose diff is in the base branch
  opened,     \* those whose diff an open pull request shows
  mergeHead,  \* MERGE_HEAD of the parent checkout: the merge not committed yet
  asking,     \* decisions past claimReviewRun, in their process's memory
  delivery,   \* the review_deliveries table
  exec,       \* executeDelivery of each delivery, in its owner's memory
  lease,      \* repo_leases of the repository
  worker,     \* the worker processes
  heartbeat,  \* workers.heartbeat_at, against workerStaleSeconds
  parking     \* the card a reaper still has to move, after its delivery's row

cardVars == <<status, run, mergeable>>
gitVars == <<merged, opened, mergeHead>>
rowVars == <<delivery, exec, lease>>
procVars == <<worker, heartbeat, parking>>
vars == <<status, run, mergeable, review, merged, opened, mergeHead, asking,
          delivery, exec, lease, worker, heartbeat, parking>>

Statuses == {"pipeline", "review", "needs_attention", "reviewing", "done"}
RunNumbers == 1 .. MaxRuns
Diffs == Cards \X (0 .. MaxRuns + 1)                   \* a card and its tip
Claimed == {"review", "needs_attention"}              \* delivery.fromStatus

Free == [card |-> None, run |-> 0, from |-> "review", st |-> "free",
         owner |-> None, waiter |-> None]
Rows == [card : Cards, run : RunNumbers, from : Claimed,
         st : {"pending", "running", "finished"}, owner : Workers \cup {None},
         waiter : Workers \cup {None}]

\* checking: before the merge or push; merging: MERGE_HEAD is set; conflicted:
\* the base is being merged into the worktree; pushed: before the PR lookup;
\* landed: mergeBranch or gh returned; recorded: the approved review is in;
\* announcing: the card is Done; closing, releasing: executeDelivery's finally.
Phases == {"none", "checking", "merging", "conflicted", "pushed", "landed",
           "recorded", "announcing", "closing", "releasing"}
Lives == {"new", "booting", "up", "draining", "exiting", "gone"}
Asks == [proc : Procs, card : Cards, run : RunNumbers, from : Claimed,
         op : {"approve", "reject", "rejected"}]

TypeOK ==
  /\ status \in [Cards -> Statuses]
  /\ run \in [Cards -> 0 .. MaxRuns]
  /\ mergeable \in [Cards -> BOOLEAN]
  /\ review \in [Cards -> [RunNumbers -> {"none", "approved", "rejected"}]]
  /\ merged \subseteq Diffs /\ opened \subseteq Diffs
  /\ mergeHead \in Diffs \cup {None}
  /\ asking \subseteq Asks
  /\ delivery \in [Slots -> Rows \cup {Free}]
  /\ exec \in [Slots -> Phases]
  /\ lease \in Workers \cup {None}
  /\ worker \in [Workers -> Lives]
  /\ heartbeat \in [Workers -> {"fresh", "stale"}]
  /\ parking \in [Workers -> Cards \cup {None}]

-----------------------------------------------------------------------------
(* What a process sees, and the writes the actions are built from.         *)

\* What executeDelivery reaches without an await.
Unawaited == {"recorded", "closing", "releasing"}

\* p is between two statements of one synchronous function: no other callback of
\* p runs, but p may die.  Only Retry merge awaits between its claim and its row.
InSegment(p) ==
  \/ \E a \in asking : a.proc = p /\ (a.op = "approve" => a.from = "review")
  \/ /\ p \in Workers
     /\ \/ parking[p] # None
        \/ \E d \in Slots : delivery[d].owner = p /\ exec[d] \in Unawaited

Awake(w) == worker[w] \in {"up", "draining"} /\ ~InSegment(w)
Serves(p) == IF p \in Web THEN ~InSegment(p) ELSE p \in UiWorkers /\ Awake(p)
Ticking(w) == worker[w] \in {"booting", "up", "draining"} /\ ~InSegment(w)

\* Mutant of Live: a worker row counts whatever its heartbeat says.
LiveForever(w) == Workers

\* liveWorkerIds(), plus the reaper's own id.
Live(w) == {v \in Workers : heartbeat[v] = "fresh"} \cup {w}

\* moveCard: a compare-and-set.
MoveCard(c, from, to) ==
  status' = IF status[c] = from THEN [status EXCEPT ![c] = to] ELSE status

\* The branch's tip: while the pipeline works on it, it holds unreviewed work.
Tip(c) == IF status[c] = "pipeline" THEN run[c] + 1 ELSE run[c]

\* A row's slot is free again once it is finished and no function reads it.
Settle(d, r, phase) ==
  /\ exec' = [exec EXCEPT ![d] = phase]
  /\ delivery' = [delivery EXCEPT ![d] =
       IF r.st = "finished" /\ phase = "none" THEN Free ELSE r]

\* Where the operator asked for it: in the base branch, or in a pull request.
Landed == merged \cup opened

Finished(d) == [delivery[d] EXCEPT !.st = "finished"]

-----------------------------------------------------------------------------
(* The pipeline, as far as deliveries see it (module Pipeline).            *)

\* The evaluator passes a completed loop run: advanceToReview.
ReachesReview(c) ==
  /\ status[c] = "pipeline" /\ run[c] < MaxRuns
  /\ run' = [run EXCEPT ![c] = @ + 1]
  /\ mergeable' = [mergeable EXCEPT ![c] = TRUE]
  /\ status' = [status EXCEPT ![c] = "review"]
  /\ UNCHANGED <<review, gitVars, asking, rowVars, procVars>>

\* A stage fails or a loop halts: on the card of an old run, which keeps what its
\* evaluation said, or with a new run.  A new one is cleared if it completed and
\* no evaluation of its own was recorded: retryMerge reads the card's latest,
\* which is none then, or an earlier round's.
ReachesAttention(c, newRun, cleared) ==
  /\ status[c] = "pipeline" /\ (newRun => run[c] < MaxRuns)
  /\ newRun \/ cleared = mergeable[c]
  /\ run' = [run EXCEPT ![c] = IF newRun THEN @ + 1 ELSE @]
  /\ mergeable' = [mergeable EXCEPT ![c] = cleared]
  /\ status' = [status EXCEPT ![c] = "needs_attention"]
  /\ UNCHANGED <<review, gitVars, asking, rowVars, procVars>>

\* Started, retried, restarted or pulled back by an operator.  The pull-back's
\* own interleavings are module Pipeline's.
GoesBack(c) ==
  /\ status[c] \in Claimed
  /\ status' = [status EXCEPT ![c] = "pipeline"]
  /\ UNCHANGED <<run, mergeable, review, gitVars, asking, rowVars, procVars>>

-----------------------------------------------------------------------------
(* Decisions, served by any process with the web role.                     *)

\* Mutant of ClaimReviewRun: the card is not claimed by a compare-and-set.
ClaimReviewRunBlindly(p, c, from, op) ==
  /\ run[c] > 0 /\ mergeable[c] /\ review[c][run[c]] = "none"
  /\ UNCHANGED status
  /\ asking' = asking \cup
       {[proc |-> p, card |-> c, run |-> run[c], from |-> from, op |-> op]}

\* claimReviewRun, after the look for an earlier review: the card's latest
\* completed loop run, and the card still in the status it was shown in.
ClaimReviewRun(p, c, from, op) ==
  /\ status[c] = from
  /\ run[c] > 0 /\ mergeable[c] /\ review[c][run[c]] = "none"
  /\ MoveCard(c, from, "reviewing")
  /\ asking' = asking \cup
       {[proc |-> p, card |-> c, run |-> run[c], from |-> from, op |-> op]}

Approve(p, c) ==
  /\ Serves(p)
  /\ ClaimReviewRun(p, c, "review", "approve")
  /\ UNCHANGED <<run, mergeable, review, gitVars, rowVars, procVars>>

\* Retry merge: the same path from Needs Attention.  An approved review makes it
\* answer ok and change nothing; a rejected one makes it throw.
RetryMerge(p, c) ==
  /\ Serves(p)
  /\ ClaimReviewRun(p, c, "needs_attention", "approve")
  /\ UNCHANGED <<run, mergeable, review, gitVars, rowVars, procVars>>

Reject(p, c) ==
  /\ Serves(p)
  /\ ClaimReviewRun(p, c, "review", "reject")
  /\ UNCHANGED <<run, mergeable, review, gitVars, rowVars, procVars>>

\* The decision goes on: at once, or when Retry merge's await resumes.
Asking(a) ==
  /\ a \in asking
  /\ a.proc \in Workers => worker[a.proc] \in {"up", "draining"}
  /\ a.op = "approve" /\ a.from # "review" => ~InSegment(a.proc)

\* Mutant of RequestDelivery: fromStatus is the claimed card's status.
RequestDeliveryFromCard(a, d) ==
  /\ Asking(a) /\ a.op = "approve"
  /\ delivery[d] = Free
  /\ delivery' = [delivery EXCEPT ![d] =
       [card |-> a.card, run |-> a.run, from |-> status[a.card], st |-> "pending",
        owner |-> None, waiter |-> IF a.proc \in Workers THEN a.proc ELSE None]]
  /\ asking' = asking \ {a}
  /\ UNCHANGED <<cardVars, review, gitVars, exec, lease, procVars>>

\* The delivery row.  A worker then waits for it, a web-only process does not.
RequestDelivery(a, d) ==
  /\ Asking(a) /\ a.op = "approve"
  /\ delivery[d] = Free
  /\ delivery' = [delivery EXCEPT ![d] =
       [card |-> a.card, run |-> a.run, from |-> a.from, st |-> "pending",
        owner |-> None, waiter |-> IF a.proc \in Workers THEN a.proc ELSE None]]
  /\ asking' = asking \ {a}
  /\ UNCHANGED <<cardVars, review, gitVars, exec, lease, procVars>>

\* restoreOnThrow: the Git config approval that came with Retry merge is refused.
ApprovalThrows(a) ==
  /\ Asking(a) /\ a.op = "approve" /\ a.from = "needs_attention"
  /\ MoveCard(a.card, "reviewing", a.from)
  /\ asking' = asking \ {a}
  /\ UNCHANGED <<run, mergeable, review, gitVars, rowVars, procVars>>

\* reject's review row, then its move; a lost claim deletes the row again.
RejectRecords(a) ==
  /\ Asking(a) /\ a.op = "reject"
  /\ review' = [review EXCEPT ![a.card][a.run] = "rejected"]
  /\ asking' = (asking \ {a}) \cup {[a EXCEPT !.op = "rejected"]}
  /\ UNCHANGED <<cardVars, gitVars, rowVars, procVars>>

RejectMoves(a) ==
  /\ Asking(a) /\ a.op = "rejected"
  /\ MoveCard(a.card, "reviewing", "pipeline")
  /\ review' = IF status[a.card] = "reviewing" THEN review
               ELSE [review EXCEPT ![a.card][a.run] = "none"]
  /\ asking' = asking \ {a}
  /\ UNCHANGED <<run, mergeable, gitVars, rowVars, procVars>>

-----------------------------------------------------------------------------
(* Claiming and executing a delivery.                                      *)

\* Mutant of AcquireRepoLease: any lease may be taken over.
AcquireAnyLease(w) == lease' = w

\* acquireRepoLease: free, or held by another worker that is not live.
AcquireRepoLease(w) ==
  /\ lease = None \/ \E v \in Workers \ {w} : lease = v /\ heartbeat[v] = "stale"
  /\ lease' = w

\* claimDelivery, one BEGIN IMMEDIATE transaction: from a worker's pump, or from
\* the approval that waits for it (which goes on polling during a drain).
ClaimDelivery(w, d) ==
  /\ Awake(w)
  /\ worker[w] = "up" \/ delivery[d].waiter = w
  /\ delivery[d].st = "pending"
  /\ AcquireRepoLease(w)
  /\ delivery' = [delivery EXCEPT ![d] = [@ EXCEPT !.st = "running", !.owner = w,
                                                        !.waiter = None]]
  /\ exec' = [exec EXCEPT ![d] = "checking"]
  /\ UNCHANGED <<cardVars, review, gitVars, asking, procVars>>

\* executeDelivery of d goes on: from an await, or to its segment's next write.
Executes(d, phase) ==
  /\ exec[d] = phase
  /\ worker[delivery[d].owner] \in {"up", "draining"}
  /\ phase \in Unawaited \/ ~InSegment(delivery[d].owner)

To(d, phase) == exec' = [exec EXCEPT ![d] = phase] /\ UNCHANGED <<delivery, lease>>

\* An outcome that sends the card to `dest`, if it is still being delivered.
Ends(d, dest) ==
  /\ MoveCard(delivery[d].card, "reviewing", dest)
  /\ To(d, "closing")
  /\ UNCHANGED <<run, mergeable, review, asking, procVars>>

\* The integrity check before the merge found violations, or the checkout could
\* not be used; a pull request's precondition is unmet, and the card goes back.
CheckFails(d) ==
  /\ Executes(d, "checking")
  /\ \/ Ends(d, "needs_attention")
     \/ Ends(d, delivery[d].from)
  /\ UNCHANGED gitVars

\* Somebody else's merge is in progress in the parent checkout, or what a dead
\* worker left of anything but the tip this card's branch has now: refused.
ForeignMerge(c) == mergeHead # None /\ mergeHead # <<c, Tip(c)>>
MergeRefused(d) ==
  /\ Executes(d, "checking")
  /\ ForeignMerge(delivery[d].card)
  /\ Ends(d, "needs_attention")
  /\ UNCHANGED gitVars

\* What lands is the card's branch: a merge, or a pull request where the card's
\* openPr or the setting says so, either of which an operator may change.
\*
\* mergeBranch up to `git commit`.  What a dead worker left of this card's own
\* merge is aborted first; a branch already in the base is not merged again.
MergeBegins(d) ==
  LET c == delivery[d].card
      diff == <<c, Tip(c)>>
  IN /\ Executes(d, "checking")
     /\ ~ForeignMerge(c)
     /\ \/ diff \in merged /\ mergeHead' = None /\ To(d, "landed")
        \/ diff \notin merged /\ mergeHead' = diff /\ To(d, "merging")
        \/ diff \notin merged /\ mergeHead' = None /\ To(d, "conflicted")
     /\ UNCHANGED <<cardVars, review, merged, opened, asking, procVars>>

\* `git commit`, and mergeBranch's answer.
MergeCommits(d) ==
  /\ Executes(d, "merging")
  /\ mergeHead # None
  /\ merged' = merged \cup {mergeHead}
  /\ mergeHead' = None
  /\ To(d, "landed")
  /\ UNCHANGED <<cardVars, review, opened, asking, procVars>>

\* The commit fails: a hook, or nothing to commit.  The merge is aborted.
MergeFails(d) ==
  /\ Executes(d, "merging")
  /\ mergeHead' = None
  /\ Ends(d, "needs_attention")
  /\ UNCHANGED <<merged, opened>>

HasPullRequest(c) == \E diff \in opened : diff[1] = c

\* The base is merged into the branch, and the branch pushed: an open pull
\* request shows it at once.
Pushes(d) ==
  LET c == delivery[d].card
  IN /\ Executes(d, "checking")
     /\ To(d, "pushed")
     /\ opened' = IF HasPullRequest(c) THEN opened \cup {<<c, Tip(c)>>} ELSE opened
     /\ UNCHANGED <<cardVars, review, merged, mergeHead, asking, procVars>>

\* The base conflicts with the branch.
PushConflicts(d) ==
  /\ Executes(d, "checking")
  /\ To(d, "conflicted")
  /\ UNCHANGED <<cardVars, review, gitVars, asking, procVars>>

\* An open pull request is adopted; else one is created, or that fails.
OpensPullRequest(d) ==
  LET c == delivery[d].card
  IN /\ Executes(d, "pushed")
     /\ opened' = IF HasPullRequest(c) THEN opened ELSE opened \cup {<<c, Tip(c)>>}
     /\ To(d, "landed")
     /\ UNCHANGED <<cardVars, review, merged, mergeHead, asking, procVars>>

\* Where the lookup of an open one fails, creating one may fail as well.
PullRequestFails(d) ==
  /\ Executes(d, "pushed")
  /\ Ends(d, "needs_attention")
  /\ UNCHANGED gitVars

\* reloopForConflict: a merge task and a plan are written and the card goes to
\* Ready; where the worktree cannot be merged into, to a human.
Reloops(d) ==
  /\ Executes(d, "conflicted")
  /\ Ends(d, "pipeline") \/ Ends(d, "needs_attention")
  /\ UNCHANGED gitVars

\* completeApproval: the approved review, then the move, which throws if the
\* card is no longer being delivered.
RecordApproval(d) ==
  /\ Executes(d, "landed")
  /\ review' = [review EXCEPT ![delivery[d].card][delivery[d].run] =
                  IF @ = "none" THEN "approved" ELSE @]
  /\ To(d, "recorded")
  /\ UNCHANGED <<cardVars, gitVars, asking, procVars>>

\* executeDelivery's catch: a git command of the checks throws, or (a fault) one
\* after the commit, or the insert of the review: the card goes back.
Throwing == {"checking"} \cup IF "late_throw" \in Faults THEN {"landed"} ELSE {}
ExecutionThrows(d) ==
  /\ \E phase \in Throwing : Executes(d, phase)
  /\ Ends(d, delivery[d].from)
  /\ UNCHANGED gitVars

FinishCard(d) ==
  /\ Executes(d, "recorded")
  /\ MoveCard(delivery[d].card, "reviewing", "done")
  /\ To(d, IF status[delivery[d].card] = "reviewing" THEN "announcing" ELSE "closing")
  /\ UNCHANGED <<run, mergeable, review, gitVars, asking, procVars>>

\* The comment on the tracker, the worktree's removal.
Announced(d) ==
  /\ Executes(d, "announcing")
  /\ To(d, "closing")
  /\ UNCHANGED <<cardVars, review, gitVars, asking, procVars>>

\* Mutant of CloseDelivery: a row that a reaper has finished is left at that.
CloseDeliveryIfRunning(d) ==
  /\ Executes(d, "closing")
  /\ Settle(d, Finished(d), IF delivery[d].st = "running" THEN "releasing" ELSE "none")
  /\ UNCHANGED <<cardVars, review, gitVars, asking, lease, procVars>>

\* executeDelivery's finally: the row is finished whatever it says by now.
CloseDelivery(d) ==
  /\ Executes(d, "closing")
  /\ Settle(d, Finished(d), "releasing")
  /\ UNCHANGED <<cardVars, review, gitVars, asking, lease, procVars>>

\* Mutant of ReleaseRepoLease: forgotten.
KeepRepoLease(w) == UNCHANGED lease

ReleaseRepoLease(w) == lease' = IF lease = w THEN None ELSE lease

ReleasesLease(d) ==
  /\ Executes(d, "releasing")
  /\ ReleaseRepoLease(delivery[d].owner)
  /\ Settle(d, delivery[d], "none")
  /\ UNCHANGED <<cardVars, review, gitVars, asking, procVars>>

-----------------------------------------------------------------------------
(* Heartbeats, crashes, reaping and shutdown.                              *)

Beats(w) ==
  /\ Ticking(w)
  /\ heartbeat[w] = "stale"
  /\ heartbeat' = [heartbeat EXCEPT ![w] = "fresh"]
  /\ UNCHANGED <<cardVars, review, gitVars, asking, rowVars, worker, parking>>

\* A dead worker's heartbeat ages, or (a fault) a live one's; without that fault
\* nobody stays within a segment for a whole stale window.
Ages(w) ==
  /\ heartbeat[w] = "fresh"
  /\ "stall" \in Faults \/ (worker[w] = "gone" /\ \A p \in Procs : ~InSegment(p))
  /\ heartbeat' = [heartbeat EXCEPT ![w] = "stale"]
  /\ UNCHANGED <<cardVars, review, gitVars, asking, rowVars, worker, parking>>

\* The merge landed before the worker died: a review or a Done card says so.
RecordedAsLanded(d) ==
  LET c == delivery[d].card
  IN status[c] = "done" \/ review[c][delivery[d].run] = "approved"

\* failDelivery: the row, and in the next statement its card to Needs Attention.
FailDelivery(w, d) ==
  /\ delivery[d].st = "running"
  /\ Settle(d, Finished(d), exec[d])
  /\ parking' = [parking EXCEPT ![w] = delivery[d].card]

\* reapStaleRuns: the owner of a running delivery is not live.
ReapDelivery(w, d) ==
  /\ Ticking(w)
  /\ delivery[d].st = "running"
  /\ delivery[d].owner \notin Live(w)
  /\ IF RecordedAsLanded(d)
     THEN Settle(d, Finished(d), exec[d]) /\ UNCHANGED parking
     ELSE FailDelivery(w, d)
  /\ UNCHANGED <<cardVars, review, gitVars, asking, lease, worker, heartbeat>>

Parks(w) ==
  /\ parking[w] # None
  /\ MoveCard(parking[w], "reviewing", "needs_attention")
  /\ parking' = [parking EXCEPT ![w] = None]
  /\ UNCHANGED <<run, mergeable, review, gitVars, asking, rowVars, worker, heartbeat>>

\* releaseStaleLeases
ReapLease(w) ==
  /\ Ticking(w)
  /\ lease # None /\ lease \notin Live(w)
  /\ lease' = None
  /\ UNCHANGED <<cardVars, review, gitVars, asking, delivery, exec, procVars>>

\* The boot-only orphan sweep, for a card that has been `reviewing` for longer
\* than the stale window with no delivery.  A decision takes longer than that
\* between its claim and its row only if its process stalls.
SweepOrphan(w, c) ==
  /\ worker[w] = "booting" /\ ~InSegment(w)
  /\ status[c] = "reviewing"
  /\ \A d \in Slots : delivery[d].card = c => delivery[d].st = "finished"
  /\ "stall" \in Faults \/ \A a \in asking : a.card # c
  /\ "stall" \in Faults \/ \A d \in Slots : delivery[d].card = c => exec[d] = "none"
  /\ "stall" \in Faults \/ \A v \in Workers : parking[v] # c
  /\ MoveCard(c, "reviewing", "needs_attention")
  /\ UNCHANGED <<run, mergeable, review, gitVars, asking, rowVars, procVars>>

Boots(w) ==
  /\ worker[w] = "new"
  /\ worker' = [worker EXCEPT ![w] = "booting"]
  /\ heartbeat' = [heartbeat EXCEPT ![w] = "fresh"]
  /\ UNCHANGED <<cardVars, review, gitVars, asking, rowVars, parking>>

BootEnds(w) ==
  /\ worker[w] = "booting" /\ ~InSegment(w)
  /\ worker' = [worker EXCEPT ![w] = "up"]
  /\ UNCHANGED <<cardVars, review, gitVars, asking, rowVars, heartbeat, parking>>

\* Everything in w's memory is gone; the checkout keeps its MERGE_HEAD.
Dies(w) ==
  /\ worker' = [worker EXCEPT ![w] = "gone"]
  /\ parking' = [parking EXCEPT ![w] = None]
  /\ asking' = {a \in asking : a.proc # w}
  /\ exec' = [d \in Slots |-> IF delivery[d].owner = w THEN "none" ELSE exec[d]]
  /\ delivery' = [d \in Slots |->
       IF delivery[d].owner = w /\ delivery[d].st = "finished" THEN Free
       ELSE IF delivery[d].waiter = w THEN [delivery[d] EXCEPT !.waiter = None]
       ELSE delivery[d]]

Crashes(w) ==
  /\ "crash" \in Faults
  /\ worker[w] \notin {"new", "gone"}
  /\ "torn" \in Faults \/ \A d \in Slots : delivery[d].owner = w => exec[d] # "closing"
  /\ Dies(w)
  /\ UNCHANGED <<cardVars, review, gitVars, lease, heartbeat>>

WebCrashes(p) ==
  /\ "crash" \in Faults
  /\ p \in Web
  /\ \E a \in asking : a.proc = p
  /\ asking' = {a \in asking : a.proc # p}
  /\ UNCHANGED <<cardVars, review, gitVars, rowVars, procVars>>

Drains(w) ==
  /\ "drain" \in Faults
  /\ worker[w] = "up" /\ ~InSegment(w)
  /\ worker' = [worker EXCEPT ![w] = "draining"]
  /\ UNCHANGED <<cardVars, review, gitVars, asking, rowVars, heartbeat, parking>>

\* releaseOwnedWork: one segment that ends the process; its deliveries fail
\* whatever they have recorded.
GivesUp(w) ==
  /\ worker[w] = "draining" /\ ~InSegment(w)
  /\ worker' = [worker EXCEPT ![w] = "exiting"]
  /\ UNCHANGED <<cardVars, review, gitVars, asking, rowVars, heartbeat, parking>>

Releases(w, d) ==
  /\ worker[w] = "exiting" /\ parking[w] = None
  /\ delivery[d].owner = w
  /\ FailDelivery(w, d)
  /\ UNCHANGED <<cardVars, review, gitVars, asking, lease, worker, heartbeat>>

Exits(w) ==
  /\ worker[w] = "exiting" /\ parking[w] = None
  /\ \A d \in Slots : delivery[d].st = "running" => delivery[d].owner # w
  /\ Dies(w)
  /\ ReleaseRepoLease(w)
  /\ heartbeat' = [heartbeat EXCEPT ![w] = "stale"]
  /\ UNCHANGED <<cardVars, review, gitVars>>

-----------------------------------------------------------------------------
(* The specification.                                                      *)

Init ==
  /\ status = [c \in Cards |-> "pipeline"]
  /\ run = [c \in Cards |-> 0]
  /\ mergeable = [c \in Cards |-> FALSE]
  /\ review = [c \in Cards |-> [n \in RunNumbers |-> "none"]]
  /\ merged = {} /\ opened = {} /\ mergeHead = None
  /\ asking = {}
  /\ delivery = [d \in Slots |-> Free]
  /\ exec = [d \in Slots |-> "none"]
  /\ lease = None
  /\ worker = [w \in Workers |-> IF w \in Later THEN "new" ELSE "up"]
  /\ heartbeat = [w \in Workers |-> IF w \in Later THEN "stale" ELSE "fresh"]
  /\ parking = [w \in Workers |-> None]

PipelineStep(c) ==
  \/ ReachesReview(c)
  \/ \E newRun, cleared \in BOOLEAN : ReachesAttention(c, newRun, cleared)
  \/ GoesBack(c)

Decision(p, c) == Approve(p, c) \/ RetryMerge(p, c) \/ Reject(p, c)

Deciding(a) ==
  \/ \E d \in Slots : RequestDelivery(a, d)
  \/ ApprovalThrows(a) \/ RejectRecords(a) \/ RejectMoves(a)

Execution(d) ==
  \/ CheckFails(d) \/ MergeRefused(d) \/ MergeBegins(d) \/ MergeCommits(d)
  \/ MergeFails(d) \/ Pushes(d) \/ PushConflicts(d) \/ OpensPullRequest(d)
  \/ PullRequestFails(d) \/ Reloops(d)
  \/ RecordApproval(d) \/ ExecutionThrows(d) \/ FinishCard(d) \/ Announced(d)
  \/ CloseDelivery(d) \/ ReleasesLease(d)

Liveliness(w) ==
  \/ Beats(w) \/ Ages(w) \/ Boots(w) \/ BootEnds(w) \/ Parks(w) \/ ReapLease(w)
  \/ \E d \in Slots : ReapDelivery(w, d)
  \/ \E c \in Cards : SweepOrphan(w, c)

Shutdown(w) ==
  \/ Crashes(w) \/ Drains(w) \/ GivesUp(w) \/ Exits(w)
  \/ \E d \in Slots : Releases(w, d)

Next ==
  \/ \E c \in Cards : PipelineStep(c) \/ \E p \in Procs : Decision(p, c)
  \/ \E a \in asking : Deciding(a)
  \/ \E p \in Web : WebCrashes(p)
  \/ \E d \in Slots : Execution(d) \/ \E w \in Workers : ClaimDelivery(w, d)
  \/ \E w \in Workers : Liveliness(w) \/ Shutdown(w)

Spec == Init /\ [][Next]_vars

-----------------------------------------------------------------------------
(* Properties.                                                             *)

\* While no worker stalls, at most one process is between claiming a delivery of
\* the repository and handing the lease back: the parent checkout is moved by
\* one worker at a time, although deliveries, reapers and shutdowns overlap.
OneDeliveryAtATime ==
  \A d, e \in Slots : exec[d] # "none" /\ exec[e] # "none" => d = e

\* A live worker that executes nothing holds no lease: it is never live and
\* stale at once, so a leaked lease would stop every delivery for its lifetime.
NoLeakedLease ==
  \A w \in Workers :
    lease = w /\ worker[w] \in {"up", "draining"}
    => \E d \in Slots : delivery[d].owner = w /\ exec[d] # "none"

\* A rejected diff never reaches the base branch or a pull request, and what
\* reached one is never rejected afterwards.
RejectedNeverLands ==
  \A c \in Cards, n \in RunNumbers :
    review[c][n] = "rejected" => <<c, n>> \notin Landed

\* The deliveries implement module Approval: work lands only while its card is
\* being delivered, and it is the card's current run.
Stage(c) == CASE status[c] = "reviewing" -> "requested"
              [] status[c] = "done" -> "done"
              [] OTHER -> "open"
A == INSTANCE Approval WITH stage <- [c \in Cards |-> Stage(c)], landed <- Landed
ImplementsApproval == A!Spec

\* Retry merge records a merge that landed: a card that rests in Needs Attention
\* with its diff landed is not one Retry merge takes for finished.
RetryRecordsLanded ==
  \A c \in Cards :
    status[c] = "needs_attention" /\ run[c] > 0 /\ <<c, run[c]>> \in Landed
    /\ (\A d \in Slots : delivery[d].card # c)
    => review[c][run[c]] # "approved"
=============================================================================
