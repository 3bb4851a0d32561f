--------------------------- MODULE DeliveryProofs ---------------------------
(***************************************************************************)
(* What TLAPS proves of Delivery for every set of cards, processes and     *)
(* delivery slots: types, that the repository's lease keeps deliveries     *)
(* apart and always finds its way back, and then that deliveries implement *)
(* module Approval and never land rejected work, under crashes and drains. *)
(* The argument of the latter: a card that is being delivered is in the    *)
(* charge of one decision, one delivery or one reaper, and what that one   *)
(* holds of git and of the forge is the diff of the card's latest run.     *)
(***************************************************************************)
EXTENDS Delivery, TLAPS

\* A delivery's function stands on a row that was claimed, in a live process.
Claims == \A d \in Slots :
  exec[d] # "none" =>
    /\ delivery[d] \in Rows
    /\ delivery[d].owner \in Workers
    /\ delivery[d].st # "pending"
    /\ worker[delivery[d].owner] \in {"up", "draining", "exiting"}

IInv == TypeOK /\ Claims

-----------------------------------------------------------------------------
(* Lemmas about the writes the actions are built from.                     *)

LEMMA FreeIsNoRow == Free \notin Rows /\ Free.st = "free" /\ Free.owner = None
  BY DeliveryAssumption DEF Free, Rows

LEMMA RowParts ==
  ASSUME NEW x \in Rows
  PROVE  /\ x.card \in Cards /\ x.run \in RunNumbers /\ x.from \in Claimed
         /\ x.owner \in Workers \cup {None} /\ x.waiter \in Workers \cup {None}
         /\ x.st \in {"pending", "running", "finished"}
         /\ [x EXCEPT !.st = "finished"] \in Rows
         /\ [x EXCEPT !.st = "finished"].owner = x.owner
         /\ [x EXCEPT !.st = "finished"].st = "finished"
         /\ [x EXCEPT !.waiter = None] \in Rows
         /\ [x EXCEPT !.waiter = None].owner = x.owner
         /\ [x EXCEPT !.waiter = None].st = x.st
  BY DEF Rows

LEMMA MoveCardType ==
  ASSUME TypeOK, NEW c \in Cards, NEW from, NEW to \in Statuses,
         MoveCard(c, from, to)
  PROVE  status' \in [Cards -> Statuses]
  BY DEF TypeOK, MoveCard

\* What an execution's step leaves: its phase, and its row's owner.
LEMMA ToKeeps ==
  ASSUME IInv, NEW d \in Slots, NEW phase \in Phases, To(d, phase),
         UNCHANGED worker, exec[d] # "none"
  PROVE  /\ exec' \in [Slots -> Phases] /\ delivery' \in [Slots -> Rows \cup {Free}]
         /\ lease' \in Workers \cup {None}
         /\ Claims'
  BY DEF IInv, TypeOK, Claims, To

\* Settling a row that is finished: it keeps its owner, or is freed.
LEMMA SettleKeeps ==
  ASSUME IInv, NEW d \in Slots, NEW phase \in Phases, delivery[d] \in Rows,
         NEW r \in {delivery[d], Finished(d)}, Settle(d, r, phase),
         delivery[d].st # "pending",
         phase # "none" => exec[d] # "none",
         UNCHANGED worker
  PROVE  /\ exec' \in [Slots -> Phases] /\ delivery' \in [Slots -> Rows \cup {Free}]
         /\ Claims'
         /\ \A e \in Slots \ {d} : delivery'[e] = delivery[e] /\ exec'[e] = exec[e]
         /\ phase # "none" => delivery'[d].owner = delivery[d].owner
         /\ exec'[d] = phase
<1>1. r \in Rows /\ r.owner = delivery[d].owner /\ r.st # "pending"
  BY RowParts DEF Finished
<1>2. \A e \in Slots \ {d} : delivery'[e] = delivery[e] /\ exec'[e] = exec[e]
  BY DEF IInv, TypeOK, Settle
<1>3. exec'[d] = phase /\ delivery'[d] \in {r, Free} /\ (phase # "none" => delivery'[d] = r)
  BY DEF IInv, TypeOK, Settle
<1>4. exec' \in [Slots -> Phases] /\ delivery' \in [Slots -> Rows \cup {Free}]
  BY <1>1 DEF IInv, TypeOK, Settle
<1> QED BY <1>1, <1>2, <1>3, <1>4 DEF IInv, Claims

-----------------------------------------------------------------------------
(* Type correctness.                                                       *)

LEMMA PipelineType ==
  ASSUME IInv, NEW c \in Cards, PipelineStep(c)
  PROVE  IInv'
<1>. MaxRuns \in Nat BY DeliveryAssumption
<1>1. CASE ReachesReview(c)
  BY <1>1 DEF IInv, TypeOK, Claims, ReachesReview, gitVars, rowVars, procVars, Statuses
<1>2. ASSUME NEW newRun \in BOOLEAN, NEW cleared \in BOOLEAN, ReachesAttention(c, newRun, cleared)
      PROVE  IInv'
  BY <1>2 DEF IInv, TypeOK, Claims, ReachesAttention, gitVars, rowVars, procVars, Statuses
<1>3. CASE GoesBack(c)
  BY <1>3 DEF IInv, TypeOK, Claims, GoesBack, gitVars, rowVars, procVars, Statuses
<1> QED BY <1>1, <1>2, <1>3 DEF PipelineStep

LEMMA DecisionType ==
  ASSUME IInv, NEW p \in Procs, NEW c \in Cards, Decision(p, c)
  PROVE  IInv'
<1>1. ASSUME NEW from \in Claimed, NEW op \in {"approve", "reject"},
             ClaimReviewRun(p, c, from, op)
      PROVE  status' \in [Cards -> Statuses] /\ asking' \subseteq Asks
  <2>1. run[c] \in RunNumbers BY <1>1, DeliveryAssumption DEF IInv, TypeOK, ClaimReviewRun, RunNumbers
  <2>2. "reviewing" \in Statuses BY DEF Statuses
  <2> QED BY <1>1, <2>1, <2>2, MoveCardType DEF IInv, TypeOK, ClaimReviewRun, Asks
<1>2. ASSUME status' \in [Cards -> Statuses], asking' \subseteq Asks,
             UNCHANGED <<run, mergeable, review, gitVars, rowVars, procVars>>
      PROVE  IInv'
  BY <1>2 DEF IInv, TypeOK, Claims, gitVars, rowVars, procVars
<1> QED BY <1>1, <1>2 DEF Decision, Approve, RetryMerge, Reject, Claimed

LEMMA DecidingType ==
  ASSUME IInv, NEW a \in asking, Deciding(a)
  PROVE  IInv'
<1>. a \in Asks BY DEF IInv, TypeOK
<1>1. ASSUME NEW d \in Slots, RequestDelivery(a, d) PROVE IInv'
  <2>1. exec[d] = "none" BY <1>1, FreeIsNoRow DEF IInv, Claims, RequestDelivery
  <2>2. [card |-> a.card, run |-> a.run, from |-> a.from, st |-> "pending",
         owner |-> None, waiter |-> IF a.proc \in Workers THEN a.proc ELSE None] \in Rows
    BY DEF Asks, Rows
  <2>3. asking' \subseteq Asks BY <1>1 DEF IInv, TypeOK, RequestDelivery
  <2> QED BY <1>1, <2>1, <2>2, <2>3
          DEF IInv, TypeOK, Claims, RequestDelivery, cardVars, gitVars, procVars
<1>2. CASE ApprovalThrows(a)
  <2>1. a.card \in Cards /\ a.from \in Statuses BY DEF Asks, Claimed, Statuses
  <2>2. status' \in [Cards -> Statuses] BY <1>2, <2>1, MoveCardType DEF IInv, ApprovalThrows
  <2> QED BY <1>2, <2>2
          DEF IInv, TypeOK, Claims, ApprovalThrows, gitVars, rowVars, procVars
<1>3. CASE RejectRecords(a)
  <2>1. a.card \in Cards /\ a.run \in RunNumbers /\ [a EXCEPT !.op = "rejected"] \in Asks
    BY DEF Asks
  <2> QED BY <1>3, <2>1
          DEF IInv, TypeOK, Claims, RejectRecords, cardVars, gitVars, rowVars, procVars
<1>4. CASE RejectMoves(a)
  <2>1. a.card \in Cards /\ a.run \in RunNumbers BY DEF Asks
  <2>2. status' \in [Cards -> Statuses]
    BY <1>4, <2>1, MoveCardType DEF IInv, RejectMoves, Statuses
  <2> QED BY <1>4, <2>1, <2>2 DEF IInv, TypeOK, Claims, RejectMoves, gitVars, rowVars, procVars
<1> QED BY <1>1, <1>2, <1>3, <1>4 DEF Deciding

LEMMA ClaimDeliveryType ==
  ASSUME IInv, NEW w \in Workers, NEW d \in Slots, ClaimDelivery(w, d)
  PROVE  IInv'
<1>1. delivery[d] \in Rows BY FreeIsNoRow DEF IInv, TypeOK, ClaimDelivery
<1>2. [delivery[d] EXCEPT !.st = "running", !.owner = w, !.waiter = None] \in Rows
  BY <1>1 DEF Rows
<1>3. delivery'[d] = [delivery[d] EXCEPT !.st = "running", !.owner = w, !.waiter = None]
  BY DEF IInv, TypeOK, ClaimDelivery
<1>4. delivery'[d].owner = w /\ delivery'[d].st = "running"
  BY <1>1, <1>3 DEF Rows
<1>5. \A e \in Slots \ {d} : delivery'[e] = delivery[e] /\ exec'[e] = exec[e]
  BY DEF IInv, TypeOK, ClaimDelivery
<1>6. worker[w] \in {"up", "draining"} /\ UNCHANGED worker
  BY DEF ClaimDelivery, Awake, procVars
<1>7. Claims' BY <1>2, <1>3, <1>4, <1>5, <1>6 DEF IInv, Claims
<1>8. exec' \in [Slots -> Phases] /\ delivery' \in [Slots -> Rows \cup {Free}]
      /\ lease' \in Workers \cup {None}
  BY <1>2, <1>3, <1>5
     DEF IInv, TypeOK, ClaimDelivery, AcquireRepoLease, Phases
<1> QED BY <1>7, <1>8 DEF IInv, TypeOK, ClaimDelivery, cardVars, gitVars, procVars

\* The row an execution works for, and what its outcome may leave.
LEMMA ExecutingRow ==
  ASSUME IInv, NEW d \in Slots, NEW phase \in Phases \ {"none"}, Executes(d, phase)
  PROVE  /\ exec[d] = phase /\ delivery[d] \in Rows /\ delivery[d].st # "pending"
         /\ delivery[d].owner \in Workers
         /\ delivery[d].card \in Cards /\ delivery[d].run \in RunNumbers
         /\ delivery[d].from \in Statuses
         /\ Tip(delivery[d].card) \in 0 .. MaxRuns + 1
         /\ <<delivery[d].card, Tip(delivery[d].card)>> \in Diffs
<1>1. delivery[d] \in Rows /\ exec[d] = phase BY DEF IInv, Claims, Executes
<1>2. run[delivery[d].card] \in 0 .. MaxRuns BY <1>1, RowParts DEF IInv, TypeOK
<1>3. delivery[d].from \in Statuses BY <1>1, RowParts DEF Claimed, Statuses
<1>4. Tip(delivery[d].card) \in 0 .. MaxRuns + 1
  <2>1. delivery[d].run \in RunNumbers BY <1>1, RowParts
  <2> QED BY <1>1, <1>2, <2>1, DeliveryAssumption DEF Tip, RunNumbers
<1>5. delivery[d].owner \in Workers /\ delivery[d].st # "pending"
  BY <1>1 DEF IInv, Claims
<1>6. delivery[d].card \in Cards /\ delivery[d].run \in RunNumbers BY <1>1, RowParts
<1> QED BY <1>1, <1>3, <1>4, <1>5, <1>6 DEF Diffs

LEMMA EndsType ==
  ASSUME IInv, NEW d \in Slots, NEW phase \in Phases \ {"none"}, Executes(d, phase),
         NEW dest \in Statuses, Ends(d, dest),
         merged' \subseteq Diffs, opened' \subseteq Diffs, mergeHead' \in Diffs \cup {None}
  PROVE  IInv'
<1>1. status' \in [Cards -> Statuses] BY ExecutingRow, MoveCardType DEF IInv, Ends
<1>2. Claims' /\ exec' \in [Slots -> Phases] /\ delivery' \in [Slots -> Rows \cup {Free}]
      /\ lease' \in Workers \cup {None}
  BY ExecutingRow, ToKeeps DEF Ends, Phases, procVars
<1> QED BY <1>1, <1>2 DEF IInv, TypeOK, Ends, procVars


LEMMA ExecutionType ==
  ASSUME IInv, NEW d \in Slots, Execution(d)
  PROVE  IInv'
<1>. DEFINE c == delivery[d].card
<1>. merged \subseteq Diffs /\ opened \subseteq Diffs /\ mergeHead \in Diffs \cup {None}
  BY DEF IInv, TypeOK
<1>. {"needs_attention", "pipeline", "review"} \subseteq Statuses BY DEF Statuses
<1>1. ASSUME NEW phase \in Phases \ {"none"}, Executes(d, phase),
             NEW dest \in Statuses, Ends(d, dest), UNCHANGED gitVars
      PROVE  IInv'
  BY <1>1, EndsType DEF gitVars
<1>2. ASSUME NEW phase \in Phases \ {"none"}, Executes(d, phase),
             NEW next \in Phases, To(d, next),
             UNCHANGED <<asking, procVars>>, UNCHANGED status \/ status' \in [Cards -> Statuses],
             UNCHANGED <<run, mergeable>>,
             review' \in [Cards -> [RunNumbers -> {"none", "approved", "rejected"}]],
             merged' \subseteq Diffs, opened' \subseteq Diffs, mergeHead' \in Diffs \cup {None}
      PROVE  IInv'
  BY <1>2, ToKeeps, ExecutingRow DEF IInv, TypeOK, procVars
<1>3. CASE CheckFails(d)
  <2>1. delivery[d].from \in Statuses
    BY <1>3, ExecutingRow DEF CheckFails, Phases
  <2> QED BY <1>1, <1>3, <2>1 DEF CheckFails, Phases
<1>4. CASE MergeRefused(d) BY <1>1, <1>4 DEF MergeRefused, Phases
<1>5. CASE MergeBegins(d)
  <2>1. <<c, Tip(c)>> \in Diffs BY <1>5, ExecutingRow DEF MergeBegins, Phases
  <2>2. review \in [Cards -> [RunNumbers -> {"none", "approved", "rejected"}]]
    BY DEF IInv, TypeOK
  <2> QED BY <1>2, <1>5, <2>1, <2>2 DEF MergeBegins, Phases, cardVars, gitVars
<1>6. CASE MergeCommits(d)
  <2>1. review \in [Cards -> [RunNumbers -> {"none", "approved", "rejected"}]]
    BY DEF IInv, TypeOK
  <2> QED BY <1>2, <1>6, <2>1 DEF MergeCommits, Phases, cardVars
<1>7. CASE MergeFails(d) BY <1>7, EndsType DEF MergeFails, Phases
<1>8. CASE Pushes(d) \/ PushConflicts(d) \/ OpensPullRequest(d) \/ RecordApproval(d)
           \/ Announced(d) \/ FinishCard(d)
  <2>1. \A phase \in Phases \ {"none"} : Executes(d, phase) =>
          <<c, Tip(c)>> \in Diffs /\ c \in Cards /\ delivery[d].run \in RunNumbers
    BY ExecutingRow
  <2>2. review \in [Cards -> [RunNumbers -> {"none", "approved", "rejected"}]]
    BY DEF IInv, TypeOK
  <2>3. CASE Pushes(d) BY <1>2, <2>1, <2>2, <2>3 DEF Pushes, Phases, cardVars
  <2>4. CASE PushConflicts(d)
    BY <1>2, <2>1, <2>2, <2>4 DEF PushConflicts, Phases, cardVars, gitVars
  <2>5. CASE OpensPullRequest(d)
    BY <1>2, <2>1, <2>2, <2>5 DEF OpensPullRequest, Phases, cardVars
  <2>6. CASE RecordApproval(d)
    <3>1. review' \in [Cards -> [RunNumbers -> {"none", "approved", "rejected"}]]
      BY <2>2, <2>6 DEF RecordApproval
    <3> QED BY <1>2, <2>6, <3>1 DEF RecordApproval, Phases, cardVars, gitVars
  <2>7. CASE Announced(d)
    BY <1>2, <2>2, <2>7 DEF Announced, Phases, cardVars, gitVars
  <2>8. CASE FinishCard(d)
    <3>1. status' \in [Cards -> Statuses]
      BY <2>1, <2>8, MoveCardType DEF IInv, FinishCard, Phases, Statuses
    <3> QED BY <1>2, <2>2, <2>8, <3>1 DEF FinishCard, Phases, gitVars
  <2> QED BY <1>8, <2>3, <2>4, <2>5, <2>6, <2>7, <2>8
<1>9. CASE PullRequestFails(d) BY <1>1, <1>9 DEF PullRequestFails, Phases
<1>10. CASE Reloops(d) BY <1>1, <1>10 DEF Reloops, Phases
<1>11. CASE ExecutionThrows(d)
  <2>1. PICK phase \in Phases \ {"none"} : Executes(d, phase)
    BY <1>11 DEF ExecutionThrows, Throwing, Phases
  <2>2. delivery[d].from \in Statuses BY <2>1, ExecutingRow
  <2> QED BY <1>1, <1>11, <2>1, <2>2 DEF ExecutionThrows
<1>12. ASSUME NEW r \in {delivery[d], Finished(d)}, NEW phase \in Phases,
              Settle(d, r, phase), NEW old \in Phases \ {"none"}, Executes(d, old),
              UNCHANGED <<cardVars, review, gitVars, asking, procVars>>,
              lease' \in Workers \cup {None}
       PROVE  IInv'
  <2>1. exec[d] # "none" /\ delivery[d] \in Rows /\ delivery[d].st # "pending"
    BY <1>12, ExecutingRow
  <2> QED BY <1>12, <2>1, SettleKeeps
          DEF IInv, TypeOK, cardVars, gitVars, procVars
<1>13. CASE CloseDelivery(d)
  BY <1>12, <1>13 DEF CloseDelivery, Phases, IInv, TypeOK
<1>14. CASE ReleasesLease(d)
  BY <1>12, <1>14 DEF ReleasesLease, ReleaseRepoLease, Phases, IInv, TypeOK
<1> QED BY <1>3, <1>4, <1>5, <1>6, <1>7, <1>8, <1>9, <1>10, <1>11, <1>13, <1>14 DEF Execution

\* Everything a dead worker leaves is a row of another, or one without a function.
LEMMA DiesType ==
  ASSUME IInv, NEW w \in Workers, Dies(w),
         UNCHANGED <<cardVars, review, gitVars>>,
         lease' \in Workers \cup {None}, heartbeat' \in [Workers -> {"fresh", "stale"}]
  PROVE  IInv'
<1>1. ASSUME NEW d \in Slots
      PROVE  /\ delivery'[d] \in Rows \cup {Free}
             /\ exec'[d] # "none" =>
                  /\ exec[d] # "none" /\ exec'[d] = exec[d] /\ delivery[d].owner # w
                  /\ delivery'[d] \in Rows /\ delivery'[d].owner = delivery[d].owner
                  /\ delivery'[d].st = delivery[d].st
  <2>1. delivery[d] = Free \/ delivery[d] \in Rows BY DEF IInv, TypeOK
  <2>2. CASE delivery[d] = Free
    <3>1. delivery[d].owner # w /\ delivery[d].waiter # w
      BY <2>2, DeliveryAssumption DEF Free
    <3>2. delivery'[d] = Free BY <2>2, <3>1 DEF Dies
    <3> QED BY <2>2, <3>2, FreeIsNoRow DEF IInv, TypeOK, Claims, Dies
  <2>3. CASE delivery[d] \in Rows
    <3>1. delivery'[d] \in {Free, delivery[d], [delivery[d] EXCEPT !.waiter = None]}
          /\ (delivery[d].owner # w => delivery'[d] # Free \/ delivery[d] = Free)
      BY <2>3, FreeIsNoRow, RowParts DEF Dies
    <3>2. exec'[d] # "none" => exec'[d] = exec[d] /\ delivery[d].owner # w
      BY DEF IInv, TypeOK, Dies
    <3> QED BY <2>3, <3>1, <3>2, FreeIsNoRow, RowParts
  <2> QED BY <2>1, <2>2, <2>3
<1>2. exec' \in [Slots -> Phases] /\ delivery' \in [Slots -> Rows \cup {Free}]
  <2>1. exec' \in [Slots -> Phases] BY DEF IInv, TypeOK, Dies, Phases
  <2> QED BY <1>1, <2>1 DEF Dies
<1>3. worker' \in [Workers -> Lives]
      /\ \A v \in Workers : v # w => worker'[v] = worker[v]
  BY DEF IInv, TypeOK, Dies, Lives
<1>4. parking' \in [Workers -> Cards \cup {None}] /\ asking' \subseteq Asks
  BY DEF IInv, TypeOK, Dies
<1>5. Claims' BY <1>1, <1>3 DEF IInv, Claims
<1> QED BY <1>2, <1>3, <1>4, <1>5 DEF IInv, TypeOK, cardVars, gitVars

LEMMA FailDeliveryType ==
  ASSUME IInv, NEW w \in Workers, NEW d \in Slots, FailDelivery(w, d),
         UNCHANGED <<cardVars, review, gitVars, asking, lease, worker, heartbeat>>
  PROVE  IInv'
<1>1. delivery[d] \in Rows BY FreeIsNoRow DEF IInv, TypeOK, FailDelivery
<1>2. delivery[d].card \in Cards BY <1>1, RowParts
<1>3. delivery[d].st # "pending" /\ exec[d] \in Phases BY DEF IInv, TypeOK, FailDelivery
<1> QED BY <1>1, <1>2, <1>3, SettleKeeps
        DEF IInv, TypeOK, FailDelivery, cardVars, gitVars

LEMMA LivelinessType ==
  ASSUME IInv, NEW w \in Workers, Liveliness(w)
  PROVE  IInv'
<1>1. CASE Beats(w) \/ Ages(w) \/ ReapLease(w)
  BY <1>1 DEF IInv, TypeOK, Claims, Beats, Ages, ReapLease, cardVars, gitVars, rowVars, procVars
<1>2. CASE Boots(w) \/ BootEnds(w)
  BY <1>2 DEF IInv, TypeOK, Claims, Boots, BootEnds, Lives, cardVars, gitVars, rowVars
<1>3. CASE Parks(w)
  <2>1. parking[w] \in Cards BY <1>3 DEF IInv, TypeOK, Parks
  <2>2. status' \in [Cards -> Statuses]
    BY <1>3, <2>1, MoveCardType DEF IInv, Parks, Statuses
  <2> QED BY <1>3, <2>2 DEF IInv, TypeOK, Claims, Parks, gitVars, rowVars
<1>4. ASSUME NEW d \in Slots, ReapDelivery(w, d) PROVE IInv'
  <2>1. CASE FailDelivery(w, d) BY <1>4, <2>1, FailDeliveryType DEF ReapDelivery
  <2>2. CASE Settle(d, Finished(d), exec[d]) /\ UNCHANGED parking
    <3>1. delivery[d] \in Rows BY <1>4, FreeIsNoRow DEF IInv, TypeOK, ReapDelivery
    <3>2. delivery[d].st # "pending" /\ exec[d] \in Phases
      BY <1>4 DEF IInv, TypeOK, ReapDelivery
    <3> QED BY <1>4, <2>2, <3>1, <3>2, SettleKeeps
            DEF IInv, TypeOK, ReapDelivery, cardVars, gitVars
  <2> QED BY <1>4, <2>1, <2>2 DEF ReapDelivery
<1>5. ASSUME NEW c \in Cards, SweepOrphan(w, c) PROVE IInv'
  <2>1. status' \in [Cards -> Statuses]
    BY <1>5, MoveCardType DEF IInv, SweepOrphan, Statuses
  <2> QED BY <1>5, <2>1 DEF IInv, TypeOK, Claims, SweepOrphan, gitVars, rowVars, procVars
<1> QED BY <1>1, <1>2, <1>3, <1>4, <1>5 DEF Liveliness

LEMMA ShutdownType ==
  ASSUME IInv, NEW w \in Workers, Shutdown(w)
  PROVE  IInv'
<1>1. CASE Crashes(w)
  BY <1>1, DiesType DEF Crashes, IInv, TypeOK
<1>2. CASE Drains(w) \/ GivesUp(w)
  BY <1>2 DEF IInv, TypeOK, Claims, Drains, GivesUp, Lives, cardVars, gitVars, rowVars
<1>3. CASE Exits(w)
  <2>1. lease' \in Workers \cup {None} /\ heartbeat' \in [Workers -> {"fresh", "stale"}]
    BY <1>3 DEF Exits, ReleaseRepoLease, IInv, TypeOK
  <2> QED BY <1>3, <2>1, DiesType DEF Exits
<1>4. ASSUME NEW d \in Slots, Releases(w, d) PROVE IInv'
  BY <1>4, FailDeliveryType DEF Releases
<1> QED BY <1>1, <1>2, <1>3, <1>4 DEF Shutdown

LEMMA Inductive == (Init => IInv) /\ (IInv /\ [Next]_vars => IInv')
<1>1. Init => IInv
  BY DeliveryAssumption DEF Init, IInv, TypeOK, Claims, Statuses, Phases, Lives
<1>2. ASSUME IInv, UNCHANGED vars PROVE IInv'
  BY <1>2 DEF vars, cardVars, IInv, TypeOK, Claims
<1>3. ASSUME IInv, NEW p \in Web, WebCrashes(p) PROVE IInv'
  BY <1>3 DEF WebCrashes, IInv, TypeOK, Claims, cardVars, gitVars, rowVars, procVars
<1>4. ASSUME IInv, Next PROVE IInv'
  BY <1>3, <1>4, PipelineType, DecisionType, DecidingType, ClaimDeliveryType,
     ExecutionType, LivelinessType, ShutdownType DEF Next
<1> QED BY <1>1, <1>2, <1>4

\* Every step of any instance keeps the review service's and the lease's rows,
\* the checkout and the processes' memory within their types.
THEOREM TypeCorrect == Spec => []TypeOK
<1>1. IInv => TypeOK BY DEF IInv
<1> QED BY <1>1, Inductive, PTL DEF Spec

-----------------------------------------------------------------------------
(* No live worker leaks the lease, whatever faults there are.              *)

Holds(w) == \E d \in Slots : delivery[d].owner = w /\ exec[d] # "none"

\* The lease's holder registered and booted before it took it.
HolderBooted ==
  \A w \in Workers : lease = w => worker[w] \notin {"new", "booting"}

LeaseInv == IInv /\ HolderBooted /\ NoLeakedLease

\* The step takes no function from the lease's holder and gives nobody the lease.
LeaseKept ==
  /\ lease' \in {None, lease}
  /\ \A w \in Workers : Holds(w) /\ lease' = w /\ worker'[w] # "gone" => Holds(w)'
  /\ \A w \in Workers : worker[w] \notin {"new", "booting"} => worker'[w] \notin {"new", "booting"}
  /\ \A w \in Workers : worker'[w] \in {"up", "draining"} =>
       worker[w] \in {"booting", "up", "draining"}

LEMMA LeaseKeptInv ==
  ASSUME LeaseInv, LeaseKept, IInv'
  PROVE  LeaseInv'
<1>1. ASSUME NEW w \in Workers, lease' = w
      PROVE  lease = w /\ worker'[w] \notin {"new", "booting"}
  BY <1>1, DeliveryAssumption DEF LeaseKept, LeaseInv, HolderBooted
<1>2. ASSUME NEW w \in Workers, lease' = w, worker'[w] \in {"up", "draining"}
      PROVE  Holds(w)'
  BY <1>1, <1>2 DEF LeaseKept, LeaseInv, NoLeakedLease, HolderBooted, Holds
<1> QED BY <1>1, <1>2 DEF LeaseInv, NoLeakedLease, HolderBooted, Holds

LEMMA LeaseStep ==
  ASSUME LeaseInv, [Next]_vars, IInv'
  PROVE  LeaseInv'
<1>. IInv BY DEF LeaseInv
<1>1. UNCHANGED <<rowVars, worker>> => LeaseInv'
  <2>1. UNCHANGED <<rowVars, worker>> => LeaseKept BY DEF rowVars, LeaseKept, Holds
  <2> QED BY <2>1, LeaseKeptInv
<1>2. ASSUME NEW a \in asking, NEW d \in Slots, RequestDelivery(a, d) PROVE LeaseKept
  <2>1. exec[d] = "none" BY <1>2, FreeIsNoRow DEF IInv, Claims, RequestDelivery
  <2> QED BY <1>2, <2>1 DEF RequestDelivery, LeaseKept, Holds, procVars, IInv, TypeOK
<1>3. ASSUME NEW w \in Workers, NEW d \in Slots, ClaimDelivery(w, d) PROVE LeaseInv'
  <2>1. delivery[d] \in Rows BY <1>3, FreeIsNoRow DEF IInv, TypeOK, ClaimDelivery
  <2>2. delivery'[d].owner = w /\ exec'[d] # "none"
    BY <1>3, <2>1 DEF IInv, TypeOK, ClaimDelivery, Rows
  <2>3. lease' = w /\ worker'[w] \in {"up", "draining"}
    BY <1>3 DEF ClaimDelivery, AcquireRepoLease, Awake, procVars
  <2> QED BY <2>2, <2>3 DEF LeaseInv, HolderBooted, NoLeakedLease
<1>4. ASSUME NEW d \in Slots, Execution(d) PROVE LeaseKept
  <2>1. ASSUME NEW phase \in Phases \ {"none"}, NEW next \in Phases \ {"none"},
               To(d, next), UNCHANGED worker
        PROVE  LeaseKept
    BY <2>1 DEF IInv, TypeOK, To, LeaseKept, Holds
  <2>2. ASSUME NEW dest, Ends(d, dest) PROVE LeaseKept
    BY <2>1, <2>2 DEF Ends, procVars, Phases
  <2>3. CASE CloseDelivery(d)
    <3>1. Executes(d, "closing") /\ UNCHANGED worker /\ lease' = lease
      BY <2>3 DEF CloseDelivery, procVars
    <3>2. exec[d] # "none" /\ delivery[d] \in Rows /\ delivery[d].st # "pending"
      <4>1. "closing" \in Phases \ {"none"} BY DEF Phases
      <4> QED BY <3>1, <4>1, ExecutingRow
    <3>3. Settle(d, Finished(d), "releasing") /\ "releasing" \in Phases
      BY <2>3 DEF CloseDelivery, Phases
    <3>4. /\ \A e \in Slots \ {d} : delivery'[e] = delivery[e] /\ exec'[e] = exec[e]
          /\ delivery'[d].owner = delivery[d].owner /\ exec'[d] # "none"
      BY <3>1, <3>2, <3>3, SettleKeeps
    <3> QED BY <3>1, <3>4 DEF LeaseKept, Holds
  <2>4. CASE ReleasesLease(d)
    <3>1. Executes(d, "releasing") /\ UNCHANGED worker
          /\ (lease' = lease \/ lease' = None)
          /\ (lease = delivery[d].owner => lease' = None)
      BY <2>4 DEF ReleasesLease, ReleaseRepoLease, procVars
    <3>2. \A e \in Slots \ {d} : delivery'[e] = delivery[e] /\ exec'[e] = exec[e]
      BY <2>4, <3>1, ExecutingRow, SettleKeeps DEF ReleasesLease, Phases
    <3> QED BY <3>1, <3>2, DeliveryAssumption DEF LeaseKept, Holds
  <2> QED BY <1>4, <2>1, <2>2, <2>3, <2>4
          DEF Execution, CheckFails, MergeRefused, MergeBegins, MergeCommits, MergeFails, Pushes,
              PushConflicts, OpensPullRequest, PullRequestFails, Reloops, RecordApproval,
              ExecutionThrows, FinishCard, Announced, procVars, Phases
<1>5. ASSUME NEW d \in Slots, NEW r \in {delivery[d], Finished(d)}, Settle(d, r, exec[d]),
             delivery[d].st = "running", UNCHANGED <<lease, worker>>
      PROVE  LeaseKept
  <2>1. delivery[d] \in Rows BY <1>5, FreeIsNoRow DEF IInv, TypeOK
  <2>2. exec[d] \in Phases BY DEF IInv, TypeOK
  <2> QED BY <1>5, <2>1, <2>2, SettleKeeps DEF LeaseKept, Holds
<1>6. ASSUME NEW w \in Workers, Liveliness(w) PROVE LeaseKept
  <2>1. ASSUME NEW d \in Slots, ReapDelivery(w, d) PROVE LeaseKept
    BY <1>5, <2>1 DEF ReapDelivery, FailDelivery
  <2>2. CASE Boots(w) \/ BootEnds(w)
    BY <2>2 DEF Boots, BootEnds, LeaseKept, Holds, rowVars, IInv, TypeOK
  <2>3. CASE ReapLease(w) BY <2>3 DEF ReapLease, LeaseKept, Holds, procVars
  <2> QED BY <1>6, <2>1, <2>2, <2>3
          DEF Liveliness, Beats, Ages, Parks, SweepOrphan, LeaseKept, Holds, rowVars, procVars
<1>7. ASSUME NEW w \in Workers, Shutdown(w) PROVE LeaseKept
  <2>1. ASSUME Dies(w), lease' \in {None, lease} PROVE LeaseKept
    <3>1. \A v \in Workers \ {w} : worker'[v] = worker[v] BY <2>1 DEF IInv, TypeOK, Dies
    <3>2. worker'[w] = "gone" BY <2>1 DEF IInv, TypeOK, Dies
    <3>3. ASSUME NEW d \in Slots, NEW v \in Workers \ {w}, delivery[d].owner = v, exec[d] # "none"
          PROVE  delivery'[d].owner = v /\ exec'[d] # "none"
      <4>1. delivery[d] \in Rows BY <3>3 DEF IInv, Claims
      <4> QED BY <2>1, <3>3, <4>1, RowParts DEF Dies
    <3> QED BY <2>1, <3>1, <3>2, <3>3 DEF LeaseKept, Holds
  <2>2. CASE Drains(w) \/ GivesUp(w)
    BY <2>2 DEF Drains, GivesUp, LeaseKept, Holds, rowVars, IInv, TypeOK
  <2>3. ASSUME NEW d \in Slots, Releases(w, d) PROVE LeaseKept
    BY <1>5, <2>3 DEF Releases, FailDelivery
  <2> QED BY <1>7, <2>1, <2>2, <2>3 DEF Shutdown, Crashes, Exits, ReleaseRepoLease
<1> QED
  BY <1>1, <1>2, <1>3, <1>4, <1>6, <1>7, LeaseKeptInv
  DEF Next, vars, cardVars, rowVars, procVars, PipelineStep, ReachesReview, ReachesAttention,
      GoesBack, Decision, Approve, RetryMerge, Reject, Deciding, ApprovalThrows, RejectRecords,
      RejectMoves, WebCrashes

\* A live worker never keeps the repository's lease without a delivery to work
\* on, whatever crashes, stalls, drains and take-overs there are: it is not
\* re-entrant, and nobody else may take it from a live worker.
THEOREM LeaseComesBack == Spec => []NoLeakedLease
<1>1. Init => LeaseInv
  BY Inductive, DeliveryAssumption DEF Init, LeaseInv, HolderBooted, NoLeakedLease
<1>2. LeaseInv /\ [Next]_vars => LeaseInv'
  BY LeaseStep, Inductive DEF LeaseInv
<1>3. LeaseInv => NoLeakedLease BY DEF LeaseInv
<1> QED BY <1>1, <1>2, <1>3, PTL DEF Spec

-----------------------------------------------------------------------------
(* Without stalls, the lease keeps the repository's deliveries apart.      *)

Alive(w) == worker[w] \in {"booting", "up", "draining", "exiting"}

\* A process that lives has a fresh heartbeat, and what executes holds the lease.
LiveAreFresh == \A w \in Workers : Alive(w) => heartbeat[w] = "fresh"
LeaseHeld == \A d \in Slots : exec[d] # "none" => lease = delivery[d].owner

Exclusive == IInv /\ LiveAreFresh /\ LeaseHeld /\ OneDeliveryAtATime

\* The step starts no function, and takes the lease from none that goes on.
ExecKept ==
  \A d \in Slots : exec'[d] # "none" =>
    exec[d] # "none" /\ delivery'[d].owner = delivery[d].owner /\ lease' = lease

LEMMA ExecKeptInv ==
  ASSUME Exclusive, ExecKept
  PROVE  LeaseHeld' /\ OneDeliveryAtATime'
  BY DEF Exclusive, ExecKept, LeaseHeld, OneDeliveryAtATime

\* What executes is alive, so nobody may take its lease.
LEMMA HolderIsFresh ==
  ASSUME Exclusive, NEW d \in Slots, exec[d] # "none"
  PROVE  /\ lease \in Workers /\ lease = delivery[d].owner
         /\ heartbeat[lease] = "fresh"
  BY DEF Exclusive, IInv, Claims, LeaseHeld, LiveAreFresh, Alive

LEMMA ExecutionExclusive ==
  ASSUME Exclusive, NEW d \in Slots, Execution(d)
  PROVE  ExecKept
<1>. IInv BY DEF Exclusive
<1>1. ASSUME exec[d] # "none", NEW phase, To(d, phase) PROVE ExecKept
  BY <1>1 DEF IInv, TypeOK, To, ExecKept
<1>2. \A phase \in Phases \ {"none"} : Executes(d, phase) => exec[d] # "none"
  BY ExecutingRow
<1>3. CASE CloseDelivery(d)
  <2>1. Executes(d, "closing") /\ "closing" \in Phases \ {"none"} /\ UNCHANGED worker
        /\ lease' = lease
    BY <1>3 DEF CloseDelivery, Phases, procVars
  <2>2. exec[d] # "none" /\ delivery[d] \in Rows /\ delivery[d].st # "pending"
    BY <2>1, ExecutingRow
  <2>3. Settle(d, Finished(d), "releasing") /\ "releasing" \in Phases
    BY <1>3 DEF CloseDelivery, Phases
  <2> QED BY <2>1, <2>2, <2>3, SettleKeeps DEF ExecKept
<1>4. CASE ReleasesLease(d)
  <2>1. Executes(d, "releasing") /\ "releasing" \in Phases \ {"none"} /\ "none" \in Phases
        /\ UNCHANGED worker /\ Settle(d, delivery[d], "none")
    BY <1>4 DEF ReleasesLease, Phases, procVars
  <2>2. exec[d] # "none" /\ delivery[d] \in Rows /\ delivery[d].st # "pending"
    BY <2>1, ExecutingRow
  <2>3. exec'[d] = "none" /\ \A e \in Slots \ {d} : exec'[e] = exec[e]
    BY <2>1, <2>2, SettleKeeps
  <2>4. \A e \in Slots \ {d} : exec[e] = "none"
    BY <2>2 DEF Exclusive, OneDeliveryAtATime
  <2> QED BY <2>3, <2>4 DEF ExecKept
<1>5. ASSUME NEW phase \in Phases \ {"none"}, Executes(d, phase),
             ~CloseDelivery(d), ~ReleasesLease(d)
      PROVE  \E next : To(d, next)
  BY <1>5 DEF Execution, CheckFails, MergeRefused, MergeBegins, MergeCommits, MergeFails, Pushes,
              PushConflicts, OpensPullRequest, PullRequestFails, Reloops, RecordApproval,
              ExecutionThrows, FinishCard, Announced, Ends
<1>6. \E phase \in Phases \ {"none"} : Executes(d, phase)
  BY DEF Execution, CheckFails, MergeRefused, MergeBegins, MergeCommits, MergeFails, Pushes,
         PushConflicts, OpensPullRequest, PullRequestFails, Reloops, RecordApproval,
         ExecutionThrows, Throwing, FinishCard, Announced, CloseDelivery, ReleasesLease, Phases
<1> QED BY <1>1, <1>2, <1>3, <1>4, <1>5, <1>6

LEMMA ClaimExclusive ==
  ASSUME Exclusive, NEW w \in Workers, NEW d \in Slots, ClaimDelivery(w, d)
  PROVE  LeaseHeld' /\ OneDeliveryAtATime'
<1>. IInv BY DEF Exclusive
<1>1. delivery[d] \in Rows BY FreeIsNoRow DEF IInv, TypeOK, ClaimDelivery
<1>2. delivery'[d].owner = w /\ lease' = w
  BY <1>1 DEF IInv, TypeOK, ClaimDelivery, AcquireRepoLease, Rows
<1>3. \A e \in Slots \ {d} : exec'[e] = exec[e] BY DEF IInv, TypeOK, ClaimDelivery
<1>4. \A e \in Slots : exec[e] = "none"
  BY HolderIsFresh, DeliveryAssumption DEF ClaimDelivery, AcquireRepoLease
<1> QED BY <1>2, <1>3, <1>4 DEF LeaseHeld, OneDeliveryAtATime

LEMMA FailDeliveryExclusive ==
  ASSUME Exclusive, NEW d \in Slots, delivery[d].st = "running",
         Settle(d, Finished(d), exec[d]), UNCHANGED <<lease, worker>>
  PROVE  ExecKept
<1>. IInv BY DEF Exclusive
<1>1. delivery[d] \in Rows BY FreeIsNoRow DEF IInv, TypeOK
<1>2. exec[d] \in Phases BY DEF IInv, TypeOK
<1> QED BY <1>1, <1>2, SettleKeeps DEF ExecKept

LEMMA LivelinessExclusive ==
  ASSUME Exclusive, NEW w \in Workers, Liveliness(w)
  PROVE  ExecKept
<1>. IInv BY DEF Exclusive
<1>1. ASSUME NEW d \in Slots, ReapDelivery(w, d) PROVE ExecKept
  BY <1>1, FailDeliveryExclusive DEF ReapDelivery, FailDelivery
<1>2. CASE ReapLease(w)
  <2>1. \A d \in Slots : exec[d] = "none" BY <1>2, HolderIsFresh DEF ReapLease, Live
  <2> QED BY <1>2, <2>1 DEF ReapLease, ExecKept
<1> QED BY <1>1, <1>2
        DEF Liveliness, Beats, Ages, Boots, BootEnds, Parks, SweepOrphan, rowVars, ExecKept

LEMMA ShutdownExclusive ==
  ASSUME Exclusive, NEW w \in Workers, Shutdown(w)
  PROVE  ExecKept
<1>. IInv BY DEF Exclusive
<1>1. ASSUME Dies(w), NEW d \in Slots, exec'[d] # "none"
      PROVE  exec[d] # "none" /\ delivery[d].owner # w /\ delivery'[d].owner = delivery[d].owner
  <2>1. exec[d] # "none" /\ delivery[d].owner # w BY <1>1 DEF IInv, TypeOK, Dies
  <2>2. delivery[d] \in Rows BY <2>1 DEF IInv, Claims
  <2> QED BY <1>1, <2>1, <2>2, RowParts DEF Dies
<1>2. CASE Crashes(w) BY <1>1, <1>2 DEF Crashes, ExecKept
<1>3. CASE Exits(w)
  <2>1. \A d \in Slots : exec'[d] # "none" => lease # w
    BY <1>1, <1>3, HolderIsFresh DEF Exits
  <2> QED BY <1>1, <1>3, <2>1 DEF Exits, ReleaseRepoLease, ExecKept
<1>4. ASSUME NEW d \in Slots, Releases(w, d) PROVE ExecKept
  BY <1>4, FailDeliveryExclusive DEF Releases, FailDelivery
<1> QED BY <1>2, <1>3, <1>4 DEF Shutdown, Drains, GivesUp, rowVars, ExecKept

LEMMA FreshStep ==
  ASSUME "stall" \notin Faults, Exclusive, [Next]_vars
  PROVE  LiveAreFresh'
<1>. IInv /\ LiveAreFresh BY DEF Exclusive
<1>1. UNCHANGED <<worker, heartbeat>> => LiveAreFresh' BY DEF LiveAreFresh, Alive
<1>2. ASSUME NEW w \in Workers, Liveliness(w) PROVE LiveAreFresh'
  BY <1>1, <1>2
     DEF Liveliness, Beats, Ages, Boots, BootEnds, Parks, ReapLease, ReapDelivery, SweepOrphan,
         procVars, IInv, TypeOK, LiveAreFresh, Alive
<1>3. ASSUME NEW w \in Workers, Shutdown(w) PROVE LiveAreFresh'
  BY <1>1, <1>3
     DEF Shutdown, Crashes, Drains, GivesUp, Exits, Releases, Dies, IInv, TypeOK, LiveAreFresh,
         Alive
<1>4. ASSUME NEW d \in Slots, Execution(d) PROVE UNCHANGED <<worker, heartbeat>>
  BY <1>4 DEF Execution, CheckFails, MergeRefused, MergeBegins, MergeCommits, MergeFails, Pushes,
              PushConflicts, OpensPullRequest, PullRequestFails, Reloops, RecordApproval,
              ExecutionThrows, FinishCard, Announced, CloseDelivery, ReleasesLease, Ends, procVars
<1> QED
  BY <1>1, <1>2, <1>3, <1>4
  DEF Next, vars, procVars, PipelineStep, ReachesReview, ReachesAttention, GoesBack, Decision,
      Approve, RetryMerge, Reject, Deciding, RequestDelivery, ApprovalThrows, RejectRecords,
      RejectMoves, WebCrashes, ClaimDelivery

LEMMA ExclusiveStep ==
  ASSUME "stall" \notin Faults, Exclusive, [Next]_vars
  PROVE  LeaseHeld' /\ OneDeliveryAtATime'
<1>. IInv BY DEF Exclusive
<1>1. UNCHANGED rowVars => ExecKept BY DEF rowVars, ExecKept
<1>2. ASSUME NEW a \in asking, NEW d \in Slots, RequestDelivery(a, d) PROVE ExecKept
  <2>1. exec[d] = "none" BY <1>2, FreeIsNoRow DEF IInv, Claims, RequestDelivery
  <2> QED BY <1>2, <2>1 DEF RequestDelivery, ExecKept, IInv, TypeOK
<1>3. UNCHANGED vars => ExecKept BY <1>1 DEF vars, rowVars
<1>4. ASSUME NEW c \in Cards, PipelineStep(c) \/ \E p \in Procs : Decision(p, c)
      PROVE  ExecKept
  BY <1>1, <1>4
     DEF PipelineStep, ReachesReview, ReachesAttention, GoesBack, Decision, Approve, RetryMerge,
         Reject
<1>5. ASSUME NEW a \in asking, Deciding(a) PROVE ExecKept
  BY <1>1, <1>2, <1>5 DEF Deciding, ApprovalThrows, RejectRecords, RejectMoves
<1>6. ASSUME NEW p \in Web, WebCrashes(p) PROVE ExecKept
  BY <1>1, <1>6 DEF WebCrashes
<1>7. ExecKept => LeaseHeld' /\ OneDeliveryAtATime' BY ExecKeptInv
<1>8. CASE Next
  BY <1>4, <1>5, <1>6, <1>7, <1>8, ClaimExclusive, ExecutionExclusive, LivelinessExclusive,
     ShutdownExclusive DEF Next
<1> QED BY <1>3, <1>7, <1>8

\* While no process stalls, at most one worker is between claiming a delivery of
\* the repository and handing its lease back, for any number of workers that
\* crash, drain, boot and take over from each other.
THEOREM DeliveriesExclude ==
  ASSUME "stall" \notin Faults
  PROVE  Spec => []OneDeliveryAtATime
<1>1. Init => Exclusive
  BY Inductive DEF Init, Exclusive, LiveAreFresh, LeaseHeld, OneDeliveryAtATime, Alive
<1>2. Exclusive /\ [Next]_vars => Exclusive'
  BY FreshStep, ExclusiveStep, Inductive DEF Exclusive
<1>3. Exclusive => OneDeliveryAtATime BY DEF Exclusive
<1> QED BY <1>1, <1>2, <1>3, PTL DEF Spec

-----------------------------------------------------------------------------
(* The refinement.                                                         *)

\* A delivery is in charge of its card until its outcome has moved it.
Working == {"checking", "merging", "conflicted", "pushed", "landed", "recorded"}
InCharge(d) == delivery[d].st \in {"pending", "running"} /\ exec[d] # "closing"

\* At most one decision, delivery or reaper is in charge of a card.
OneInCharge ==
  /\ \A a, b \in asking : a.card = b.card => a = b
  /\ \A d, e \in Slots :
       InCharge(d) /\ InCharge(e) /\ delivery[d].card = delivery[e].card => d = e
  /\ \A v, w \in Workers : parking[v] # None /\ parking[v] = parking[w] => v = w
  /\ \A a \in asking, d \in Slots : InCharge(d) => delivery[d].card # a.card
  /\ \A a \in asking, w \in Workers : parking[w] # a.card
  /\ \A d \in Slots, w \in Workers : InCharge(d) => parking[w] # delivery[d].card

\* Meanwhile the card is being delivered, and its latest run is the one decided.
AsksReviewing == \A a \in asking :
  status[a.card] = "reviewing" /\ a.run = run[a.card]
ParkedReviewing == \A w \in Workers :
  parking[w] # None => status[parking[w]] \in {"reviewing", "done"}
DeliveriesReviewing == \A d \in Slots : InCharge(d) =>
  /\ delivery[d].run = run[delivery[d].card]
  /\ status[delivery[d].card] \in {"reviewing", "done"}
  /\ delivery[d].st = "pending" \/ exec[d] \in Working
     => status[delivery[d].card] = "reviewing"

CardInv == OneInCharge /\ AsksReviewing /\ ParkedReviewing /\ DeliveriesReviewing

\* A function that can go on works for an open row; shutdown cuts no segment.
OpenRows == \A d \in Slots :
  /\ exec[d] \in Working \cup {"announcing", "closing"} =>
       delivery[d].st = "running" \/ worker[delivery[d].owner] = "exiting"
  /\ exec[d] \in Unawaited => worker[delivery[d].owner] # "exiting"
  /\ exec[d] = "releasing" => delivery[d].st = "finished"
  /\ delivery[d].st = "running" =>
       delivery[d].owner \in Workers /\ worker[delivery[d].owner] \notin {"new", "booting"}

\* What git and the forge hold for the delivery that runs.
Diff(d) == <<delivery[d].card, run[delivery[d].card]>>
Checkout == \A d \in Slots : delivery[d].st = "running" =>
  /\ exec[d] = "merging" => mergeHead = Diff(d)
  /\ exec[d] = "pushed" /\ HasPullRequest(delivery[d].card) => Diff(d) \in opened
  /\ exec[d] \in {"landed", "recorded"} => Diff(d) \in Landed

SInv == Exclusive /\ CardInv /\ OpenRows /\ Checkout

-----------------------------------------------------------------------------
(* What the invariant says of a card and of an execution.                  *)

LEMMA RowOf ==
  ASSUME IInv, NEW d \in Slots, delivery[d].st # "free"
  PROVE  delivery[d] \in Rows /\ delivery[d].card \in Cards /\ delivery[d] # Free
<1>1. delivery[d] \in Rows BY FreeIsNoRow DEF IInv, TypeOK
<1> QED BY <1>1, FreeIsNoRow, RowParts

LEMMA CardAtRest ==
  ASSUME SInv, NEW c \in Cards, status[c] \notin {"reviewing", "done"}
  PROVE  /\ \A a \in asking : a.card # c
         /\ \A d \in Slots : InCharge(d) => delivery[d].card # c
         /\ \A w \in Workers : parking[w] # c
  BY DeliveryAssumption
     DEF SInv, CardInv, AsksReviewing, ParkedReviewing, DeliveriesReviewing

LEMMA ExecutesInCharge ==
  ASSUME SInv, NEW d \in Slots, NEW phase \in Working \cup {"announcing"}, Executes(d, phase)
  PROVE  /\ exec[d] = phase /\ delivery[d] \in Rows /\ delivery[d].st = "running"
         /\ delivery[d].card \in Cards /\ delivery[d].owner \in Workers
         /\ delivery[d].from \in Statuses
         /\ worker[delivery[d].owner] \in {"up", "draining"}
         /\ InCharge(d) /\ delivery[d].run = run[delivery[d].card]
         /\ phase \in Working => status[delivery[d].card] = "reviewing"
         /\ \A e \in Slots \ {d} : exec[e] = "none"
<1>1. phase \in Phases \ {"none"} /\ phase # "closing" BY DEF Working, Phases
<1>2. /\ exec[d] = phase /\ delivery[d] \in Rows /\ delivery[d].card \in Cards
      /\ delivery[d].owner \in Workers /\ delivery[d].from \in Statuses
  BY <1>1, ExecutingRow DEF SInv, Exclusive
<1>3. worker[delivery[d].owner] \in {"up", "draining"} BY DEF Executes
<1>4. delivery[d].st = "running" BY <1>2, <1>3 DEF SInv, OpenRows
<1>5. InCharge(d) BY <1>1, <1>2, <1>4 DEF InCharge
<1>6. \A e \in Slots \ {d} : exec[e] = "none"
  BY <1>1, <1>2 DEF SInv, Exclusive, OneDeliveryAtATime
<1> QED BY <1>2, <1>3, <1>4, <1>5, <1>6 DEF SInv, CardInv, DeliveriesReviewing

LEMMA DoneIsForever ==
  ASSUME TypeOK, NEW c \in Cards, NEW from \in Statuses \ {"done"}, NEW to, MoveCard(c, from, to)
  PROVE  /\ \A b \in Cards \ {c} : status'[b] = status[b]
         /\ status[c] # from => status' = status
         /\ status[c] = from => status'[c] = to
  BY DEF MoveCard, TypeOK

-----------------------------------------------------------------------------
(* The pipeline's steps and the decisions.                                 *)

LEMMA PipelineSafe ==
  ASSUME SInv, NEW c \in Cards, PipelineStep(c)
  PROVE  CardInv' /\ OpenRows' /\ Checkout'
<1>1. /\ status[c] \notin {"reviewing", "done"}
      /\ UNCHANGED <<gitVars, asking, rowVars, procVars>>
      /\ \A b \in Cards \ {c} : status'[b] = status[b] /\ run'[b] = run[b]
  BY DEF PipelineStep, ReachesReview, ReachesAttention, GoesBack, Claimed, SInv, Exclusive, IInv,
         TypeOK
<1>2. CardInv'
  <2>1. OneInCharge'
    BY <1>1 DEF SInv, CardInv, OneInCharge, InCharge, rowVars, procVars
  <2>2. AsksReviewing' /\ ParkedReviewing'
    BY <1>1, CardAtRest
       DEF SInv, CardInv, AsksReviewing, ParkedReviewing, procVars, Exclusive, IInv, TypeOK, Asks
  <2>3. ASSUME NEW d \in Slots, InCharge(d)
        PROVE  delivery[d].card \in Cards /\ delivery[d].card # c
    BY <1>1, <2>3, CardAtRest, RowOf DEF SInv, Exclusive, InCharge
  <2>4. DeliveriesReviewing'
    BY <1>1, <2>3 DEF SInv, CardInv, DeliveriesReviewing, InCharge, rowVars
  <2> QED BY <2>1, <2>2, <2>4 DEF CardInv
<1>3. OpenRows' BY <1>1 DEF SInv, OpenRows, rowVars, procVars
<1>4. ASSUME NEW d \in Slots, delivery[d].st = "running", exec[d] # "closing"
      PROVE  Diff(d)' = Diff(d)
  <2>1. InCharge(d) BY <1>4 DEF InCharge
  <2>2. delivery[d].card \in Cards
    BY <1>4, RowOf DEF SInv, Exclusive
  <2> QED BY <1>1, <2>1, <2>2, CardAtRest DEF Diff, rowVars
<1>5. Checkout' BY <1>1, <1>4 DEF SInv, Checkout, rowVars, gitVars, Landed, HasPullRequest
<1> QED BY <1>2, <1>3, <1>5

LEMMA DecisionSafe ==
  ASSUME SInv, NEW p \in Procs, NEW c \in Cards, Decision(p, c)
  PROVE  CardInv' /\ OpenRows' /\ Checkout'
<1>1. PICK from \in Claimed, op \in {"approve", "reject"} : ClaimReviewRun(p, c, from, op)
  BY DEF Decision, Approve, RetryMerge, Reject, Claimed
<1>2. UNCHANGED <<run, gitVars, rowVars, procVars>>
  BY DEF Decision, Approve, RetryMerge, Reject
<1>. DEFINE new == [proc |-> p, card |-> c, run |-> run[c], from |-> from, op |-> op]
<1>3. asking' = asking \cup {new} BY <1>1 DEF ClaimReviewRun
<1>4. status[c] \notin {"reviewing", "done"} BY <1>1 DEF ClaimReviewRun, Claimed
<1>5. status'[c] = "reviewing" /\ \A b \in Cards \ {c} : status'[b] = status[b]
  BY <1>1 DEF ClaimReviewRun, MoveCard, SInv, Exclusive, IInv, TypeOK
<1>6. OneInCharge'
  BY <1>2, <1>3, <1>4, CardAtRest DEF SInv, CardInv, OneInCharge, InCharge, rowVars, procVars
<1>7. AsksReviewing' /\ ParkedReviewing'
  BY <1>2, <1>3, <1>4, <1>5, CardAtRest
     DEF SInv, CardInv, AsksReviewing, ParkedReviewing, procVars, Exclusive, IInv, TypeOK, Asks
<1>8. ASSUME NEW d \in Slots, InCharge(d)
      PROVE  delivery[d].card \in Cards /\ delivery[d].card # c
  BY <1>4, <1>8, CardAtRest, RowOf DEF SInv, Exclusive, InCharge
<1>9. DeliveriesReviewing'
  BY <1>2, <1>5, <1>8 DEF SInv, CardInv, DeliveriesReviewing, InCharge, rowVars
<1>10. OpenRows' /\ Checkout'
  BY <1>2 DEF SInv, OpenRows, Checkout, rowVars, procVars, gitVars, Diff, Landed, HasPullRequest
<1> QED BY <1>6, <1>7, <1>9, <1>10 DEF CardInv

LEMMA DecidingSafe ==
  ASSUME SInv, NEW a \in asking, Deciding(a)
  PROVE  CardInv' /\ OpenRows' /\ Checkout'
<1>. IInv /\ a \in Asks /\ a.card \in Cards
  BY DEF SInv, Exclusive, IInv, TypeOK, Asks
<1>. \A b \in asking \ {a} : b.card # a.card BY DEF SInv, CardInv, OneInCharge
<1>. status[a.card] = "reviewing" /\ a.run = run[a.card] BY DEF SInv, CardInv, AsksReviewing
<1>1. ASSUME NEW d \in Slots, RequestDelivery(a, d) PROVE CardInv' /\ OpenRows' /\ Checkout'
  <2>1. delivery[d] = Free /\ exec[d] = "none"
    BY <1>1, FreeIsNoRow DEF IInv, Claims, RequestDelivery
  <2>2. /\ delivery'[d].card = a.card /\ delivery'[d].run = a.run
        /\ delivery'[d].st = "pending"
        /\ \A e \in Slots \ {d} : delivery'[e] = delivery[e]
    BY <1>1 DEF RequestDelivery, IInv, TypeOK
  <2>3. UNCHANGED <<cardVars, review, gitVars, exec, lease, procVars>> /\ asking' = asking \ {a}
    BY <1>1 DEF RequestDelivery
  <2>4. \A e \in Slots \ {d} : InCharge(e)' = InCharge(e) BY <2>2, <2>3 DEF InCharge
  <2>5. OneInCharge'
    BY <2>2, <2>3, <2>4 DEF SInv, CardInv, OneInCharge, procVars
  <2>6. AsksReviewing' /\ ParkedReviewing'
    BY <2>3 DEF SInv, CardInv, AsksReviewing, ParkedReviewing, procVars, cardVars
  <2>7. DeliveriesReviewing'
    BY <2>2, <2>3, <2>4 DEF SInv, CardInv, DeliveriesReviewing, cardVars
  <2>8. OpenRows' /\ Checkout'
    BY <2>1, <2>2, <2>3
       DEF SInv, OpenRows, Checkout, Working, Unawaited, procVars, gitVars, cardVars, Diff, Landed,
           HasPullRequest
  <2> QED BY <2>5, <2>6, <2>7, <2>8 DEF CardInv
<1>2. ASSUME NEW to, MoveCard(a.card, "reviewing", to), asking' = asking \ {a},
             UNCHANGED <<run, mergeable, gitVars, rowVars, procVars>>
      PROVE  CardInv' /\ OpenRows' /\ Checkout'
  <2>1. \A b \in Cards \ {a.card} : status'[b] = status[b]
    BY <1>2, DoneIsForever DEF IInv, Statuses
  <2>2. OneInCharge'
    BY <1>2 DEF SInv, CardInv, OneInCharge, InCharge, rowVars, procVars
  <2>3. AsksReviewing' /\ ParkedReviewing'
    BY <1>2, <2>1
       DEF SInv, CardInv, OneInCharge, AsksReviewing, ParkedReviewing, procVars, IInv, TypeOK, Asks
  <2>4. ASSUME NEW d \in Slots, InCharge(d)
        PROVE  delivery[d].card \in Cards /\ delivery[d].card # a.card
    BY <2>4, RowOf DEF InCharge, SInv, CardInv, OneInCharge
  <2>5. DeliveriesReviewing'
    BY <1>2, <2>1, <2>4 DEF SInv, CardInv, DeliveriesReviewing, InCharge, rowVars
  <2>6. OpenRows' /\ Checkout'
    BY <1>2
       DEF SInv, OpenRows, Checkout, rowVars, procVars, gitVars, Diff, Landed, HasPullRequest
  <2> QED BY <2>2, <2>3, <2>5, <2>6 DEF CardInv
<1>3. CASE RejectRecords(a)
  <2>. DEFINE b == [a EXCEPT !.op = "rejected"]
  <2>1. b.card = a.card /\ b.run = a.run BY DEF Asks
  <2>2. asking' = (asking \ {a}) \cup {b} /\ UNCHANGED <<cardVars, gitVars, rowVars, procVars>>
    BY <1>3 DEF RejectRecords
  <2>. HIDE DEF b
  <2>3. OneInCharge'
    BY <2>1, <2>2 DEF SInv, CardInv, OneInCharge, InCharge, rowVars, procVars
  <2>4. AsksReviewing' /\ ParkedReviewing' /\ DeliveriesReviewing'
    BY <2>1, <2>2
       DEF SInv, CardInv, AsksReviewing, ParkedReviewing, DeliveriesReviewing, InCharge, rowVars,
           procVars, cardVars
  <2>5. OpenRows' /\ Checkout'
    BY <2>2 DEF SInv, OpenRows, Checkout, rowVars, procVars, gitVars, cardVars, Diff, Landed,
                HasPullRequest
  <2> QED BY <2>3, <2>4, <2>5 DEF CardInv
<1> QED BY <1>1, <1>2, <1>3 DEF Deciding, ApprovalThrows, RejectMoves

-----------------------------------------------------------------------------
(* The steps of a delivery.                                                *)

LEMMA ClaimDeliverySafe ==
  ASSUME SInv, NEW w \in Workers, NEW d \in Slots, ClaimDelivery(w, d)
  PROVE  CardInv' /\ OpenRows' /\ Checkout'
<1>. IInv BY DEF SInv, Exclusive
<1>1. delivery[d] \in Rows /\ exec[d] = "none" /\ delivery[d].card \in Cards
  BY RowOf DEF IInv, Claims, ClaimDelivery
<1>2. /\ delivery'[d].card = delivery[d].card /\ delivery'[d].run = delivery[d].run
      /\ delivery'[d].st = "running" /\ delivery'[d].owner = w /\ exec'[d] = "checking"
  BY <1>1 DEF ClaimDelivery, IInv, TypeOK, Rows
<1>3. \A e \in Slots \ {d} : delivery'[e] = delivery[e] /\ exec'[e] = exec[e]
  BY DEF ClaimDelivery, IInv, TypeOK
<1>4. UNCHANGED <<cardVars, review, gitVars, asking, procVars>> BY DEF ClaimDelivery
<1>5. InCharge(d) BY <1>1 DEF InCharge, ClaimDelivery
<1>6. \A e \in Slots : InCharge(e)' = InCharge(e)
  BY <1>2, <1>3, <1>5 DEF InCharge
<1>7. OneInCharge' BY <1>2, <1>3, <1>4, <1>6 DEF SInv, CardInv, OneInCharge, procVars
<1>8. AsksReviewing' /\ ParkedReviewing'
  BY <1>4 DEF SInv, CardInv, AsksReviewing, ParkedReviewing, procVars, cardVars
<1>9. DeliveriesReviewing'
  <2>1. delivery[d].st = "pending" BY DEF ClaimDelivery
  <2>2. status[delivery[d].card] = "reviewing" /\ delivery[d].run = run[delivery[d].card]
    BY <1>5, <2>1 DEF SInv, CardInv, DeliveriesReviewing
  <2> QED BY <1>2, <1>3, <1>4, <1>6, <2>2 DEF SInv, CardInv, DeliveriesReviewing, cardVars
<1>10. worker[w] \in {"up", "draining"} BY DEF ClaimDelivery, Awake
<1>11. OpenRows'
  BY <1>2, <1>3, <1>4, <1>10 DEF SInv, OpenRows, Working, Unawaited, procVars
<1>12. Checkout'
  BY <1>2, <1>3, <1>4 DEF SInv, Checkout, Diff, Landed, HasPullRequest, gitVars, cardVars
<1> QED BY <1>7, <1>8, <1>9, <1>11, <1>12 DEF CardInv

\* A step within a delivery: its outcome has not moved the card yet.
LEMMA GoesOnSafe ==
  ASSUME SInv, NEW d \in Slots, NEW phase \in Working, NEW next \in Working,
         Executes(d, phase), To(d, next),
         UNCHANGED <<cardVars, asking, procVars>>
  PROVE  CardInv' /\ OpenRows'
<1>. IInv BY DEF SInv, Exclusive
<1>1. exec' = [exec EXCEPT ![d] = next] /\ UNCHANGED delivery /\ exec'[d] = next
  BY DEF To, IInv, TypeOK
<1>2. InCharge(d) /\ worker[delivery[d].owner] \in {"up", "draining"}
      /\ status[delivery[d].card] = "reviewing" /\ delivery[d].st = "running"
  BY ExecutesInCharge
<1>3. \A e \in Slots \ {d} : exec'[e] = exec[e] BY <1>1 DEF IInv, TypeOK
<1>4. \A e \in Slots : InCharge(e)' = InCharge(e)
  BY <1>1, <1>2, <1>3 DEF InCharge, Working
<1>5. OneInCharge' BY <1>1, <1>4 DEF SInv, CardInv, OneInCharge, procVars
<1>6. AsksReviewing' /\ ParkedReviewing'
  BY DEF SInv, CardInv, AsksReviewing, ParkedReviewing, procVars, cardVars
<1>7. DeliveriesReviewing'
  BY <1>1, <1>2, <1>3, <1>4 DEF SInv, CardInv, DeliveriesReviewing, cardVars
<1>8. OpenRows' BY <1>1, <1>2, <1>3 DEF SInv, OpenRows, Working, procVars
<1> QED BY <1>5, <1>6, <1>7, <1>8 DEF CardInv

\* What git and the forge hold for the only delivery that executes.
LEMMA OnlyCheckout ==
  ASSUME SInv, NEW d \in Slots, NEW phase \in Working, NEW next \in Phases, Executes(d, phase),
         To(d, next), UNCHANGED run,
         next = "merging" => mergeHead' = Diff(d),
         next = "pushed" /\ HasPullRequest(delivery[d].card)' => Diff(d) \in opened',
         next \in {"landed", "recorded"} => Diff(d) \in Landed'
  PROVE  Checkout'
<1>. IInv BY DEF SInv, Exclusive
<1>1. UNCHANGED delivery /\ exec'[d] = next /\ \A e \in Slots \ {d} : exec'[e] = exec[e]
  BY DEF To, IInv, TypeOK
<1>2. \A e \in Slots \ {d} : exec'[e] = "none" BY <1>1, ExecutesInCharge
<1>3. Diff(d)' = Diff(d) BY <1>1 DEF Diff
<1> QED BY <1>1, <1>2, <1>3 DEF Checkout

LEMMA EndsSafe ==
  ASSUME SInv, NEW d \in Slots, NEW phase \in Working, Executes(d, phase),
         NEW dest, Ends(d, dest)
  PROVE  CardInv' /\ OpenRows' /\ Checkout'
<1>. IInv BY DEF SInv, Exclusive
<1>. DEFINE c == delivery[d].card
<1>1. /\ UNCHANGED delivery /\ exec'[d] = "closing"
      /\ \A e \in Slots \ {d} : exec'[e] = exec[e]
      /\ UNCHANGED <<run, asking, procVars>>
  BY DEF Ends, To, IInv, TypeOK
<1>2. InCharge(d) /\ c \in Cards /\ delivery[d].st = "running"
      /\ worker[delivery[d].owner] \in {"up", "draining"}
  BY ExecutesInCharge
<1>3. \A b \in Cards \ {c} : status'[b] = status[b]
  BY <1>2, DoneIsForever DEF IInv, Ends, Statuses
<1>4. ~InCharge(d)' /\ \A e \in Slots \ {d} : InCharge(e)' = InCharge(e)
  BY <1>1 DEF InCharge
<1>5. OneInCharge' BY <1>1, <1>4 DEF SInv, CardInv, OneInCharge, procVars
<1>6. /\ \A a \in asking : a.card \in Cards \ {c}
      /\ \A w \in Workers : parking[w] # None => parking[w] \in Cards \ {c}
      /\ \A e \in Slots \ {d} : InCharge(e) => delivery[e].card \in Cards \ {c}
  <2>1. \A e \in Slots : InCharge(e) => delivery[e].card \in Cards
    BY RowOf DEF InCharge
  <2> QED BY <1>2, <2>1 DEF SInv, CardInv, OneInCharge, IInv, TypeOK, Asks
<1>7. AsksReviewing' /\ ParkedReviewing'
  BY <1>1, <1>3, <1>6 DEF SInv, CardInv, AsksReviewing, ParkedReviewing, procVars
<1>8. DeliveriesReviewing'
  BY <1>1, <1>3, <1>4, <1>6 DEF SInv, CardInv, DeliveriesReviewing
<1>9. OpenRows' BY <1>1, <1>2 DEF SInv, OpenRows, Working, Unawaited, procVars
<1>10. Checkout' BY <1>1, OnlyCheckout DEF Ends, Phases
<1> QED BY <1>5, <1>7, <1>8, <1>9, <1>10 DEF CardInv

LEMMA FinishCardSafe ==
  ASSUME SInv, NEW d \in Slots, FinishCard(d)
  PROVE  /\ CardInv' /\ OpenRows' /\ Checkout'
         /\ status[delivery[d].card] = "reviewing" /\ Diff(d) \in Landed
         /\ status' = [status EXCEPT ![delivery[d].card] = "done"]
<1>. IInv BY DEF SInv, Exclusive
<1>. DEFINE c == delivery[d].card
<1>1. Executes(d, "recorded") /\ "recorded" \in Working BY DEF FinishCard, Working
<1>2. /\ InCharge(d) /\ c \in Cards /\ delivery[d].st = "running" /\ status[c] = "reviewing"
      /\ worker[delivery[d].owner] \in {"up", "draining"} /\ exec[d] = "recorded"
  BY <1>1, ExecutesInCharge
<1>3. /\ To(d, "announcing") /\ UNCHANGED <<run, asking, procVars>>
      /\ status' = [status EXCEPT ![c] = "done"]
  BY <1>2 DEF FinishCard, MoveCard
<1>4. UNCHANGED delivery /\ exec'[d] = "announcing" /\ \A e \in Slots \ {d} : exec'[e] = exec[e]
  BY <1>3 DEF To, IInv, TypeOK
<1>5. \A e \in Slots : InCharge(e)' = InCharge(e) BY <1>2, <1>4 DEF InCharge
<1>6. status'[c] = "done" /\ \A b \in Cards \ {c} : status'[b] = status[b]
  BY <1>2, <1>3 DEF IInv, TypeOK
<1>7. /\ \A a \in asking : a.card \in Cards \ {c}
      /\ \A w \in Workers : parking[w] # None => parking[w] \in Cards \ {c}
      /\ \A e \in Slots \ {d} : InCharge(e) => delivery[e].card \in Cards \ {c}
  <2>1. \A e \in Slots : InCharge(e) => delivery[e].card \in Cards
    BY RowOf DEF InCharge
  <2> QED BY <1>2, <2>1 DEF SInv, CardInv, OneInCharge, IInv, TypeOK, Asks
<1>8. OneInCharge' BY <1>3, <1>4, <1>5 DEF SInv, CardInv, OneInCharge, procVars
<1>9. AsksReviewing' /\ ParkedReviewing'
  BY <1>3, <1>6, <1>7 DEF SInv, CardInv, AsksReviewing, ParkedReviewing, procVars
<1>10. DeliveriesReviewing'
  BY <1>2, <1>3, <1>4, <1>5, <1>6, <1>7 DEF SInv, CardInv, DeliveriesReviewing, Working
<1>11. OpenRows' BY <1>2, <1>3, <1>4 DEF SInv, OpenRows, Working, Unawaited, procVars
<1>12. Checkout' BY <1>1, <1>3, OnlyCheckout DEF Phases
<1>13. Diff(d) \in Landed BY <1>2 DEF SInv, Checkout
<1> QED BY <1>2, <1>3, <1>8, <1>9, <1>10, <1>11, <1>12, <1>13 DEF CardInv

LEMMA AnnouncedSafe ==
  ASSUME SInv, NEW d \in Slots, Announced(d)
  PROVE  CardInv' /\ OpenRows' /\ Checkout'
<1>. IInv BY DEF SInv, Exclusive
<1>1. InCharge(d) /\ delivery[d].st = "running" /\ worker[delivery[d].owner] \in {"up", "draining"}
  BY ExecutesInCharge DEF Announced
<1>2. UNCHANGED <<delivery, cardVars, gitVars, asking, procVars>> /\ exec'[d] = "closing"
      /\ \A e \in Slots \ {d} : exec'[e] = exec[e]
  BY DEF Announced, To, IInv, TypeOK
<1>3. ~InCharge(d)' /\ \A e \in Slots \ {d} : InCharge(e)' = InCharge(e)
  BY <1>2 DEF InCharge
<1>4. CardInv'
  <2>1. OneInCharge' BY <1>2, <1>3 DEF SInv, CardInv, OneInCharge, procVars
  <2>2. AsksReviewing' /\ ParkedReviewing' /\ DeliveriesReviewing'
    BY <1>2, <1>3
       DEF SInv, CardInv, AsksReviewing, ParkedReviewing, DeliveriesReviewing, procVars, cardVars
  <2> QED BY <2>1, <2>2 DEF CardInv
<1>5. OpenRows' BY <1>1, <1>2 DEF SInv, OpenRows, Working, Unawaited, procVars
<1>6. Checkout' BY <1>2 DEF SInv, Checkout, Diff, Landed, HasPullRequest, gitVars, cardVars
<1> QED BY <1>4, <1>5, <1>6

\* A row that is finished, or freed, whose card nobody else took over.
LEMMA ClosedSafe ==
  ASSUME SInv, NEW d \in Slots, delivery'[d] = Free \/ delivery'[d].st = "finished",
         \A e \in Slots \ {d} : delivery'[e] = delivery[e] /\ exec'[e] = exec[e],
         UNCHANGED <<cardVars, gitVars, asking>>,
         \A w \in Workers : parking'[w] = parking[w]
           \/ (parking[w] = None /\ InCharge(d) /\ parking'[w] = delivery[d].card
               /\ \A v \in Workers \ {w} : parking'[v] = parking[v])
  PROVE  CardInv' /\ Checkout'
<1>. IInv BY DEF SInv, Exclusive
<1>1. ~InCharge(d)' /\ delivery'[d].st # "running" BY FreeIsNoRow DEF InCharge
<1>2. \A e \in Slots \ {d} : InCharge(e)' = InCharge(e) BY DEF InCharge
<1>3. \A e \in Slots : InCharge(e) => delivery[e].card \in Cards /\ delivery[e].card # None
  BY RowOf, DeliveryAssumption DEF InCharge
<1>4. OneInCharge'
  <2>1. /\ \A a, b \in asking : a.card = b.card => a = b
        /\ \A b, e \in Slots :
             InCharge(b)' /\ InCharge(e)' /\ delivery'[b].card = delivery'[e].card => b = e
        /\ \A a \in asking, e \in Slots : InCharge(e)' => delivery'[e].card # a.card
    BY <1>1, <1>2 DEF SInv, CardInv, OneInCharge
  <2>2. \A v, w \in Workers : parking'[v] # None /\ parking'[v] = parking'[w] => v = w
    BY <1>3 DEF SInv, CardInv, OneInCharge
  <2>3. \A a \in asking, w \in Workers : parking'[w] # a.card
    BY DEF SInv, CardInv, OneInCharge
  <2>4. \A e \in Slots, w \in Workers : InCharge(e)' => parking'[w] # delivery'[e].card
    BY <1>1, <1>2 DEF SInv, CardInv, OneInCharge
  <2> QED BY <2>1, <2>2, <2>3, <2>4 DEF OneInCharge
<1>5. AsksReviewing' /\ ParkedReviewing'
  BY DEF SInv, CardInv, AsksReviewing, ParkedReviewing, DeliveriesReviewing, cardVars
<1>6. DeliveriesReviewing'
  BY <1>1, <1>2 DEF SInv, CardInv, DeliveriesReviewing, cardVars
<1>7. Checkout'
  BY <1>1 DEF SInv, Checkout, Diff, Landed, HasPullRequest, gitVars, cardVars
<1> QED BY <1>4, <1>5, <1>6, <1>7 DEF CardInv

LEMMA SettleCloses ==
  ASSUME SInv, NEW d \in Slots, NEW phase \in Phases, delivery[d] \in Rows,
         NEW r \in {delivery[d], Finished(d)}, r.st = "finished", Settle(d, r, phase)
  PROVE  /\ delivery'[d] = Free \/ delivery'[d].st = "finished"
         /\ \A e \in Slots \ {d} : delivery'[e] = delivery[e] /\ exec'[e] = exec[e]
         /\ exec'[d] = phase
         /\ phase # "none" =>
              delivery'[d].owner = delivery[d].owner /\ delivery'[d].st = "finished"
<1>1. r.owner = delivery[d].owner BY RowParts DEF Finished
<1> QED BY <1>1 DEF SInv, Exclusive, IInv, TypeOK, Settle

LEMMA CloseDeliverySafe ==
  ASSUME SInv, NEW d \in Slots, CloseDelivery(d) \/ ReleasesLease(d)
  PROVE  CardInv' /\ OpenRows' /\ Checkout'
<1>. IInv BY DEF SInv, Exclusive
<1>1. PICK phase \in {"closing", "releasing"} : Executes(d, phase)
  BY DEF CloseDelivery, ReleasesLease
<1>2. delivery[d] \in Rows /\ exec[d] = phase /\ worker[delivery[d].owner] \in {"up", "draining"}
  <2>1. phase \in Phases \ {"none"} BY DEF Phases
  <2> QED BY <1>1, <2>1, ExecutingRow DEF Executes
<1>3. UNCHANGED <<cardVars, gitVars, asking, procVars>> BY DEF CloseDelivery, ReleasesLease
<1>4. Finished(d).st = "finished" /\ "releasing" \in Phases /\ "none" \in Phases
  BY <1>2, RowParts DEF Finished, Phases
<1>5. /\ delivery'[d] = Free \/ delivery'[d].st = "finished"
      /\ \A e \in Slots \ {d} : delivery'[e] = delivery[e] /\ exec'[e] = exec[e]
      /\ exec'[d] \in {"releasing", "none"}
      /\ exec'[d] # "none" =>
           delivery'[d].owner = delivery[d].owner /\ delivery'[d].st = "finished"
  <2>1. CASE CloseDelivery(d)
    BY <1>2, <1>4, <2>1, SettleCloses DEF CloseDelivery
  <2>2. CASE ReleasesLease(d)
    <3>1. delivery[d].st = "finished"
      BY <1>2, <2>2 DEF ReleasesLease, Executes, SInv, OpenRows
    <3> QED BY <1>2, <1>4, <2>2, <3>1, SettleCloses DEF ReleasesLease
  <2> QED BY <2>1, <2>2
<1>6. CardInv' /\ Checkout' BY <1>3, <1>5, ClosedSafe DEF procVars
<1>7. OpenRows'
  <2>1. delivery'[d].st # "running" BY <1>5, FreeIsNoRow
  <2>2. exec'[d] = "releasing" => delivery'[d].st = "finished"
                                  /\ worker'[delivery'[d].owner] # "exiting"
    BY <1>2, <1>3, <1>5 DEF procVars
  <2> QED BY <1>3, <1>5, <2>1, <2>2 DEF SInv, OpenRows, Working, Unawaited, procVars
<1> QED BY <1>6, <1>7

LEMMA ExecutionSafe ==
  ASSUME SInv, NEW d \in Slots, Execution(d)
  PROVE  CardInv' /\ OpenRows' /\ Checkout'
<1>. IInv BY DEF SInv, Exclusive
<1>. DEFINE c == delivery[d].card
<1>. Working \subseteq Phases BY DEF Working, Phases
<1>1. ASSUME NEW phase \in Working, Executes(d, phase)
      PROVE  Diff(d) = <<c, Tip(c)>> /\ status[c] = "reviewing" /\ exec[d] = phase
             /\ delivery[d].st = "running"
  BY <1>1, ExecutesInCharge DEF Diff, Tip
<1>2. CASE CheckFails(d) \/ MergeRefused(d) \/ MergeFails(d) \/ PullRequestFails(d)
           \/ Reloops(d) \/ ExecutionThrows(d)
  <2>1. PICK phase \in Working, dest \in {"needs_attention", "pipeline", delivery[d].from} :
          Executes(d, phase) /\ Ends(d, dest)
    BY <1>2 DEF CheckFails, MergeRefused, MergeFails, PullRequestFails, Reloops,
                ExecutionThrows, Throwing, Working
  <2> QED BY <2>1, EndsSafe
<1>3. CASE MergeBegins(d)
  <2>1. Executes(d, "checking") /\ "checking" \in Working BY <1>3 DEF MergeBegins, Working
  <2>2. UNCHANGED <<cardVars, merged, opened, asking, procVars>> BY <1>3 DEF MergeBegins
  <2>3. PICK next \in {"landed", "merging", "conflicted"} :
          /\ To(d, next)
          /\ next = "landed" => Diff(d) \in merged
          /\ next = "merging" => mergeHead' = Diff(d)
    BY <1>1, <1>3, <2>1 DEF MergeBegins
  <2>4. next \in Working /\ next \notin {"pushed", "recorded"} BY DEF Working
  <2> QED BY <2>1, <2>2, <2>3, <2>4, GoesOnSafe, OnlyCheckout DEF cardVars, Landed
<1>4. CASE MergeCommits(d)
  <2>1. Executes(d, "merging") /\ "merging" \in Working /\ "landed" \in Working
        /\ To(d, "landed") /\ UNCHANGED <<cardVars, asking, procVars>>
    BY <1>4 DEF MergeCommits, Working
  <2>2. mergeHead = Diff(d) BY <1>1, <2>1 DEF SInv, Checkout
  <2>3. Diff(d) \in Landed' BY <1>4, <2>2 DEF MergeCommits, Landed
  <2> QED BY <2>1, <2>3, GoesOnSafe, OnlyCheckout DEF cardVars
<1>5. CASE Pushes(d)
  <2>1. Executes(d, "checking") /\ "checking" \in Working /\ "pushed" \in Working
        /\ To(d, "pushed") /\ UNCHANGED <<cardVars, asking, procVars>>
    BY <1>5 DEF Pushes, Working
  <2>2. HasPullRequest(c)' => Diff(d) \in opened'
    BY <1>1, <1>5, <2>1 DEF Pushes, HasPullRequest, To
  <2>3. c' = c BY <2>1 DEF To
  <2> QED BY <2>1, <2>2, <2>3, GoesOnSafe, OnlyCheckout DEF cardVars
<1>6. CASE PushConflicts(d)
  <2>1. Executes(d, "checking") /\ "checking" \in Working /\ "conflicted" \in Working
        /\ To(d, "conflicted") /\ UNCHANGED <<cardVars, asking, procVars>>
    BY <1>6 DEF PushConflicts, Working
  <2> QED BY <2>1, GoesOnSafe, OnlyCheckout DEF cardVars
<1>7. CASE OpensPullRequest(d)
  <2>1. Executes(d, "pushed") /\ "pushed" \in Working /\ "landed" \in Working
        /\ To(d, "landed") /\ UNCHANGED <<cardVars, asking, procVars>>
    BY <1>7 DEF OpensPullRequest, Working
  <2>2. HasPullRequest(c) => Diff(d) \in opened BY <1>1, <2>1 DEF SInv, Checkout
  <2>3. Diff(d) \in Landed'
    BY <1>1, <1>7, <2>1, <2>2 DEF OpensPullRequest, Landed
  <2> QED BY <2>1, <2>3, GoesOnSafe, OnlyCheckout DEF cardVars
<1>8. CASE RecordApproval(d)
  <2>1. Executes(d, "landed") /\ "landed" \in Working /\ "recorded" \in Working
        /\ To(d, "recorded") /\ UNCHANGED <<cardVars, gitVars, asking, procVars>>
    BY <1>8 DEF RecordApproval, Working
  <2>2. Diff(d) \in Landed BY <1>1, <2>1 DEF SInv, Checkout
  <2>3. Landed' = Landed BY <2>1 DEF Landed, gitVars
  <2> QED BY <2>1, <2>2, <2>3, GoesOnSafe, OnlyCheckout DEF cardVars
<1> QED BY <1>2, <1>3, <1>4, <1>5, <1>6, <1>7, <1>8, FinishCardSafe, AnnouncedSafe,
           CloseDeliverySafe DEF Execution

-----------------------------------------------------------------------------
(* Recovery and shutdown.                                                  *)

LEMMA ParkingFree ==
  ASSUME NEW w \in Workers, ~InSegment(w)
  PROVE  parking[w] = None
  BY DEF InSegment

\* failDelivery hands the card from the delivery to the process that failed it.
LEMMA FailDeliverySafe ==
  ASSUME SInv, NEW w \in Workers, NEW d \in Slots, FailDelivery(w, d), parking[w] = None,
         exec[d] # "closing", UNCHANGED <<cardVars, review, gitVars, asking>>
  PROVE  CardInv' /\ Checkout'
<1>. IInv BY DEF SInv, Exclusive
<1>1. delivery[d] \in Rows /\ InCharge(d) /\ exec[d] \in Phases
  BY RowOf DEF FailDelivery, InCharge, IInv, TypeOK
<1>2. Finished(d).st = "finished" BY <1>1, RowParts DEF Finished
<1>3. /\ delivery'[d] = Free \/ delivery'[d].st = "finished"
      /\ \A e \in Slots \ {d} : delivery'[e] = delivery[e] /\ exec'[e] = exec[e]
  BY <1>1, <1>2, SettleCloses DEF FailDelivery
<1>4. parking'[w] = delivery[d].card /\ \A v \in Workers \ {w} : parking'[v] = parking[v]
  BY DEF FailDelivery, IInv, TypeOK
<1> QED BY <1>1, <1>3, <1>4, ClosedSafe

\* A finished row whose function, if any, belongs to an exiting process.
LEMMA FailedRow ==
  ASSUME SInv, NEW d \in Slots, delivery[d].st = "running",
         Settle(d, Finished(d), exec[d]), UNCHANGED worker,
         exec[d] \notin Unawaited, exec[d] # "none" => worker[delivery[d].owner] = "exiting"
  PROVE  OpenRows'
<1>. IInv BY DEF SInv, Exclusive
<1>1. delivery[d] \in Rows /\ exec[d] \in Phases BY RowOf DEF IInv, TypeOK
<1>2. Finished(d).st = "finished" BY <1>1, RowParts DEF Finished
<1>3. /\ delivery'[d] = Free \/ delivery'[d].st = "finished"
      /\ \A e \in Slots \ {d} : delivery'[e] = delivery[e] /\ exec'[e] = exec[e]
      /\ exec'[d] = exec[d]
      /\ exec[d] # "none" => delivery'[d].owner = delivery[d].owner
  BY <1>1, <1>2, SettleCloses
<1>4. delivery'[d].st # "running" BY <1>3, FreeIsNoRow
<1> QED BY <1>3, <1>4 DEF SInv, OpenRows, Unawaited, Working

LEMMA ReapDeliverySafe ==
  ASSUME SInv, NEW w \in Workers, NEW d \in Slots, ReapDelivery(w, d)
  PROVE  CardInv' /\ OpenRows' /\ Checkout'
<1>. IInv BY DEF SInv, Exclusive
<1>1. delivery[d] \in Rows /\ delivery[d].st = "running" /\ parking[w] = None
      /\ UNCHANGED <<cardVars, review, gitVars, asking, lease, worker, heartbeat>>
  BY RowOf, ParkingFree DEF ReapDelivery, Ticking
<1>2. exec[d] = "none"
  <2>1. exec[d] # "none" => delivery[d].owner \in Live(w)
    BY HolderIsFresh DEF SInv, Live
  <2> QED BY <2>1 DEF ReapDelivery
<1>3. Finished(d).st = "finished" BY <1>1, RowParts DEF Finished
<1>4. Settle(d, Finished(d), exec[d]) BY DEF ReapDelivery, FailDelivery
<1>5. OpenRows' BY <1>1, <1>2, <1>4, FailedRow DEF Unawaited
<1>6. CASE FailDelivery(w, d) BY <1>1, <1>2, <1>5, <1>6, FailDeliverySafe
<1>7. CASE UNCHANGED parking
  <2>1. /\ delivery'[d] = Free \/ delivery'[d].st = "finished"
        /\ \A e \in Slots \ {d} : delivery'[e] = delivery[e] /\ exec'[e] = exec[e]
    <3>1. exec[d] \in Phases BY DEF IInv, TypeOK
    <3> QED BY <1>1, <1>3, <1>4, <3>1, SettleCloses
  <2> QED BY <1>1, <1>5, <1>7, <2>1, ClosedSafe
<1> QED BY <1>6, <1>7 DEF ReapDelivery

\* A card nobody is in charge of, or whose reaper parks it.
LEMMA ReleasedCardSafe ==
  ASSUME SInv, NEW c \in Cards, NEW to, MoveCard(c, "reviewing", to),
         UNCHANGED <<run, mergeable, review, gitVars, asking, rowVars, worker>>,
         \A a \in asking : a.card # c,
         \A d \in Slots : InCharge(d) => delivery[d].card # c,
         \A w \in Workers : parking'[w] \in {None, parking[w]} /\ parking'[w] # c
  PROVE  CardInv' /\ OpenRows' /\ Checkout'
<1>. IInv BY DEF SInv, Exclusive
<1>1. \A b \in Cards \ {c} : status'[b] = status[b]
  BY DoneIsForever DEF IInv, Statuses
<1>2. \A d \in Slots : InCharge(d)' = InCharge(d) BY DEF InCharge, rowVars
<1>3. \A d \in Slots : InCharge(d) => delivery[d].card \in Cards BY RowOf DEF InCharge
<1>4. \A a \in asking : a.card \in Cards BY DEF IInv, TypeOK, Asks
<1>5. \A w \in Workers : parking[w] \in Cards \cup {None} BY DEF IInv, TypeOK
<1>6. OneInCharge'
  BY <1>2, <1>3, <1>4, <1>5, DeliveryAssumption DEF SInv, CardInv, OneInCharge, rowVars
<1>7. AsksReviewing' BY <1>1, <1>4 DEF SInv, CardInv, AsksReviewing
<1>8. ParkedReviewing' BY <1>1, <1>5 DEF SInv, CardInv, ParkedReviewing
<1>9. DeliveriesReviewing'
  BY <1>1, <1>2, <1>3 DEF SInv, CardInv, DeliveriesReviewing, rowVars
<1>10. OpenRows' /\ Checkout'
  BY DEF SInv, OpenRows, Checkout, rowVars, gitVars, Diff, Landed, HasPullRequest
<1> QED BY <1>6, <1>7, <1>8, <1>9, <1>10 DEF CardInv

LEMMA LivelinessSafe ==
  ASSUME "stall" \notin Faults, SInv, NEW w \in Workers, Liveliness(w)
  PROVE  CardInv' /\ OpenRows' /\ Checkout'
<1>. IInv BY DEF SInv, Exclusive
<1>1. ASSUME UNCHANGED <<cardVars, gitVars, asking, delivery, exec, parking>>,
             \A v \in Workers : /\ worker[v] \notin {"new", "booting"} => worker'[v] = worker[v]
                                /\ worker'[v] = "exiting" => worker[v] = "exiting"
      PROVE  CardInv' /\ OpenRows' /\ Checkout'
  <2>1. OneInCharge' /\ AsksReviewing' /\ ParkedReviewing' /\ DeliveriesReviewing'
    BY <1>1 DEF SInv, CardInv, OneInCharge, AsksReviewing, ParkedReviewing, DeliveriesReviewing,
                InCharge, cardVars
  <2>2. Checkout' BY <1>1 DEF SInv, Checkout, Diff, Landed, HasPullRequest, gitVars, cardVars
  <2>3. ASSUME NEW d \in Slots, exec[d] # "none" \/ delivery[d].st = "running"
        PROVE  worker'[delivery[d].owner] = worker[delivery[d].owner]
    <3>1. delivery[d].owner \in Workers
      BY <2>3 DEF SInv, OpenRows, IInv, Claims
    <3>2. worker[delivery[d].owner] \notin {"new", "booting"}
      BY <2>3 DEF SInv, OpenRows, IInv, Claims
    <3> QED BY <1>1, <3>1, <3>2
  <2>4. OpenRows'
    BY <1>1, <2>3 DEF SInv, OpenRows, Working, Unawaited
  <2> QED BY <2>1, <2>2, <2>4 DEF CardInv
<1>2. CASE Beats(w) \/ Ages(w) \/ Boots(w) \/ BootEnds(w) \/ ReapLease(w)
  BY <1>1, <1>2 DEF Beats, Ages, Boots, BootEnds, ReapLease, rowVars, procVars, IInv, TypeOK
<1>3. CASE Parks(w)
  <2>1. parking[w] \in Cards BY <1>3 DEF Parks, IInv, TypeOK
  <2>2. parking'[w] = None /\ \A v \in Workers \ {w} : parking'[v] = parking[v]
    BY <1>3 DEF Parks, IInv, TypeOK
  <2> QED BY <1>3, <2>1, <2>2, ReleasedCardSafe, DeliveryAssumption
          DEF Parks, SInv, CardInv, OneInCharge
<1>4. ASSUME NEW c \in Cards, SweepOrphan(w, c)
      PROVE  CardInv' /\ OpenRows' /\ Checkout'
  <2>1. \A d \in Slots : InCharge(d) => delivery[d].card # c BY <1>4 DEF SweepOrphan, InCharge
  <2> QED BY <1>4, <2>1, ReleasedCardSafe DEF SweepOrphan, procVars
<1> QED BY <1>2, <1>3, <1>4, ReapDeliverySafe DEF Liveliness

LEMMA DiesSafe ==
  ASSUME SInv, NEW w \in Workers, Dies(w), UNCHANGED <<cardVars, review, gitVars>>,
         \A d \in Slots : delivery[d].owner = w => exec[d] # "closing"
  PROVE  CardInv' /\ OpenRows' /\ Checkout'
<1>. IInv BY DEF SInv, Exclusive
<1>1. ASSUME NEW d \in Slots, delivery'[d].st \in {"pending", "running"}
      PROVE  /\ delivery[d].st = delivery'[d].st /\ delivery[d].card = delivery'[d].card
             /\ delivery[d].run = delivery'[d].run /\ delivery[d].owner = delivery'[d].owner
  <2>1. delivery'[d] # Free BY <1>1, FreeIsNoRow
  <2>2. delivery'[d] \in {delivery[d], [delivery[d] EXCEPT !.waiter = None]}
    BY <2>1 DEF Dies
  <2>3. delivery[d] \in Rows \cup {Free} BY DEF IInv, TypeOK
  <2> QED BY <1>1, <2>2, <2>3 DEF Rows, Free
<1>2. ASSUME NEW d \in Slots
      PROVE  exec'[d] = IF delivery[d].owner = w THEN "none" ELSE exec[d]
  BY DEF Dies
<1>3. ASSUME NEW d \in Slots, exec'[d] # "none"
      PROVE  /\ exec'[d] = exec[d] /\ delivery[d].owner # w
             /\ delivery'[d].st = delivery[d].st /\ delivery'[d].owner = delivery[d].owner
             /\ delivery'[d].card = delivery[d].card
  <2>1. exec'[d] = exec[d] /\ delivery[d].owner # w BY <1>2, <1>3
  <2>2. delivery[d] \in Rows BY <1>3, <2>1 DEF IInv, Claims
  <2>3. delivery'[d] \in {delivery[d], [delivery[d] EXCEPT !.waiter = None]}
    BY <2>1 DEF Dies
  <2> QED BY <2>1, <2>2, <2>3 DEF Rows
<1>4. \A d \in Slots : InCharge(d)' => InCharge(d) BY <1>1, <1>2 DEF InCharge
<1>5. \A v \in Workers : parking'[v] \in {None, parking[v]} BY DEF Dies, IInv, TypeOK
<1>6. asking' \subseteq asking BY DEF Dies
<1>7. OneInCharge'
  <2>1. /\ \A a, b \in asking' : a.card = b.card => a = b
        /\ \A d, e \in Slots :
             InCharge(d)' /\ InCharge(e)' /\ delivery'[d].card = delivery'[e].card => d = e
        /\ \A a \in asking', d \in Slots : InCharge(d)' => delivery'[d].card # a.card
    BY <1>1, <1>4, <1>6 DEF SInv, CardInv, OneInCharge, InCharge
  <2>2. \A v, u \in Workers : parking'[v] # None /\ parking'[v] = parking'[u] => v = u
    BY <1>5 DEF SInv, CardInv, OneInCharge
  <2>3. \A a \in asking', v \in Workers : parking'[v] # a.card
    <3>1. \A a \in asking : a.card # None BY DeliveryAssumption DEF IInv, TypeOK, Asks
    <3> QED BY <1>5, <1>6, <3>1 DEF SInv, CardInv, OneInCharge
  <2>4. \A d \in Slots, v \in Workers : InCharge(d)' => parking'[v] # delivery'[d].card
    <3>1. \A d \in Slots : InCharge(d) => delivery[d].card # None
      BY RowOf, DeliveryAssumption DEF InCharge
    <3> QED BY <1>1, <1>4, <1>5, <3>1 DEF SInv, CardInv, OneInCharge, InCharge
  <2> QED BY <2>1, <2>2, <2>3, <2>4 DEF OneInCharge
<1>8. AsksReviewing' /\ ParkedReviewing'
  BY <1>5, <1>6 DEF SInv, CardInv, AsksReviewing, ParkedReviewing, cardVars
<1>9. ASSUME NEW d \in Slots, InCharge(d)'
      PROVE  exec'[d] \in Working => exec[d] \in Working
  BY <1>2 DEF Working
<1>10. DeliveriesReviewing'
  BY <1>1, <1>4, <1>9 DEF SInv, CardInv, DeliveriesReviewing, InCharge, cardVars
<1>11. \A v \in Workers \ {w} : worker'[v] = worker[v] BY DEF Dies, IInv, TypeOK
<1>12. worker'[w] = "gone" BY DEF Dies, IInv, TypeOK
<1>13. ASSUME NEW d \in Slots, exec'[d] # "none"
       PROVE  worker'[delivery'[d].owner] = worker[delivery[d].owner]
  BY <1>3, <1>11, <1>13 DEF IInv, Claims
<1>14. ASSUME NEW d \in Slots, delivery'[d].st = "running"
       PROVE  delivery'[d].owner \in Workers
              /\ worker'[delivery'[d].owner] \notin {"new", "booting"}
  BY <1>1, <1>11, <1>12, <1>14 DEF SInv, OpenRows
<1>15. OpenRows'
  BY <1>3, <1>13, <1>14 DEF SInv, OpenRows, Working, Unawaited
<1>16. Checkout'
  <2>1. \A d \in Slots : delivery'[d].st = "running" => Diff(d)' = Diff(d)
    BY <1>1 DEF Diff, cardVars
  <2> QED BY <1>1, <1>2, <2>1 DEF SInv, Checkout, gitVars, Landed, HasPullRequest
<1> QED BY <1>7, <1>8, <1>10, <1>15, <1>16 DEF CardInv

LEMMA ShutdownSafe ==
  ASSUME "torn" \notin Faults, SInv, NEW w \in Workers, Shutdown(w)
  PROVE  CardInv' /\ OpenRows' /\ Checkout'
<1>. IInv BY DEF SInv, Exclusive
<1>1. CASE Crashes(w) BY <1>1, DiesSafe DEF Crashes
<1>2. CASE Exits(w)
  <2>1. \A d \in Slots : delivery[d].owner = w => exec[d] # "closing"
    BY <1>2 DEF Exits, SInv, OpenRows, Unawaited
  <2> QED BY <1>2, <2>1, DiesSafe DEF Exits
<1>3. CASE Drains(w) \/ GivesUp(w)
  <2>1. /\ UNCHANGED <<cardVars, review, gitVars, asking, rowVars, parking>>
        /\ \A v \in Workers \ {w} : worker'[v] = worker[v]
        /\ worker[w] \in {"up", "draining"} /\ worker'[w] \in {"draining", "exiting"}
        /\ ~InSegment(w)
    BY <1>3 DEF Drains, GivesUp, IInv, TypeOK
  <2>2. CardInv'
    BY <2>1 DEF SInv, CardInv, OneInCharge, AsksReviewing, ParkedReviewing, DeliveriesReviewing,
                InCharge, cardVars, rowVars
  <2>3. Checkout'
    BY <2>1 DEF SInv, Checkout, Diff, Landed, HasPullRequest, gitVars, cardVars, rowVars
  <2>4. \A d \in Slots : exec[d] \in Unawaited => delivery[d].owner # w
    BY <2>1 DEF InSegment
  <2>5. \A d \in Slots : exec[d] # "none" => delivery[d].owner \in Workers
    BY DEF IInv, Claims
  <2>6. OpenRows'
    BY <2>1, <2>4, <2>5 DEF SInv, OpenRows, Working, Unawaited, rowVars
  <2> QED BY <2>2, <2>3, <2>6
<1>4. ASSUME NEW d \in Slots, Releases(w, d) PROVE CardInv' /\ OpenRows' /\ Checkout'
  <2>1. exec[d] \notin Unawaited /\ exec[d] # "closing" /\ delivery[d].st = "running"
    BY <1>4 DEF Releases, FailDelivery, SInv, OpenRows, Unawaited
  <2>2. OpenRows' BY <1>4, <2>1, FailedRow DEF Releases, FailDelivery
  <2> QED BY <1>4, <2>1, <2>2, FailDeliverySafe DEF Releases
<1> QED BY <1>1, <1>2, <1>3, <1>4 DEF Shutdown

LEMMA SafeInductive ==
  ASSUME "stall" \notin Faults, "torn" \notin Faults
  PROVE  (Init => SInv) /\ (SInv /\ [Next]_vars => SInv')
<1>1. Init => SInv
  <2>1. Init => Exclusive
    BY Inductive DEF Init, Exclusive, LiveAreFresh, LeaseHeld, OneDeliveryAtATime, Alive
  <2>2. Init => CardInv /\ OpenRows /\ Checkout
    BY DEF Init, Free, CardInv, OneInCharge, AsksReviewing, ParkedReviewing, DeliveriesReviewing,
           InCharge, OpenRows, Checkout, Working, Unawaited
  <2> QED BY <2>1, <2>2 DEF SInv
<1>2. ASSUME SInv, [Next]_vars PROVE Exclusive'
  BY <1>2, FreshStep, ExclusiveStep, Inductive DEF SInv, Exclusive
<1>3. ASSUME SInv, UNCHANGED <<cardVars, gitVars, rowVars, procVars>>, asking' \subseteq asking
      PROVE  CardInv' /\ OpenRows' /\ Checkout'
  BY <1>3
     DEF SInv, CardInv, OneInCharge, AsksReviewing, ParkedReviewing, DeliveriesReviewing, InCharge,
         OpenRows, Checkout, Diff, Landed, HasPullRequest, cardVars, gitVars, rowVars, procVars
<1>4. ASSUME SInv, NEW p \in Web, WebCrashes(p) PROVE CardInv' /\ OpenRows' /\ Checkout'
  BY <1>3, <1>4 DEF WebCrashes
<1>5. ASSUME SInv, UNCHANGED vars PROVE CardInv' /\ OpenRows' /\ Checkout'
  BY <1>3, <1>5 DEF vars, cardVars, gitVars, rowVars, procVars
<1>6. ASSUME SInv, Next PROVE CardInv' /\ OpenRows' /\ Checkout'
  BY <1>4, <1>6, PipelineSafe, DecisionSafe, DecidingSafe, ClaimDeliverySafe, ExecutionSafe,
     LivelinessSafe, ShutdownSafe DEF Next
<1> QED BY <1>1, <1>2, <1>5, <1>6 DEF SInv

-----------------------------------------------------------------------------
(* The refinement.                                                         *)

LEMMA StageMoves ==
  ASSUME TypeOK, NEW c \in Cards, NEW to \in Statuses, status' = [status EXCEPT ![c] = to]
  PROVE  [b \in Cards |-> Stage(b)]' =
           [[b \in Cards |-> Stage(b)] EXCEPT ![c] =
              CASE to = "reviewing" -> "requested" [] to = "done" -> "done" [] OTHER -> "open"]
  BY DEF TypeOK, Stage

LEMMA Stutters ==
  ASSUME UNCHANGED <<status, run, gitVars>>
  PROVE  UNCHANGED A!vars
  BY DEF A!vars, Stage, Landed, gitVars

\* A compare-and-set that takes a card out of its delivery gives it back.
LEMMA Returns ==
  ASSUME TypeOK, NEW c \in Cards, NEW to \in Statuses \ {"reviewing", "done"},
         MoveCard(c, "reviewing", to), UNCHANGED <<run, gitVars>>
  PROVE  [A!Next]_(A!vars)
<1>1. CASE status[c] # "reviewing" BY <1>1, Stutters DEF MoveCard
<1>2. CASE status[c] = "reviewing"
  <2>1. status' = [status EXCEPT ![c] = to] BY <1>2 DEF MoveCard
  <2>2. A!Return(c)
    BY <1>2, <2>1, StageMoves DEF A!Return, Stage, Landed, gitVars
  <2> QED BY <2>2 DEF A!Next
<1> QED BY <1>1, <1>2

\* A step of the pipeline: the card stays open, with or without another run.
LEMMA Works ==
  ASSUME TypeOK, NEW c \in Cards, PipelineStep(c)
  PROVE  [A!Next]_(A!vars)
<1>1. /\ status[c] \notin {"reviewing", "done"}
      /\ \E to \in Statuses \ {"reviewing", "done"} : status' = [status EXCEPT ![c] = to]
      /\ UNCHANGED gitVars
      /\ run' = run \/ (run[c] < MaxRuns /\ run' = [run EXCEPT ![c] = @ + 1])
  BY DEF PipelineStep, ReachesReview, ReachesAttention, GoesBack, Claimed, Statuses, TypeOK
<1>2. [b \in Cards |-> Stage(b)]' = [b \in Cards |-> Stage(b)] /\ Stage(c) = "open"
  BY <1>1 DEF Stage, TypeOK
<1>3. Landed' = Landed BY <1>1 DEF Landed, gitVars
<1>4. CASE run' = run BY <1>2, <1>3, <1>4 DEF A!vars
<1>5. CASE run[c] < MaxRuns /\ run' = [run EXCEPT ![c] = @ + 1]
  BY <1>2, <1>3, <1>5 DEF A!Work, A!Next
<1> QED BY <1>1, <1>4, <1>5

LEMMA Requests ==
  ASSUME TypeOK, NEW p \in Procs, NEW c \in Cards, Decision(p, c)
  PROVE  [A!Next]_(A!vars)
<1>1. /\ status[c] \in Claimed /\ UNCHANGED <<run, gitVars>>
      /\ status' = [status EXCEPT ![c] = "reviewing"]
  BY DEF Decision, Approve, RetryMerge, Reject, ClaimReviewRun, MoveCard, Claimed
<1>2. A!Request(c)
  BY <1>1, StageMoves DEF A!Request, Stage, Landed, gitVars, Claimed, Statuses
<1> QED BY <1>2 DEF A!Next

\* A diff that reaches the base or a pull request: a delivered card's latest.
LEMMA Lands ==
  ASSUME SInv, NEW d \in Slots, NEW phase \in Working, Executes(d, phase),
         UNCHANGED <<status, run>>, Landed' \in {Landed, Landed \cup {Diff(d)}}
  PROVE  [A!Next]_(A!vars)
<1>1. delivery[d].card \in Cards /\ status[delivery[d].card] = "reviewing"
  BY ExecutesInCharge
<1>2. [b \in Cards |-> Stage(b)]' = [b \in Cards |-> Stage(b)] BY DEF Stage
<1>3. CASE Landed' = Landed BY <1>2, <1>3 DEF A!vars
<1>4. CASE Landed' = Landed \cup {Diff(d)}
  <2>1. A!Land(delivery[d].card)
    BY <1>1, <1>2, <1>4 DEF A!Land, Stage, Diff
  <2> QED BY <1>1, <2>1 DEF A!Next
<1> QED BY <1>3, <1>4

LEMMA ExecutionRefines ==
  ASSUME SInv, NEW d \in Slots, Execution(d)
  PROVE  [A!Next]_(A!vars)
<1>. TypeOK BY DEF SInv, Exclusive, IInv
<1>. DEFINE c == delivery[d].card
<1>1. ASSUME NEW phase \in Working, Executes(d, phase)
      PROVE  Diff(d) = <<c, Tip(c)>> /\ c \in Cards /\ exec[d] = phase
             /\ delivery[d].st = "running" /\ delivery[d].from \in Claimed
  <2>1. delivery[d] \in Rows BY <1>1, ExecutesInCharge
  <2> QED BY <1>1, <2>1, ExecutesInCharge, RowParts DEF Diff, Tip
<1>2. CASE CheckFails(d) \/ MergeRefused(d) \/ MergeFails(d) \/ PullRequestFails(d)
           \/ Reloops(d) \/ ExecutionThrows(d)
  <2>1. PICK phase \in Working, dest \in {"needs_attention", "pipeline", delivery[d].from} :
          Executes(d, phase) /\ Ends(d, dest)
    BY <1>2 DEF CheckFails, MergeRefused, MergeFails, PullRequestFails, Reloops,
                ExecutionThrows, Throwing, Working
  <2>2. dest \in Statuses \ {"reviewing", "done"} /\ c \in Cards
    BY <1>1, <2>1 DEF Claimed, Statuses
  <2>3. CASE UNCHANGED gitVars BY <2>1, <2>2, <2>3, Returns DEF Ends
  <2>4. CASE MergeFails(d)
    <3>1. UNCHANGED <<merged, opened, run>> /\ MoveCard(c, "reviewing", dest)
      BY <2>1, <2>4 DEF MergeFails, Ends
    <3>2. CASE status[c] # "reviewing" BY <3>1, <3>2 DEF MoveCard, A!vars, Stage, Landed
    <3>3. CASE status[c] = "reviewing"
      <4>1. A!Return(c)
        BY <2>2, <3>1, <3>3, StageMoves DEF A!Return, Stage, Landed, MoveCard
      <4> QED BY <2>2, <4>1 DEF A!Next
    <3> QED BY <3>2, <3>3
  <2> QED BY <1>2, <2>3, <2>4
          DEF CheckFails, MergeRefused, PullRequestFails, Reloops, ExecutionThrows
<1>3. CASE MergeBegins(d)
  BY <1>3 DEF MergeBegins, cardVars, A!vars, Stage, Landed
<1>4. CASE MergeCommits(d)
  <2>1. Executes(d, "merging") /\ "merging" \in Working BY <1>4 DEF MergeCommits, Working
  <2>2. mergeHead = Diff(d) BY <1>1, <2>1 DEF SInv, Checkout
  <2> QED BY <1>4, <2>1, <2>2, Lands DEF MergeCommits, Landed, cardVars
<1>5. CASE Pushes(d)
  <2>1. Executes(d, "checking") /\ "checking" \in Working BY <1>5 DEF Pushes, Working
  <2> QED BY <1>1, <1>5, <2>1, Lands DEF Pushes, Landed, cardVars
<1>6. CASE OpensPullRequest(d)
  <2>1. Executes(d, "pushed") /\ "pushed" \in Working BY <1>6 DEF OpensPullRequest, Working
  <2> QED BY <1>1, <1>6, <2>1, Lands DEF OpensPullRequest, Landed, cardVars
<1>7. CASE PushConflicts(d) \/ RecordApproval(d) \/ Announced(d) \/ CloseDelivery(d)
           \/ ReleasesLease(d)
  BY <1>7, Stutters
     DEF PushConflicts, RecordApproval, Announced, CloseDelivery, ReleasesLease, cardVars
<1>8. CASE FinishCard(d)
  <2>1. status[c] = "reviewing" /\ Diff(d) \in Landed /\ status' = [status EXCEPT ![c] = "done"]
    BY <1>8, FinishCardSafe
  <2>2. c \in Cards /\ UNCHANGED <<run, gitVars>>
    BY <1>1, <1>8 DEF FinishCard, Working
  <2>3. A!Complete(c)
    BY <2>1, <2>2, StageMoves DEF A!Complete, Stage, Landed, gitVars, Diff, Statuses
  <2> QED BY <2>2, <2>3 DEF A!Next
<1> QED BY <1>2, <1>3, <1>4, <1>5, <1>6, <1>7, <1>8 DEF Execution

LEMMA StepRefines ==
  ASSUME SInv, [Next]_vars
  PROVE  [A!Next]_(A!vars)
<1>. TypeOK BY DEF SInv, Exclusive, IInv
<1>. {"needs_attention", "pipeline", "review"} \subseteq Statuses \ {"reviewing", "done"}
  BY DEF Statuses
<1>1. ASSUME NEW a \in asking, Deciding(a) PROVE [A!Next]_(A!vars)
  <2>1. a.card \in Cards /\ a.from \in Statuses \ {"reviewing", "done"}
    BY DEF TypeOK, Asks, Claimed, Statuses
  <2>2. CASE ApprovalThrows(a) BY <2>1, <2>2, Returns DEF ApprovalThrows
  <2>3. CASE RejectMoves(a) BY <2>1, <2>3, Returns DEF RejectMoves
  <2> QED BY <1>1, <2>2, <2>3, Stutters DEF Deciding, RequestDelivery, RejectRecords, cardVars
<1>2. ASSUME NEW w \in Workers, Liveliness(w) PROVE [A!Next]_(A!vars)
  <2>1. CASE Parks(w)
    <3>1. parking[w] \in Cards BY <2>1 DEF Parks, TypeOK
    <3> QED BY <2>1, <3>1, Returns DEF Parks
  <2>2. ASSUME NEW c \in Cards, SweepOrphan(w, c) PROVE [A!Next]_(A!vars)
    BY <2>2, Returns DEF SweepOrphan
  <2> QED BY <1>2, <2>1, <2>2, Stutters
          DEF Liveliness, Beats, Ages, Boots, BootEnds, ReapLease, ReapDelivery, cardVars
<1>3. ASSUME NEW w \in Workers, Shutdown(w) PROVE [A!Next]_(A!vars)
  BY <1>3, Stutters DEF Shutdown, Crashes, Drains, GivesUp, Exits, Releases, cardVars
<1>4. ASSUME NEW w \in Workers, NEW d \in Slots, ClaimDelivery(w, d) PROVE [A!Next]_(A!vars)
  BY <1>4, Stutters DEF ClaimDelivery, cardVars
<1>5. ASSUME NEW p \in Web, WebCrashes(p) PROVE [A!Next]_(A!vars)
  BY <1>5, Stutters DEF WebCrashes, cardVars
<1>6. CASE UNCHANGED vars BY <1>6, Stutters DEF vars, cardVars, gitVars
<1>7. CASE Next
  BY <1>1, <1>2, <1>3, <1>4, <1>5, <1>7, Works, Requests, ExecutionRefines DEF Next
<1> QED BY <1>6, <1>7

\* Deliveries keep what module Approval promises: a diff lands only while its
\* card is being delivered, it is the diff of the latest run, and only a landed
\* one makes its card Done; for any number of workers that crash and drain.
THEOREM DeliveriesImplementApproval ==
  ASSUME "stall" \notin Faults, "torn" \notin Faults
  PROVE  Spec => ImplementsApproval
<1>1. Init => A!Init
  BY DEF Init, A!Init, Stage, Landed
<1>2. SInv /\ [Next]_vars => [A!Next]_(A!vars) BY StepRefines
<1>3. (Init => SInv) /\ (SInv /\ [Next]_vars => SInv') BY SafeInductive
<1> QED BY <1>1, <1>2, <1>3, PTL DEF Spec, ImplementsApproval, A!Spec

-----------------------------------------------------------------------------
(* Verdicts.  While a card is in a decision's or a delivery's charge, its run  *)
(* is not rejected, and one that may return it to In Review has not landed it. *)

LandedRuns == \A diff \in Landed : diff[2] <= run[diff[1]]
Unlanded == \A c \in Cards : status[c] = "review" => <<c, run[c]>> \notin Landed
AsksUndecided == \A a \in asking :
  /\ a.from = "review" => <<a.card, a.run>> \notin Landed
  /\ a.op \in {"reject", "rejected"} => a.from = "review"
  /\ a.op \in {"approve", "reject"} => review[a.card][a.run] # "rejected"

\* Nothing of delivery d has reached the base or the forge.
Before(d) == delivery[d].st = "pending" \/ exec[d] \in {"checking", "merging", "conflicted"}
DeliveriesUndecided == \A d \in Slots : InCharge(d) =>
  /\ review[delivery[d].card][delivery[d].run] # "rejected"
  /\ delivery[d].from = "review" /\ Before(d) => Diff(d) \notin Landed

Verdicts ==
  LandedRuns /\ Unlanded /\ AsksUndecided /\ DeliveriesUndecided /\ RejectedNeverLands
VInv == SInv /\ Verdicts

\* A step that lands nothing, records no verdict and asks for nothing.
LEMMA NothingLands ==
  ASSUME VInv, UNCHANGED <<run, review>>, Landed' = Landed, asking' \subseteq asking,
         \A c \in Cards :
           status'[c] = "review" => status[c] = "review" \/ <<c, run[c]>> \notin Landed,
         \A d \in Slots : InCharge(d)' =>
           /\ InCharge(d) /\ delivery'[d].card = delivery[d].card
           /\ delivery'[d].run = delivery[d].run /\ delivery'[d].from = delivery[d].from
           /\ Before(d)' => Before(d)
  PROVE  Verdicts'
<1>1. LandedRuns' /\ Unlanded' /\ AsksUndecided' /\ RejectedNeverLands'
  BY DEF VInv, Verdicts, LandedRuns, Unlanded, AsksUndecided, RejectedNeverLands
<1>2. DeliveriesUndecided' BY DEF VInv, Verdicts, DeliveriesUndecided, Diff
<1> QED BY <1>1, <1>2 DEF Verdicts

\* A card that a compare-and-set puts elsewhere than In Review.
LEMMA MovedElsewhere ==
  ASSUME TypeOK, NEW c \in Cards, NEW from, NEW to, MoveCard(c, from, to)
  PROVE  \A b \in Cards : status'[b] = "review" =>
           status[b] = "review" \/ (b = c /\ to = "review" /\ status[c] = from)
  BY DEF TypeOK, MoveCard

LEMMA PipelineVerdicts ==
  ASSUME VInv, NEW c \in Cards, PipelineStep(c)
  PROVE  Verdicts'
<1>. SInv /\ TypeOK BY DEF VInv, SInv, Exclusive, IInv
<1>1. /\ status[c] \notin {"reviewing", "done"}
      /\ UNCHANGED <<review, gitVars, asking, rowVars, procVars>>
      /\ \A b \in Cards \ {c} : status'[b] = status[b] /\ run'[b] = run[b]
      /\ run'[c] \in {run[c], run[c] + 1}
      /\ status'[c] = "review" => run'[c] = run[c] + 1
  BY DEF PipelineStep, ReachesReview, ReachesAttention, GoesBack, Claimed, TypeOK
<1>2. Landed' = Landed /\ \A diff \in Landed : diff[1] \in Cards /\ diff[2] \in Nat
  BY <1>1 DEF Landed, gitVars, TypeOK, Diffs
<1>3. \A b \in Cards : run[b] \in Nat /\ run'[b] \in Nat /\ run[b] <= run'[b]
  BY <1>1 DEF TypeOK
<1>4. LandedRuns' BY <1>2, <1>3 DEF VInv, Verdicts, LandedRuns
<1>5. Unlanded'
  <2>1. <<c, run[c] + 1>> \notin Landed BY <1>3 DEF VInv, Verdicts, LandedRuns
  <2> QED BY <1>1, <1>2, <2>1 DEF VInv, Verdicts, Unlanded
<1>6. AsksUndecided' /\ RejectedNeverLands'
  BY <1>1, <1>2 DEF VInv, Verdicts, AsksUndecided, RejectedNeverLands
<1>7. ASSUME NEW d \in Slots, InCharge(d)
      PROVE  Diff(d)' = Diff(d)
  <2>1. delivery[d].card \in Cards BY <1>7, RowOf DEF SInv, Exclusive, InCharge
  <2> QED BY <1>1, <1>7, <2>1, CardAtRest DEF Diff, rowVars
<1>8. DeliveriesUndecided'
  BY <1>1, <1>2, <1>7 DEF VInv, Verdicts, DeliveriesUndecided, InCharge, Before, rowVars
<1> QED BY <1>4, <1>5, <1>6, <1>8 DEF Verdicts

\* Only a run without a verdict is claimed, and in In Review none that landed.
LEMMA DecisionVerdicts ==
  ASSUME VInv, NEW p \in Procs, NEW c \in Cards, Decision(p, c)
  PROVE  Verdicts'
<1>. SInv /\ TypeOK BY DEF VInv, SInv, Exclusive, IInv
<1>1. PICK from \in Claimed, op \in {"approve", "reject"} :
        ClaimReviewRun(p, c, from, op) /\ (op = "reject" => from = "review")
  BY DEF Decision, Approve, RetryMerge, Reject, Claimed
<1>2. UNCHANGED <<run, review, gitVars, rowVars, procVars>>
  BY DEF Decision, Approve, RetryMerge, Reject
<1>. DEFINE new == [proc |-> p, card |-> c, run |-> run[c], from |-> from, op |-> op]
<1>3. asking' = asking \cup {new} /\ status[c] = from /\ review[c][run[c]] = "none"
  BY <1>1 DEF ClaimReviewRun
<1>4. \A b \in Cards : status'[b] = "review" => status[b] = "review"
  BY <1>1, MovedElsewhere DEF ClaimReviewRun
<1>5. LandedRuns' /\ Unlanded' /\ RejectedNeverLands'
  BY <1>2, <1>4 DEF VInv, Verdicts, LandedRuns, Unlanded, RejectedNeverLands, Landed, gitVars
<1>6. from = "review" => <<c, run[c]>> \notin Landed BY <1>3 DEF VInv, Verdicts, Unlanded
<1>7. AsksUndecided'
  <2>1. Landed' = Landed BY <1>2 DEF Landed, gitVars
  <2>2. /\ new.card = c /\ new.run = run[c] /\ new.from = from /\ new.op = op
        /\ op \in {"approve", "reject"} /\ op = "reject" => from = "review"
    BY <1>1
  <2>. HIDE DEF new
  <2> QED BY <1>2, <1>3, <1>6, <2>1, <2>2 DEF VInv, Verdicts, AsksUndecided
<1>8. DeliveriesUndecided'
  BY <1>2 DEF VInv, Verdicts, DeliveriesUndecided, InCharge, Before, Diff, Landed, gitVars, rowVars
<1> QED BY <1>5, <1>7, <1>8 DEF Verdicts

LEMMA DecidingVerdicts ==
  ASSUME VInv, NEW a \in asking, Deciding(a)
  PROVE  Verdicts'
<1>. SInv /\ IInv /\ TypeOK BY DEF VInv, SInv, Exclusive, IInv
<1>1. /\ a \in Asks /\ a.card \in Cards /\ a.run = run[a.card] /\ a.run \in RunNumbers
      /\ status[a.card] = "reviewing"
      /\ \A b \in asking \ {a} : b.card # a.card
  BY DEF TypeOK, Asks, SInv, CardInv, OneInCharge, AsksReviewing
<1>2. /\ a.from = "review" => <<a.card, a.run>> \notin Landed
      /\ a.op \in {"reject", "rejected"} => a.from = "review"
      /\ a.op \in {"approve", "reject"} => review[a.card][a.run] # "rejected"
  BY DEF VInv, Verdicts, AsksUndecided
<1>3. ASSUME NEW d \in Slots, RequestDelivery(a, d) PROVE Verdicts'
  <2>1. /\ UNCHANGED <<cardVars, review, gitVars, exec, lease, procVars>>
        /\ asking' = asking \ {a} /\ a.op = "approve"
        /\ delivery'[d].card = a.card /\ delivery'[d].run = a.run /\ delivery'[d].from = a.from
        /\ \A e \in Slots \ {d} : delivery'[e] = delivery[e]
    BY <1>3 DEF RequestDelivery, TypeOK
  <2>2. LandedRuns' /\ Unlanded' /\ AsksUndecided' /\ RejectedNeverLands'
    BY <2>1 DEF VInv, Verdicts, LandedRuns, Unlanded, AsksUndecided, RejectedNeverLands, Landed,
                gitVars, cardVars
  <2>3. Diff(d)' = <<a.card, a.run>> /\ \A e \in Slots \ {d} : Diff(e)' = Diff(e)
    BY <1>1, <2>1 DEF Diff, cardVars
  <2>4. Landed' = Landed BY <2>1 DEF Landed, gitVars
  <2>5. DeliveriesUndecided'
    BY <1>2, <2>1, <2>3, <2>4 DEF VInv, Verdicts, DeliveriesUndecided, InCharge, Before
  <2> QED BY <2>2, <2>5 DEF Verdicts
<1>4. ASSUME UNCHANGED <<run, review, gitVars, rowVars>>, asking' = asking \ {a},
             NEW to, MoveCard(a.card, "reviewing", to), to # "review"
      PROVE  Verdicts'
  <2>1. \A b \in Cards : status'[b] = "review" => status[b] = "review"
    BY <1>1, <1>4, MovedElsewhere
  <2>2. Landed' = Landed BY <1>4 DEF Landed, gitVars
  <2> QED BY <1>4, <2>1, <2>2, NothingLands DEF InCharge, Before, rowVars
<1>5. CASE ApprovalThrows(a) BY <1>4, <1>5 DEF ApprovalThrows
<1>6. CASE RejectMoves(a) BY <1>1, <1>4, <1>6 DEF RejectMoves
<1>7. CASE RejectRecords(a)
  <2>. DEFINE b == [a EXCEPT !.op = "rejected"]
  <2>1. b.card = a.card /\ b.run = a.run /\ b.from = a.from /\ b.op = "rejected"
    BY <1>1 DEF Asks
  <2>2. /\ a.op = "reject" /\ asking' = (asking \ {a}) \cup {b}
        /\ UNCHANGED <<cardVars, gitVars, rowVars, procVars>>
        /\ review' = [review EXCEPT ![a.card][a.run] = "rejected"]
    BY <1>7 DEF RejectRecords
  <2>. HIDE DEF b
  <2>3. /\ \A c \in Cards \ {a.card} : review'[c] = review[c]
        /\ \A n \in RunNumbers \ {a.run} : review'[a.card][n] = review[a.card][n]
    BY <1>1, <2>2 DEF TypeOK
  <2>4. Landed' = Landed BY <2>2 DEF Landed, gitVars
  <2>5. LandedRuns' /\ Unlanded'
    BY <2>2, <2>4 DEF VInv, Verdicts, LandedRuns, Unlanded, cardVars
  <2>6. RejectedNeverLands'
    BY <1>1, <1>2, <2>2, <2>3, <2>4 DEF VInv, Verdicts, RejectedNeverLands
  <2>7. \A e \in asking \ {a} : e.card \in Cards \ {a.card}
    BY <1>1 DEF TypeOK, Asks
  <2>8. AsksUndecided'
    BY <1>2, <2>1, <2>2, <2>3, <2>4, <2>7 DEF VInv, Verdicts, AsksUndecided
  <2>9. \A d \in Slots : InCharge(d) => delivery[d].card \in Cards \ {a.card}
    BY RowOf DEF InCharge, SInv, CardInv, OneInCharge
  <2>10. DeliveriesUndecided'
    BY <2>2, <2>3, <2>4, <2>9
       DEF VInv, Verdicts, DeliveriesUndecided, InCharge, Before, Diff, rowVars, cardVars
  <2> QED BY <2>5, <2>6, <2>8, <2>10 DEF Verdicts
<1> QED BY <1>3, <1>5, <1>6, <1>7 DEF Deciding

LEMMA ClaimDeliveryVerdicts ==
  ASSUME VInv, NEW w \in Workers, NEW d \in Slots, ClaimDelivery(w, d)
  PROVE  Verdicts'
<1>. IInv BY DEF VInv, SInv, Exclusive
<1>1. delivery[d] \in Rows /\ delivery[d].st = "pending"
  BY RowOf DEF ClaimDelivery
<1>2. /\ delivery'[d].card = delivery[d].card /\ delivery'[d].run = delivery[d].run
      /\ delivery'[d].from = delivery[d].from /\ exec[d] = "none"
  BY <1>1 DEF ClaimDelivery, IInv, TypeOK, Rows, Claims
<1>3. \A e \in Slots \ {d} : delivery'[e] = delivery[e] /\ exec'[e] = exec[e]
  BY DEF ClaimDelivery, IInv, TypeOK
<1>4. InCharge(d) /\ Before(d) BY <1>1, <1>2 DEF InCharge, Before
<1>5. \A e \in Slots : InCharge(e)' => InCharge(e) /\ (Before(e)' => Before(e))
  BY <1>3, <1>4 DEF InCharge, Before
<1> QED BY <1>2, <1>3, <1>5, NothingLands DEF ClaimDelivery, Landed, gitVars, cardVars

\* A step of a delivery: what lands, if anything, is the diff it is in charge of.
LEMMA DeliveryLands ==
  ASSUME VInv, NEW d \in Slots, NEW phase \in Working, NEW next \in Working, Executes(d, phase),
         To(d, next), next \in {"checking", "merging", "conflicted"} => phase = "checking",
         UNCHANGED <<status, run, review, asking>>,
         \/ Landed' = Landed
         \/ Landed' = Landed \cup {Diff(d)} /\ next \notin {"checking", "merging", "conflicted"}
  PROVE  Verdicts'
<1>. SInv /\ IInv /\ TypeOK BY DEF VInv, SInv, Exclusive, IInv
<1>. DEFINE c == delivery[d].card
<1>1. /\ InCharge(d) /\ c \in Cards /\ delivery[d].st = "running" /\ status[c] = "reviewing"
      /\ delivery[d].run = run[c] /\ exec[d] = phase
  BY ExecutesInCharge
<1>2. UNCHANGED delivery /\ exec'[d] = next /\ \A e \in Slots \ {d} : exec'[e] = exec[e]
  BY DEF To, TypeOK
<1>3. \A e \in Slots : InCharge(e)' = InCharge(e) /\ (Before(e)' => Before(e))
  BY <1>1, <1>2 DEF InCharge, Before, Working
<1>4. CASE Landed' = Landed BY <1>2, <1>3, <1>4, NothingLands
<1>5. CASE Landed' = Landed \cup {Diff(d)} /\ next \notin {"checking", "merging", "conflicted"}
  <2>1. LandedRuns'
    <3>1. run[c] \in Nat BY <1>1 DEF TypeOK
    <3> QED BY <1>5, <3>1 DEF VInv, Verdicts, LandedRuns, Diff
  <2>2. Unlanded' BY <1>1, <1>5 DEF VInv, Verdicts, Unlanded, Diff
  <2>3. \A a \in asking : a.card # c BY <1>1 DEF SInv, CardInv, OneInCharge
  <2>4. AsksUndecided' BY <1>5, <2>3 DEF VInv, Verdicts, AsksUndecided, Diff
  <2>5. \A e \in Slots \ {d} : InCharge(e) => delivery[e].card # c
    BY <1>1 DEF SInv, CardInv, OneInCharge
  <2>6. ~Before(d)' BY <1>1, <1>2, <1>5 DEF Before
  <2>7. DeliveriesUndecided'
    BY <1>2, <1>3, <1>5, <2>5, <2>6 DEF VInv, Verdicts, DeliveriesUndecided, Diff
  <2>8. RejectedNeverLands'
    BY <1>1, <1>5 DEF VInv, Verdicts, RejectedNeverLands, DeliveriesUndecided, Diff
  <2> QED BY <2>1, <2>2, <2>4, <2>7, <2>8 DEF Verdicts
<1> QED BY <1>4, <1>5

\* Only an outcome of the checks may return a card to In Review.
LEMMA EndsVerdicts ==
  ASSUME VInv, NEW d \in Slots, NEW phase \in Working, Executes(d, phase),
         NEW dest, Ends(d, dest), UNCHANGED <<merged, opened>>,
         dest = "review" => phase = "checking" /\ delivery[d].from = "review"
  PROVE  Verdicts'
<1>. SInv /\ IInv /\ TypeOK BY DEF VInv, SInv, Exclusive, IInv
<1>1. InCharge(d) /\ delivery[d].card \in Cards /\ exec[d] = phase BY ExecutesInCharge
<1>2. /\ UNCHANGED <<delivery, run, review, asking>> /\ exec'[d] = "closing"
      /\ \A e \in Slots \ {d} : exec'[e] = exec[e]
      /\ MoveCard(delivery[d].card, "reviewing", dest)
  BY DEF Ends, To, TypeOK
<1>3. \A e \in Slots : InCharge(e)' => InCharge(e) /\ (Before(e)' => Before(e))
  BY <1>2 DEF InCharge, Before
<1>4. Landed' = Landed BY DEF Landed
<1>5. dest = "review" => Diff(d) \notin Landed
  BY <1>1 DEF VInv, Verdicts, DeliveriesUndecided, Before
<1>6. \A b \in Cards : status'[b] = "review" => status[b] = "review" \/ <<b, run[b]>> \notin Landed
  BY <1>1, <1>2, <1>5, MovedElsewhere DEF Diff
<1> QED BY <1>2, <1>3, <1>4, <1>6, NothingLands

LEMMA ExecutionVerdicts ==
  ASSUME "late_throw" \notin Faults, VInv, NEW d \in Slots, Execution(d)
  PROVE  Verdicts'
<1>. SInv /\ IInv /\ TypeOK BY DEF VInv, SInv, Exclusive, IInv
<1>. DEFINE c == delivery[d].card
<1>1. ASSUME NEW phase \in Working, Executes(d, phase)
      PROVE  /\ Diff(d) = <<c, Tip(c)>> /\ c \in Cards /\ exec[d] = phase /\ InCharge(d)
             /\ delivery[d].st = "running" /\ delivery[d].run \in RunNumbers
  <2>1. delivery[d] \in Rows BY <1>1, ExecutesInCharge
  <2> QED BY <1>1, <2>1, ExecutesInCharge, RowParts DEF Diff, Tip
<1>2. CASE CheckFails(d) \/ MergeRefused(d) \/ MergeFails(d) \/ PullRequestFails(d)
           \/ Reloops(d) \/ ExecutionThrows(d)
  <2>1. PICK phase \in Working, dest \in {"needs_attention", "pipeline", delivery[d].from} :
          /\ Executes(d, phase) /\ Ends(d, dest)
          /\ dest = "review" => phase = "checking" /\ delivery[d].from = "review"
    BY <1>2 DEF CheckFails, MergeRefused, MergeFails, PullRequestFails, Reloops,
                ExecutionThrows, Throwing, Working
  <2>2. UNCHANGED <<merged, opened>>
    BY <1>2 DEF CheckFails, MergeRefused, MergeFails, PullRequestFails, Reloops,
                ExecutionThrows, gitVars
  <2> QED BY <2>1, <2>2, EndsVerdicts
<1>3. CASE MergeBegins(d)
  <2>1. /\ Executes(d, "checking") /\ "checking" \in Working
        /\ \E next \in {"landed", "merging", "conflicted"} : To(d, next) /\ next \in Working
        /\ UNCHANGED <<status, run, review, asking>> /\ Landed' = Landed
    BY <1>3 DEF MergeBegins, Working, cardVars, Landed
  <2> QED BY <2>1, DeliveryLands
<1>4. CASE MergeCommits(d)
  <2>1. /\ Executes(d, "merging") /\ "merging" \in Working /\ "landed" \in Working
        /\ To(d, "landed") /\ UNCHANGED <<status, run, review, asking>>
    BY <1>4 DEF MergeCommits, Working, cardVars
  <2>2. mergeHead = Diff(d) BY <1>1, <2>1 DEF SInv, Checkout
  <2>3. Landed' = Landed \cup {Diff(d)} BY <1>4, <2>2 DEF MergeCommits, Landed
  <2> QED BY <2>1, <2>3, DeliveryLands
<1>5. CASE Pushes(d)
  <2>1. /\ Executes(d, "checking") /\ "checking" \in Working /\ "pushed" \in Working
        /\ To(d, "pushed") /\ UNCHANGED <<status, run, review, asking>>
    BY <1>5 DEF Pushes, Working, cardVars
  <2>2. Landed' = Landed \/ Landed' = Landed \cup {Diff(d)}
    BY <1>1, <1>5, <2>1 DEF Pushes, Landed
  <2> QED BY <2>1, <2>2, DeliveryLands
<1>6. CASE PushConflicts(d)
  <2>1. /\ Executes(d, "checking") /\ "checking" \in Working /\ "conflicted" \in Working
        /\ To(d, "conflicted") /\ UNCHANGED <<status, run, review, asking>> /\ Landed' = Landed
    BY <1>6 DEF PushConflicts, Working, cardVars, Landed, gitVars
  <2> QED BY <2>1, DeliveryLands
<1>7. CASE OpensPullRequest(d)
  <2>1. /\ Executes(d, "pushed") /\ "pushed" \in Working /\ "landed" \in Working
        /\ To(d, "landed") /\ UNCHANGED <<status, run, review, asking>>
    BY <1>7 DEF OpensPullRequest, Working, cardVars
  <2>2. Landed' = Landed \/ Landed' = Landed \cup {Diff(d)}
    BY <1>1, <1>7, <2>1 DEF OpensPullRequest, Landed
  <2> QED BY <2>1, <2>2, DeliveryLands
<1>8. CASE RecordApproval(d)
  <2>1. Executes(d, "landed") /\ "landed" \in Working BY <1>8 DEF RecordApproval, Working
  <2>2. /\ UNCHANGED <<cardVars, gitVars, asking, delivery>>
        /\ exec'[d] = "recorded" /\ \A e \in Slots \ {d} : exec'[e] = exec[e]
    BY <1>8 DEF RecordApproval, To, TypeOK
  <2>3. \A b \in Cards, n \in RunNumbers :
          review'[b][n] = "rejected" => review[b][n] = "rejected"
    BY <1>1, <1>8, <2>1 DEF RecordApproval, TypeOK
  <2>4. Landed' = Landed BY <2>2 DEF Landed, gitVars
  <2>5. LandedRuns' /\ Unlanded' /\ RejectedNeverLands'
    BY <2>2, <2>3, <2>4 DEF VInv, Verdicts, LandedRuns, Unlanded, RejectedNeverLands, cardVars
  <2>6. AsksUndecided'
    <3>1. \A a \in asking : a.card \in Cards /\ a.run \in RunNumbers BY DEF TypeOK, Asks
    <3> QED BY <2>2, <2>3, <2>4, <3>1 DEF VInv, Verdicts, AsksUndecided
  <2>7. \A e \in Slots : InCharge(e)' => InCharge(e) /\ (Before(e)' => Before(e))
    BY <1>1, <2>1, <2>2 DEF InCharge, Before
  <2>8. \A e \in Slots : InCharge(e) => delivery[e].card \in Cards /\ delivery[e].run \in RunNumbers
    BY RowOf, RowParts DEF InCharge
  <2>9. DeliveriesUndecided'
    BY <2>2, <2>3, <2>4, <2>7, <2>8 DEF VInv, Verdicts, DeliveriesUndecided, Diff, cardVars
  <2> QED BY <2>5, <2>6, <2>9 DEF Verdicts
<1>9. CASE FinishCard(d)
  <2>1. Executes(d, "recorded") /\ "recorded" \in Working BY <1>9 DEF FinishCard, Working
  <2>2. \A b \in Cards : status'[b] = "review" => status[b] = "review"
    BY <1>1, <1>9, <2>1, MovedElsewhere DEF FinishCard
  <2>3. /\ UNCHANGED <<delivery, run, review, asking>> /\ Landed' = Landed
        /\ exec'[d] \in {"announcing", "closing"} /\ \A e \in Slots \ {d} : exec'[e] = exec[e]
    BY <1>9 DEF FinishCard, To, TypeOK, Landed, gitVars
  <2>4. \A e \in Slots : InCharge(e)' => InCharge(e) /\ (Before(e)' => Before(e))
    BY <1>1, <2>1, <2>3 DEF InCharge, Before
  <2> QED BY <2>2, <2>3, <2>4, NothingLands
<1>10. CASE Announced(d) \/ CloseDelivery(d) \/ ReleasesLease(d)
  <2>1. /\ UNCHANGED <<cardVars, review, gitVars, asking>>
        /\ \A e \in Slots \ {d} : delivery'[e] = delivery[e] /\ exec'[e] = exec[e]
    BY <1>10 DEF Announced, CloseDelivery, ReleasesLease, To, Settle, TypeOK
  <2>2. ~InCharge(d)'
    <3>1. CASE Announced(d) BY <3>1 DEF Announced, To, TypeOK, InCharge
    <3>2. CASE CloseDelivery(d) \/ ReleasesLease(d)
      <4>1. PICK phase \in {"closing", "releasing"} : Executes(d, phase)
        BY <3>2 DEF CloseDelivery, ReleasesLease
      <4>2. delivery[d] \in Rows /\ exec[d] = phase /\ phase \in Phases \ {"none"}
        BY <4>1, ExecutingRow DEF Phases, Executes
      <4>3. Finished(d).st = "finished" /\ "releasing" \in Phases /\ "none" \in Phases
        BY <4>2, RowParts DEF Finished, Phases
      <4>4. ReleasesLease(d) => delivery[d].st = "finished"
        BY DEF ReleasesLease, Executes, SInv, OpenRows
      <4>5. delivery'[d] = Free \/ delivery'[d].st = "finished"
        BY <3>2, <4>2, <4>3, <4>4, SettleCloses DEF CloseDelivery, ReleasesLease
      <4> QED BY <4>5, FreeIsNoRow DEF InCharge
    <3> QED BY <1>10, <3>1, <3>2
  <2>3. \A e \in Slots : InCharge(e)' => InCharge(e) /\ (Before(e)' => Before(e)) /\ e # d
    BY <2>1, <2>2 DEF InCharge, Before
  <2> QED BY <2>1, <2>3, NothingLands DEF cardVars, Landed, gitVars
<1> QED BY <1>2, <1>3, <1>4, <1>5, <1>6, <1>7, <1>8, <1>9, <1>10 DEF Execution

\* Recovery and shutdown close rows and move cards to Needs Attention.
LEMMA RecoveryVerdicts ==
  ASSUME "torn" \notin Faults, VInv, NEW w \in Workers, Liveliness(w) \/ Shutdown(w)
  PROVE  Verdicts'
<1>. SInv /\ IInv /\ TypeOK BY DEF VInv, SInv, Exclusive, IInv
<1>1. UNCHANGED <<run, review, gitVars>> /\ Landed' = Landed /\ asking' \subseteq asking
  BY DEF Liveliness, Beats, Ages, Boots, BootEnds, Parks, ReapLease, ReapDelivery, SweepOrphan,
         Shutdown, Crashes, Drains, GivesUp, Exits, Releases, Dies, cardVars, Landed, gitVars
<1>2. \A b \in Cards : status'[b] = "review" => status[b] = "review"
  <2>1. CASE UNCHANGED status BY <2>1
  <2>2. ASSUME NEW c \in Cards, MoveCard(c, "reviewing", "needs_attention")
        PROVE  \A b \in Cards : status'[b] = "review" => status[b] = "review"
    BY <2>2, MovedElsewhere
  <2>3. Parks(w) => parking[w] \in Cards BY DEF Parks, TypeOK
  <2> QED BY <2>1, <2>2, <2>3
          DEF Liveliness, Beats, Ages, Boots, BootEnds, Parks, ReapLease, ReapDelivery, SweepOrphan,
              Shutdown, Crashes, Drains, GivesUp, Exits, Releases, cardVars
<1>3. ASSUME NEW d \in Slots, InCharge(d)'
      PROVE  /\ InCharge(d) /\ delivery'[d].card = delivery[d].card
             /\ delivery'[d].run = delivery[d].run /\ delivery'[d].from = delivery[d].from
             /\ Before(d)' => Before(d)
  <2>1. CASE UNCHANGED <<delivery, exec>> BY <1>3, <2>1 DEF InCharge, Before
  <2>2. ASSUME NEW e \in Slots, FailDelivery(w, e) \/ ReapDelivery(w, e)
        PROVE  delivery'[d] = delivery[d] /\ exec'[d] = exec[d]
    <3>1. /\ Settle(e, Finished(e), exec[e]) /\ delivery[e] \in Rows /\ exec[e] \in Phases
      BY <2>2, RowOf DEF FailDelivery, ReapDelivery, TypeOK
    <3>2. Finished(e).st = "finished" BY <3>1, RowParts DEF Finished
    <3>3. /\ delivery'[e] = Free \/ delivery'[e].st = "finished"
          /\ \A f \in Slots \ {e} : delivery'[f] = delivery[f] /\ exec'[f] = exec[f]
      BY <3>1, <3>2, SettleCloses
    <3> QED BY <1>3, <3>3, FreeIsNoRow DEF InCharge
  <2>3. CASE Crashes(w) \/ Exits(w)
    <3>. Dies(w) BY <2>3 DEF Crashes, Exits
    <3>1. delivery'[d] # Free BY <1>3, FreeIsNoRow DEF InCharge
    <3>2. delivery'[d] \in {delivery[d], [delivery[d] EXCEPT !.waiter = None]}
      BY <3>1 DEF Dies
    <3>3. delivery[d] \in Rows BY <1>3, <3>2, FreeIsNoRow DEF InCharge, TypeOK, Free
    <3>4. /\ delivery'[d].st = delivery[d].st /\ delivery'[d].card = delivery[d].card
          /\ delivery'[d].run = delivery[d].run /\ delivery'[d].from = delivery[d].from
      BY <3>2, <3>3 DEF Rows
    <3>5. exec'[d] = IF delivery[d].owner = w THEN "none" ELSE exec[d] BY DEF Dies
    <3>6. delivery[d].owner = w => exec[d] # "closing"
      BY <2>3 DEF Crashes, Exits, SInv, OpenRows, Unawaited
    <3> QED BY <1>3, <3>4, <3>5, <3>6 DEF InCharge, Before
  <2> QED BY <1>3, <2>1, <2>2, <2>3
          DEF Liveliness, Beats, Ages, Boots, BootEnds, Parks, ReapLease, SweepOrphan,
              Shutdown, Drains, GivesUp, Releases, rowVars, InCharge, Before
<1> QED BY <1>1, <1>2, <1>3, NothingLands

LEMMA VerdictsInductive ==
  ASSUME "stall" \notin Faults, "torn" \notin Faults, "late_throw" \notin Faults
  PROVE  (Init => VInv) /\ (VInv /\ [Next]_vars => VInv')
<1>1. Init => Verdicts
  BY DEF Init, Free, Verdicts, LandedRuns, Unlanded, AsksUndecided, DeliveriesUndecided,
         RejectedNeverLands, InCharge, Landed
<1>2. ASSUME VInv, asking' \subseteq asking,
             UNCHANGED <<status, run, review, gitVars, rowVars>>
      PROVE  Verdicts'
  BY <1>2, NothingLands DEF Landed, gitVars, rowVars, InCharge, Before
<1>3. ASSUME VInv, UNCHANGED vars PROVE Verdicts'
  BY <1>2, <1>3 DEF vars, gitVars, rowVars
<1>4. ASSUME VInv, NEW p \in Web, WebCrashes(p) PROVE Verdicts'
  BY <1>2, <1>4 DEF WebCrashes, cardVars
<1>5. ASSUME VInv, Next PROVE Verdicts'
  BY <1>4, <1>5, PipelineVerdicts, DecisionVerdicts, DecidingVerdicts, ClaimDeliveryVerdicts,
     ExecutionVerdicts, RecoveryVerdicts DEF Next
<1> QED BY <1>1, <1>3, <1>5, SafeInductive DEF VInv

\* A diff that was rejected is in no base branch and no pull request, and what
\* has landed is never rejected: whatever decisions, deliveries, reapers and
\* shutdowns overlap, as long as no process stalls, no crash parts a card's move
\* from the close of its delivery and nothing throws after the commit.
THEOREM RejectionHolds ==
  ASSUME "stall" \notin Faults, "torn" \notin Faults, "late_throw" \notin Faults
  PROVE  Spec => []RejectedNeverLands
<1>1. (Init => VInv) /\ (VInv /\ [Next]_vars => VInv') BY VerdictsInductive
<1>2. VInv => RejectedNeverLands BY DEF VInv, Verdicts
<1> QED BY <1>1, <1>2, PTL DEF Spec
=============================================================================
