----------------------------- MODULE MCDelivery -----------------------------
(***************************************************************************)
(* Deliveries of two cards of one repository, decided on in two processes: *)
(* the worker may crash or drain, and another one boots meanwhile.         *)
(*                                                                         *)
(* Or, as the initial state picks, deliveries beside late heartbeats, in   *)
(* variables of their own: whichever of the two is not picked rests.       *)
(***************************************************************************)
EXTENDS Delivery

CONSTANTS c1, w1, d1

VARIABLES
  late,
  lateStatus, lateRun, lateMergeable, lateReview, lateMerged, lateOpened, lateMergeHead,
  lateAsking, lateDelivery, lateExec, lateLease, lateWorker, lateHeartbeat, lateParking

\* One card, decided on in one of two workers, and one delivery at a time;
\* heartbeats may be late any time.
Late == INSTANCE Delivery WITH
  status <- lateStatus, run <- lateRun, mergeable <- lateMergeable, review <- lateReview,
  merged <- lateMerged, opened <- lateOpened, mergeHead <- lateMergeHead,
  asking <- lateAsking, delivery <- lateDelivery, exec <- lateExec, lease <- lateLease,
  worker <- lateWorker, heartbeat <- lateHeartbeat, parking <- lateParking,
  Cards <- {c1}, Web <- {}, UiWorkers <- {w1}, Later <- {}, Slots <- {d1}, Faults <- {"stall"}

lateVars == <<lateStatus, lateRun, lateMergeable, lateReview, lateMerged, lateOpened,
              lateMergeHead, lateAsking, lateDelivery, lateExec, lateLease, lateWorker,
              lateHeartbeat, lateParking>>

SharedInit == late \in BOOLEAN /\ Init /\ Late!Init
SharedNext ==
  /\ UNCHANGED late
  /\ \/ ~late /\ Next /\ UNCHANGED lateVars
     \/ late /\ Late!Next /\ UNCHANGED vars
SharedSpec == SharedInit /\ [][SharedNext]_<<late, vars, lateVars>>

\* A worker that was taken for dead may still land its merge (DeliveryRetry.cfg),
\* but a delivery leaves no lease behind even then.
LateHeartbeats == Late!TypeOK /\ Late!NoLeakedLease
=============================================================================
