------------------------------ MODULE Approval ------------------------------
(***************************************************************************)
(* What the delivery of approved cards promises, without workers, leases,  *)
(* crashes or half-finished merges: a diff lands only while its card is    *)
(* being delivered, it is the diff of the card's current run, and a card   *)
(* is Done only once its diff has landed.                                  *)
(***************************************************************************)
EXTENDS Naturals

CONSTANTS Cards,   \* the cards of one repository
          MaxRuns  \* BOUND: completed runs per card

VARIABLES stage,   \* open: anybody's to decide; requested: being delivered
          run,     \* the number of the card's latest loop run
          landed   \* the <<card, run>> whose diff is in the base, or in a PR

vars == <<stage, run, landed>>

Init ==
  /\ stage = [c \in Cards |-> "open"]
  /\ run = [c \in Cards |-> 0]
  /\ landed = {}

\* The pipeline works on an open card: it may have another run, or not.
Work(c) ==
  /\ stage[c] = "open"
  /\ run[c] < MaxRuns
  /\ run' = [run EXCEPT ![c] = @ + 1]
  /\ UNCHANGED <<stage, landed>>

Request(c) ==
  /\ stage[c] = "open"
  /\ stage' = [stage EXCEPT ![c] = "requested"]
  /\ UNCHANGED <<run, landed>>

Land(c) ==
  /\ stage[c] = "requested"
  /\ landed' = landed \cup {<<c, run[c]>>}
  /\ UNCHANGED <<stage, run>>

\* Rejected, failed, in conflict, or the worker was lost: somebody decides again.
Return(c) ==
  /\ stage[c] = "requested"
  /\ stage' = [stage EXCEPT ![c] = "open"]
  /\ UNCHANGED <<run, landed>>

Complete(c) ==
  /\ stage[c] = "requested"
  /\ <<c, run[c]>> \in landed
  /\ stage' = [stage EXCEPT ![c] = "done"]
  /\ UNCHANGED <<run, landed>>

Next ==
  \E c \in Cards : Work(c) \/ Request(c) \/ Land(c) \/ Return(c) \/ Complete(c)

Spec == Init /\ [][Next]_vars
=============================================================================
