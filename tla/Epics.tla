------------------------------- MODULE Epics -------------------------------
(***************************************************************************)
(* An epic and its pieces: the breakdown that makes a card an epic         *)
(* (applyBreakdown), the three run modes that hold a piece back in the     *)
(* queue (epics.ts, pump), the verbs that act on the whole (startEpic,     *)
(* pauseEpic), the epic that finishes with its last piece                  *)
(* (completeEpicIfFinished), and the scoping turns that go on meanwhile    *)
(* and may write a card's plan (scoping.ts, adoptScopingPlan).             *)
(*                                                                         *)
(* All cards are of one repository.  "running" stands for the stages of    *)
(* one card, which Pipeline details.  A scoping turn is external.          *)
(***************************************************************************)
EXTENDS Integers, FiniteSets

CONSTANTS Pieces,         \* ids of the pieces, 1..n: row order; the epic is 0
          Web, Worker,    \* the processes; the same when one does both
          Cap,            \* concurrencyLimit
          AutoMode, ReviewPlan,  \* settings
          AuthorsPlan,    \* scopingAuthorsPlan, which the pieces inherit
          Modes, Verbs,   \* run modes and verbs the operator uses
          MaxBreakdowns,
          MaxVerbs        \* presses of cancel, queue, reorder, delete and turns

VARIABLES cards,     \* [AllCards -> [status, position, started, planned]]
          epic,      \* [mode, deps]: runMode, and the pieces' dependsOn
          turns,     \* [AllCards -> the status a scoping turn has read, or Nothing]
          checking,  \* [{Web, Worker} -> where completeEpicIfFinished stands]
          presses    \* [breakdowns, verbs]

epicVars == <<cards, epic, turns, checking, presses>>

Epic == 0
AllCards == {Epic} \cup Pieces
Nothing == "none"
Finished == {"done", "abandoned"}
Scopable == {"backlog", "todo", "attention"}
Statuses == Finished \cup Scopable \cup {"none", "plan_review", "ready", "running", "paused", "review", "deleted"}
Positions == 0..(Cardinality(Pieces) + MaxVerbs + 1)

EpicsTypeOK ==
  /\ cards \in [AllCards -> [status : Statuses, position : Positions, started : BOOLEAN, planned : BOOLEAN]]
  /\ epic \in [mode : Modes \cup {Nothing}, deps : [Pieces -> SUBSET Pieces]]
  /\ turns \in [AllCards -> Scopable \cup {Nothing}]
  /\ checking \in [{Web, Worker} -> {"no", "moved", "finish"}]
  /\ presses \in [breakdowns : 0..MaxBreakdowns, verbs : 0..MaxVerbs]

EpicsInit ==
  /\ cards = [c \in AllCards |-> [status |-> IF c = Epic THEN "backlog" ELSE "none",
                               position |-> 0, started |-> FALSE, planned |-> FALSE]]
  /\ epic = [mode |-> Nothing, deps |-> [p \in Pieces |-> {}]]
  /\ turns = [c \in AllCards |-> Nothing]
  /\ checking = [w \in {Web, Worker} |-> "no"]
  /\ presses = [breakdowns |-> 0, verbs |-> 0]

Status(c) == cards[c].status
Children == {p \in Pieces : Status(p) \notin {"none", "deleted"}}
HasChildren(c) == c = Epic /\ Children # {}
Load == Cardinality({c \in AllCards : Status(c) = "running"})
Queue == {c \in AllCards : Status(c) = "todo"}
\* SELECT max(position), 0 when nothing is queued.
LastOf(queue) == CHOOSE m \in Positions :
  /\ \A c \in queue : cards[c].position <= m
  /\ m = 0 \/ \E c \in queue : cards[c].position = m

Unmet(p) == {d \in epic.deps[p] \cap Children : Status(d) \notin Finished}

\* Mutant of HeldByEpicOrder: dependencies are not looked at.
HeldByPosition(p) ==
  /\ p # Epic /\ Status(Epic) # "deleted"
  /\ epic.mode = "ordered" /\ \E s \in Children \ {p} :
       cards[s].position < cards[p].position /\ Status(s) \notin Finished

\* heldByEpicOrder; deleting the epic detaches its pieces.
HeldByEpicOrder(p) ==
  /\ p # Epic /\ Status(Epic) # "deleted"
  /\ \/ epic.mode = "graph" /\ Unmet(p) # {}
     \/ epic.mode = "ordered" /\ \E s \in Children \ {p} :
          cards[s].position < cards[p].position /\ Status(s) \notin Finished

\* Mutant of Acyclic: cycles are let through.
AnyDependencies(deps) == TRUE

\* findDependencyCycle finds none: every set of pieces has one that depends
\* on none of the others.
Acyclic(deps) ==
  \A s \in SUBSET DOMAIN deps : s # {} => \E p \in s : deps[p] \cap s = {}

EpicFinished ==
  /\ \E p \in Children : Status(p) = "done"
  /\ \A p \in Children : Status(p) \in Finished

\* A process is single-threaded: nothing else of it runs in between.
Free(w) == checking[w] = "no"

Set(c, s) == [cards EXCEPT ![c].status = s]
\* moveCard: a card that finishes has its epic looked at.
MoveCard(w, c, s) ==
  /\ cards' = Set(c, s)
  /\ checking' = IF s \in Finished /\ c # Epic THEN [checking EXCEPT ![w] = "moved"] ELSE checking

\* A run that stops may have written the card's plan by then.
Stopped(c, s) ==
  \E planned \in {cards[c].planned, cards[c].planned \/ Status(c) = "running"} :
    cards' = [cards EXCEPT ![c] = [@ EXCEPT !.status = s, !.planned = planned]]

\* completeEpicIfFinished: reads the pieces, then moves the epic if it is
\* still in Backlog.
ReadPieces(w) ==
  /\ checking[w] = "moved"
  /\ checking' = [checking EXCEPT ![w] = IF Status(Epic) # "deleted" /\ EpicFinished THEN "finish" ELSE "no"]
  /\ UNCHANGED <<cards, epic, turns, presses>>
CompleteEpic(w) ==
  /\ checking[w] = "finish"
  /\ checking' = [checking EXCEPT ![w] = "no"]
  /\ cards' = IF Status(Epic) = "backlog" THEN Set(Epic, "done") ELSE cards
  /\ UNCHANGED <<epic, turns, presses>>

-----------------------------------------------------------------------------
(* The operator, in the web process.                                       *)

Press(v) == /\ v \in Verbs /\ Free(Web) /\ presses.verbs < MaxVerbs
            /\ presses' = [presses EXCEPT !.verbs = @ + 1]

\* The next rows: deleted pieces do not come back.
NextRows == {new \in SUBSET Pieces :
  /\ new # {}
  /\ \A p \in Pieces : p \in new <=> Status(p) = "none" /\ \E q \in new : q >= p}

\* applyBreakdown: it refuses a planned card, not one with a turn in flight;
\* a dependency is a piece of the same breakdown.
ApplyBreakdown ==
  /\ "breakdown" \in Verbs /\ Free(Web) /\ presses.breakdowns < MaxBreakdowns
  /\ Status(Epic) \in Scopable /\ ~cards[Epic].planned
  /\ \E new \in NextRows, mode \in Modes : \E deps \in [new -> SUBSET new] :
       LET Offset(p) == Cardinality({q \in new : q < p})
           base == LastOf(Queue \ {Epic}) + 1 IN
       /\ Acyclic(deps)
       /\ epic' = [mode |-> mode,
                   deps |-> [p \in Pieces |-> IF p \in new THEN deps[p] ELSE epic.deps[p]]]
       /\ cards' = [c \in AllCards |->
            IF c = Epic THEN [cards[c] EXCEPT !.status = "backlog", !.started = FALSE]
            ELSE IF c \in new THEN [cards[c] EXCEPT !.status = "todo", !.position = base + Offset(c)]
            ELSE cards[c]]
  /\ presses' = [presses EXCEPT !.breakdowns = @ + 1]
  /\ UNCHANGED <<turns, checking>>

\* queueCard: to the end of the queue.
QueueCard(c) ==
  /\ Press("queue") /\ Status(c) = "backlog" /\ ~HasChildren(c)
  /\ cards' = [cards EXCEPT ![c] = [@ EXCEPT !.status = "todo",
                            !.position = LastOf(Queue) + 1, !.started = FALSE]]
  /\ UNCHANGED <<epic, turns, checking>>

\* startCard: a planned card is ready; another takes a slot, or waits in the
\* queue as a manual start.
Start(c) ==
  cards' = [cards EXCEPT ![c] = [@ EXCEPT !.started = TRUE,
    !.status = IF cards[c].planned THEN "ready"
                  ELSE IF Web = Worker /\ Load < Cap THEN "running" ELSE "todo"]]
StartCard(c) ==
  /\ Press("start") /\ Status(c) \in {"todo", "attention"} /\ ~HasChildren(c)
  /\ Start(c)
  /\ UNCHANGED <<epic, turns, checking>>

\* startEpic: queues what is in Backlog, in order, and marks what is queued.
StartEpic ==
  /\ Press("start_all") /\ Children # {}
  /\ LET back == {p \in Children : Status(p) = "backlog"}
         Before(p) == {q \in back : \/ cards[q].position < cards[p].position
                                    \/ cards[q].position = cards[p].position /\ q <= p}
     IN cards' = [c \in AllCards |->
          IF c \in back THEN [cards[c] EXCEPT !.status = "todo", !.started = TRUE,
                                !.position = LastOf(Queue) + Cardinality(Before(c))]
          ELSE IF c \in Children /\ Status(c) = "todo" THEN [cards[c] EXCEPT !.started = TRUE]
          ELSE cards[c]]
  /\ UNCHANGED <<epic, turns, checking>>

\* pauseEpic pauses those of the running pieces that loop; resumeCard.
PauseEpic ==
  /\ Press("pause_all")
  /\ \E looping \in SUBSET {p \in Children : Status(p) = "running"} :
       cards' = [c \in AllCards |-> IF c \in looping
                  THEN [cards[c] EXCEPT !.status = "paused", !.planned = TRUE] ELSE cards[c]]
  /\ UNCHANGED <<epic, turns, checking>>
ResumeCard(c) ==
  /\ Free(Web) /\ Status(c) = "paused"
  /\ cards' = Set(c, "ready")
  /\ UNCHANGED <<epic, turns, checking, presses>>

\* The move route: reorder the queue, pull back to Backlog.
Reorder(c, position) ==
  /\ Press("reorder") /\ Status(c) = "todo"
  /\ cards' = [cards EXCEPT ![c].position = position]
  /\ UNCHANGED <<epic, turns, checking>>
CancelCard(c) ==
  /\ Press("cancel")
  /\ Status(c) \in {"todo", "ready", "running", "plan_review", "attention", "paused", "review"}
  /\ Stopped(c, "backlog")
  /\ UNCHANGED <<epic, turns, checking>>
\* resetCard: the plan goes too.
ResetCard(c) ==
  /\ Press("reset") /\ Status(c) \in {"attention", "review", "plan_review"}
  /\ cards' = [cards EXCEPT ![c] = [@ EXCEPT !.status = "backlog", !.started = FALSE, !.planned = FALSE]]
  /\ UNCHANGED <<epic, turns, checking>>

Abandon(c) ==
  /\ Press("abandon")
  /\ Status(c) \in Scopable \cup {"ready", "paused", "plan_review", "review"}
  /\ MoveCard(Web, c, "abandoned")
  /\ UNCHANGED <<epic, turns>>
\* The row goes without a word to the epic.
DeleteCard(c) ==
  /\ Press("delete") /\ Status(c) \notin {"none", "deleted", "running"}
  /\ cards' = Set(c, "deleted")
  /\ UNCHANGED <<epic, turns, checking>>

-----------------------------------------------------------------------------
(* Scoping turns: up to five minutes, one at a time for a card.            *)

ProposePlan(c) ==
  /\ AuthorsPlan /\ Press("scope")
  /\ Status(c) \in Scopable /\ turns[c] = Nothing
  /\ turns' = [turns EXCEPT ![c] = Status(c)]
  /\ UNCHANGED <<cards, epic, checking>>

\* adoptScopingPlan, after its await: the plan row is written whatever has
\* become of the card, which moves if it is where it was.
PlanWritten(c) ==
  [cards EXCEPT ![c] = [@ EXCEPT
    !.planned = Status(c) # "deleted",
    !.status = IF @ # turns[c] THEN @ ELSE IF ReviewPlan THEN "plan_review" ELSE "ready"]]
AdoptScopingPlan(c) ==
  /\ turns[c] # Nothing /\ Free(Web)
  /\ turns' = [turns EXCEPT ![c] = Nothing]
  /\ cards' = PlanWritten(c)
  /\ UNCHANGED <<epic, checking, presses>>
\* An error, a timeout, or a reply without the three artifacts.
TurnFails(c) ==
  /\ turns[c] # Nothing
  /\ turns' = [turns EXCEPT ![c] = Nothing]
  /\ UNCHANGED <<cards, epic, checking, presses>>
ApprovePlan(c) ==
  /\ Free(Web) /\ Status(c) = "plan_review"
  /\ cards' = Set(c, "ready")
  /\ UNCHANGED <<epic, turns, checking, presses>>

-----------------------------------------------------------------------------
(* The worker.                                                             *)

\* pump: ready cards first, held by no order.
LoopReady(c) ==
  /\ Free(Worker) /\ Status(c) = "ready" /\ Load < Cap
  /\ cards' = Set(c, "running")
  /\ UNCHANGED <<epic, turns, checking, presses>>

\* planningCandidates: manual starts first (which of them is older is left
\* open), then, in Auto Mode, by position.
Waiting == {c \in AllCards : Status(c) = "todo" /\ ~HeldByEpicOrder(c)}
Manual == {c \in Waiting : cards[c].started}
Candidates ==
  IF Manual # {} THEN Manual
  ELSE {c \in Waiting : AutoMode /\ \A d \in Waiting : cards[c].position <= cards[d].position}
PlanNext(c) ==
  /\ Free(Worker) /\ c \in Candidates /\ Load < Cap
  /\ ~\E d \in AllCards : Status(d) = "ready"
  /\ cards' = [cards EXCEPT ![c] = [@ EXCEPT !.started = TRUE,
                            !.status = IF cards[c].planned THEN "ready" ELSE "running"]]
  /\ UNCHANGED <<epic, turns, checking, presses>>

\* A run ends in Review, and an approved review is delivered, or the card is
\* parked for a human.
Pass(c) ==
  /\ Free(Worker) /\ Status(c) = "running"
  /\ cards' = [cards EXCEPT ![c] = [@ EXCEPT !.status = "review", !.planned = TRUE]]
  /\ UNCHANGED <<epic, turns, checking, presses>>
Deliver(c) ==
  /\ Free(Worker) /\ Status(c) = "review"
  /\ MoveCard(Worker, c, "done")
  /\ UNCHANGED <<epic, turns, presses>>
Park(c) ==
  /\ "park" \in Verbs /\ Free(Worker) /\ Status(c) = "running"
  /\ Stopped(c, "attention")
  /\ UNCHANGED <<epic, turns, checking, presses>>

EpicsNext ==
  \/ \E w \in {Web, Worker} : ReadPieces(w) \/ CompleteEpic(w)
  \/ ApplyBreakdown \/ StartEpic \/ PauseEpic
  \/ \E c \in AllCards : \/ QueueCard(c) \/ StartCard(c) \/ ResumeCard(c) \/ CancelCard(c)
                      \/ ResetCard(c) \/ Abandon(c) \/ DeleteCard(c)
                      \/ ProposePlan(c) \/ AdoptScopingPlan(c) \/ TurnFails(c) \/ ApprovePlan(c)
                      \/ LoopReady(c) \/ PlanNext(c) \/ Pass(c) \/ Deliver(c) \/ Park(c)
  \/ \E c \in AllCards, position \in 0..2 : Reorder(c, position)

EpicsSpec == EpicsInit /\ [][EpicsNext]_epicVars

-----------------------------------------------------------------------------
(* Properties.                                                             *)

\* An epic is Done only when every piece of it is finished, whatever was
\* appended, abandoned or delivered meanwhile.
EpicDoneIsWhole ==
  Status(Epic) = "done" /\ epic.mode # Nothing => \A p \in Children : Status(p) \in Finished

\* Under `graph`, with no start by hand, a piece that has been taken off the
\* queue has nothing left to wait for: no later verb, failure or breakdown
\* makes it a piece that ran before what it depends on.
DependenciesFirst ==
  epic.mode = "graph" /\ "start" \notin Verbs /\ ~AuthorsPlan /\ Status(Epic) # "deleted" =>
    \A p \in Children : Status(p) \in {"running", "paused", "review", "done"} => Unmet(p) = {}

\* Nothing of the epic is parked, pulled back or paused.
Moving == /\ Children # {} /\ Status(Epic) = "backlog"
          /\ \A p \in Children : Status(p) \in Finished \cup {"todo", "ready", "running", "review"}
          /\ \A p \in Children : cards[p].status = "todo" => AutoMode \/ cards[p].started
=============================================================================
