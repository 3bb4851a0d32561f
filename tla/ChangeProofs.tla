--------------------------- MODULE ChangeProofs -----------------------------
(***************************************************************************)
(* What changes to a repository and to an epic's pieces keep, for any      *)
(* number of pieces, breakdowns, verbs, runs, changes from outside and     *)
(* workers that die.                                                       *)
(***************************************************************************)
EXTENDS Epics, Integrity, FiniteSetTheorems, SequenceTheorems, TLAPS

(***************************************************************************)
(* Epics: under `graph` no piece overtakes what it depends on, and Done    *)
(* is the epic whose pieces are all finished. Both are about epics whose   *)
(* plans no scoping turn writes.                                           *)
(***************************************************************************)

\* Pieces are numbered from 1.
Numbered == Pieces \subseteq Nat \ {0}

Fields == {"status", "position", "started", "planned"}
PieceShape == /\ DOMAIN cards = AllCards
              /\ \A c \in AllCards : DOMAIN cards[c] = Fields

\* No scoping turn is under way, and none has written a plan to review.
NoScoping == /\ DOMAIN turns = AllCards /\ \A c \in AllCards : turns[c] = Nothing
             /\ \A c \in AllCards : Status(c) # "plan_review"

\* Where a piece is once it was taken off the queue, and where an epic with
\* pieces is.
Beyond == {"ready", "running", "paused", "review", "done"}
Rests == {"backlog", "done", "abandoned", "deleted"}

-----------------------------------------------------------------------------
(* What a step does to the status of a card.                               *)

\* What any step but a breakdown and the look at a finished epic may do.
Goes(c) ==
  /\ Status(c)' = "none" <=> Status(c) = "none"
  /\ Status(c) \in Finished \cup {"deleted"} => Status(c)' \in {Status(c), "deleted"}
  /\ Status(c)' = "done" => Status(c) \in {"done", "review"}
  /\ Status(c)' \in Beyond => \/ Status(c) \in Beyond \/ "start" \in Verbs
                              \/ Status(c) = "todo" /\ ~HeldByEpicOrder(c)
  /\ c = Epic /\ Children # {} /\ Status(c) \in Rests => Status(c)' \in Rests
  /\ Status(c)' # "plan_review"

LEMMA OneCard ==
  ASSUME PieceShape, NEW c \in AllCards, NEW v, DOMAIN v = Fields, cards' = [cards EXCEPT ![c] = v]
  PROVE  PieceShape' /\ \A d \in AllCards : Status(d)' = IF d = c THEN v.status ELSE Status(d)
<1>1. DOMAIN cards' = AllCards /\ \A d \in AllCards : cards'[d] = IF d = c THEN v ELSE cards[d]
  BY DEF PieceShape
<1> QED
  BY <1>1 DEF PieceShape, Status

LEMMA SetStatus ==
  ASSUME PieceShape, NEW c \in AllCards, NEW s, cards' = Set(c, s)
  PROVE  PieceShape' /\ \A d \in AllCards : Status(d)' = IF d = c THEN s ELSE Status(d)
<1> DEFINE v == [cards[c] EXCEPT !.status = s]
<1>1. cards' = [cards EXCEPT ![c] = v]
  BY DEF Set
<1>2. DOMAIN v = Fields /\ v.status = s
  BY DEF PieceShape, Fields
<1> HIDE DEF v
<1> QED
  BY <1>1, <1>2, OneCard

LEMMA StoppedStatus ==
  ASSUME PieceShape, NEW c \in AllCards, NEW s, Stopped(c, s)
  PROVE  PieceShape' /\ \A d \in AllCards : Status(d)' = IF d = c THEN s ELSE Status(d)
<1>1. PICK planned \in {cards[c].planned, cards[c].planned \/ Status(c) = "running"} :
        cards' = [cards EXCEPT ![c] = [cards[c] EXCEPT !.status = s, !.planned = planned]]
  BY DEF Stopped, PieceShape
<1> DEFINE v == [cards[c] EXCEPT !.status = s, !.planned = planned]
<1>2. DOMAIN v = Fields /\ v.status = s
  BY DEF PieceShape, Fields
<1>3. cards' = [cards EXCEPT ![c] = v]
  BY <1>1
<1> HIDE DEF v
<1> QED
  BY <1>2, <1>3, OneCard

\* The verbs on one card.
Verb(c) ==
  \/ QueueCard(c) \/ StartCard(c) \/ ResumeCard(c) \/ CancelCard(c) \/ ResetCard(c)
  \/ Abandon(c) \/ DeleteCard(c) \/ \E position \in 0..2 : Reorder(c, position)
Works(c) == LoopReady(c) \/ PlanNext(c) \/ Pass(c) \/ Deliver(c) \/ Park(c)

\* A card's move is one of these.
LEMMA VerbGoes ==
  ASSUME PieceShape, NoScoping, NEW c \in AllCards, Verb(c)
  PROVE  PieceShape' /\ \A d \in AllCards : Goes(d)
<1>0. SUFFICES \E s : /\ PieceShape' /\ \A d \in AllCards : Status(d)' = IF d = c THEN s ELSE Status(d)
                      /\ Status(c)' = s => Goes(c)
  BY DEF Goes, NoScoping
<1>1. CASE QueueCard(c)
  <2> DEFINE v == [cards[c] EXCEPT !.status = "todo", !.position = LastOf(Queue) + 1, !.started = FALSE]
  <2>1. cards' = [cards EXCEPT ![c] = v] /\ DOMAIN v = Fields /\ v.status = "todo"
    BY <1>1 DEF QueueCard, PieceShape, Fields
  <2> HIDE DEF v
  <2>2. PieceShape' /\ \A d \in AllCards : Status(d)' = IF d = c THEN "todo" ELSE Status(d)
    BY <2>1, OneCard
  <2>3. Status(c)' = "todo" => Goes(c)
    BY <1>1 DEF QueueCard, Goes, HasChildren, Beyond, Finished
  <2> QED
    BY <2>2, <2>3
<1>2. CASE StartCard(c)
  <2> DEFINE s == IF cards[c].planned THEN "ready"
                  ELSE IF Web = Worker /\ Load < Cap THEN "running" ELSE "todo"
             v == [cards[c] EXCEPT !.started = TRUE, !.status = s]
  <2>1. cards' = [cards EXCEPT ![c] = v]
    BY <1>2 DEF StartCard, Start
  <2>2. DOMAIN v = Fields /\ v.status = s
    BY DEF PieceShape, Fields
  <2>3. s \in {"ready", "running", "todo"}
    OBVIOUS
  <2> HIDE DEF s, v
  <2>4. PieceShape' /\ \A d \in AllCards : Status(d)' = IF d = c THEN s ELSE Status(d)
    BY <2>1, <2>2, OneCard
  <2>5. Status(c)' = s => Goes(c)
    BY <1>2, <2>3 DEF StartCard, Press, Goes, Beyond, Finished, Rests
  <2> QED
    BY <2>4, <2>5
<1>3. CASE ResumeCard(c)
  <2>1. Status(c)' = "ready" => Goes(c)
    BY <1>3 DEF ResumeCard, Goes, Beyond, Finished, Rests
  <2> QED
    BY <1>3, <2>1, SetStatus DEF ResumeCard
<1>4. CASE CancelCard(c)
  <2>1. Status(c)' = "backlog" => Goes(c)
    BY <1>4 DEF CancelCard, Goes, Beyond, Finished, Rests
  <2> QED
    BY <1>4, <2>1, StoppedStatus DEF CancelCard
<1>5. CASE ResetCard(c)
  <2> DEFINE v == [cards[c] EXCEPT !.status = "backlog", !.started = FALSE, !.planned = FALSE]
  <2>1. cards' = [cards EXCEPT ![c] = v] /\ DOMAIN v = Fields /\ v.status = "backlog"
    BY <1>5 DEF ResetCard, PieceShape, Fields
  <2> HIDE DEF v
  <2>2. Status(c)' = "backlog" => Goes(c)
    BY <1>5 DEF ResetCard, Goes, Beyond, Finished, Rests
  <2> QED
    BY <2>1, <2>2, OneCard
<1>6. CASE Abandon(c)
  <2>1. Status(c)' = "abandoned" => Goes(c)
    BY <1>6 DEF Abandon, Scopable, Goes, Beyond, Finished, Rests
  <2> QED
    BY <1>6, <2>1, SetStatus DEF Abandon, MoveCard
<1>7. CASE DeleteCard(c)
  <2>1. Status(c)' = "deleted" => Goes(c)
    BY <1>7 DEF DeleteCard, Goes, Beyond, Finished, Rests
  <2> QED
    BY <1>7, <2>1, SetStatus DEF DeleteCard
<1>8. ASSUME NEW position \in 0..2, Reorder(c, position)
      PROVE  \E s : /\ PieceShape' /\ \A d \in AllCards : Status(d)' = IF d = c THEN s ELSE Status(d)
                    /\ Status(c)' = s => Goes(c)
  <2> DEFINE v == [cards[c] EXCEPT !.position = position]
  <2>1. cards' = [cards EXCEPT ![c] = v] /\ DOMAIN v = Fields /\ v.status = Status(c)
    BY <1>8 DEF Reorder, PieceShape, Fields, Status
  <2> HIDE DEF v
  <2>2. PieceShape' /\ \A d \in AllCards : Status(d)' = IF d = c THEN Status(c) ELSE Status(d)
    BY <2>1, OneCard
  <2>3. Status(c)' = Status(c) => Goes(c)
    BY DEF Goes, NoScoping
  <2> QED
    BY <2>2, <2>3
<1> QED
  BY <1>1, <1>2, <1>3, <1>4, <1>5, <1>6, <1>7, <1>8 DEF Verb

LEMMA WorkGoes ==
  ASSUME PieceShape, NoScoping, NEW c \in AllCards, Works(c)
  PROVE  PieceShape' /\ \A d \in AllCards : Goes(d)
<1>0. SUFFICES \E s : /\ PieceShape' /\ \A d \in AllCards : Status(d)' = IF d = c THEN s ELSE Status(d)
                      /\ Status(c)' = s => Goes(c)
  BY DEF Goes, NoScoping
<1>1. CASE LoopReady(c)
  <2>1. Status(c)' = "running" => Goes(c)
    BY <1>1 DEF LoopReady, Goes, Beyond, Finished, Rests
  <2> QED
    BY <1>1, <2>1, SetStatus DEF LoopReady
<1>2. CASE PlanNext(c)
  <2> DEFINE s == IF cards[c].planned THEN "ready" ELSE "running"
             v == [cards[c] EXCEPT !.started = TRUE, !.status = s]
  <2>1. cards' = [cards EXCEPT ![c] = v] /\ c \in Candidates
    BY <1>2 DEF PlanNext
  <2>2. DOMAIN v = Fields /\ v.status = s
    BY DEF PieceShape, Fields
  <2>3. s \in {"ready", "running"} /\ c \in Waiting
    BY <2>1 DEF Candidates, Manual
  <2> HIDE DEF s, v
  <2>4. PieceShape' /\ \A d \in AllCards : Status(d)' = IF d = c THEN s ELSE Status(d)
    BY <2>1, <2>2, OneCard
  <2>5. Status(c)' = s => Goes(c)
    BY <2>3 DEF Waiting, Goes, Beyond, Finished, Rests
  <2> QED
    BY <2>4, <2>5
<1>3. CASE Pass(c)
  <2> DEFINE v == [cards[c] EXCEPT !.status = "review", !.planned = TRUE]
  <2>1. cards' = [cards EXCEPT ![c] = v] /\ DOMAIN v = Fields /\ v.status = "review"
    BY <1>3 DEF Pass, PieceShape, Fields
  <2> HIDE DEF v
  <2>2. Status(c)' = "review" => Goes(c)
    BY <1>3 DEF Pass, Goes, Beyond, Finished, Rests
  <2> QED
    BY <2>1, <2>2, OneCard
<1>4. CASE Deliver(c)
  <2>1. Status(c)' = "done" => Goes(c)
    BY <1>4 DEF Deliver, Goes, Beyond, Finished, Rests
  <2> QED
    BY <1>4, <2>1, SetStatus DEF Deliver, MoveCard
<1>5. CASE Park(c)
  <2>1. Status(c)' = "attention" => Goes(c)
    BY <1>5 DEF Park, Goes, Beyond, Finished, Rests
  <2> QED
    BY <1>5, <2>1, StoppedStatus DEF Park
<1> QED
  BY <1>1, <1>2, <1>3, <1>4, <1>5 DEF Works

\* The verbs on the whole epic: some pieces move from one status to another.
LEMMA PiecesMove ==
  ASSUME PieceShape, NoScoping, Numbered, NEW moved \in SUBSET Children, NEW from, NEW s,
         \A p \in moved : Status(p) = from,
         DOMAIN cards' = AllCards, \A c \in AllCards : DOMAIN cards'[c] = Fields,
         \A c \in AllCards : cards'[c].status = IF c \in moved THEN s ELSE cards[c].status,
         (from = "backlog" /\ s = "todo") \/ (from = "running" /\ s = "paused")
  PROVE  PieceShape' /\ \A d \in AllCards : Goes(d)
<1>1. Epic \notin moved
  BY DEF Numbered, Children, Epic
<1>2. \A d \in AllCards : Status(d)' = IF d \in moved THEN s ELSE Status(d)
  BY DEF Status
<1>3. ASSUME NEW d \in AllCards PROVE Goes(d)
  <2>1. CASE d \in moved
    BY <1>1, <1>2, <2>1 DEF Goes, Beyond, Finished, NoScoping
  <2>2. CASE d \notin moved
    BY <1>2, <2>2 DEF Goes, NoScoping
  <2> QED
    BY <2>1, <2>2
<1> QED
  BY <1>3 DEF PieceShape

LEMMA WholeGoes ==
  ASSUME PieceShape, NoScoping, Numbered, StartEpic \/ PauseEpic
  PROVE  PieceShape' /\ \A d \in AllCards : Goes(d)
<1>1. CASE StartEpic
  <2> DEFINE back == {p \in Children : Status(p) = "backlog"}
             Before(p) == {q \in back : \/ cards[q].position < cards[p].position
                                        \/ cards[q].position = cards[p].position /\ q <= p}
             placed(c) == [cards[c] EXCEPT !.status = "todo", !.started = TRUE,
                             !.position = LastOf(Queue) + Cardinality(Before(c))]
             marked(c) == [cards[c] EXCEPT !.started = TRUE]
  <2>1. cards' = [c \in AllCards |-> IF c \in back THEN placed(c)
                    ELSE IF c \in Children /\ Status(c) = "todo" THEN marked(c) ELSE cards[c]]
    BY <1>1 DEF StartEpic
  <2>2. ASSUME NEW c \in AllCards
        PROVE  /\ DOMAIN placed(c) = Fields /\ placed(c).status = "todo"
               /\ DOMAIN marked(c) = Fields /\ marked(c).status = cards[c].status
    BY DEF PieceShape, Fields
  <2>3. back \in SUBSET Children /\ \A p \in back : Status(p) = "backlog"
    OBVIOUS
  <2> HIDE DEF back, placed, marked
  <2>4. /\ DOMAIN cards' = AllCards /\ \A c \in AllCards : DOMAIN cards'[c] = Fields
        /\ \A c \in AllCards : cards'[c].status = IF c \in back THEN "todo" ELSE cards[c].status
    BY <2>1, <2>2 DEF PieceShape
  <2> QED
    BY <2>3, <2>4, PiecesMove
<1>2. CASE PauseEpic
  <2>1. PICK looping \in SUBSET {p \in Children : Status(p) = "running"} :
          cards' = [c \in AllCards |-> IF c \in looping
                     THEN [cards[c] EXCEPT !.status = "paused", !.planned = TRUE] ELSE cards[c]]
    BY <1>2 DEF PauseEpic
  <2> DEFINE held(c) == [cards[c] EXCEPT !.status = "paused", !.planned = TRUE]
  <2>2. ASSUME NEW c \in AllCards PROVE DOMAIN held(c) = Fields /\ held(c).status = "paused"
    BY DEF PieceShape, Fields
  <2>3. cards' = [c \in AllCards |-> IF c \in looping THEN held(c) ELSE cards[c]]
    BY <2>1
  <2>4. looping \in SUBSET Children /\ \A p \in looping : Status(p) = "running"
    BY <2>1
  <2> HIDE DEF held
  <2>5. /\ DOMAIN cards' = AllCards /\ \A c \in AllCards : DOMAIN cards'[c] = Fields
        /\ \A c \in AllCards : cards'[c].status = IF c \in looping THEN "paused" ELSE cards[c].status
    BY <2>2, <2>3 DEF PieceShape
  <2> QED
    BY <2>4, <2>5, PiecesMove
<1> QED
  BY <1>1, <1>2

-----------------------------------------------------------------------------
(* The steps: a verb or a worker's move, a look at the epic, a breakdown.  *)

Moves == StartEpic \/ PauseEpic \/ \E c \in AllCards : Verb(c) \/ Works(c)
Looks(w) == ReadPieces(w) \/ CompleteEpic(w)

LEMMA Steps ==
  ASSUME NoScoping, ~AuthorsPlan, EpicsNext
  PROVE  \/ Moves /\ UNCHANGED <<epic, turns>>
         \/ \E w \in {Web, Worker} : Looks(w)
         \/ ApplyBreakdown
<1>1. \A c \in AllCards : ~ProposePlan(c) /\ ~AdoptScopingPlan(c) /\ ~TurnFails(c) /\ ~ApprovePlan(c)
  BY DEF ProposePlan, AdoptScopingPlan, TurnFails, ApprovePlan, NoScoping
<1>2. StartEpic \/ PauseEpic => UNCHANGED <<epic, turns>>
  BY DEF StartEpic, PauseEpic
<1>3. \A c \in AllCards : Verb(c) \/ Works(c) => UNCHANGED <<epic, turns>>
  BY DEF Verb, Works, QueueCard, StartCard, ResumeCard, CancelCard, ResetCard, Abandon, DeleteCard,
         Reorder, LoopReady, PlanNext, Pass, Deliver, Park
<1> QED
  BY <1>1, <1>2, <1>3 DEF EpicsNext, Moves, Looks, Verb, Works

LEMMA MovesGo ==
  ASSUME PieceShape, NoScoping, Numbered, Moves, UNCHANGED turns
  PROVE  PieceShape' /\ NoScoping' /\ \A d \in AllCards : Goes(d)
<1>1. PieceShape' /\ \A d \in AllCards : Goes(d)
  BY VerbGoes, WorkGoes, WholeGoes DEF Moves
<1> QED
  BY <1>1 DEF Goes, NoScoping

\* completeEpicIfFinished only ever moves the epic, from Backlog to Done.
LEMMA LooksGo ==
  ASSUME PieceShape, NoScoping, NEW w, Looks(w)
  PROVE  /\ PieceShape' /\ NoScoping' /\ UNCHANGED epic
         /\ \A c \in AllCards : \/ Status(c)' = Status(c)
                                \/ /\ c = Epic /\ Status(c) = "backlog" /\ Status(c)' = "done"
                                   /\ checking[w] = "finish"
<1>1. UNCHANGED <<epic, turns>>
  BY DEF Looks, ReadPieces, CompleteEpic
<1>2. CASE UNCHANGED cards
  BY <1>1, <1>2 DEF PieceShape, NoScoping, Status
<1>3. CASE CompleteEpic(w) /\ Status(Epic) = "backlog"
  <2>1. cards' = Set(Epic, "done") /\ Epic \in AllCards /\ checking[w] = "finish"
    BY <1>3 DEF CompleteEpic, AllCards
  <2>2. PieceShape' /\ \A d \in AllCards : Status(d)' = IF d = Epic THEN "done" ELSE Status(d)
    BY <2>1, SetStatus
  <2> QED
    BY <1>1, <1>3, <2>1, <2>2 DEF NoScoping
<1> QED
  BY <1>2, <1>3 DEF Looks, ReadPieces, CompleteEpic

\* A breakdown puts new pieces in the queue and the epic in Backlog.
Breaks(new) ==
  /\ new \subseteq Pieces /\ \A p \in new : Status(p) = "none"
  /\ Status(Epic) \in Scopable /\ Status(Epic)' = "backlog"
  /\ \A p \in Pieces : Status(p)' = IF p \in new THEN "todo" ELSE Status(p)
  /\ \E mode \in Modes : epic'.mode = mode
  /\ \A p \in new : epic'.deps[p] \subseteq new
  /\ \A p \in Pieces \ new : epic'.deps[p] = epic.deps[p]

LEMMA BreakdownGoes ==
  ASSUME PieceShape, NoScoping, Numbered, ApplyBreakdown
  PROVE  PieceShape' /\ NoScoping' /\ \E new : Breaks(new)
<1>1. PICK new \in NextRows, mode \in Modes : \E deps \in [new -> SUBSET new] :
        LET Offset(p) == Cardinality({q \in new : q < p})
            base == LastOf(Queue \ {Epic}) + 1 IN
        /\ epic' = [mode |-> mode,
                    deps |-> [p \in Pieces |-> IF p \in new THEN deps[p] ELSE epic.deps[p]]]
        /\ cards' = [c \in AllCards |->
             IF c = Epic THEN [cards[c] EXCEPT !.status = "backlog", !.started = FALSE]
             ELSE IF c \in new THEN [cards[c] EXCEPT !.status = "todo", !.position = base + Offset(c)]
             ELSE cards[c]]
  BY DEF ApplyBreakdown
<1>2. PICK deps \in [new -> SUBSET new] :
        epic' = [mode |-> mode,
                 deps |-> [p \in Pieces |-> IF p \in new THEN deps[p] ELSE epic.deps[p]]]
  BY <1>1
<1> DEFINE reset == [cards[Epic] EXCEPT !.status = "backlog", !.started = FALSE]
           placed(c) == [cards[c] EXCEPT !.status = "todo",
             !.position = LastOf(Queue \ {Epic}) + 1 + Cardinality({q \in new : q < c})]
<1>3. cards' = [c \in AllCards |-> IF c = Epic THEN reset ELSE IF c \in new THEN placed(c) ELSE cards[c]]
  BY <1>1
<1>4. Epic \in AllCards /\ Epic \notin Pieces /\ Pieces \subseteq AllCards
  BY DEF Numbered, Epic, AllCards
<1>5. DOMAIN reset = Fields /\ reset.status = "backlog"
  BY <1>4 DEF PieceShape, Fields
<1>6. ASSUME NEW c \in AllCards PROVE DOMAIN placed(c) = Fields /\ placed(c).status = "todo"
  BY DEF PieceShape, Fields
<1> HIDE DEF reset, placed
<1>7. PieceShape' /\ \A c \in AllCards : Status(c)' = IF c = Epic THEN "backlog"
                                                ELSE IF c \in new THEN "todo" ELSE Status(c)
  BY <1>3, <1>5, <1>6 DEF PieceShape, Status
<1>8. new \subseteq Pieces /\ \A p \in new : Status(p) = "none"
  BY <1>1 DEF NextRows
<1>9. /\ epic'.mode = mode /\ \A p \in new : epic'.deps[p] \subseteq new
      /\ \A p \in Pieces \ new : epic'.deps[p] = epic.deps[p]
  BY <1>2, <1>8
<1>10. Breaks(new)
  BY <1>4, <1>7, <1>8, <1>9 DEF Breaks, ApplyBreakdown
<1>11. NoScoping'
  BY <1>7 DEF NoScoping, ApplyBreakdown
<1> QED
  BY <1>7, <1>10, <1>11

LEMMA InitShape == EpicsInit => PieceShape /\ NoScoping
BY DEF EpicsInit, PieceShape, NoScoping, Fields, Status, AllCards, Epic, Nothing

-----------------------------------------------------------------------------
(* Under `graph`, no piece before what it depends on.                      *)

\* What a piece depends on is there, or was; while nothing was broken down
\* nothing is there.
DepsAreThere ==
  /\ epic.mode \in Modes \cup {Nothing}
  /\ epic.mode = Nothing => Children = {}
  /\ \A p \in Pieces : \A d \in epic.deps[p] : d \in Pieces /\ Status(d) # "none"

\* Off the queue there is nothing to wait for.
NothingToWaitFor ==
  Status(Epic) # "deleted" => \A p \in Children : Status(p) \in Beyond => Unmet(p) = {}

OInv == PieceShape /\ NoScoping /\ DepsAreThere /\ NothingToWaitFor

\* The step of a piece and of what it waits for.
LEMMA OrderMoves ==
  ASSUME Numbered, "start" \notin Verbs, Modes \subseteq {"graph"}, OInv,
         Moves, UNCHANGED <<epic, turns>>
  PROVE  OInv'
<1>1. PieceShape' /\ NoScoping' /\ \A d \in AllCards : Goes(d)
  BY MovesGo DEF OInv
<1>2. Pieces \subseteq AllCards /\ Epic \in AllCards /\ Children \subseteq Pieces /\ Children' \subseteq Children
  BY <1>1 DEF AllCards, Children, Goes
<1>3. \A p \in Pieces : Status(p)' = "none" <=> Status(p) = "none"
  BY <1>1, <1>2 DEF Goes
<1>4. DepsAreThere'
  BY <1>2, <1>3 DEF OInv, DepsAreThere
<1>5. ASSUME Status(Epic)' # "deleted", NEW p \in Children', Status(p)' \in Beyond
      PROVE  Unmet(p)' = {}
  <2>1. p \in Children /\ Goes(p) /\ Status(Epic) # "deleted"
    BY <1>1, <1>2, <1>5 DEF Goes
  <2>2. Unmet(p)' \subseteq Unmet(p)
    <3>1. \A d \in Children' : Status(d)' \notin Finished => Status(d) \notin Finished
      BY <1>1, <1>2 DEF Goes, Children
    <3> QED
      BY <1>2, <3>1 DEF Unmet
  <2>3. Unmet(p) = {}
    <3>1. CASE Status(p) \in Beyond
      BY <2>1, <3>1 DEF OInv, NothingToWaitFor
    <3>2. CASE ~HeldByEpicOrder(p)
      <4>1. p # Epic /\ epic.mode = "graph"
        BY <1>2, <2>1 DEF Numbered, Epic, OInv, DepsAreThere
      <4> QED
        BY <2>1, <3>2, <4>1 DEF HeldByEpicOrder
    <3> QED
      BY <1>5, <2>1, <3>1, <3>2 DEF Goes
  <2> QED
    BY <2>2, <2>3
<1> QED
  BY <1>1, <1>4, <1>5 DEF OInv, NothingToWaitFor

LEMMA OrderBreaks ==
  ASSUME Numbered, Modes \subseteq {"graph"}, OInv, ApplyBreakdown
  PROVE  OInv'
<1>1. PieceShape' /\ NoScoping' /\ \E new : Breaks(new)
  BY BreakdownGoes DEF OInv
<1>2. PICK new : Breaks(new)
  BY <1>1
<1>3. DepsAreThere'
  <2>1. epic'.mode \in Modes /\ epic'.mode # Nothing
    BY <1>2 DEF Breaks, Nothing
  <2>2. ASSUME NEW p \in Pieces, NEW d \in epic'.deps[p] PROVE d \in Pieces /\ Status(d)' # "none"
    BY <1>2, <2>2 DEF Breaks, OInv, DepsAreThere
  <2> QED
    BY <2>1, <2>2 DEF DepsAreThere
<1>4. ASSUME NEW p \in Children', Status(p)' \in Beyond PROVE Unmet(p)' = {}
  <2>1. p \in Pieces /\ p \notin new /\ Status(p)' = Status(p) /\ p \in Children
    BY <1>2, <1>4 DEF Breaks, Children, Beyond
  <2>2. Unmet(p) = {}
    BY <1>2, <1>4, <2>1 DEF OInv, NothingToWaitFor, Breaks, Scopable
  <2>3. \A d \in epic.deps[p] : d \in Pieces /\ d \notin new /\ Status(d)' = Status(d)
    BY <1>2, <2>1 DEF OInv, DepsAreThere, Breaks
  <2>4. epic'.deps[p] = epic.deps[p]
    BY <1>2, <2>1 DEF Breaks
  <2> QED
    BY <2>2, <2>3, <2>4 DEF Unmet, Children
<1> QED
  BY <1>1, <1>3, <1>4 DEF OInv, NothingToWaitFor

\* A piece of an epic under `graph` that has been taken off the queue has nothing
\* left to wait for, in any graph: whatever is cancelled, reset, deleted, reordered or
\* appended meanwhile (heldByEpicOrder in the pump, which is
\* the only way off the queue where no piece is started by hand).  An epic whose
\* mode changes from one breakdown to the next is not covered.
THEOREM GraphIsFollowed ==
  ASSUME Numbered, Modes \subseteq {"graph"}
  PROVE  EpicsSpec => []DependenciesFirst
<1>1. CASE "start" \in Verbs \/ AuthorsPlan
  <2>1. DependenciesFirst
    BY <1>1 DEF DependenciesFirst
  <2> QED
    BY <2>1, PTL
<1>2. CASE "start" \notin Verbs /\ ~AuthorsPlan
  <2>1. EpicsInit => OInv
    BY InitShape DEF EpicsInit, OInv, DepsAreThere, NothingToWaitFor, Children, Status, AllCards, Epic, Numbered
  <2>2. ASSUME OInv, [EpicsNext]_epicVars PROVE OInv'
    <3>1. CASE UNCHANGED epicVars
      BY <2>2, <3>1 DEF epicVars, OInv, PieceShape, NoScoping, DepsAreThere, NothingToWaitFor, Children, Unmet, Status
    <3>2. CASE Moves /\ UNCHANGED <<epic, turns>>
      BY <1>2, <2>2, <3>2, OrderMoves
    <3>3. ASSUME NEW w, Looks(w) PROVE OInv'
      <4>1. /\ PieceShape' /\ NoScoping' /\ UNCHANGED epic
            /\ \A p \in Pieces : Status(p)' = Status(p)
            /\ Status(Epic)' # "deleted" => Status(Epic) # "deleted"
        BY <2>2, <3>3, LooksGo DEF OInv, AllCards, Epic, Numbered
      <4>2. Children' = Children /\ \A p \in Pieces : Unmet(p)' = Unmet(p)
        BY <4>1 DEF Children, Unmet
      <4> QED
        BY <2>2, <4>1, <4>2 DEF OInv, DepsAreThere, NothingToWaitFor, Children
    <3>4. CASE ApplyBreakdown
      BY <2>2, <3>4, OrderBreaks
    <3> QED
      BY <1>2, <2>2, <3>1, <3>2, <3>3, <3>4, Steps DEF OInv
  <2>3. OInv => DependenciesFirst
    BY DEF OInv, NothingToWaitFor, DependenciesFirst, Beyond
  <2> QED
    BY <2>1, <2>2, <2>3, PTL DEF EpicsSpec
<1> QED
  BY <1>1, <1>2

-----------------------------------------------------------------------------
(* Done is the epic whose pieces are.                                      *)

AllFinished == \A p \in Children : Status(p) \in Finished

\* An epic with pieces rests; completeEpicIfFinished has read them as they are,
\* because its process does nothing in between; and a Done epic is whole.
WInv ==
  /\ PieceShape /\ NoScoping
  /\ epic.mode = Nothing => Children = {}
  /\ Children # {} => Status(Epic) \in Rests
  /\ DOMAIN checking = {Web, Worker}
  /\ checking[Web] = "finish" => AllFinished
  /\ Status(Epic) = "done" => AllFinished

\* Every verb and every move of the worker waits for its process, and leaves it
\* with a finished card at most.
LEMMA MovesWait ==
  ASSUME Web = Worker, DOMAIN checking = {Web, Worker}, Moves
  PROVE  /\ checking[Web] = "no" /\ DOMAIN checking' = {Web, Worker}
         /\ checking'[Web] \in {"no", "moved"}
<1>1. StartEpic \/ PauseEpic => checking[Web] = "no" /\ UNCHANGED checking
  BY DEF StartEpic, PauseEpic, Press, Free
<1>2. ASSUME NEW c, NEW s, MoveCard(Web, c, s)
      PROVE  checking' = checking \/ checking' = [checking EXCEPT ![Web] = "moved"]
  BY <1>2 DEF MoveCard
<1>3. ASSUME NEW c \in AllCards, Abandon(c) \/ Deliver(c)
      PROVE  /\ checking[Web] = "no"
             /\ checking' = checking \/ checking' = [checking EXCEPT ![Web] = "moved"]
  <2>1. checking[Web] = "no" /\ \E s : MoveCard(Web, c, s)
    BY <1>3 DEF Abandon, Deliver, Press, Free
  <2> QED
    BY <1>2, <2>1
<1>4. ASSUME NEW c \in AllCards, Verb(c) \/ Works(c), ~Abandon(c), ~Deliver(c)
      PROVE  checking[Web] = "no" /\ UNCHANGED checking
  BY <1>4 DEF Verb, Works, QueueCard, StartCard, ResumeCard, CancelCard, ResetCard, DeleteCard,
              Reorder, LoopReady, PlanNext, Pass, Park, Press, Free
<1>5. /\ checking[Web] = "no"
      /\ checking' = checking \/ checking' = [checking EXCEPT ![Web] = "moved"]
  BY <1>1, <1>3, <1>4 DEF Moves
<1> QED
  BY <1>5

LEMMA WholeMoves ==
  ASSUME Numbered, Web = Worker, WInv, Moves, UNCHANGED <<epic, turns>>
  PROVE  WInv'
<1>1. PieceShape' /\ NoScoping' /\ \A d \in AllCards : Goes(d)
  BY MovesGo DEF WInv
<1>2. Pieces \subseteq AllCards /\ Epic \in AllCards /\ Children' \subseteq Children
  BY <1>1 DEF AllCards, Children, Goes
<1>3. AllFinished => AllFinished'
  BY <1>1, <1>2 DEF AllFinished, Children, Goes
<1>4. Children' # {} => Status(Epic)' \in Rests
  BY <1>1, <1>2 DEF WInv, Goes
<1>5. DOMAIN checking' = {Web, Worker} /\ checking'[Web] # "finish"
  BY MovesWait DEF WInv
<1>6. Status(Epic)' = "done" => AllFinished'
  <2>1. CASE Status(Epic) = "done"
    BY <1>3, <2>1 DEF WInv
  <2>2. CASE Status(Epic) = "review"
    BY <1>2, <2>2 DEF WInv, Rests, AllFinished
  <2> QED
    BY <1>1, <1>2, <2>1, <2>2 DEF Goes
<1> QED
  BY <1>1, <1>2, <1>4, <1>5, <1>6 DEF WInv

LEMMA WholeLooks ==
  ASSUME Numbered, Web = Worker, WInv, Looks(Web)
  PROVE  WInv'
<1>1. /\ PieceShape' /\ NoScoping' /\ UNCHANGED epic
      /\ \A c \in AllCards : \/ Status(c)' = Status(c)
                             \/ /\ c = Epic /\ Status(c) = "backlog" /\ Status(c)' = "done"
                                /\ checking[Web] = "finish"
  BY LooksGo DEF WInv
<1>2. \A p \in Pieces : Status(p)' = Status(p)
  BY <1>1 DEF Numbered, Epic, AllCards
<1>3. Children' = Children /\ (AllFinished' <=> AllFinished)
  BY <1>2 DEF AllFinished, Children
<1>4. Status(Epic)' = Status(Epic) \/ (Status(Epic)' = "done" /\ AllFinished)
  BY <1>1 DEF WInv, AllCards
<1>5. DOMAIN checking' = {Web, Worker} /\ (checking'[Web] = "finish" => AllFinished)
  BY DEF WInv, Looks, ReadPieces, CompleteEpic, EpicFinished, AllFinished
<1> QED
  BY <1>1, <1>3, <1>4, <1>5 DEF WInv, Rests

LEMMA WholeBreaks ==
  ASSUME Numbered, Nothing \notin Modes, Web = Worker, WInv, ApplyBreakdown
  PROVE  WInv'
<1>1. PieceShape' /\ NoScoping' /\ \E new : Breaks(new)
  BY BreakdownGoes DEF WInv
<1>2. Status(Epic)' = "backlog" /\ epic'.mode # Nothing
  BY <1>1 DEF Breaks
<1>3. checking' = checking /\ checking[Web] = "no"
  BY DEF ApplyBreakdown, Free
<1> QED
  BY <1>1, <1>2, <1>3 DEF WInv, Rests

\* Where one process serves the operators and runs the agents, an epic is only
\* Done when each of its pieces is done or abandoned, for any number of breakdowns
\* and in every run mode: a breakdown puts the epic back in Backlog, and
\* completeEpicIfFinished reads the pieces and moves the epic in one go.  Two
\* processes interleave between the two.
THEOREM DoneIsWhole ==
  ASSUME Numbered, Nothing \notin Modes, Web = Worker, ~AuthorsPlan
  PROVE  EpicsSpec => []EpicDoneIsWhole
<1>1. ASSUME EpicsInit PROVE WInv
  <2>1. \A p \in Pieces : Status(p) = "none"
    BY <1>1 DEF EpicsInit, Status, AllCards, Numbered, Epic
  <2>2. Status(Epic) = "backlog"
    BY <1>1 DEF EpicsInit, Status, AllCards
  <2> QED
    BY <1>1, <2>1, <2>2, InitShape DEF EpicsInit, WInv, Children, AllFinished
<1>2. ASSUME WInv, [EpicsNext]_epicVars PROVE WInv'
  <2>1. CASE UNCHANGED epicVars
    BY <1>2, <2>1 DEF epicVars, WInv, PieceShape, NoScoping, Children, AllFinished, Status
  <2>2. CASE Moves /\ UNCHANGED <<epic, turns>>
    BY <1>2, <2>2, WholeMoves
  <2>3. ASSUME NEW w \in {Web, Worker}, Looks(w) PROVE WInv'
    BY <1>2, <2>3, WholeLooks
  <2>4. CASE ApplyBreakdown
    BY <1>2, <2>4, WholeBreaks
  <2> QED
    BY <1>2, <2>1, <2>2, <2>3, <2>4, Steps DEF WInv
<1>3. WInv => EpicDoneIsWhole
  BY DEF WInv, AllFinished, EpicDoneIsWhole
<1> QED
  BY <1>1, <1>2, <1>3, PTL DEF EpicsSpec

(***************************************************************************)
(* The integrity checks: an alarm has a cause outside Radulf or a          *)
(* delivery's that was not written down, and what is merged has hooks and  *)
(* config that its run has started with or that the operator has agreed    *)
(* to.                                                                     *)
(***************************************************************************)

RefMaps == [Refs -> Nat \cup {None}]
Baselines == [hooks : Nat, config : Nat, refs : RefMaps, since : Nat]

\* A repository has finitely many runs, and None is no value of anything.
ChecksSound ==
  /\ IsFiniteSet(CardRuns)
  /\ None \notin Nat \cup RefMaps \cup Baselines \cup CardRuns

-----------------------------------------------------------------------------
(* The inductive invariant.                                                *)

Phases ==
  {"new", "snapshot", "work", "inspect", "compare", "settle", "failed", "review",
   "pending", "check", "merge", "commit", "record", "dead", "attention", "done"}
Kinds == {"hooks", "config", "refs", "remote", "own"}
Records ==
  [phase : Phases, baseline : Baselines \cup {None}, refsNow : RefMaps \cup {None},
   found : SUBSET Kinds, landed : BOOLEAN, warned : BOOLEAN, shown : Nat \cup {None},
   touched : SUBSET Kinds, agreed : SUBSET Nat]

Types ==
  /\ repo \in [hooks : Nat, config : Nat, refs : RefMaps]
  /\ writes \in Seq([ref : {"base"}, sha : Nat])
  /\ lease \in CardRuns \cup {None}
  /\ run \in [CardRuns -> Records]
  /\ made \in Nat
  /\ crashes \in Nat

\* Where a run stands, it has what it needs: the baseline, the refs just read,
\* the repository's lease.
Delivering == {"check", "merge", "commit", "record", "dead"}
CheckShape ==
  \A r \in CardRuns :
    /\ run[r].baseline = None <=> run[r].phase \in {"new", "done"}
    /\ run[r].refsNow = None <=> run[r].phase \notin {"compare", "settle"}
    /\ run[r].phase = "new" => run[r].touched = {}
    /\ run[r].phase = "commit" => run[r].landed
    /\ run[r].phase \in Delivering => lease = r

\* A version is made once: what was changed outside Radulf since the baseline is
\* newer, and what is not as the baseline has it was changed.
Versioned ==
  /\ repo.hooks <= made /\ repo.config <= made
  /\ \A r \in CardRuns :
       LET t == run[r]
       IN /\ t.baseline # None =>
               /\ t.baseline.hooks <= repo.hooks /\ t.baseline.config <= repo.config
               /\ "hooks" \in t.touched <=> t.baseline.hooks # repo.hooks
               /\ t.baseline.config # repo.config => "config" \in t.touched
               /\ "config" \in t.touched =>
                    t.baseline.config # repo.config \/ t.baseline.config \in t.agreed
          /\ t.phase \in {"inspect", "compare", "settle"} =>
               t.found \subseteq t.touched \cap {"hooks", "config"}

\* The merges, and those of which the row is not about to be written.
Landed == {r \in CardRuns : run[r].landed}
LandedOnce == {r \in CardRuns : run[r].landed /\ run[r].phase # "commit"}
Merges == Cardinality(Landed)

\* No row without a merge.
RowsAreMerges == Len(writes) <= Cardinality(LandedOnce)

\* The refs that a run has read, where only Radulf has moved them since its
\* baseline: with no merge since they are the baseline's, and with one they are
\* the baseline's or what the merge left, which is what its row says.
Moved(r) == Merges - run[r].baseline.since
RefsFollowOf(r) ==
  /\ run[r].baseline.since <= Len(writes)
  /\ "refs" \notin run[r].touched =>
       /\ \A refs \in {run[r].refsNow, repo.refs} \ {None} :
            /\ refs["side"] = run[r].baseline.refs["side"]
            /\ refs["base"] = None <=> run[r].baseline.refs["base"] = None
            /\ Moved(r) = 0 => refs["base"] = run[r].baseline.refs["base"]
       /\ Moved(r) = 1 /\ run[r].refsNow # None =>
            run[r].refsNow["base"] \in {run[r].baseline.refs["base"], repo.refs["base"]}
       /\ Moved(r) = 1 /\ Len(writes) = run[r].baseline.since + 1 =>
            repo.refs["base"] \in {run[r].baseline.refs["base"], writes[Len(writes)].sha}
RefsFollow == \A r \in CardRuns : run[r].baseline # None => RefsFollowOf(r)

IInv == Types /\ CheckShape /\ Versioned /\ RowsAreMerges /\ RefsFollow

-----------------------------------------------------------------------------
(* The types.                                                              *)

\* What a step on run r may write.
LEMMA RecordParts ==
  ASSUME NEW t \in Records
  PROVE  /\ t.phase \in Phases /\ t.baseline \in Baselines \cup {None}
         /\ t.refsNow \in RefMaps \cup {None} /\ t.found \in SUBSET Kinds
         /\ t.landed \in BOOLEAN /\ t.touched \in SUBSET Kinds
         /\ t.shown \in Nat \cup {None} /\ t.agreed \in SUBSET Nat
         /\ \A x \in Phases : [t EXCEPT !.phase = x] \in Records
         /\ \A x \in Baselines \cup {None} : [t EXCEPT !.baseline = x] \in Records
         /\ \A x \in RefMaps \cup {None} : [t EXCEPT !.refsNow = x] \in Records
         /\ \A x \in SUBSET Kinds : [t EXCEPT !.found = x] \in Records
         /\ \A x \in SUBSET Kinds : [t EXCEPT !.touched = x] \in Records
         /\ [t EXCEPT !.landed = TRUE] \in Records
         /\ \A x \in BOOLEAN : [t EXCEPT !.warned = x] \in Records
         /\ \A x \in Nat \cup {None} : [t EXCEPT !.shown = x] \in Records
         /\ \A x \in SUBSET Nat : [t EXCEPT !.agreed = x] \in Records
  BY DEF Records

LEMMA ChangedKinds ==
  ASSUME NEW r
  PROVE  Changed(r) \in SUBSET {"hooks", "config"}
  BY DEF Changed

\* A ref is put somewhere.
LEMMA RefMoves ==
  ASSUME Types, NEW ref \in Refs, NEW oid \in Nat \cup {None}
  PROVE  [repo EXCEPT !.refs[ref] = oid] \in [hooks : Nat, config : Nat, refs : RefMaps]
<1>. DEFINE refs == [repo.refs EXCEPT ![ref] = oid]
<1>1. repo.refs \in RefMaps /\ repo \in [hooks : Nat, config : Nat, refs : RefMaps]
  BY DEF Types
<1>2. refs \in RefMaps BY <1>1 DEF RefMaps
<1>3. [repo EXCEPT !.refs[ref] = oid] = [repo EXCEPT !.refs = refs] OBVIOUS
<1> QED BY <1>1, <1>2, <1>3

\* How a check ends.
LEMMA Concluded ==
  ASSUME Types, NEW r \in CardRuns, Conclude(r)
  PROVE  \E phase \in {"review", "failed"}, found \in SUBSET Kinds, warned \in BOOLEAN :
           run' = [run EXCEPT ![r] = [@ EXCEPT !.phase = phase, !.found = found, !.warned = warned, !.refsNow = None]]
<1>. DEFINE kinds == run[r].found \cup (IF Violates(r) THEN {"refs"} ELSE {})
            warns == "remote" \in Unexplained(r)
<1>1. run[r].found \in SUBSET Kinds BY RecordParts DEF Types
<1>2. kinds \in SUBSET Kinds BY <1>1 DEF Kinds
<1>3. run' = [run EXCEPT ![r] = [@ EXCEPT !.phase = IF kinds = {} THEN "review" ELSE "failed", !.found = kinds, !.warned = warns, !.refsNow = None]]
  BY DEF Conclude
<1>4. warns \in BOOLEAN OBVIOUS
<1>. HIDE DEF kinds, warns
<1> QED BY <1>2, <1>3, <1>4

LEMMA TypesStep ==
  ASSUME ChecksSound, Types, CheckShape, IntegrityNext
  PROVE  Types'
<1>. DEFINE Writes == [ref : {"base"}, sha : Nat]
<1>1. ASSUME NEW r \in CardRuns, NEW t \in Records, run' = [run EXCEPT ![r] = t]
      PROVE  run' \in [CardRuns -> Records]
  BY <1>1 DEF Types
<1>. \A r \in CardRuns : run[r] \in Records BY DEF Types
<1>2. CASE Outside
  <2>1. PICK kind \in Kinds : run' = Touched(kind)
    BY <1>2 DEF Outside, Kinds
  <2>2. run' \in [CardRuns -> Records]
    BY <2>1, RecordParts DEF Touched
  <2>3. made' \in Nat BY <1>2 DEF Outside, Types
  <2>4. repo' \in [hooks : Nat, config : Nat, refs : RefMaps]
    <3>1. CASE \E ref \in Refs, oid \in {made', None} : repo' = [repo EXCEPT !.refs[ref] = oid]
      BY <2>3, <3>1, RefMoves
    <3> QED BY <1>2, <2>3, <3>1 DEF Outside, Types
  <2> QED BY <1>2, <2>2, <2>3, <2>4 DEF Outside, Types
<1>3. ASSUME NEW r \in CardRuns, Capture(r) PROVE Types'
  <2>. DEFINE b == [hooks |-> repo.hooks, config |-> repo.config, refs |-> repo.refs,
                    since |-> Len(writes)]
              t == [run[r] EXCEPT !.phase = "snapshot", !.baseline = b]
  <2>1. b \in Baselines BY DEF Types, Baselines
  <2>2. t \in Records BY <2>1 DEF Records, Phases
  <2>3. run' = [run EXCEPT ![r] = t] BY <1>3 DEF Capture
  <2> QED BY <1>1, <1>3, <2>2, <2>3 DEF Capture, Types
<1>4. ASSUME NEW r \in CardRuns, CaptureRefs(r) PROVE Types'
  <2>1. run[r].baseline \in Baselines BY <1>4, RecordParts DEF CaptureRefs, CheckShape
  <2>2. [run[r].baseline EXCEPT !.refs = repo.refs] \in Baselines
    BY <2>1 DEF Types, Baselines
  <2>. DEFINE t == [run[r] EXCEPT !.phase = "work",
                                  !.baseline = [run[r].baseline EXCEPT !.refs = repo.refs]]
  <2>3. t \in Records BY <2>2 DEF Records, Phases
  <2>4. run' = [run EXCEPT ![r] = t] BY <1>4 DEF CaptureRefs
  <2> QED BY <1>1, <1>4, <2>3, <2>4 DEF CaptureRefs, Types
<1>5. ASSUME NEW r \in CardRuns, Inspect(r) PROVE Types'
  <2>. DEFINE t == [run[r] EXCEPT !.phase = "inspect", !.found = Changed(r)]
  <2>1. t \in Records BY ChangedKinds DEF Records, Phases, Kinds
  <2>2. run' = [run EXCEPT ![r] = t] BY <1>5 DEF Inspect
  <2> QED BY <1>1, <1>5, <2>1, <2>2 DEF Inspect, Types
<1>6. ASSUME NEW r \in CardRuns, ReadRefs(r) PROVE Types'
  <2>. DEFINE t == [run[r] EXCEPT !.phase = "compare", !.refsNow = repo.refs]
  <2>1. t \in Records BY DEF Records, Phases, Types
  <2>2. run' = [run EXCEPT ![r] = t] BY <1>6 DEF ReadRefs
  <2> QED BY <1>1, <1>6, <2>1, <2>2 DEF ReadRefs, Types
<1>7. ASSUME NEW r \in CardRuns, Conclude(r) PROVE run' \in [CardRuns -> Records]
  <2>1. PICK phase \in {"review", "failed"}, found \in SUBSET Kinds, warned \in BOOLEAN :
          run' = [run EXCEPT ![r] = [@ EXCEPT !.phase = phase, !.found = found, !.warned = warned, !.refsNow = None]]
    BY <1>7, Concluded
  <2>. DEFINE t == [run[r] EXCEPT !.phase = phase, !.found = found, !.warned = warned,
                                  !.refsNow = None]
  <2>2. t \in Records BY DEF Records, Phases
  <2>3. run' = [run EXCEPT ![r] = t] BY <2>1
  <2> QED BY <1>1, <2>2, <2>3
<1>8. ASSUME NEW r \in CardRuns, CompareRefs(r) \/ Settle(r) PROVE Types'
  <2>1. CASE run' = [run EXCEPT ![r].phase = "settle"]
    <3>1. [run[r] EXCEPT !.phase = "settle"] \in Records BY RecordParts DEF Phases
    <3> QED BY <1>1, <1>8, <2>1, <3>1 DEF CompareRefs, Settle, Types
  <2> QED BY <1>7, <1>8, <2>1 DEF CompareRefs, Settle, Types
<1>9. ASSUME NEW r \in CardRuns, NEW phase \in Phases, run' = [run EXCEPT ![r].phase = phase]
      PROVE  run' \in [CardRuns -> Records]
  <2>1. [run[r] EXCEPT !.phase = phase] \in Records BY RecordParts
  <2> QED BY <1>1, <1>9, <2>1
<1>10. ASSUME NEW r \in CardRuns, Approve(r) \/ ClaimDelivery(r) \/ Die(r) \/ Reap(r)
       PROVE  Types'
  BY <1>9, <1>10 DEF Approve, ClaimDelivery, Die, Reap, Types, Phases
<1>11. ASSUME NEW r \in CardRuns, CheckBeforeMerge(r) PROVE Types'
  <2>1. CASE run' = [run EXCEPT ![r] = [@ EXCEPT !.phase = "attention", !.found = Changed(r)]]
    <3>. DEFINE t == [run[r] EXCEPT !.phase = "attention", !.found = Changed(r)]
    <3>1. t \in Records BY ChangedKinds DEF Records, Phases, Kinds
    <3>2. run' = [run EXCEPT ![r] = t] BY <2>1
    <3> QED BY <1>1, <1>11, <3>1, <3>2 DEF CheckBeforeMerge, Types
  <2> QED BY <1>9, <1>11, <2>1 DEF CheckBeforeMerge, Types, Phases
<1>12. ASSUME NEW r \in CardRuns, Commit(r) PROVE Types'
  <2>1. CASE /\ made' = made + 1 /\ repo' = [repo EXCEPT !.refs["base"] = made']
             /\ run' = [run EXCEPT ![r] = [@ EXCEPT !.phase = "commit", !.landed = TRUE]]
             /\ UNCHANGED lease
    <3>. DEFINE t == [run[r] EXCEPT !.phase = "commit", !.landed = TRUE]
    <3>1. t \in Records BY DEF Records, Phases
    <3>2. run' = [run EXCEPT ![r] = t] BY <2>1
    <3>3. made' \in Nat /\ repo' \in [hooks : Nat, config : Nat, refs : RefMaps]
      <4>1. made' \in Nat BY <2>1 DEF Types
      <4>2. "base" \in Refs BY DEF Refs
      <4> QED BY <2>1, <4>1, <4>2, RefMoves
    <3> QED BY <1>1, <1>12, <2>1, <3>1, <3>2, <3>3 DEF Commit, Types
  <2> QED BY <1>9, <1>12, <2>1 DEF Commit, Types, Phases
<1>13. ASSUME NEW r \in CardRuns, Record(r) PROVE Types'
  <2>1. run' \in [CardRuns -> Records]
    BY <1>9, <1>13 DEF Record, Phases
  <2>2. repo.refs["base"] # None =>
          [ref |-> "base", sha |-> repo.refs["base"]] \in Writes
    BY DEF Types, RefMaps, Refs
  <2>3. writes' \in Seq(Writes)
    <3>1. writes \in Seq(Writes) BY DEF Types
    <3>2. \A x \in Writes : Append(writes, x) \in Seq(Writes) BY <3>1
    <3> QED BY <1>13, <2>2, <3>1, <3>2 DEF Record
  <2> QED BY <1>13, <2>1, <2>3 DEF Record, Types
<1>14. ASSUME NEW r \in CardRuns, Complete(r) PROVE Types'
  <2>. DEFINE t == [run[r] EXCEPT !.phase = "done", !.baseline = None, !.shown = None]
  <2>1. t \in Records BY DEF Records, Phases
  <2>2. run' = [run EXCEPT ![r] = t] BY <1>14 DEF Complete
  <2> QED BY <1>1, <1>14, <2>1, <2>2 DEF Complete, Types
<1>15. ASSUME NEW r \in CardRuns, ReviewConfig(r) PROVE Types'
  <2>1. [run[r] EXCEPT !.shown = repo.config] \in Records BY RecordParts DEF Types
  <2> QED BY <1>1, <1>15, <2>1 DEF ReviewConfig, Types
<1>16. ASSUME NEW r \in CardRuns, Retry(r) PROVE Types'
  <2>. DEFINE t == [run[r] EXCEPT !.phase = "pending", !.found = {}]
  <2>1. t \in Records BY DEF Records, Phases
  <2>2. run' = [run EXCEPT ![r] = t] BY <1>16 DEF Retry
  <2> QED BY <1>1, <1>16, <2>1, <2>2 DEF Retry, Types
<1>17. ASSUME NEW r \in CardRuns, ApproveConfig(r) PROVE Types'
  <2>1. run[r].baseline \in Baselines BY <1>17, RecordParts DEF ApproveConfig, CheckShape
  <2>2. [run[r].baseline EXCEPT !.config = repo.config] \in Baselines
    BY <2>1 DEF Types, Baselines
  <2>. DEFINE t == [run[r] EXCEPT !.phase = "pending", !.found = {}, !.shown = None,
                      !.baseline = [run[r].baseline EXCEPT !.config = repo.config],
                      !.agreed = @ \cup {run[r].shown}]
  <2>3. run[r].shown \in Nat BY <1>17, RecordParts DEF ApproveConfig
  <2>4. t \in Records BY <2>2, <2>3 DEF Records, Phases
  <2>5. run' = [run EXCEPT ![r] = t] BY <1>17 DEF ApproveConfig
  <2> QED BY <1>1, <1>17, <2>4, <2>5 DEF ApproveConfig, Types
<1>18. CASE UNCHANGED integrityVars BY <1>18 DEF integrityVars, Types
<1> QED BY <1>2, <1>3, <1>4, <1>5, <1>6, <1>8, <1>10, <1>11, <1>12, <1>13, <1>14, <1>15,
           <1>16, <1>17, <1>18 DEF IntegrityNext

-----------------------------------------------------------------------------
(* Where a run stands.                                                     *)

LEMMA ShapeKept ==
  ASSUME Types, CheckShape, NEW r \in CardRuns, NEW t, run' = [run EXCEPT ![r] = t],
         t.baseline = None <=> t.phase \in {"new", "done"},
         t.refsNow = None <=> t.phase \notin {"compare", "settle"},
         t.phase = "new" => t.touched = {},
         t.phase = "commit" => t.landed,
         t.phase \in Delivering => lease' = r,
         lease' = lease \/ lease \in {None, r}, None \notin CardRuns
  PROVE  CheckShape'
<1>1. run'[r] = t /\ \A q \in CardRuns \ {r} : run'[q] = run[q] BY DEF Types
<1>2. ASSUME NEW q \in CardRuns \ {r}, run[q].phase \in Delivering PROVE lease' = q
  BY <1>2 DEF CheckShape
<1> QED BY <1>1, <1>2 DEF CheckShape

\* Only the phase and what a run has found, was shown or agreed to.
LEMMA ShapeOfPhase ==
  ASSUME Types, CheckShape, NEW r \in CardRuns, NEW t, run' = [run EXCEPT ![r] = t],
         t.baseline = run[r].baseline, t.refsNow = run[r].refsNow, t.landed = run[r].landed,
         run[r].phase \notin {"new", "done", "compare", "settle"},
         t.phase \notin {"new", "done", "compare", "settle", "commit"},
         t.phase \in Delivering => lease' = r,
         lease' = lease \/ lease \in {None, r}, None \notin CardRuns
  PROVE  CheckShape'
<1>1. run[r].baseline # None /\ run[r].refsNow = None BY DEF CheckShape
<1> QED BY <1>1, ShapeKept

LEMMA ShapeStep ==
  ASSUME ChecksSound, Types, CheckShape, IntegrityNext
  PROVE  CheckShape'
<1>. None \notin Baselines /\ None \notin RefMaps /\ None \notin CardRuns BY DEF ChecksSound
<1>. \A q \in CardRuns : run[q] \in Records BY DEF Types
<1>1. repo.refs \in RefMaps BY DEF Types
<1>2. CASE Outside
  <2>1. PICK kind \in Kinds : run' = Touched(kind) BY <1>2 DEF Outside, Kinds
  <2>2. lease' = lease BY <1>2 DEF Outside
  <2>3. ASSUME NEW q \in CardRuns
        PROVE  /\ run'[q].phase = run[q].phase /\ run'[q].baseline = run[q].baseline
               /\ run'[q].refsNow = run[q].refsNow /\ run'[q].landed = run[q].landed
               /\ run[q].phase = "new" => run'[q].touched = run[q].touched
    BY <2>1 DEF CheckShape, Touched, Records
  <2> QED BY <2>2, <2>3 DEF CheckShape
<1>3. ASSUME NEW r \in CardRuns, Capture(r) PROVE CheckShape'
  <2>. DEFINE b == [hooks |-> repo.hooks, config |-> repo.config, refs |-> repo.refs,
                    since |-> Len(writes)]
              t == [run[r] EXCEPT !.phase = "snapshot", !.baseline = b]
  <2>1. b \in Baselines BY DEF Types, Baselines
  <2>2. run' = [run EXCEPT ![r] = t] /\ lease' = lease /\ run[r].phase = "new"
    BY <1>3 DEF Capture
  <2>3. t.phase = "snapshot" /\ t.baseline # None /\ t.refsNow = None
    BY <2>1, <2>2 DEF CheckShape, Records
  <2>. HIDE DEF t
  <2> QED BY <2>2, <2>3, ShapeKept DEF Delivering
<1>4. ASSUME NEW r \in CardRuns, CaptureRefs(r) PROVE CheckShape'
  <2>. DEFINE t == [run[r] EXCEPT !.phase = "work",
                                  !.baseline = [run[r].baseline EXCEPT !.refs = repo.refs]]
  <2>1. run[r].baseline \in Baselines /\ run[r].phase = "snapshot"
    BY <1>4, RecordParts DEF CaptureRefs, CheckShape
  <2>2. [run[r].baseline EXCEPT !.refs = repo.refs] \in Baselines
    BY <1>1, <2>1 DEF Baselines
  <2>3. run' = [run EXCEPT ![r] = t] /\ lease' = lease BY <1>4 DEF CaptureRefs
  <2>4. t.phase = "work" /\ t.baseline # None /\ t.refsNow = None
    BY <2>1, <2>2 DEF CheckShape, Records
  <2>. HIDE DEF t
  <2> QED BY <2>3, <2>4, ShapeKept DEF Delivering
<1>5. ASSUME NEW r \in CardRuns, Inspect(r) PROVE CheckShape'
  <2>. DEFINE t == [run[r] EXCEPT !.phase = "inspect", !.found = Changed(r)]
  <2>1. run' = [run EXCEPT ![r] = t] /\ lease' = lease /\ run[r].phase = "work"
    BY <1>5 DEF Inspect
  <2>2. t.phase = "inspect" /\ t.baseline = run[r].baseline /\ t.refsNow = run[r].refsNow
        /\ t.landed = run[r].landed
    BY DEF Records
  <2>. HIDE DEF t
  <2> QED BY <2>1, <2>2, ShapeOfPhase DEF Delivering
<1>6. ASSUME NEW r \in CardRuns, ReadRefs(r) PROVE CheckShape'
  <2>. DEFINE t == [run[r] EXCEPT !.phase = "compare", !.refsNow = repo.refs]
  <2>1. run' = [run EXCEPT ![r] = t] /\ lease' = lease /\ run[r].phase = "inspect"
    BY <1>6 DEF ReadRefs
  <2>2. t.phase = "compare" /\ t.baseline # None /\ t.refsNow # None
    BY <1>1, <2>1 DEF CheckShape, Records
  <2>. HIDE DEF t
  <2> QED BY <2>1, <2>2, ShapeKept DEF Delivering
<1>7. ASSUME NEW r \in CardRuns, CompareRefs(r) \/ Settle(r) PROVE CheckShape'
  <2>1. lease' = lease BY <1>7 DEF CompareRefs, Settle
  <2>2. run[r].phase \in {"compare", "settle"} /\ run[r].baseline # None /\ run[r].refsNow # None
    BY <1>7 DEF CompareRefs, Settle, CheckShape
  <2>3. CASE run' = [run EXCEPT ![r].phase = "settle"]
    <3>. DEFINE t == [run[r] EXCEPT !.phase = "settle"]
    <3>1. run' = [run EXCEPT ![r] = t] BY <2>3
    <3>2. t.phase = "settle" /\ t.baseline # None /\ t.refsNow # None BY <2>2 DEF Records
    <3>. HIDE DEF t
    <3> QED BY <2>1, <3>1, <3>2, ShapeKept DEF Delivering
  <2>4. CASE Conclude(r)
    <3>1. PICK phase \in {"review", "failed"}, found \in SUBSET Kinds, warned \in BOOLEAN :
            run' = [run EXCEPT ![r] = [@ EXCEPT !.phase = phase, !.found = found,
                                                !.warned = warned, !.refsNow = None]]
      BY <2>4, Concluded
    <3>. DEFINE t == [run[r] EXCEPT !.phase = phase, !.found = found, !.warned = warned,
                                    !.refsNow = None]
    <3>2. run' = [run EXCEPT ![r] = t] BY <3>1
    <3>3. t.phase \in {"review", "failed"} /\ t.baseline # None /\ t.refsNow = None
      BY <2>2 DEF Records
    <3>. HIDE DEF t
    <3> QED BY <2>1, <3>2, <3>3, ShapeKept DEF Delivering
  <2> QED BY <1>7, <2>3, <2>4 DEF CompareRefs, Settle
<1>8. ASSUME NEW r \in CardRuns, NEW phase \in Phases,
             run' = [run EXCEPT ![r].phase = phase],
             run[r].phase \notin {"new", "done", "compare", "settle"},
             phase \notin {"new", "done", "compare", "settle", "commit"},
             phase \in Delivering => lease' = r, lease' = lease \/ lease \in {None, r}
      PROVE  CheckShape'
  <2>. DEFINE t == [run[r] EXCEPT !.phase = phase]
  <2>1. run' = [run EXCEPT ![r] = t] BY <1>8
  <2>2. t.phase = phase /\ t.baseline = run[r].baseline /\ t.refsNow = run[r].refsNow
        /\ t.landed = run[r].landed
    BY DEF Records
  <2>. HIDE DEF t
  <2> QED BY <1>8, <2>1, <2>2, ShapeOfPhase
<1>9. ASSUME NEW r \in CardRuns, Approve(r) \/ ClaimDelivery(r) PROVE CheckShape'
  BY <1>8, <1>9 DEF Approve, ClaimDelivery, Delivering, Phases
<1>10. ASSUME NEW r \in CardRuns, Record(r) PROVE CheckShape'
  <2>1. /\ run[r].phase = "commit" /\ lease = r
        /\ \/ run' = [run EXCEPT ![r].phase = "record"] /\ lease' = lease
           \/ run' = [run EXCEPT ![r].phase = "attention"] /\ lease' = None
    BY <1>10 DEF Record, CheckShape, Delivering
  <2> QED BY <1>8, <2>1 DEF Delivering, Phases
<1>11. ASSUME NEW r \in CardRuns, Die(r) \/ Reap(r) PROVE CheckShape'
  <2>1. run[r].phase \in Delivering /\ lease = r
    BY <1>11 DEF Die, Reap, CheckShape, Delivering
  <2> QED BY <1>8, <1>11, <2>1 DEF Die, Reap, Delivering, Phases
<1>12. ASSUME NEW r \in CardRuns, CheckBeforeMerge(r) PROVE CheckShape'
  <2>1. run[r].phase = "check" /\ lease = r BY <1>12 DEF CheckBeforeMerge, CheckShape, Delivering
  <2>2. CASE run' = [run EXCEPT ![r].phase = "merge"] /\ lease' = lease
    BY <1>8, <2>1, <2>2 DEF Delivering, Phases
  <2>3. CASE /\ run' = [run EXCEPT ![r] = [@ EXCEPT !.phase = "attention", !.found = Changed(r)]]
             /\ lease' = None
    <3>. DEFINE t == [run[r] EXCEPT !.phase = "attention", !.found = Changed(r)]
    <3>1. run' = [run EXCEPT ![r] = t] BY <2>3
    <3>2. t.phase = "attention" /\ t.baseline = run[r].baseline /\ t.refsNow = run[r].refsNow
          /\ t.landed = run[r].landed
      BY DEF Records
    <3>. HIDE DEF t
    <3> QED BY <2>1, <2>3, <3>1, <3>2, ShapeOfPhase DEF Delivering
  <2> QED BY <1>12, <2>2, <2>3 DEF CheckBeforeMerge
<1>13. ASSUME NEW r \in CardRuns, Commit(r) PROVE CheckShape'
  <2>1. run[r].phase = "merge" /\ lease = r BY <1>13 DEF Commit, CheckShape, Delivering
  <2>2. CASE /\ run' = [run EXCEPT ![r] = [@ EXCEPT !.phase = "commit", !.landed = TRUE]]
             /\ lease' = lease
    <3>. DEFINE t == [run[r] EXCEPT !.phase = "commit", !.landed = TRUE]
    <3>1. run' = [run EXCEPT ![r] = t] BY <2>2
    <3>2. t.phase = "commit" /\ t.baseline # None /\ t.refsNow = None /\ t.landed
      BY <2>1 DEF CheckShape, Records
    <3>. HIDE DEF t
    <3> QED BY <2>1, <2>2, <3>1, <3>2, ShapeKept DEF Delivering
  <2>3. CASE \/ run' = [run EXCEPT ![r].phase = "record"] /\ lease' = lease
             \/ run' = [run EXCEPT ![r].phase = "attention"] /\ lease' = None
    BY <1>8, <2>1, <2>3 DEF Delivering, Phases
  <2> QED BY <1>13, <2>2, <2>3 DEF Commit
<1>14. ASSUME NEW r \in CardRuns, Complete(r) PROVE CheckShape'
  <2>. DEFINE t == [run[r] EXCEPT !.phase = "done", !.baseline = None, !.shown = None]
  <2>1. run' = [run EXCEPT ![r] = t] /\ run[r].phase = "record" /\ lease = r
    BY <1>14 DEF Complete, CheckShape, Delivering
  <2>2. t.phase = "done" /\ t.baseline = None /\ t.refsNow = None
    BY <2>1 DEF CheckShape, Records
  <2>. HIDE DEF t
  <2> QED BY <2>1, <2>2, ShapeKept DEF Delivering
<1>15. ASSUME NEW r \in CardRuns, ReviewConfig(r) \/ Retry(r) PROVE CheckShape'
  <2>1. /\ run[r].phase = "attention" /\ lease' = lease
        /\ \/ run' = [run EXCEPT ![r].shown = repo.config]
           \/ run' = [run EXCEPT ![r] = [@ EXCEPT !.phase = "pending", !.found = {}]]
    BY <1>15 DEF ReviewConfig, Retry
  <2>2. PICK t : /\ run' = [run EXCEPT ![r] = t]
                 /\ t \in {[run[r] EXCEPT !.shown = repo.config],
                           [run[r] EXCEPT !.phase = "pending", !.found = {}]}
    BY <2>1
  <2>3. t.phase \in {"attention", "pending"} /\ t.baseline = run[r].baseline
        /\ t.refsNow = run[r].refsNow /\ t.landed = run[r].landed
    BY <2>1, <2>2 DEF Records
  <2> QED BY <2>1, <2>2, <2>3, ShapeOfPhase DEF Delivering
<1>16. ASSUME NEW r \in CardRuns, ApproveConfig(r) PROVE CheckShape'
  <2>. DEFINE t == [run[r] EXCEPT !.phase = "pending", !.found = {}, !.shown = None,
                      !.baseline = [run[r].baseline EXCEPT !.config = repo.config],
                      !.agreed = run[r].agreed \cup {run[r].shown}]
  <2>1. run[r].baseline \in Baselines /\ run[r].phase = "attention" /\ lease' = lease
    BY <1>16, RecordParts DEF ApproveConfig, CheckShape
  <2>2. [run[r].baseline EXCEPT !.config = repo.config] \in Baselines
    BY <2>1 DEF Types, Baselines
  <2>3. run' = [run EXCEPT ![r] = t] BY <1>16 DEF ApproveConfig
  <2>4. t.phase = "pending" /\ t.baseline # None /\ t.refsNow = None
    BY <2>1, <2>2 DEF CheckShape, Records
  <2>. HIDE DEF t
  <2> QED BY <2>1, <2>3, <2>4, ShapeKept DEF Delivering
<1>17. CASE UNCHANGED integrityVars BY <1>17 DEF integrityVars, CheckShape
<1> QED BY <1>2, <1>3, <1>4, <1>5, <1>6, <1>7, <1>9, <1>10, <1>11, <1>12, <1>13,
           <1>14, <1>15, <1>16, <1>17 DEF IntegrityNext

-----------------------------------------------------------------------------
(* Hooks and config.                                                       *)

LEMMA VersionsKept ==
  ASSUME Types, Versioned, NEW r \in CardRuns, NEW t, run' = [run EXCEPT ![r] = t],
         repo'.hooks = repo.hooks, repo'.config = repo.config, made' \in {made, made + 1},
         t.baseline = run[r].baseline, t.touched = run[r].touched, t.agreed = run[r].agreed,
         t.phase \in {"inspect", "compare", "settle"} =>
           t.found \subseteq t.touched \cap {"hooks", "config"}
  PROVE  Versioned'
<1>1. run'[r] = t /\ \A q \in CardRuns \ {r} : run'[q] = run[q] BY DEF Types
<1>2. repo.hooks \in Nat /\ repo.config \in Nat /\ made \in Nat BY DEF Types
<1> QED BY <1>1, <1>2 DEF Versioned

LEMMA VersionedStep ==
  ASSUME ChecksSound, Types, CheckShape, Versioned, IntegrityNext
  PROVE  Versioned'
<1>. None \notin Baselines BY DEF ChecksSound
<1>. \A q \in CardRuns : run[q] \in Records BY DEF Types
<1>1. repo.hooks \in Nat /\ repo.config \in Nat /\ repo.refs \in RefMaps /\ made \in Nat
  BY DEF Types
<1>2. CASE Outside
  <2>1. made' = made + 1 BY <1>2 DEF Outside
  <2>2. CASE repo' = [repo EXCEPT !.hooks = made'] /\ run' = Touched("hooks")
    BY <1>1, <2>1, <2>2 DEF Versioned, Touched, Types, Records, Baselines
  <2>3. CASE repo' = [repo EXCEPT !.config = made'] /\ run' = Touched("config")
    BY <1>1, <2>1, <2>3 DEF Versioned, Touched, Types, Records, Baselines
  <2>4. ASSUME NEW ref \in Refs, NEW oid \in {made', None}, NEW kind \in {"remote", "own", "refs"},
               repo' = [repo EXCEPT !.refs[ref] = oid], run' = Touched(kind)
        PROVE  Versioned'
    <3>1. repo'.hooks = repo.hooks /\ repo'.config = repo.config BY <2>4 DEF Types
    <3> QED BY <1>1, <2>1, <2>4, <3>1 DEF Versioned, Touched, Types, Records, Baselines
  <2> QED BY <1>2, <2>2, <2>3, <2>4 DEF Outside
<1>3. ASSUME NEW r \in CardRuns, Capture(r) PROVE Versioned'
  BY <1>1, <1>3 DEF Capture, CheckShape, Versioned, Types, Records, Baselines
<1>4. ASSUME NEW r \in CardRuns, CaptureRefs(r) PROVE Versioned'
  BY <1>1, <1>4 DEF CaptureRefs, CheckShape, Versioned, Types, Records, Baselines
<1>5. ASSUME NEW r \in CardRuns, Inspect(r) PROVE Versioned'
  <2>1. run[r].baseline \in Baselines BY <1>5, RecordParts DEF Inspect, CheckShape
  <2>2. Changed(r) \subseteq run[r].touched \cap {"hooks", "config"}
    BY <1>1, <2>1 DEF Changed, Versioned, Baselines
  <2> QED BY <1>1, <1>5, <2>2 DEF Inspect, CheckShape, Versioned, Types, Records, Baselines
<1>6. ASSUME NEW r \in CardRuns, ReadRefs(r) \/ Approve(r) \/ ClaimDelivery(r) \/ Die(r) \/ Reap(r)
      PROVE  Versioned'
  <2>1. repo' = repo /\ made' = made
    BY <1>6 DEF ReadRefs, Approve, ClaimDelivery, Die, Reap
  <2>2. CASE ReadRefs(r)
    <3>1. /\ run[r].phase = "inspect"
          /\ run' = [run EXCEPT ![r] = [@ EXCEPT !.phase = "compare", !.refsNow = repo.refs]]
      BY <2>2 DEF ReadRefs
    <3> QED BY <1>1, <2>1, <3>1 DEF Versioned, Types, Records
  <2>3. CASE \E phase \in {"pending", "check", "dead", "attention"} :
               run' = [run EXCEPT ![r].phase = phase]
    BY <1>1, <2>1, <2>3 DEF Versioned, Types, Records
  <2> QED BY <1>6, <2>2, <2>3 DEF Approve, ClaimDelivery, Die, Reap
<1>7. ASSUME NEW r \in CardRuns, CompareRefs(r) \/ Settle(r) PROVE Versioned'
  <2>1. repo' = repo /\ made' = made BY <1>7 DEF CompareRefs, Settle
  <2>2. CASE run' = [run EXCEPT ![r].phase = "settle"] /\ run[r].phase = "compare"
    BY <1>1, <2>1, <2>2 DEF Versioned, Types, Records
  <2>3. CASE Conclude(r)
    <3>1. PICK phase \in {"review", "failed"}, found \in SUBSET Kinds, warned \in BOOLEAN :
            run' = [run EXCEPT ![r] = [@ EXCEPT !.phase = phase, !.found = found, !.warned = warned, !.refsNow = None]]
      BY <2>3, Concluded
    <3> QED BY <1>1, <2>1, <3>1 DEF Versioned, Types, Records
  <2> QED BY <1>7, <2>2, <2>3 DEF CompareRefs, Settle
<1>8. ASSUME NEW r \in CardRuns, CheckBeforeMerge(r) \/ Retry(r) \/ ReviewConfig(r)
      PROVE  Versioned'
  <2>1. PICK t :
          /\ run' = [run EXCEPT ![r] = t]
          /\ t \in {[run[r] EXCEPT !.phase = "merge"],
                    [run[r] EXCEPT !.phase = "attention", !.found = Changed(r)],
                    [run[r] EXCEPT !.phase = "pending", !.found = {}],
                    [run[r] EXCEPT !.shown = repo.config]}
    BY <1>8 DEF CheckBeforeMerge, Retry, ReviewConfig
  <2>2. repo' = repo /\ made' = made /\ run[r].phase \in {"check", "attention"}
    BY <1>8 DEF CheckBeforeMerge, Retry, ReviewConfig
  <2>3. /\ t.baseline = run[r].baseline /\ t.touched = run[r].touched
        /\ t.agreed = run[r].agreed /\ t.phase \in {"check", "merge", "attention", "pending"}
    BY <2>1, <2>2 DEF Records
  <2> QED BY <2>1, <2>2, <2>3, VersionsKept
<1>9. ASSUME NEW r \in CardRuns, Commit(r) PROVE Versioned'
  <2>1. /\ repo'.hooks = repo.hooks /\ repo'.config = repo.config /\ made' \in {made, made + 1}
        /\ run[r].phase = "merge"
    BY <1>9 DEF Commit, Types
  <2>2. PICK t :
          /\ run' = [run EXCEPT ![r] = t]
          /\ t \in {[run[r] EXCEPT !.phase = "commit", !.landed = TRUE],
                    [run[r] EXCEPT !.phase = "record"], [run[r] EXCEPT !.phase = "attention"]}
    BY <1>9 DEF Commit
  <2>3. /\ t.baseline = run[r].baseline /\ t.touched = run[r].touched
        /\ t.agreed = run[r].agreed /\ t.phase \in {"commit", "record", "attention"}
    BY <2>2 DEF Records
  <2> QED BY <2>1, <2>2, <2>3, VersionsKept
<1>10. ASSUME NEW r \in CardRuns, Record(r) PROVE Versioned'
  <2>1. /\ repo' = repo /\ made' = made
        /\ \E phase \in {"record", "attention"} : run' = [run EXCEPT ![r].phase = phase]
    BY <1>10 DEF Record
  <2> QED BY <1>1, <2>1 DEF Versioned, Types, Records
<1>11. ASSUME NEW r \in CardRuns, Complete(r) PROVE Versioned'
  BY <1>1, <1>11 DEF Complete, Versioned, Types, Records
<1>12. ASSUME NEW r \in CardRuns, ApproveConfig(r) PROVE Versioned'
  BY <1>1, <1>12 DEF ApproveConfig, CheckShape, Versioned, Types, Records, Baselines
<1>13. CASE UNCHANGED integrityVars BY <1>13 DEF integrityVars, Versioned
<1> QED BY <1>2, <1>3, <1>4, <1>5, <1>6, <1>7, <1>8, <1>9, <1>10, <1>11, <1>12, <1>13
        DEF IntegrityNext

-----------------------------------------------------------------------------
(* Refs and the rows of ref_writes.                                        *)

LEMMA Counts ==
  ASSUME ChecksSound
  PROVE  /\ IsFiniteSet(Landed) /\ IsFiniteSet(LandedOnce)
         /\ Merges \in Nat /\ Cardinality(LandedOnce) \in Nat /\ Cardinality(LandedOnce) <= Merges
<1>1. Landed \subseteq CardRuns /\ LandedOnce \subseteq Landed BY DEF Landed, LandedOnce
<1>2. IsFiniteSet(Landed) BY <1>1, FS_Subset DEF ChecksSound
<1> QED BY <1>1, <1>2, FS_Subset, FS_CardinalityType DEF Merges

\* The merges are as they were, and no row is less deserved.
LEMMA CountsKept ==
  ASSUME ChecksSound, RowsAreMerges, writes' = writes,
         NEW r \in CardRuns, NEW t, run \in [CardRuns -> Records], run' = [run EXCEPT ![r] = t],
         t.landed = run[r].landed, t.phase = "commit" => run[r].phase = "commit"
  PROVE  Merges' = Merges /\ RowsAreMerges'
<1>1. Landed' = Landed /\ LandedOnce \subseteq LandedOnce' /\ LandedOnce' \subseteq CardRuns
  BY DEF Landed, LandedOnce
<1>2. IsFiniteSet(LandedOnce') BY <1>1, FS_Subset DEF ChecksSound
<1>3. Cardinality(LandedOnce) <= Cardinality(LandedOnce') BY <1>1, <1>2, FS_Subset
<1>4. Cardinality(LandedOnce) \in Nat /\ Cardinality(LandedOnce') \in Nat
  BY <1>2, Counts, FS_CardinalityType
<1>5. Len(writes') = Len(writes) OBVIOUS
<1>6. Len(writes) <= Cardinality(LandedOnce) BY DEF RowsAreMerges
<1>. HIDE DEF LandedOnce
<1> QED BY <1>1, <1>3, <1>4, <1>5, <1>6 DEF Merges, RowsAreMerges

\* A step that moves none of the refs: a baseline is taken of them as they are,
\* or they are read, or forgotten.
LEMMA Calm ==
  ASSUME ChecksSound, Types, RowsAreMerges, RefsFollow, writes' = writes, repo' = repo,
         NEW r \in CardRuns, NEW t, run' = [run EXCEPT ![r] = t],
         t.landed = run[r].landed, t.phase = "commit" => run[r].phase = "commit",
         \/ t.baseline = None
         \/ /\ t.refsNow = None /\ t.baseline.refs = repo.refs
            /\ t.baseline.since <= Len(writes)
         \/ /\ run[r].baseline # None /\ t.baseline.refs = run[r].baseline.refs
            /\ t.baseline.since = run[r].baseline.since
            /\ t.refsNow \in {run[r].refsNow, None, repo.refs} /\ t.touched = run[r].touched
  PROVE  RowsAreMerges' /\ RefsFollow'
<1>1. run'[r] = t /\ \A q \in CardRuns \ {r} : run'[q] = run[q] BY DEF Types
<1>2. Merges' = Merges /\ RowsAreMerges' BY CountsKept DEF Types
<1>3. ASSUME NEW q \in CardRuns,
             /\ run[q].baseline # None
             /\ run'[q].baseline.refs = run[q].baseline.refs
             /\ run'[q].baseline.since = run[q].baseline.since
             /\ run'[q].refsNow \in {run[q].refsNow, None, repo.refs}
             /\ run'[q].touched = run[q].touched
      PROVE  RefsFollowOf(q)'
  <2>1. Moved(q)' = Moved(q) BY <1>2, <1>3 DEF Moved
  <2>2. RefsFollowOf(q) BY <1>3 DEF RefsFollow
  <2> QED BY <1>3, <2>1, <2>2 DEF RefsFollowOf
<1>4. ASSUME NEW q \in CardRuns \ {r}, run[q].baseline # None PROVE RefsFollowOf(q)'
  BY <1>1, <1>3, <1>4
<1>5. ASSUME t.refsNow = None, t.baseline.refs = repo.refs, t.baseline.since <= Len(writes)
      PROVE  RefsFollowOf(r)'
  BY <1>1, <1>5 DEF RefsFollowOf
<1>6. t.baseline # None => RefsFollowOf(r)' BY <1>1, <1>3, <1>5
<1> QED BY <1>1, <1>2, <1>4, <1>6 DEF RefsFollow

LEMMA RefsStep ==
  ASSUME ChecksSound, Types, CheckShape, RowsAreMerges, RefsFollow, IntegrityNext
  PROVE  RowsAreMerges' /\ RefsFollow'
<1>. None \notin Baselines /\ None \notin RefMaps /\ None \notin Nat BY DEF ChecksSound
<1>. \A q \in CardRuns : run[q] \in Records BY DEF Types
<1>1. repo \in [hooks : Nat, config : Nat, refs : RefMaps] /\ made \in Nat BY DEF Types
<1>2. CASE Outside
  <2>1. PICK kind \in Kinds :
          /\ run' = Touched(kind)
          /\ \/ repo'.refs["side"] = repo.refs["side"] /\ repo'.refs["base"] = repo.refs["base"]
             \/ kind = "refs"
    BY <1>1, <1>2 DEF Outside, Kinds, Refs, RefMaps
  <2>2. writes' = writes BY <1>2 DEF Outside
  <2>3. \A q \in CardRuns :
          /\ run'[q].landed = run[q].landed /\ run'[q].phase = run[q].phase
          /\ run'[q].baseline = run[q].baseline /\ run'[q].refsNow = run[q].refsNow
          /\ run[q].baseline # None => run'[q].touched = run[q].touched \cup {kind}
    BY <2>1 DEF Touched, Records
  <2>4. Landed' = Landed /\ LandedOnce' = LandedOnce BY <2>3 DEF Landed, LandedOnce
  <2>5. Merges' = Merges /\ RowsAreMerges' BY <2>2, <2>4 DEF Merges, RowsAreMerges
  <2>6. \A q \in CardRuns : Moved(q)' = Moved(q) BY <2>3, <2>5 DEF Moved
  <2>7. repo.refs # None /\ repo'.refs # None
    <3>1. Types' BY TypesStep
    <3> QED BY <1>1, <3>1 DEF Types
  <2> QED BY <2>1, <2>2, <2>3, <2>5, <2>6, <2>7 DEF RefsFollow, RefsFollowOf
<1>3. ASSUME NEW r \in CardRuns, Capture(r) PROVE RowsAreMerges' /\ RefsFollow'
  <2>. DEFINE b == [hooks |-> repo.hooks, config |-> repo.config, refs |-> repo.refs,
                    since |-> Len(writes)]
              t == [run[r] EXCEPT !.phase = "snapshot", !.baseline = b]
  <2>1. run' = [run EXCEPT ![r] = t] /\ repo' = repo /\ writes' = writes
    BY <1>3 DEF Capture
  <2>2. /\ t.phase = "snapshot" /\ t.landed = run[r].landed /\ t.refsNow = None
        /\ t.baseline.refs = repo.refs /\ t.baseline.since = Len(writes)
    BY <1>3 DEF Capture, CheckShape, Records
  <2>. HIDE DEF t
  <2>3. Len(writes) <= Len(writes)
    <3>1. Len(writes) \in Nat BY DEF Types
    <3> QED BY <3>1
  <2> QED BY <2>1, <2>2, <2>3, Calm
<1>4. ASSUME NEW r \in CardRuns, CaptureRefs(r) PROVE RowsAreMerges' /\ RefsFollow'
  <2>. DEFINE t == [run[r] EXCEPT !.phase = "work",
                                  !.baseline = [run[r].baseline EXCEPT !.refs = repo.refs]]
  <2>1. run' = [run EXCEPT ![r] = t] /\ repo' = repo /\ writes' = writes
    BY <1>4 DEF CaptureRefs
  <2>2. run[r].baseline \in Baselines /\ run[r].refsNow = None
    BY <1>4, RecordParts DEF CaptureRefs, CheckShape
  <2>3. /\ t.phase = "work" /\ t.landed = run[r].landed /\ t.refsNow = None
        /\ t.baseline.refs = repo.refs /\ t.baseline.since = run[r].baseline.since
    BY <2>2 DEF Records, Baselines
  <2>4. t.baseline.since <= Len(writes) BY <2>2, <2>3 DEF RefsFollow, RefsFollowOf
  <2>. HIDE DEF t
  <2> QED BY <2>1, <2>3, <2>4, Calm
<1>5. ASSUME NEW r \in CardRuns, Commit(r), ~run[r].landed, repo.refs["base"] # None
      PROVE  RowsAreMerges' /\ RefsFollow'
  <2>. DEFINE t == [run[r] EXCEPT !.phase = "commit", !.landed = TRUE]
  <2>1. /\ run' = [run EXCEPT ![r] = t] /\ writes' = writes /\ made' = made + 1
        /\ repo' = [repo EXCEPT !.refs["base"] = made'] /\ run[r].phase = "merge"
    BY <1>5 DEF Commit
  <2>2. /\ t.phase = "commit" /\ t.landed /\ t.refsNow = run[r].refsNow
        /\ t.baseline = run[r].baseline /\ t.touched = run[r].touched
    BY DEF Records
  <2>. HIDE DEF t
  <2>3. run'[r] = t /\ \A q \in CardRuns \ {r} : run'[q] = run[q] BY <2>1 DEF Types
  <2>4. Landed' = Landed \cup {r} /\ r \notin Landed /\ LandedOnce' = LandedOnce
    BY <1>5, <2>2, <2>3 DEF Landed, LandedOnce
  <2>5. Merges' = Merges + 1
    <3>1. Cardinality(Landed \cup {r}) = Cardinality(Landed) + 1
      BY <2>4, Counts, FS_AddElement
    <3> QED BY <2>4, <3>1 DEF Merges
  <2>6. RowsAreMerges' BY <2>1, <2>4 DEF RowsAreMerges
  <2>7. /\ repo'.refs["side"] = repo.refs["side"] /\ repo'.refs["base"] # None
        /\ repo.refs # None /\ repo'.refs # None
    <3>1. repo'.refs = [repo.refs EXCEPT !["base"] = made'] BY <1>1, <2>1
    <3>2. repo.refs \in RefMaps BY <1>1
    <3>3. made' \in Nat /\ "base" \in Refs /\ "side" \in Refs BY <1>1, <2>1 DEF Refs
    <3>4. repo'.refs \in RefMaps BY <3>1, <3>2, <3>3 DEF RefMaps
    <3>5. repo'.refs["base"] = made' /\ repo'.refs["side"] = repo.refs["side"]
      BY <3>1, <3>2, <3>3 DEF RefMaps
    <3> QED BY <3>2, <3>3, <3>4, <3>5
  <2>8. ASSUME NEW q \in CardRuns, run'[q].baseline # None PROVE RefsFollowOf(q)'
    <3>1. /\ run'[q].baseline = run[q].baseline /\ run'[q].touched = run[q].touched
          /\ run'[q].refsNow = run[q].refsNow
      BY <2>2, <2>3
    <3>2. RefsFollowOf(q) /\ run[q].baseline \in Baselines
      BY <2>8, <3>1, RecordParts DEF RefsFollow
    <3>3. /\ Moved(q)' = Moved(q) + 1 /\ Moved(q) \in Nat
          /\ Moved(q) = 0 => Len(writes) = run[q].baseline.since
      <4>1. run[q].baseline.since \in Nat BY <3>2 DEF Baselines
      <4>2. Len(writes) \in Nat /\ Merges \in Nat BY Counts DEF Types
      <4>3. run[q].baseline.since <= Len(writes) /\ Len(writes) <= Merges
        BY <3>2, <4>2, Counts DEF RefsFollowOf, RowsAreMerges
      <4>4. Moved(q) = Merges - run[q].baseline.since /\ Moved(q)' = Merges' - run[q].baseline.since
        BY <3>1 DEF Moved
      <4> QED BY <2>5, <4>1, <4>2, <4>3, <4>4
    <3>4. run[q].baseline.since \in Nat BY <3>2 DEF Baselines
    <3>. DEFINE b == run[q].baseline
    <3>5. b.since <= Len(writes') BY <2>1, <3>2 DEF RefsFollowOf
    <3>6. ASSUME "refs" \notin run[q].touched, NEW refs \in {run[q].refsNow, repo'.refs} \ {None}
          PROVE  refs["side"] = b.refs["side"] /\ (refs["base"] = None <=> b.refs["base"] = None)
      <4>1. repo.refs["side"] = b.refs["side"] /\ b.refs["base"] # None
        BY <1>5, <2>7, <3>2, <3>6 DEF RefsFollowOf
      <4>2. CASE refs = repo'.refs BY <2>7, <4>1, <4>2
      <4>3. CASE refs = run[q].refsNow BY <3>2, <3>6, <4>3 DEF RefsFollowOf
      <4> QED BY <3>6, <4>2, <4>3
    <3>7. ASSUME "refs" \notin run[q].touched, Moved(q) = 0, run[q].refsNow # None
          PROVE  run[q].refsNow["base"] = b.refs["base"]
      BY <3>2, <3>7 DEF RefsFollowOf
    <3>8. Moved(q)' # 0 /\ (Moved(q)' = 1 => Moved(q) = 0) BY <3>3
    <3>9. Moved(q) = 0 => Len(writes') # b.since + 1 BY <2>1, <3>3, <3>4
    <3>. HIDE DEF b
    <3> QED BY <3>1, <3>5, <3>6, <3>7, <3>8, <3>9 DEF RefsFollowOf, b
  <2> QED BY <2>6, <2>8 DEF RefsFollow
<1>6. ASSUME NEW r \in CardRuns, Record(r), repo.refs["base"] # None
      PROVE  RowsAreMerges' /\ RefsFollow'
  <2>. DEFINE t == [run[r] EXCEPT !.phase = "record"]
              x == [ref |-> "base", sha |-> repo.refs["base"]]
  <2>1. /\ run' = [run EXCEPT ![r] = t] /\ repo' = repo /\ writes' = Append(writes, x)
        /\ run[r].phase = "commit" /\ run[r].landed
    BY <1>6 DEF Record, CheckShape
  <2>2. /\ t.phase = "record" /\ t.landed = run[r].landed /\ t.refsNow = run[r].refsNow
        /\ t.baseline = run[r].baseline /\ t.touched = run[r].touched
    BY DEF Records
  <2>3. /\ Len(writes') = Len(writes) + 1 /\ writes'[Len(writes')].sha = repo.refs["base"]
        /\ Len(writes) \in Nat
    <3>1. x \in [ref : {"base"}, sha : Nat] BY <1>1, <1>6 DEF RefMaps, Refs
    <3> QED BY <2>1, <3>1 DEF Types
  <2>. HIDE DEF t
  <2>4. run'[r] = t /\ \A q \in CardRuns \ {r} : run'[q] = run[q] BY <2>1 DEF Types
  <2>5. Landed' = Landed /\ LandedOnce' = LandedOnce \cup {r} /\ r \notin LandedOnce
    BY <2>1, <2>2, <2>4 DEF Landed, LandedOnce
  <2>6. RowsAreMerges' /\ Merges' = Merges
    <3>1. Cardinality(LandedOnce \cup {r}) = Cardinality(LandedOnce) + 1
      BY <2>5, Counts, FS_AddElement
    <3>2. Cardinality(LandedOnce) \in Nat BY Counts
    <3> QED BY <2>3, <2>5, <3>1, <3>2 DEF Merges, RowsAreMerges
  <2>7. ASSUME NEW q \in CardRuns, run'[q].baseline # None PROVE RefsFollowOf(q)'
    <3>1. /\ run'[q].baseline = run[q].baseline /\ run'[q].touched = run[q].touched
          /\ run'[q].refsNow = run[q].refsNow
      BY <2>2, <2>4
    <3>2. RefsFollowOf(q) /\ run[q].baseline \in Baselines
      BY <2>7, <3>1, RecordParts DEF RefsFollow
    <3>3. Moved(q)' = Moved(q) BY <2>6, <3>1 DEF Moved
    <3>4. run[q].baseline.since \in Nat BY <3>2 DEF Baselines
    <3> QED BY <2>1, <2>3, <3>1, <3>2, <3>3, <3>4 DEF RefsFollowOf
  <2> QED BY <2>6, <2>7 DEF RefsFollow
<1>7. ASSUME NEW r \in CardRuns, Conclude(r), run[r].baseline # None, UNCHANGED <<repo, writes>>
      PROVE  RowsAreMerges' /\ RefsFollow'
  <2>1. PICK phase \in {"review", "failed"}, found \in SUBSET Kinds, warned \in BOOLEAN :
          run' = [run EXCEPT ![r] = [@ EXCEPT !.phase = phase, !.found = found,
                                              !.warned = warned, !.refsNow = None]]
    BY <1>7, Concluded
  <2>. DEFINE t == [run[r] EXCEPT !.phase = phase, !.found = found, !.warned = warned,
                                  !.refsNow = None]
  <2>2. run' = [run EXCEPT ![r] = t] BY <2>1
  <2>3. /\ t.phase \in {"review", "failed"} /\ t.landed = run[r].landed /\ t.refsNow = None
        /\ t.baseline = run[r].baseline /\ t.touched = run[r].touched
    BY DEF Records
  <2>. HIDE DEF t
  <2> QED BY <1>7, <2>2, <2>3, Calm
<1>8. ASSUME NEW r \in CardRuns, NEW phase \in Phases \ {"commit"}, run[r].baseline # None,
             run' = [run EXCEPT ![r].phase = phase], UNCHANGED <<repo, writes>>
      PROVE  RowsAreMerges' /\ RefsFollow'
  <2>. DEFINE t == [run[r] EXCEPT !.phase = phase]
  <2>1. run' = [run EXCEPT ![r] = t] BY <1>8
  <2>2. /\ t.phase = phase /\ t.landed = run[r].landed /\ t.refsNow = run[r].refsNow
        /\ t.baseline = run[r].baseline /\ t.touched = run[r].touched
    BY DEF Records
  <2>. HIDE DEF t
  <2> QED BY <1>8, <2>1, <2>2, Calm
<1>9. ASSUME NEW r \in CardRuns, CompareRefs(r) \/ Settle(r) PROVE RowsAreMerges' /\ RefsFollow'
  <2>1. run[r].baseline # None /\ UNCHANGED <<repo, writes>>
    BY <1>9 DEF CompareRefs, Settle, CheckShape
  <2> QED BY <1>7, <1>8, <1>9, <2>1 DEF CompareRefs, Settle, Phases
<1>10. ASSUME NEW r \in CardRuns, Approve(r) \/ ClaimDelivery(r) \/ Die(r) \/ Reap(r)
       PROVE  RowsAreMerges' /\ RefsFollow'
  <2>1. run[r].baseline # None BY <1>10 DEF Approve, ClaimDelivery, Die, Reap, CheckShape
  <2> QED BY <1>8, <1>10, <2>1 DEF Approve, ClaimDelivery, Die, Reap, Phases
<1>11. ASSUME NEW r \in CardRuns, Commit(r), run[r].landed \/ repo.refs["base"] = None
       PROVE  RowsAreMerges' /\ RefsFollow'
  <2>1. run[r].baseline # None BY <1>11 DEF Commit, CheckShape
  <2> QED BY <1>8, <1>11, <2>1 DEF Commit, Phases
<1>12. ASSUME NEW r \in CardRuns, Record(r), repo.refs["base"] = None
       PROVE  RowsAreMerges' /\ RefsFollow'
  <2>1. run[r].baseline # None BY <1>12 DEF Record, CheckShape
  <2> QED BY <1>8, <1>12, <2>1 DEF Record, Phases
<1>13. ASSUME NEW r \in CardRuns,
              Inspect(r) \/ ReadRefs(r) \/ CheckBeforeMerge(r) \/ ReviewConfig(r) \/ Retry(r)
       PROVE  RowsAreMerges' /\ RefsFollow'
  <2>1. PICK t :
          /\ run' = [run EXCEPT ![r] = t]
          /\ t \in {[run[r] EXCEPT !.phase = "inspect", !.found = Changed(r)],
                    [run[r] EXCEPT !.phase = "compare", !.refsNow = repo.refs],
                    [run[r] EXCEPT !.phase = "merge"],
                    [run[r] EXCEPT !.phase = "attention", !.found = Changed(r)],
                    [run[r] EXCEPT !.phase = "pending", !.found = {}],
                    [run[r] EXCEPT !.shown = repo.config]}
    BY <1>13 DEF Inspect, ReadRefs, CheckBeforeMerge, Retry, ReviewConfig
  <2>2. UNCHANGED <<repo, writes>> /\ run[r].baseline # None /\ run[r].phase # "commit"
    BY <1>13 DEF Inspect, ReadRefs, CheckBeforeMerge, Retry, ReviewConfig, CheckShape
  <2>3. /\ t.baseline = run[r].baseline /\ t.touched = run[r].touched /\ t.landed = run[r].landed
        /\ t.phase # "commit" /\ t.refsNow \in {run[r].refsNow, repo.refs}
    BY <2>1, <2>2 DEF Records
  <2> QED BY <2>1, <2>2, <2>3, Calm
<1>14. ASSUME NEW r \in CardRuns, Complete(r) PROVE RowsAreMerges' /\ RefsFollow'
  <2>. DEFINE t == [run[r] EXCEPT !.phase = "done", !.baseline = None, !.shown = None]
  <2>1. run' = [run EXCEPT ![r] = t] /\ UNCHANGED <<repo, writes>> BY <1>14 DEF Complete
  <2>2. t.phase = "done" /\ t.landed = run[r].landed /\ t.baseline = None BY DEF Records
  <2>. HIDE DEF t
  <2> QED BY <2>1, <2>2, Calm
<1>15. ASSUME NEW r \in CardRuns, ApproveConfig(r) PROVE RowsAreMerges' /\ RefsFollow'
  <2>. DEFINE t == [run[r] EXCEPT !.phase = "pending", !.found = {}, !.shown = None,
                      !.baseline = [run[r].baseline EXCEPT !.config = repo.config],
                      !.agreed = run[r].agreed \cup {run[r].shown}]
  <2>1. run[r].baseline \in Baselines /\ run[r].baseline # None
    BY <1>15, RecordParts DEF ApproveConfig, CheckShape
  <2>2. run' = [run EXCEPT ![r] = t] /\ UNCHANGED <<repo, writes>> BY <1>15 DEF ApproveConfig
  <2>3. /\ t.phase = "pending" /\ t.landed = run[r].landed /\ t.refsNow = run[r].refsNow
        /\ t.baseline.refs = run[r].baseline.refs /\ t.baseline.since = run[r].baseline.since
        /\ t.touched = run[r].touched
    BY <2>1 DEF Records, Baselines
  <2>. HIDE DEF t
  <2> QED BY <2>1, <2>2, <2>3, Calm
<1>16. CASE UNCHANGED integrityVars
  BY <1>16 DEF integrityVars, RowsAreMerges, RefsFollow, RefsFollowOf, Moved, Merges, Landed, LandedOnce
<1> QED BY <1>2, <1>3, <1>4, <1>5, <1>6, <1>9, <1>10, <1>11, <1>12, <1>13, <1>14, <1>15, <1>16
        DEF IntegrityNext

-----------------------------------------------------------------------------
(* The invariant, and what follows from it.                                *)

LEMMA Invariant ==
  ASSUME ChecksSound
  PROVE  IntegritySpec => []IInv
<1>1. IntegrityInit => IInv
  <2>. SUFFICES ASSUME IntegrityInit PROVE IInv OBVIOUS
  <2>1. /\ repo = [hooks |-> 0, config |-> 0, refs |-> [ref \in Refs |-> 0]]
        /\ writes = <<>> /\ lease = None /\ made = 0 /\ crashes = 0
    BY DEF IntegrityInit
  <2>2. FirstBaseline \in Baselines BY DEF FirstBaseline, Baselines, RefMaps
  <2>3. ASSUME NEW r \in CardRuns
        PROVE  /\ run[r] \in Records /\ run[r].refsNow = None /\ ~run[r].landed
               /\ run[r].touched = {} /\ run[r].found = {}
               /\ \/ run[r].phase = "new" /\ run[r].baseline = None
                  \/ run[r].phase = "review" /\ run[r].baseline = FirstBaseline
    <3>1. CASE run[r] = Unstarted BY <3>1 DEF Unstarted, Records, Phases
    <3>2. CASE run[r] = [Unstarted EXCEPT !.phase = "review", !.baseline = FirstBaseline]
      BY <2>2, <3>2 DEF Unstarted, Records, Phases
    <3> QED BY <3>1, <3>2 DEF IntegrityInit
  <2>4. run \in [CardRuns -> Records] BY <2>3 DEF IntegrityInit
  <2>5. Types BY <2>1, <2>4 DEF Types, RefMaps
  <2>6. CheckShape BY <2>2, <2>3 DEF CheckShape, Delivering, ChecksSound
  <2>7. Versioned BY <2>1, <2>3 DEF Versioned, FirstBaseline, ChecksSound
  <2>8. RowsAreMerges BY <2>1, Counts DEF RowsAreMerges
  <2>9. RefsFollow
    <3>1. Landed = {} BY <2>3 DEF Landed
    <3>2. Merges = 0 BY <3>1, FS_EmptySet DEF Merges
    <3>3. Len(writes) = 0 BY <2>1
    <3> QED BY <2>1, <2>3, <3>2, <3>3 DEF RefsFollow, RefsFollowOf, Moved, FirstBaseline, ChecksSound
  <2> QED BY <2>5, <2>6, <2>7, <2>8, <2>9 DEF IInv
<1>2. IInv /\ [IntegrityNext]_integrityVars => IInv'
  <2>1. CASE IInv /\ IntegrityNext BY <2>1, TypesStep, ShapeStep, VersionedStep, RefsStep DEF IInv
  <2>2. CASE IInv /\ UNCHANGED integrityVars
    <3>1. UNCHANGED <<repo, writes, lease, run, made, crashes>> BY <2>2 DEF integrityVars
    <3>2. Landed' = Landed /\ LandedOnce' = LandedOnce BY <3>1 DEF Landed, LandedOnce
    <3>3. Types' /\ CheckShape' BY <2>2, <3>1 DEF IInv, Types, CheckShape
    <3>4. Versioned' BY <2>2, <3>1 DEF IInv, Versioned
    <3>5. RowsAreMerges' BY <2>2, <3>1, <3>2 DEF IInv, RowsAreMerges
    <3>6. \A r \in CardRuns : RefsFollowOf(r)' <=> RefsFollowOf(r)
      BY <3>1, <3>2 DEF RefsFollowOf, Moved, Merges
    <3>7. RefsFollow' BY <2>2, <3>1, <3>6 DEF IInv, RefsFollow
    <3> QED BY <3>3, <3>4, <3>5, <3>7 DEF IInv
  <2> QED BY <2>1, <2>2
<1> QED BY <1>1, <1>2, PTL DEF IntegritySpec

\* Which step takes a run where.
LEMMA WhoMoves ==
  ASSUME ChecksSound, Types, CheckShape, IntegrityNext, NEW r \in CardRuns, run'[r].phase # run[r].phase
  PROVE  /\ run'[r].phase = "merge" => CheckBeforeMerge(r) /\ Changed(r) = {}
         /\ run'[r].phase = "failed" =>
              /\ Conclude(r)
              /\ run[r].phase = "settle" /\ lease # None => run[lease].phase = "dead"
              /\ run[r].phase # "settle" => run[r].phase = "compare" /\ ~MayBeADelivery(r)
<1>. \A q \in CardRuns : run[q] \in Records BY DEF Types
<1>1. CASE Outside
  <2>1. PICK kind \in Kinds : run' = Touched(kind) BY <1>1 DEF Outside, Kinds
  <2> QED BY <2>1 DEF Touched, Records
<1>2. ASSUME NEW q \in CardRuns, \A i \in CardRuns \ {q} : run'[i] = run[i]
      PROVE  q = r
  BY <1>2
<1>3. ASSUME NEW q \in CardRuns, run'[q].phase \notin {"merge", "failed"},
             \A i \in CardRuns \ {q} : run'[i] = run[i]
      PROVE  run'[r].phase \notin {"merge", "failed"}
  BY <1>2, <1>3
<1>4. ASSUME NEW q \in CardRuns,
             Capture(q) \/ CaptureRefs(q) \/ Inspect(q) \/ ReadRefs(q) \/ Approve(q)
      PROVE  run'[r].phase \notin {"merge", "failed"}
  <2>1. run'[q].phase \in {"snapshot", "work", "inspect", "compare", "pending"}
    <3>1. CASE Capture(q) BY <3>1 DEF Capture, Types, Records
    <3>2. CASE CaptureRefs(q) BY <3>2 DEF CaptureRefs, Types, Records
    <3>3. CASE Inspect(q) BY <3>3 DEF Inspect, Types, Records
    <3>4. CASE ReadRefs(q) BY <3>4 DEF ReadRefs, Types, Records
    <3>5. CASE Approve(q) BY <3>5 DEF Approve, Types, Records
    <3> QED BY <1>4, <3>1, <3>2, <3>3, <3>4, <3>5
  <2>2. \A i \in CardRuns \ {q} : run'[i] = run[i]
    BY <1>4 DEF Capture, CaptureRefs, Inspect, ReadRefs, Approve, Types
  <2> QED BY <1>3, <2>1, <2>2
<1>5. ASSUME NEW q \in CardRuns, ClaimDelivery(q) \/ Commit(q) \/ Record(q) \/ Complete(q)
      PROVE  run'[r].phase \notin {"merge", "failed"}
  <2>1. run'[q].phase \in {"check", "commit", "record", "attention", "done"}
    <3>1. CASE ClaimDelivery(q) BY <3>1 DEF ClaimDelivery, Types, Records
    <3>2. CASE Commit(q)
      <4>1. \/ run' = [run EXCEPT ![q] = [@ EXCEPT !.phase = "commit", !.landed = TRUE]]
            \/ run' = [run EXCEPT ![q].phase = "record"]
            \/ run' = [run EXCEPT ![q].phase = "attention"]
        BY <3>2 DEF Commit
      <4>2. CASE run' = [run EXCEPT ![q] = [@ EXCEPT !.phase = "commit", !.landed = TRUE]]
        BY <4>2 DEF Types, Records
      <4> QED BY <4>1, <4>2 DEF Types, Records
    <3>3. CASE Record(q) BY <3>3 DEF Record, Types, Records
    <3>4. CASE Complete(q) BY <3>4 DEF Complete, Types, Records
    <3> QED BY <1>5, <3>1, <3>2, <3>3, <3>4
  <2>2. \A i \in CardRuns \ {q} : run'[i] = run[i]
    BY <1>5 DEF ClaimDelivery, Commit, Record, Complete, Types
  <2> QED BY <1>3, <2>1, <2>2
<1>6. ASSUME NEW q \in CardRuns, Die(q) \/ Reap(q) \/ ReviewConfig(q) \/ Retry(q) \/ ApproveConfig(q)
      PROVE  run'[r].phase \notin {"merge", "failed"}
  <2>1. run'[q].phase \in {"dead", "attention", "pending"}
    <3>1. CASE Die(q) BY <3>1 DEF Die, Types, Records
    <3>2. CASE Reap(q) BY <3>2 DEF Reap, Types, Records
    <3>3. CASE ReviewConfig(q) BY <3>3 DEF ReviewConfig, Types, Records
    <3>4. CASE Retry(q) BY <3>4 DEF Retry, Types, Records
    <3>5. CASE ApproveConfig(q) BY <3>5 DEF ApproveConfig, Types, Records
    <3> QED BY <1>6, <3>1, <3>2, <3>3, <3>4, <3>5
  <2>2. \A i \in CardRuns \ {q} : run'[i] = run[i]
    BY <1>6 DEF Die, Reap, ReviewConfig, Retry, ApproveConfig, Types
  <2> QED BY <1>3, <2>1, <2>2
<1>7. ASSUME NEW q \in CardRuns, CheckBeforeMerge(q)
      PROVE  /\ run'[r].phase # "failed"
             /\ run'[r].phase = "merge" => q = r /\ Changed(q) = {}
  <2>1. \/ run'[q].phase = "merge" /\ Changed(q) = {}
        \/ run'[q].phase = "attention"
    <3>1. CASE Changed(q) = {} BY <1>7, <3>1 DEF CheckBeforeMerge, Types, Records
    <3>2. CASE Changed(q) # {} BY <1>7, <3>2 DEF CheckBeforeMerge, Types, Records
    <3> QED BY <3>1, <3>2
  <2>2. \A i \in CardRuns \ {q} : run'[i] = run[i] BY <1>7 DEF CheckBeforeMerge, Types
  <2> QED BY <1>2, <2>1, <2>2
<1>8. ASSUME NEW q \in CardRuns, CompareRefs(q) \/ Settle(q)
      PROVE  /\ run'[r].phase # "merge"
             /\ run'[r].phase = "failed" =>
                  /\ q = r /\ Conclude(q)
                  /\ Settle(q) \/ (CompareRefs(q) /\ ~MayBeADelivery(q))
  <2>1. CASE run' = [run EXCEPT ![q].phase = "settle"]
    <3>1. run'[q].phase = "settle" BY <2>1 DEF Types, Records
    <3>2. \A i \in CardRuns \ {q} : run'[i] = run[i] BY <2>1 DEF Types
    <3> QED BY <1>3, <3>1, <3>2
  <2>2. CASE Conclude(q)
    <3>1. run'[q].phase \in {"review", "failed"} /\ \A i \in CardRuns \ {q} : run'[i] = run[i]
      BY <2>2 DEF Conclude, Types, Records
    <3>2. CASE Settle(q) BY <1>2, <2>2, <3>1, <3>2
    <3>3. CASE CompareRefs(q)
      BY <1>2, <2>1, <2>2, <3>1, <3>3 DEF CompareRefs
    <3> QED BY <1>8, <3>2, <3>3
  <2> QED BY <1>8, <2>1, <2>2 DEF CompareRefs, Settle
<1>9. ASSUME UNCHANGED integrityVars PROVE FALSE BY <1>9 DEF integrityVars
<1> QED BY <1>1, <1>4, <1>5, <1>6, <1>7, <1>8, <1>9 DEF IntegrityNext, CompareRefs, Settle

\* deliver: a run's branch is merged with the hooks its run has started with, and
\* with the config it has started with or one that the operator has agreed to.
THEOREM MergesVetted ==
  ASSUME ChecksSound
  PROVE  IntegritySpec => [][Vetted]_integrityVars
<1>1. IInv /\ [IntegrityNext]_integrityVars => [Vetted]_integrityVars
  <2>. SUFFICES ASSUME IInv, IntegrityNext, NEW r \in CardRuns,
                       run'[r].phase = "merge", run[r].phase = "check"
                PROVE  /\ "hooks" \notin run[r].touched
                       /\ "config" \in run[r].touched => repo.config \in run[r].agreed
    BY DEF Vetted
  <2>1. Changed(r) = {} BY WhoMoves DEF IInv
  <2>2. repo.hooks = run[r].baseline.hooks /\ repo.config = run[r].baseline.config
    BY <2>1 DEF Changed
  <2>3. run[r].baseline # None BY DEF IInv, CheckShape
  <2> QED BY <2>2, <2>3 DEF IInv, Versioned
<1> QED BY <1>1, Invariant, PTL DEF IntegritySpec

\* inspectRepoIntegrity: a run fails only for what has happened outside Radulf since
\* its baseline, or where two deliveries have moved the base branch meanwhile, or
\* one has whose worker died before it wrote that down.
THEOREM AlarmsExplained ==
  ASSUME ChecksSound
  PROVE  IntegritySpec => [][ExplainedAlarm]_integrityVars
<1>1. IInv /\ [IntegrityNext]_integrityVars => [ExplainedAlarm]_integrityVars
  <2>. SUFFICES ASSUME IInv, IntegrityNext, NEW r \in Judged,
                       run'[r].phase = "failed", run[r].phase # "failed"
                PROVE  /\ run'[r].found \ {"refs"} \subseteq run[r].touched
                       /\ "refs" \in run'[r].found =>
                            "refs" \in run[r].touched \/ WritesSince(r) >= 2 \/ Unrecorded > 0
    BY DEF ExplainedAlarm
  <2>. r \in CardRuns /\ run[r] \in Records BY DEF CardRuns, IInv, Types
  <2>. USE DEF IInv
  <2>1. /\ Conclude(r) /\ run[r].phase \in {"compare", "settle"}
        /\ run[r].phase = "settle" => (lease # None => run[lease].phase = "dead")
        /\ run[r].phase = "compare" => ~MayBeADelivery(r)
    BY WhoMoves
  <2>2. /\ run'[r].found = run[r].found \cup (IF Violates(r) THEN {"refs"} ELSE {})
        /\ run[r].found \subseteq run[r].touched \cap {"hooks", "config"}
    BY <2>1 DEF Conclude, Types, Records, Versioned
  <2>3. run'[r].found \ {"refs"} \subseteq run[r].touched BY <2>2
  <2>4. ASSUME Violates(r), "refs" \notin run[r].touched, ~(WritesSince(r) >= 2), ~(Unrecorded > 0)
        PROVE  FALSE
    <3>. DEFINE now == run[r].refsNow
                b == run[r].baseline
    <3>1. /\ now \in RefMaps /\ b \in Baselines /\ now # None
          /\ RefsFollowOf(r)
      BY <2>1, RecordParts DEF CheckShape, RefsFollow
    <3>2. /\ now["side"] = b.refs["side"]
          /\ now["base"] = None <=> b.refs["base"] = None
          /\ Moved(r) = 0 => now["base"] = b.refs["base"]
          /\ Moved(r) = 1 => now["base"] \in {b.refs["base"], repo.refs["base"]}
          /\ Moved(r) = 1 /\ Len(writes) = b.since + 1 =>
               repo.refs["base"] \in {b.refs["base"], writes[Len(writes)].sha}
          /\ b.since <= Len(writes)
      BY <2>4, <3>1 DEF RefsFollowOf
    <3>3. /\ now["base"] # b.refs["base"] /\ now["base"] # Written(r, "base")
          /\ "base" \in Unexplained(r) \ {"remote"} /\ now["base"] # None
      BY <2>4, <3>2 DEF Violates, Unexplained, Refs
    <3>4. MayBeADelivery(r) BY <3>3 DEF MayBeADelivery
    <3>5. LandedOnce = Landed
      <4>1. ASSUME NEW q \in CardRuns, run[q].phase = "commit" PROVE FALSE
        BY <2>1, <3>4, <4>1 DEF CheckShape, Delivering, ChecksSound
      <4> QED BY <4>1 DEF Landed, LandedOnce
    <3>6. Merges = Len(writes) /\ Merges \in Nat
      <4>1. Merges - Len(writes) <= 0
        <5>1. Unrecorded = Cardinality(LandedOnce) - Len(writes) BY DEF Unrecorded, LandedOnce
        <5>2. Len(writes) \in Nat /\ Merges \in Nat BY Counts DEF Types
        <5> QED BY <2>4, <3>5, <5>1, <5>2 DEF Merges
      <4>2. Len(writes) <= Merges BY <3>5 DEF RowsAreMerges, Merges
      <4>3. Merges \in Nat /\ Len(writes) \in Nat BY Counts DEF Types
      <4> QED BY <4>1, <4>2, <4>3
    <3>7. b.since \in Nat BY <3>1 DEF Baselines
    <3>8. Len(writes) = b.since + 1 /\ Moved(r) = 1
      <4>1. Moved(r) # 0 BY <3>2, <3>3
      <4> QED BY <2>4, <3>2, <3>6, <3>7, <4>1 DEF Moved, WritesSince
    <3>9. now["base"] = writes[Len(writes)].sha BY <3>2, <3>3, <3>8
    <3>10. Written(r, "base") = writes[Len(writes)].sha
      <4>. DEFINE rows == {i \in (b.since + 1)..Len(writes) : writes[i].ref = "base"}
      <4>1. writes[Len(writes)].ref = "base"
        <5>1. writes \in Seq([ref : {"base"}, sha : Nat]) BY DEF Types
        <5>2. Len(writes) \in 1..Len(writes) BY <3>6, <3>7, <3>8
        <5>3. writes[Len(writes)] \in [ref : {"base"}, sha : Nat]
          BY <5>1, <5>2, ElementOfSeq
        <5> QED BY <5>3
      <4>2. rows = {Len(writes)}
        <5>1. \A i : i \in (b.since + 1)..Len(writes) <=> i = Len(writes) BY <3>6, <3>7, <3>8
        <5> QED BY <4>1, <5>1
      <4>3. (CHOOSE i \in rows : \A j \in rows : j <= i) = Len(writes)
        <5>1. Len(writes) <= Len(writes) BY <3>6
        <5>2. \E i \in rows : \A j \in rows : j <= i BY <4>2, <5>1
        <5>. HIDE DEF rows
        <5>3. (CHOOSE i \in rows : \A j \in rows : j <= i) \in rows BY <5>2, Zenon
        <5> QED BY <4>2, <5>3
      <4>4. Written(r, "base") =
              IF rows = {} THEN None ELSE writes[CHOOSE i \in rows : \A j \in rows : j <= i].sha
        BY DEF Written
      <4>. HIDE DEF rows
      <4> QED BY <4>2, <4>3, <4>4
    <3> QED BY <3>3, <3>9, <3>10
  <2> QED BY <2>2, <2>3, <2>4
<1> QED BY <1>1, Invariant, PTL DEF IntegritySpec

=============================================================================
