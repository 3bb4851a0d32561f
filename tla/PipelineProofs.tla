--------------------------- MODULE PipelineProofs ---------------------------
(***************************************************************************)
(* What TLAPS proves of Pipeline for every set of cards, processes and run *)
(* slots, every cap, and every subset of verbs and faults: the types, and  *)
(* on top of them what a step may do to the runs table, to a pulled-back   *)
(* card, to the offered retry and to the cap of a repository.  The second  *)
(* half is about one process that does everything: what a late loop parks, *)
(* and that no card is stranded.                                           *)
(***************************************************************************)
EXTENDS Pipeline, FiniteSetTheorems, TLAPS

\* A function in memory stands on a row: its slot has not been freed.
HeldRows == \A r \in Runs : session[r] # "none" => row[r] # Free

IInv == TypeOK /\ HeldRows

-----------------------------------------------------------------------------
(* What the building blocks of the actions do to the types.                *)

LEMMA FreeIsNoRow == Free \notin Rows /\ Free.st = "free" /\ Free.owner = None
  BY PipelineAssumption DEF Free, Rows

LEMMA RowOfSession ==
  ASSUME IInv, NEW r \in Runs, session[r] # "none" \/ row[r].st # "free"
  PROVE  row[r] \in Rows
  BY FreeIsNoRow DEF IInv, TypeOK, HeldRows

LEMMA RowParts ==
  ASSUME NEW x \in Rows
  PROVE  /\ x.card \in Cards /\ x.kind \in Kinds /\ x.owner \in Workers
         /\ x.st \in {"running", "closed"} /\ x.control \in {None, "cancel", "pause"}
         /\ x # Free
         /\ [x EXCEPT !.st = "closed"] \in Rows
         /\ [x EXCEPT !.control = "pause"] \in Rows
         /\ [x EXCEPT !.control = None] \in Rows
         /\ [x EXCEPT !.st = "closed", !.control = "cancel"] \in Rows
  BY FreeIsNoRow DEF Rows

LEMMA MoveCardType ==
  ASSUME TypeOK, NEW c \in Cards, NEW from, NEW to \in Statuses,
         MoveCard(c, from, to)
  PROVE  /\ status' \in [Cards -> Statuses]
         /\ evaluationPending' \in [Cards -> BOOLEAN]
  BY DEF TypeOK, MoveCard

LEMMA ThenType ==
  ASSUME TypeOK, NEW p \in Procs, NEW s \in Segments, Then(p, s)
  PROVE  seg' \in [Procs -> Segments]
  BY DEF TypeOK, Then

LEMMA LeaveType ==
  ASSUME TypeOK, NEW p \in Procs, Leave(p)
  PROVE  seg' \in [Procs -> Segments]
  BY DEF TypeOK, Leave, Segments

LEMMA StartStageType ==
  ASSUME TypeOK, NEW w \in Workers, NEW c \in Cards, NEW k \in StageKinds,
         StartStage(w, c, k)
  PROVE  prep' \in [Workers -> [Cards -> [StageKinds -> 0 .. MaxPrep]]]
<1>1. prep[w][c][k] \in 0 .. MaxPrep BY DEF TypeOK
<1>2. MaxPrep \in Nat BY PipelineAssumption
<1>3. (IF prep[w][c][k] < MaxPrep THEN prep[w][c][k] + 1 ELSE prep[w][c][k])
        \in 0 .. MaxPrep
  BY <1>1, <1>2
<1> QED BY <1>3 DEF TypeOK, StartStage

LEMMA OfferType ==
  ASSUME TypeOK, NEW r \in Runs, row[r].st = "running" => row[r] \in Rows,
         NEW st, NEW offer, Offer(r, st, offer)
  PROVE  retryable' \in [Cards -> Kinds \cup {"none"}]
  BY RowParts DEF TypeOK, Offer

LEMMA CloseRowType ==
  ASSUME TypeOK, NEW r \in Runs, row[r] \in Rows, NEW sess, CloseRow(r, sess)
  PROVE  /\ row' \in [Runs -> Rows \cup {Free}]
         /\ \A q \in Runs \ {r} : row'[q] = row[q]
         /\ sess # "none" => row'[r] # Free
  BY RowParts, FreeIsNoRow DEF TypeOK, CloseRow

LEMMA FinishRunType ==
  ASSUME IInv, NEW r \in Runs, row[r] \in Rows, NEW st, NEW offer,
         NEW sess \in Phases, FinishRun(r, st, offer, sess)
  PROVE  /\ row' \in [Runs -> Rows \cup {Free}]
         /\ session' \in [Runs -> Phases]
         /\ retryable' \in [Cards -> Kinds \cup {"none"}]
         /\ HeldRows'
  BY CloseRowType, OfferType DEF IInv, TypeOK, HeldRows, FinishRun

LEMMA SegmentsOfActions ==
  /\ \A c \in Cards, from, to \in Statuses : Move(c, from, to) \in Segments
  /\ \A c \in Cards, op \in {"replan", "advance", "evaluate", "park", "pull",
                             "pause", "queue"} : Do(op, c) \in Segments
  BY DEF Move, Do, Segments

LEMMA SegmentParts ==
  ASSUME TypeOK, NEW p \in Procs
  PROVE  /\ seg[p].op # "idle" => seg[p].card \in Cards
         /\ seg[p].op \in {"move", "sweep"} => seg[p].from \in Statuses
         /\ seg[p].op = "move" => seg[p].to \in Statuses
         /\ seg[p].op = "close" => seg[p].run \in Runs
         /\ seg[p] # Idle => seg[p].op # "idle"
<1>. seg[p] \in Segments BY DEF TypeOK
<1>1. CASE seg[p] = Idle BY <1>1 DEF Idle
<1>2. CASE seg[p] \in [op : {"move"}, card : Cards, from : Statuses, to : Statuses]
  BY <1>2
<1>3. CASE seg[p] \in [op : {"sweep"}, card : Cards, from : Statuses]
  BY <1>3
<1>4. CASE seg[p] \in [op : {"close"}, card : Cards, run : Runs]
  BY <1>4
<1>5. CASE seg[p] \in [op : {"replan", "advance", "evaluate", "park", "pull",
                            "pause", "queue"}, card : Cards]
  BY <1>5
<1> QED BY <1>1, <1>2, <1>3, <1>4, <1>5 DEF Segments

-----------------------------------------------------------------------------
(* Every action keeps IInv.                                                *)

LEMMA Untouched ==
  ASSUME IInv, UNCHANGED <<row, session>>
  PROVE  HeldRows'
  BY DEF IInv, HeldRows

LEMMA StartCardType ==
  ASSUME IInv, NEW p \in Procs, NEW c \in Cards, StartCard(p, c)
  PROVE  IInv'
<1>1. /\ status' \in [Cards -> Statuses]
      /\ evaluationPending' \in [Cards -> BOOLEAN]
  BY MoveCardType DEF IInv, StartCard, ClaimStage, Statuses, Running
<1>2. prep' \in [Workers -> [Cards -> [StageKinds -> 0 .. MaxPrep]]]
  <2>1. CASE UNCHANGED prep BY <2>1 DEF IInv, TypeOK
  <2>2. CASE ~Passive(p) /\ StartStage(p, c, "plan")
    BY <2>2, StartStageType DEF IInv, Passive, Procs, StageKinds
  <2> QED BY <2>1, <2>2 DEF StartCard
<1> QED BY <1>1, <1>2, Untouched DEF IInv, TypeOK, StartCard, procVars

LEMMA OperatorType ==
  ASSUME IInv, NEW p \in Procs, NEW c \in Cards, Operator(p, c)
  PROVE  IInv'
<1>. TypeOK BY DEF IInv
<1>1. CASE QueueCard(p, c)
  BY <1>1, Untouched DEF IInv, TypeOK, QueueCard, procVars, Statuses
<1>2. CASE StartVerb(p, c)
  BY <1>2, StartCardType DEF StartVerb
<1>3. CASE CancelCard(p, c)
  <2>1. PICK s \in Segments : Then(p, s)
    BY <1>3, SegmentsOfActions DEF CancelCard, Segments
  <2> QED BY <1>3, <2>1, ThenType, Untouched
          DEF IInv, TypeOK, CancelCard, cardVars, procVars
<1>4. CASE PauseCard(p, c)
  <2>1. /\ MoveCard(c, "looping", "paused") /\ Then(p, Do("pause", c))
        /\ UNCHANGED <<plan, retryable, row, session, prep, procVars>>
    BY <1>4 DEF PauseCard
  <2> QED BY <2>1, MoveCardType, ThenType, SegmentsOfActions, Untouched
          DEF IInv, TypeOK, procVars, Statuses
<1>5. CASE ResumeCard(p, c)
  BY <1>5, MoveCardType, Untouched DEF IInv, TypeOK, ResumeCard, procVars, Statuses
<1>6. CASE ApprovePlan(p, c)
  BY <1>6, MoveCardType, Untouched DEF IInv, TypeOK, ApprovePlan, procVars, Statuses
<1>7. CASE RejectReview(p, c)
  BY <1>7, MoveCardType, Untouched
     DEF IInv, TypeOK, RejectReview, procVars, Statuses, PlanStates
<1>8. CASE RetryFailedStep(p, c)
  <2>1. /\ status' \in [Cards -> Statuses]
        /\ evaluationPending' \in [Cards -> BOOLEAN]
    BY <1>8, MoveCardType
       DEF TypeOK, RetryFailedStep, ClaimStage, StageOf, Statuses, Running
  <2>2. prep' \in [Workers -> [Cards -> [StageKinds -> 0 .. MaxPrep]]]
    <3>1. CASE UNCHANGED prep BY <3>1 DEF TypeOK
    <3>2. CASE /\ ~Passive(p) /\ retryable[c] \in StageKinds
               /\ StartStage(p, c, retryable[c])
      BY <3>2, StartStageType DEF Passive, Procs
    <3> QED BY <1>8, <3>1, <3>2 DEF RetryFailedStep
  <2>3. seg' \in [Procs -> Segments]
    BY <1>8, ThenType, SegmentsOfActions DEF TypeOK, RetryFailedStep
  <2> QED BY <1>8, <2>1, <2>2, <2>3, Untouched
          DEF IInv, TypeOK, RetryFailedStep, procVars
<1>9. CASE ApproveInstall(p, c)
  <2>1. /\ status' \in [Cards -> Statuses]
        /\ evaluationPending' \in [Cards -> BOOLEAN]
    BY <1>9, MoveCardType DEF TypeOK, ApproveInstall, ClaimStage, Statuses, Running
  <2>2. prep' \in [Workers -> [Cards -> [StageKinds -> 0 .. MaxPrep]]]
    <3>1. CASE UNCHANGED prep BY <3>1 DEF TypeOK
    <3>2. CASE ~Passive(p) /\ StartStage(p, c, "evaluate")
      BY <3>2, StartStageType DEF Passive, Procs, StageKinds
    <3> QED BY <1>9, <3>1, <3>2 DEF ApproveInstall
  <2>3. seg' \in [Procs -> Segments]
    BY <1>9, ThenType, SegmentsOfActions DEF TypeOK, ApproveInstall
  <2> QED BY <1>9, <2>1, <2>2, <2>3, Untouched
          DEF IInv, TypeOK, ApproveInstall, procVars
<1> QED BY <1>1, <1>2, <1>3, <1>4, <1>5, <1>6, <1>7, <1>8, <1>9 DEF Operator

LEMMA PumpType ==
  ASSUME IInv, NEW w \in Workers, Pump(w)
  PROVE  IInv'
<1>. TypeOK BY DEF IInv
<1>1. PICK c \in Cards : \/ PumpEvaluation(w, c)
                         \/ \E r \in Runs : PumpReady(w, c, r)
                         \/ PumpTodo(w, c)
  BY DEF Pump
<1>2. CASE PumpEvaluation(w, c)
  <2>1. prep' \in [Workers -> [Cards -> [StageKinds -> 0 .. MaxPrep]]]
    BY <1>2, StartStageType DEF PumpEvaluation, StageKinds
  <2> QED BY <1>2, <2>1, MoveCardType, Untouched
          DEF IInv, TypeOK, PumpEvaluation, ClaimStage, procVars, Statuses, Running
<1>3. ASSUME NEW r \in Runs, PumpReady(w, c, r) PROVE IInv'
  <2>1. /\ MoveCard(c, "ready", "looping") /\ Insert(r, c, "loop", w)
        /\ session' = [session EXCEPT ![r] = "setup"]
        /\ UNCHANGED <<plan, prep, procVars, seg>>
    BY <1>3 DEF PumpReady, ClaimLoopRun
  <2>2. [card |-> c, kind |-> "loop", owner |-> w, st |-> "running",
         control |-> None] \in Rows
    BY DEF Rows, Kinds
  <2>3. row' \in [Runs -> Rows \cup {Free}] /\ row'[r] # Free
        /\ \A q \in Runs \ {r} : row'[q] = row[q]
    BY <2>1, <2>2, FreeIsNoRow DEF TypeOK, Insert
  <2>4. HeldRows'
    BY <2>1, <2>3 DEF IInv, TypeOK, HeldRows
  <2> QED BY <2>1, <2>3, <2>4, MoveCardType
          DEF IInv, TypeOK, Insert, procVars, Statuses, Running, Phases
<1>4. CASE PumpTodo(w, c)
  BY <1>4, StartCardType DEF PumpTodo, Procs
<1> QED BY <1>1, <1>2, <1>3, <1>4

LEMMA StageBeginsType ==
  ASSUME IInv, NEW w \in Workers, StageBegins(w)
  PROVE  IInv'
<1>. TypeOK BY DEF IInv
<1>1. PICK c \in Cards, k \in StageKinds :
        (\E r \in Runs : StageInserts(w, c, k, r)) \/ StageThrows(w, c, k)
  BY DEF StageBegins
<1>2. ASSUME prep[w][c][k] > 0, prep' = [prep EXCEPT ![w][c][k] = @ - 1]
      PROVE  prep' \in [Workers -> [Cards -> [StageKinds -> 0 .. MaxPrep]]]
  <2>1. prep[w][c][k] - 1 \in 0 .. MaxPrep
    BY <1>2, PipelineAssumption DEF TypeOK
  <2> QED BY <1>2, <2>1 DEF TypeOK
<1>3. ASSUME NEW r \in Runs, StageInserts(w, c, k, r) PROVE IInv'
  <2>1. prep' \in [Workers -> [Cards -> [StageKinds -> 0 .. MaxPrep]]]
    BY <1>2, <1>3 DEF StageInserts
  <2>2. CASE status[c] = StageOf(k)
    <3>1. [card |-> c, kind |-> k, owner |-> w, st |-> "running",
           control |-> None] \in Rows
      BY DEF Rows, Kinds
    <3>2. row' \in [Runs -> Rows \cup {Free}] /\ row'[r] # Free
          /\ \A q \in Runs \ {r} : row'[q] = row[q]
      BY <1>3, <2>2, <3>1, FreeIsNoRow DEF TypeOK, StageInserts, Insert
    <3>3. session' = [session EXCEPT ![r] = "live"]
      BY <1>3, <2>2 DEF StageInserts
    <3>4. HeldRows'
      BY <3>2, <3>3 DEF IInv, TypeOK, HeldRows
    <3> QED BY <1>3, <2>1, <2>2, <3>2, <3>3, <3>4
            DEF IInv, TypeOK, StageInserts, Insert, procVars, Phases
  <2>3. CASE status[c] # StageOf(k)
    BY <1>3, <2>1, <2>3, Untouched DEF IInv, TypeOK, StageInserts, procVars
  <2> QED BY <2>2, <2>3
<1>4. CASE StageThrows(w, c, k)
  BY <1>2, <1>4, MoveCardType, Untouched
     DEF IInv, TypeOK, StageThrows, procVars, Statuses
<1> QED BY <1>1, <1>3, <1>4

LEMMA ResumesType ==
  ASSUME IInv, NEW r \in Runs, NEW kinds, NEW phases, Resumes(r, kinds, phases),
         phases \subseteq Phases \ {"none"}
  PROVE  /\ row[r] \in Rows /\ row[r].card \in Cards
         /\ row[r].owner \in Workers /\ row[r].owner \in Procs
         /\ row[r].kind \in kinds \cap Kinds
<1>1. row[r] \in Rows BY RowOfSession DEF Resumes
<1> QED BY <1>1, RowParts DEF Resumes, Procs

LEMMA EndSessionType ==
  ASSUME IInv, NEW r \in Runs, row[r] \in Rows, EndSession(r)
  PROVE  /\ row' \in [Runs -> Rows \cup {Free}]
         /\ session' \in [Runs -> Phases]
         /\ HeldRows'
  BY RowParts DEF IInv, TypeOK, HeldRows, EndSession, Phases

LEMMA PlanOf ==
  ASSUME TypeOK, NEW c \in Cards, NEW v \in PlanStates
  PROVE  [plan EXCEPT ![c] = v] \in [Cards -> PlanStates]
  BY DEF TypeOK

\* The planner's, critic's and evaluator's endings.
LEMMA StageEndsType ==
  ASSUME IInv, NEW r \in Runs, StageEnds(r)
  PROVE  IInv'
<1>. TypeOK BY DEF IInv
<1>. DEFINE c == row[r].card
            w == row[r].owner
<1>. "none" \in Phases BY DEF Phases
<1>1. CASE StageAborts(r)
  <2>1. row[r] \in Rows BY <1>1, ResumesType DEF StageAborts, Phases
  <2> QED BY <1>1, <2>1, EndSessionType DEF IInv, TypeOK, StageAborts, cardVars, procVars
<1>2. ASSUME NEW st \in {"failed", "completed"}, NEW offer \in BOOLEAN,
             StageFails(r, st, offer)
      PROVE  IInv'
  <2>1. row[r] \in Rows /\ c \in Cards /\ w \in Procs /\ row[r].kind \in Kinds
    BY <1>2, ResumesType DEF StageFails, Phases
  <2>2. Move(c, StageOf(row[r].kind), "needs_attention") \in Segments
    BY <2>1, SegmentsOfActions DEF StageOf, Statuses, Running
  <2>3. seg' \in [Procs -> Segments]
    BY <1>2, <2>1, <2>2, ThenType DEF StageFails
  <2> QED BY <1>2, <2>1, <2>3, FinishRunType DEF IInv, TypeOK, StageFails, procVars
<1>3. CASE PlanSaved(r)
  <2>1. row[r] \in Rows /\ c \in Cards
    BY <1>3, ResumesType DEF PlanSaved, Phases
  <2>2. plan' \in [Cards -> PlanStates]
    BY <1>3, <2>1, PlanOf DEF PlanSaved, PlanStates
  <2>3. session' \in [Runs -> Phases] /\ HeldRows'
    BY <1>3, <2>1, RowParts DEF IInv, TypeOK, PlanSaved, HeldRows, Phases
  <2> QED BY <1>3, <2>2, <2>3 DEF IInv, TypeOK, PlanSaved, procVars
<1>4. CASE PlanWritten(r)
  <2>1. row[r] \in Rows /\ c \in Cards /\ w \in Workers /\ w \in Procs
    BY <1>4, ResumesType DEF PlanWritten, Phases
  <2>2. plan' \in [Cards -> PlanStates]
    BY <1>4, <2>1, PlanOf DEF TypeOK, PlanWritten, PlanStates
  <2>3. prep' \in [Workers -> [Cards -> [StageKinds -> 0 .. MaxPrep]]]
    <3>1. CASE UNCHANGED prep BY <3>1 DEF TypeOK
    <3>2. CASE StartStage(w, c, "plan") \/ StartStage(w, c, "critique")
      BY <2>1, <3>2, StartStageType DEF StageKinds
    <3> QED BY <1>4, <3>1, <3>2 DEF PlanWritten
  <2>4. seg' \in [Procs -> Segments]
    <3>1. Move(c, "planning", PlanDestination) \in Segments
      BY <2>1, SegmentsOfActions DEF PlanDestination, Statuses, Running
    <3>2. CASE UNCHANGED seg BY <3>2 DEF TypeOK
    <3>3. CASE Then(w, Move(c, "planning", PlanDestination))
      BY <2>1, <3>1, <3>3, ThenType
    <3> QED BY <1>4, <3>2, <3>3 DEF PlanWritten
  <2>5. FinishRun(r, "completed", FALSE, "none")
        /\ UNCHANGED <<status, evaluationPending, procVars>>
    BY <1>4 DEF PlanWritten
  <2> QED BY <2>1, <2>2, <2>3, <2>4, <2>5, FinishRunType DEF IInv, TypeOK, procVars
<1>5. CASE PlanLost(r)
  <2>1. row[r] \in Rows BY <1>5, ResumesType DEF PlanLost, Phases
  <2> QED BY <1>5, <2>1, FinishRunType DEF IInv, TypeOK, PlanLost, procVars
<1>10. CASE PlanThrows(r)
  <2>1. row[r] \in Rows /\ c \in Cards /\ w \in Procs
    BY <1>10, ResumesType DEF PlanThrows, Phases
  <2>2. Move(c, "planning", "needs_attention") \in Segments
    BY <2>1, SegmentsOfActions DEF Statuses, Running
  <2>3. seg' \in [Procs -> Segments]
    BY <1>10, <2>1, <2>2, ThenType DEF PlanThrows
  <2> QED BY <1>10, <2>1, <2>3, FinishRunType DEF IInv, TypeOK, PlanThrows, procVars
<1>6. ASSUME NEW dest \in {"plan_review", "ready"}, CriticPasses(r, dest)
      PROVE  IInv'
  <2>1. row[r] \in Rows /\ c \in Cards /\ w \in Procs
    BY <1>6, ResumesType DEF CriticPasses, Phases
  <2>2. Move(c, "planning", dest) \in Segments
    BY <2>1, SegmentsOfActions DEF Statuses, Running
  <2>3. seg' \in [Procs -> Segments]
    BY <1>6, <2>1, <2>2, ThenType DEF CriticPasses
  <2> QED BY <1>6, <2>1, <2>3, FinishRunType DEF IInv, TypeOK, CriticPasses, procVars
<1>7. CASE CriticRevises(r)
  <2>1. row[r] \in Rows /\ c \in Cards /\ w \in Workers
    BY <1>7, ResumesType DEF CriticRevises, Phases
  <2>2. plan' \in [Cards -> PlanStates]
    BY <1>7, <2>1, PlanOf DEF TypeOK, CriticRevises, PlanStates
  <2>3. prep' \in [Workers -> [Cards -> [StageKinds -> 0 .. MaxPrep]]]
    BY <1>7, <2>1, StartStageType DEF CriticRevises, StageKinds
  <2> QED BY <1>7, <2>1, <2>2, <2>3, FinishRunType
          DEF IInv, TypeOK, CriticRevises, procVars
<1>8. CASE EvaluatorPasses(r)
  <2>1. row[r] \in Rows /\ c \in Cards /\ w \in Procs
    BY <1>8, ResumesType DEF EvaluatorPasses, Phases
  <2>2. Move(c, "evaluating", "review") \in Segments
    BY <2>1, SegmentsOfActions DEF Statuses, Running
  <2>3. seg' \in [Procs -> Segments]
    BY <1>8, <2>1, <2>2, ThenType DEF EvaluatorPasses
  <2> QED BY <1>8, <2>1, <2>3, FinishRunType DEF IInv, TypeOK, EvaluatorPasses, procVars
<1>9. CASE EvaluatorRevises(r)
  <2>1. row[r] \in Rows /\ c \in Cards /\ w \in Procs
    BY <1>9, ResumesType DEF EvaluatorRevises, Phases
  <2>2. plan' \in [Cards -> PlanStates]
    BY <1>9, <2>1, PlanOf DEF TypeOK, EvaluatorRevises, PlanStates
  <2>3. seg' \in [Procs -> Segments]
    BY <1>9, <2>1, SegmentsOfActions, ThenType DEF EvaluatorRevises
  <2> QED BY <1>9, <2>1, <2>2, <2>3, FinishRunType
          DEF IInv, TypeOK, EvaluatorRevises, procVars
<1> QED BY <1>1, <1>2, <1>3, <1>4, <1>5, <1>6, <1>7, <1>8, <1>9,
        <1>10 DEF StageEnds

\* pump's catch around runLoop closes some run q of the card.
LEMMA LoopThrowsType ==
  ASSUME IInv, NEW r \in Runs, LoopThrows(r)
  PROVE  IInv'
<1>. TypeOK BY DEF IInv
<1>. DEFINE c == row[r].card
            w == row[r].owner
<1>1. row[r] \in Rows /\ c \in Cards /\ w \in Procs
  BY ResumesType DEF LoopThrows, Phases
<1>2. seg' \in [Procs -> Segments]
  <2>1. Move(c, "looping", "needs_attention") \in Segments
    BY <1>1, SegmentsOfActions DEF Statuses, Running
  <2> QED BY <1>1, <2>1, ThenType DEF LoopThrows
<1>3. ASSUME NEW q \in Runs, RunningRow(c, q), Offer(q, "failed", TRUE),
             session' = [i \in Runs |->
               IF i = r THEN "none"
               ELSE IF i = q /\ session[q] \in Registered /\ row[q].owner = w THEN "aborted"
               ELSE session[i]],
             row' = [i \in Runs |->
               IF i = q /\ session'[q] # "none"
               THEN [row[q] EXCEPT !.st = "closed", !.control = "cancel"]
               ELSE IF i = q \/ (i = r /\ row[r].st # "running") THEN Free
               ELSE row[i]]
      PROVE  /\ row' \in [Runs -> Rows \cup {Free}]
             /\ session' \in [Runs -> Phases]
             /\ retryable' \in [Cards -> Kinds \cup {"none"}]
             /\ HeldRows'
  <2>1. row[q] \in Rows BY <1>3, RowOfSession DEF RunningRow
  <2>2. retryable' \in [Cards -> Kinds \cup {"none"}]
    BY <1>3, <2>1, OfferType
  <2>3. session' \in [Runs -> Phases]
    BY <1>3 DEF TypeOK, Phases
  <2>4. row' \in [Runs -> Rows \cup {Free}]
    BY <1>3, <2>1, RowParts DEF TypeOK
  <2>5. HeldRows'
    BY <1>1, <1>3, <2>1, RowParts DEF IInv, TypeOK, HeldRows
  <2> QED BY <2>2, <2>3, <2>4, <2>5
<1>4. ASSUME EndSession(r), UNCHANGED retryable
      PROVE  /\ row' \in [Runs -> Rows \cup {Free}]
             /\ session' \in [Runs -> Phases]
             /\ retryable' \in [Cards -> Kinds \cup {"none"}]
             /\ HeldRows'
  BY <1>1, <1>4, EndSessionType DEF TypeOK
<1>5. /\ row' \in [Runs -> Rows \cup {Free}]
      /\ session' \in [Runs -> Phases]
      /\ retryable' \in [Cards -> Kinds \cup {"none"}]
      /\ HeldRows'
  BY <1>3, <1>4 DEF LoopThrows
<1> QED BY <1>2, <1>5 DEF IInv, TypeOK, LoopThrows, procVars

LEMMA LoopEndsType ==
  ASSUME IInv, NEW r \in Runs, LoopEnds(r)
  PROVE  IInv'
<1>. TypeOK BY DEF IInv
<1>. DEFINE c == row[r].card
            w == row[r].owner
<1>. "none" \in Phases BY DEF Phases
<1>a. ASSUME c \in Cards, NEW done, Ticked(c, done)
      PROVE  plan' \in [Cards -> PlanStates]
  BY <1>a, PlanOf DEF TypeOK, Ticked, PlanStates
<1>b. ASSUME c \in Cards, w \in Procs, NEW to \in {"needs_attention", "ready"},
             Then(w, Move(c, "looping", to))
      PROVE  seg' \in [Procs -> Segments]
  <2>1. Move(c, "looping", to) \in Segments
    BY <1>b, SegmentsOfActions DEF Statuses, Running
  <2> QED BY <1>b, <2>1, ThenType
<1>1. CASE LoopThrows(r) BY <1>1, LoopThrowsType
<1>2. CASE LoopExits(r)
  <2>1. row[r] \in Rows BY <1>2, ResumesType DEF LoopExits, Phases
  <2> QED BY <1>2, <2>1, EndSessionType DEF IInv, TypeOK, LoopExits, cardVars, procVars
<1>3. ASSUME NEW offer \in BOOLEAN, NEW done \in BOOLEAN, NEW stops \in BOOLEAN,
             LoopFails(r, offer, done, stops)
      PROVE  IInv'
  <2>1. row[r] \in Rows /\ c \in Cards /\ w \in Procs
    BY <1>3, ResumesType DEF LoopFails, Phases
  <2>2. plan' \in [Cards -> PlanStates]
    <3>1. CASE stops BY <1>3, <2>1, <3>1, PlanOf DEF LoopFails, PlanStates
    <3>2. CASE ~stops BY <1>3, <2>1, <3>2, <1>a DEF LoopFails
    <3> QED BY <3>1, <3>2
  <2>3. seg' \in [Procs -> Segments] BY <1>3, <2>1, <1>b DEF LoopFails
  <2> QED BY <1>3, <2>1, <2>2, <2>3, FinishRunType DEF IInv, TypeOK, LoopFails, procVars
<1>4. CASE LoopDone(r)
  <2>1. row[r] \in Rows /\ c \in Cards /\ w \in Procs
    BY <1>4, ResumesType DEF LoopDone, Phases
  <2>2. seg' \in [Procs -> Segments]
    BY <1>4, <2>1, SegmentsOfActions, ThenType DEF LoopDone
  <2>3. plan' \in [Cards -> PlanStates]
    BY <1>4, <2>1, <1>a DEF LoopDone
  <2> QED BY <1>4, <2>1, <2>2, <2>3, FinishRunType DEF IInv, TypeOK, LoopDone, procVars
<1>5. ASSUME NEW done \in BOOLEAN, LoopGate(r, done) PROVE IInv'
  <2>1. row[r] \in Rows /\ c \in Cards /\ w \in Procs
    BY <1>5, ResumesType DEF LoopGate, Phases
  <2>2. seg' \in [Procs -> Segments] BY <1>5, <2>1, <1>b DEF LoopGate
  <2>3. plan' \in [Cards -> PlanStates]
    BY <1>5, <2>1, <1>a DEF LoopGate
  <2> QED BY <1>5, <2>1, <2>2, <2>3, FinishRunType DEF IInv, TypeOK, LoopGate, procVars
<1>6. CASE LoopPauses(r)
  <2>1. row[r] \in Rows BY <1>6, ResumesType DEF LoopPauses, Phases
  <2> QED BY <1>6, <2>1, FinishRunType DEF IInv, TypeOK, LoopPauses, procVars
<1>7. CASE LoopDrains(r)
  <2>1. row[r] \in Rows /\ c \in Cards /\ w \in Procs
    BY <1>7, ResumesType DEF LoopDrains, Phases
  <2>2. seg' \in [Procs -> Segments] BY <1>7, <2>1, <1>b DEF LoopDrains
  <2> QED BY <1>7, <2>1, <2>2, FinishRunType DEF IInv, TypeOK, LoopDrains, procVars
<1> QED BY <1>1, <1>2, <1>3, <1>4, <1>5, <1>6, <1>7 DEF LoopEnds

LEMMA SessionType ==
  ASSUME IInv, NEW r \in Runs, Session(r)
  PROVE  IInv'
<1>. TypeOK BY DEF IInv
<1>1. CASE StageEnds(r) BY <1>1, StageEndsType
<1>2. CASE LoopEnds(r) BY <1>2, LoopEndsType
<1>3. CASE LoopRegisters(r)
  <2>1. row[r] \in Rows BY <1>3, ResumesType DEF LoopRegisters, Phases
  <2> QED BY <1>3, <2>1, RowParts
          DEF IInv, TypeOK, HeldRows, LoopRegisters, Phases, cardVars, procVars
<1>4. CASE WatchdogTrips(r)
  <2>1. row[r] \in Rows /\ row[r].card \in Cards /\ row[r].owner \in Procs
    BY <1>4, ResumesType DEF WatchdogTrips, Phases
  <2>2. Move(row[r].card, "looping", "needs_attention") \in Segments
    BY <2>1, SegmentsOfActions DEF Statuses, Running
  <2>3. seg' \in [Procs -> Segments]
    BY <1>4, <2>1, <2>2, ThenType DEF WatchdogTrips
  <2> QED BY <1>4, <2>1, <2>3, FinishRunType
          DEF IInv, TypeOK, WatchdogTrips, procVars, Phases
<1>5. CASE ControlPoll(r)
  <2>1. row[r] \in Rows
    BY <1>5, ResumesType DEF ControlPoll, Phases, Registered
  <2>2. row' \in [Runs -> Rows \cup {Free}] /\ session' \in [Runs -> Phases]
    BY <1>5, <2>1, RowParts DEF TypeOK, ControlPoll, Phases
  <2>3. HeldRows'
    <3>1. row' = [row EXCEPT ![r].control = None]
      BY <1>5 DEF ControlPoll
    <3>2. row'[r] # Free BY <2>1, <3>1, RowParts DEF TypeOK
    <3> QED BY <1>5, <3>1, <3>2 DEF IInv, TypeOK, HeldRows, ControlPoll
  <2> QED BY <1>5, <2>2, <2>3 DEF IInv, TypeOK, ControlPoll, cardVars, procVars
<1> QED BY <1>1, <1>2, <1>3, <1>4, <1>5 DEF Session

LEMMA SegmentType ==
  ASSUME IInv, NEW p \in Procs, Segment(p)
  PROVE  IInv'
<1>. TypeOK BY DEF IInv
<1>. DEFINE c == seg[p].card
<1>1. ASSUME NEW op, MoveInto(p, op, {"evaluating"}, "planning", "plan")
             \/ MoveInto(p, op, {"looping", "paused"}, "evaluating", "evaluate")
             \/ MoveInto(p, op, {"needs_attention"}, "evaluating", "evaluate"),
             op \in {"replan", "advance", "evaluate"}, p \in Workers
      PROVE  IInv'
  <2>1. c \in Cards BY <1>1, SegmentParts DEF MoveInto
  <2>2. /\ status' \in [Cards -> Statuses]
        /\ evaluationPending' \in [Cards -> BOOLEAN]
    BY <1>1, <2>1, MoveCardType DEF TypeOK, MoveInto, Statuses, Running
  <2>3. prep' \in [Workers -> [Cards -> [StageKinds -> 0 .. MaxPrep]]]
    <3>1. CASE UNCHANGED prep BY <3>1 DEF TypeOK
    <3>2. CASE StartStage(p, c, "plan") \/ StartStage(p, c, "evaluate")
      BY <1>1, <2>1, <3>2, StartStageType DEF StageKinds
    <3> QED BY <1>1, <3>1, <3>2 DEF MoveInto
  <2>4. Leave(p) /\ UNCHANGED <<plan, retryable, row, session, procVars>>
    BY <1>1 DEF MoveInto
  <2> QED BY <2>2, <2>3, <2>4, LeaveType, Untouched DEF IInv, TypeOK, procVars
<1>2. CASE CloseSegment(p)
  <2>. DEFINE r == seg[p].run
  <2>1. c \in Cards /\ r \in Runs BY <1>2, SegmentParts DEF CloseSegment
  <2>2. RunningRow(c, r) => row[r] \in Rows
    BY <2>1, RowOfSession DEF RunningRow
  <2>3. /\ row' = IF ~RunningRow(c, r) THEN row
                   ELSE IF session[r] = "none" THEN [row EXCEPT ![r] = Free]
                   ELSE [row EXCEPT ![r] = [@ EXCEPT !.st = "closed", !.control = "cancel"]]
        /\ \/ session' = session
           \/ /\ session' = [session EXCEPT ![r] = "aborted"]
              /\ session[r] \in Registered /\ RunningRow(c, r)
        /\ \/ retryable' = retryable
           \/ retryable' = [retryable EXCEPT ![c] = "none"]
    BY <1>2 DEF CloseSegment
  <2>4. [row[r] EXCEPT !.st = "closed", !.control = "cancel"] \in Rows
        \/ ~RunningRow(c, r)
    BY <2>2, RowParts
  <2>5. row' \in [Runs -> Rows \cup {Free}]
    BY <2>1, <2>2, <2>3, <2>4 DEF TypeOK
  <2>6. session' \in [Runs -> Phases] BY <2>1, <2>3 DEF TypeOK, Phases
  <2>7. HeldRows'
    BY <2>1, <2>2, <2>3, <2>4, RowParts DEF IInv, TypeOK, HeldRows, Registered
  <2>8. retryable' \in [Cards -> Kinds \cup {"none"}] BY <2>1, <2>3 DEF TypeOK
  <2>9. seg' \in [Procs -> Segments]
    BY <1>2, <2>1, ThenType, SegmentsOfActions DEF CloseSegment
  <2> QED BY <1>2, <2>5, <2>6, <2>7, <2>8, <2>9 DEF IInv, TypeOK, CloseSegment, procVars
<1>3. CASE PullSegment(p)
  BY <1>3, SegmentParts, LeaveType, Untouched
     DEF IInv, TypeOK, PullSegment, procVars, Statuses
<1>4. CASE PauseSegment(p)
  <2>1. row' = [r \in Runs |-> IF RunningRow(c, r)
                               THEN [row[r] EXCEPT !.control = "pause"] ELSE row[r]]
    BY <1>4 DEF PauseSegment
  <2>2. \A r \in Runs : RunningRow(c, r) => row[r] \in Rows
    BY RowOfSession DEF RunningRow
  <2>3. row' \in [Runs -> Rows \cup {Free}]
        /\ \A r \in Runs : row[r] # Free => row'[r] # Free
    BY <2>1, <2>2, RowParts DEF TypeOK
  <2>4. HeldRows' BY <1>4, <2>3 DEF IInv, HeldRows, PauseSegment
  <2> QED BY <1>4, <2>3, <2>4, LeaveType DEF IInv, TypeOK, PauseSegment, cardVars, procVars
<1>5. CASE QueueSegment(p)
  BY <1>5, SegmentParts, LeaveType, Untouched DEF IInv, TypeOK, QueueSegment, procVars
<1>6. CASE MoveSegment(p)
  BY <1>6, SegmentParts, MoveCardType, LeaveType, Untouched
     DEF IInv, TypeOK, MoveSegment, procVars
<1>7. CASE p \in Workers /\ (ReplanSegment(p) \/ AdvanceSegment(p) \/ EvaluateSegment(p))
  BY <1>1, <1>7 DEF ReplanSegment, AdvanceSegment, EvaluateSegment
<1>8. ASSUME NEW from, ParkOrResume(c, from), c \in Cards
      PROVE  /\ status' \in [Cards -> Statuses]
             /\ evaluationPending' \in [Cards -> BOOLEAN]
  BY <1>8, MoveCardType DEF TypeOK, ParkOrResume, Statuses
<1>9. CASE ParkSegment(p)
  BY <1>8, <1>9, SegmentParts, LeaveType, Untouched DEF IInv, TypeOK, ParkSegment, procVars
<1>10. CASE SweepSegment(p)
  BY <1>8, <1>10, SegmentParts, LeaveType, Untouched DEF IInv, TypeOK, SweepSegment, procVars
<1> QED BY <1>2, <1>3, <1>4, <1>5, <1>6, <1>7, <1>9, <1>10 DEF Segment

LEMMA InterruptType ==
  ASSUME IInv, NEW w \in Workers, NEW r \in Runs, Interrupt(w, r),
         UNCHANGED <<status, evaluationPending, plan, session, prep, procVars>>
  PROVE  IInv'
<1>. TypeOK BY DEF IInv
<1>1. row[r] \in Rows /\ row[r].card \in Cards
  BY RowOfSession, RowParts DEF Interrupt
<1>2. row' \in [Runs -> Rows \cup {Free}] /\ HeldRows'
  BY <1>1, CloseRowType DEF IInv, TypeOK, HeldRows, Interrupt
<1>3. retryable' \in [Cards -> Kinds \cup {"none"}]
  BY <1>1, OfferType DEF Interrupt
<1>4. seg' \in [Procs -> Segments]
  BY <1>1, ThenType, SegmentsOfActions DEF Interrupt, Procs
<1> QED BY <1>2, <1>3, <1>4 DEF IInv, TypeOK, procVars

LEMMA LivelinessType ==
  ASSUME IInv, NEW w \in Workers, Liveliness(w)
  PROVE  IInv'
<1>. TypeOK BY DEF IInv
<1>1. CASE Beats(w) \/ Ages(w) \/ Boots(w) \/ BootEnds(w)
  BY <1>1, Untouched DEF IInv, TypeOK, Beats, Ages, Boots, BootEnds, cardVars, Lives
<1>2. ASSUME NEW r \in Runs, Reap(w, r) PROVE IInv'
  BY <1>2, InterruptType DEF Reap
<1>3. ASSUME NEW c \in Cards, SweepOrphan(w, c) PROVE IInv'
  <2>1. [op |-> "sweep", card |-> c, from |-> status[c]] \in Segments
    BY DEF TypeOK, Segments
  <2> QED BY <1>3, <2>1, ThenType, Untouched
          DEF IInv, TypeOK, SweepOrphan, cardVars, procVars, Procs
<1> QED BY <1>1, <1>2, <1>3 DEF Liveliness

LEMMA ShutdownType ==
  ASSUME IInv, NEW w \in Workers, Shutdown(w)
  PROVE  IInv'
<1>. TypeOK BY DEF IInv
<1>1. ASSUME Dies(w), UNCHANGED cardVars,
             heartbeat' \in [Workers -> {"fresh", "stale"}]
      PROVE  IInv'
  <2>1. row' \in [Runs -> Rows \cup {Free}] /\ session' \in [Runs -> Phases]
    BY <1>1 DEF TypeOK, Dies, Phases
  <2>2. HeldRows' BY <1>1 DEF IInv, TypeOK, HeldRows, Dies
  <2>3. prep' \in [Workers -> [Cards -> [StageKinds -> 0 .. MaxPrep]]]
    <3>1. 0 \in 0 .. MaxPrep BY PipelineAssumption
    <3> QED BY <1>1, <3>1 DEF TypeOK, Dies
  <2>4. seg' \in [Procs -> Segments] BY <1>1 DEF TypeOK, Dies, Segments
  <2>5. worker' \in [Workers -> Lives] BY <1>1 DEF TypeOK, Dies, Lives
  <2> QED BY <1>1, <2>1, <2>2, <2>3, <2>4, <2>5 DEF IInv, TypeOK, cardVars
<1>2. CASE Crashes(w)
  BY <1>1, <1>2 DEF TypeOK, Crashes
<1>3. CASE Drains(w) \/ GivesUp(w)
  BY <1>3, Untouched DEF IInv, TypeOK, Drains, GivesUp, cardVars, Lives
<1>4. CASE Exits(w)
  BY <1>1, <1>4 DEF TypeOK, Exits
<1>5. ASSUME NEW r \in Runs, Releases(w, r) PROVE IInv'
  BY <1>5, InterruptType DEF Releases
<1> QED BY <1>2, <1>3, <1>4, <1>5 DEF Shutdown

\* The model's state stays within its types, and no function outlives its row's
\* slot, whatever the cards, the processes, the cap, the verbs and the faults.
LEMMA Inductive ==
  /\ Init => IInv
  /\ IInv /\ [Next]_vars => IInv'
<1>1. ASSUME Init PROVE IInv
  <2>1. 0 \in 0 .. MaxPrep BY PipelineAssumption
  <2>2. TypeOK
    BY <1>1, <2>1 DEF Init, TypeOK, Statuses, PlanStates, Phases, Lives, Segments
  <2>3. HeldRows BY <1>1 DEF Init, HeldRows
  <2> QED BY <2>2, <2>3 DEF IInv
<1>2. ASSUME IInv, Next PROVE IInv'
  <2>1. ASSUME NEW p \in Procs, WebCrashes(p) PROVE IInv'
    BY <1>2, <2>1, LeaveType, Untouched DEF IInv, TypeOK, WebCrashes, cardVars, procVars
  <2> QED BY <1>2, <2>1, SegmentType, OperatorType, PumpType, StageBeginsType,
             LivelinessType, ShutdownType, SessionType DEF Next
<1>3. ASSUME IInv, UNCHANGED vars PROVE IInv'
  BY <1>3, Untouched DEF IInv, TypeOK, vars
<1> QED BY <1>1, <1>2, <1>3

\* TypeOK holds of every reachable state of every instance.
THEOREM TypeCorrect == Spec => []TypeOK
<1>1. IInv => TypeOK BY DEF IInv
<1> QED BY <1>1, Inductive, PTL DEF Spec

-----------------------------------------------------------------------------
(* One running loop per card.                                              *)

\* The step opens no run: what is running was running, for the same card.
RowsKept ==
  \A r \in Runs : row'[r].st = "running" =>
    row[r].st = "running" /\ row'[r].card = row[r].card /\ row'[r].kind = row[r].kind

LEMMA CloseRowKeeps ==
  ASSUME IInv, NEW r \in Runs, row[r] \in Rows, NEW sess, CloseRow(r, sess)
  PROVE  RowsKept /\ row'[r].st # "running"
<1>1. \A q \in Runs \ {r} : row'[q] = row[q]
  BY CloseRowType DEF IInv
<1>2. row'[r].st # "running"
  BY FreeIsNoRow DEF IInv, TypeOK, CloseRow, Rows
<1> QED BY <1>1, <1>2 DEF RowsKept

LEMMA EndSessionKeeps ==
  ASSUME IInv, NEW r \in Runs, EndSession(r)
  PROVE  RowsKept
  BY FreeIsNoRow DEF IInv, TypeOK, EndSession, RowsKept

\* The ends of the stages' functions open no run.
LEMMA StageEndsKeep ==
  ASSUME IInv, NEW r \in Runs, StageEnds(r)
  PROVE  RowsKept
<1>1. row[r] \in Rows
  BY ResumesType DEF StageEnds, StageAborts, StageFails, PlanSaved, PlanWritten,
     PlanThrows, PlanLost, CriticPasses, CriticRevises, EvaluatorPasses, EvaluatorRevises, Phases
<1>2. UNCHANGED row => RowsKept BY DEF RowsKept
<1>3. \A st, offer : FinishRun(r, st, offer, "none") => RowsKept
  BY <1>1, CloseRowKeeps DEF FinishRun
<1> QED BY <1>2, <1>3, EndSessionKeeps
        DEF StageEnds, StageAborts, StageFails, PlanSaved, PlanWritten, PlanThrows, PlanLost,
            CriticPasses, CriticRevises, EvaluatorPasses, EvaluatorRevises

LEMMA LoopEndsKeep ==
  ASSUME IInv, NEW r \in Runs, LoopEnds(r) \/ WatchdogTrips(r)
  PROVE  RowsKept
<1>1. row[r] \in Rows
  BY ResumesType DEF LoopEnds, LoopThrows, LoopExits, LoopDone, LoopFails, LoopGate,
     LoopPauses, LoopDrains, WatchdogTrips, Phases
<1>2. \A st, offer, sess : FinishRun(r, st, offer, sess) => RowsKept
  BY <1>1, CloseRowKeeps DEF FinishRun
<1>3. CASE LoopThrows(r)
  <2>1. ASSUME NEW q \in Runs, RunningRow(row[r].card, q),
               row' = [i \in Runs |->
                 IF i = q /\ session'[q] # "none"
                 THEN [row[q] EXCEPT !.st = "closed", !.control = "cancel"]
                 ELSE IF i = q \/ (i = r /\ row[r].st # "running") THEN Free
                 ELSE row[i]]
        PROVE  RowsKept
    <3>1. row[q] \in Rows BY <2>1, RowOfSession DEF RunningRow
    <3>2. [row[q] EXCEPT !.st = "closed", !.control = "cancel"].st # "running"
      BY <3>1 DEF Rows
    <3> QED BY <2>1, <3>2, FreeIsNoRow DEF RowsKept
  <2> QED BY <1>3, <2>1, EndSessionKeeps DEF LoopThrows
<1>4. CASE LoopExits(r) BY <1>4, EndSessionKeeps DEF LoopExits
<1> QED BY <1>2, <1>3, <1>4
        DEF LoopEnds, LoopDone, LoopFails, LoopGate, LoopPauses, LoopDrains, WatchdogTrips

LEMMA SessionKeeps ==
  ASSUME IInv, NEW r \in Runs, Session(r)
  PROVE  RowsKept
<1>1. CASE LoopRegisters(r) BY <1>1 DEF LoopRegisters, RowsKept
<1>2. CASE ControlPoll(r)
  <2>1. row[r] \in Rows BY <1>2, ResumesType DEF ControlPoll, Phases, Registered
  <2> QED BY <1>2, <2>1 DEF IInv, TypeOK, ControlPoll, RowsKept, Rows
<1> QED BY <1>1, <1>2, StageEndsKeep, LoopEndsKeep DEF Session

LEMMA SegmentKeeps ==
  ASSUME IInv, NEW p \in Procs, Segment(p)
  PROVE  RowsKept
<1>1. UNCHANGED row => RowsKept BY DEF RowsKept
<1>2. CASE CloseSegment(p)
  <2>. DEFINE r == seg[p].run
  <2>1. r \in Runs BY <1>2, SegmentParts DEF IInv, CloseSegment
  <2>2. RunningRow(seg[p].card, r) => row[r] \in Rows
    BY <2>1, RowOfSession DEF RunningRow
  <2>3. \/ row' = row
        \/ row' = [row EXCEPT ![r] = Free]
        \/ /\ row[r] \in Rows
           /\ row' = [row EXCEPT ![r] = [row[r] EXCEPT !.st = "closed", !.control = "cancel"]]
    BY <1>2, <2>1, <2>2 DEF CloseSegment, IInv, TypeOK
  <2>4. row[r] \in Rows =>
          [row[r] EXCEPT !.st = "closed", !.control = "cancel"].st = "closed"
    BY DEF Rows
  <2>5. \A q \in Runs \ {r} : row'[q] = row[q]
    BY <2>3 DEF IInv, TypeOK
  <2>6. row'[r] = row[r] \/ row'[r].st # "running"
    BY <2>1, <2>3, <2>4, FreeIsNoRow DEF IInv, TypeOK
  <2> QED BY <2>5, <2>6 DEF RowsKept
<1>3. CASE PauseSegment(p)
  <2>1. \A r \in Runs : RunningRow(seg[p].card, r) => row[r] \in Rows
    BY RowOfSession DEF RunningRow
  <2> QED BY <1>3, <2>1 DEF PauseSegment, RowsKept, Rows
<1> QED BY <1>1, <1>2, <1>3
        DEF Segment, PullSegment, QueueSegment, MoveSegment, ReplanSegment,
            AdvanceSegment, EvaluateSegment, MoveInto, ParkSegment, SweepSegment

LEMMA WorkerKeeps ==
  ASSUME IInv, NEW w \in Workers, Liveliness(w) \/ Shutdown(w)
  PROVE  RowsKept
<1>1. UNCHANGED row => RowsKept BY DEF RowsKept
<1>2. ASSUME NEW r \in Runs, Interrupt(w, r) PROVE RowsKept
  <2>1. row[r] \in Rows BY <1>2, RowOfSession DEF Interrupt
  <2> QED BY <1>2, <2>1, CloseRowKeeps DEF Interrupt
<1>3. Dies(w) => RowsKept BY FreeIsNoRow DEF Dies, RowsKept
<1> QED BY <1>1, <1>2, <1>3
        DEF Liveliness, Beats, Ages, Boots, BootEnds, Reap, SweepOrphan,
            Shutdown, Crashes, Drains, GivesUp, Exits, Releases

\* A run is opened only by a stage's insertion or by the loop claim.
LEMMA RowStep ==
  ASSUME IInv, [Next]_vars
  PROVE  \/ RowsKept
         \/ \E w \in Workers, c \in Cards, k \in StageKinds, r \in Runs : Insert(r, c, k, w)
         \/ \E w \in Workers, c \in Cards, r \in Runs : ClaimLoopRun(w, c, r)
<1>1. UNCHANGED row => RowsKept BY DEF RowsKept
<1>2. ASSUME NEW p \in Procs, NEW c \in Cards, Operator(p, c) PROVE UNCHANGED row
  BY <1>2 DEF Operator, QueueCard, StartVerb, StartCard, CancelCard, PauseCard,
     ResumeCard, ApprovePlan, RejectReview, RetryFailedStep, ApproveInstall
<1>3. ASSUME NEW p \in Procs, WebCrashes(p) PROVE UNCHANGED row
  BY <1>3 DEF WebCrashes
<1>4. ASSUME NEW w \in Workers, Pump(w)
      PROVE  UNCHANGED row \/ \E c \in Cards, r \in Runs : ClaimLoopRun(w, c, r)
  BY <1>4 DEF Pump, PumpEvaluation, PumpReady, PumpTodo, StartCard
<1>5. ASSUME NEW w \in Workers, StageBegins(w)
      PROVE  UNCHANGED row \/ \E c \in Cards, k \in StageKinds, r \in Runs : Insert(r, c, k, w)
  BY <1>5 DEF StageBegins, StageInserts, StageThrows
<1> QED BY <1>1, <1>2, <1>3, <1>4, <1>5, SegmentKeeps, WorkerKeeps, SessionKeeps
        DEF Next, vars

\* Two workers never run one card's loop, whatever is cancelled, reaped, crashed
\* or stalled: OneLoopRun is kept by every step because a loop row is inserted
\* in the transaction that found the card without a running row.
THEOREM LoopIsAlone == Spec => []OneLoopRun
<1>1. Init => OneLoopRun BY DEF Init, OneLoopRun, Free
<1>2. ASSUME IInv, OneLoopRun, [Next]_vars PROVE OneLoopRun'
  <2>1. CASE RowsKept BY <1>2, <2>1 DEF OneLoopRun, RowsKept
  <2>2. ASSUME NEW w \in Workers, NEW c \in Cards, NEW k \in StageKinds,
               NEW r \in Runs, Insert(r, c, k, w)
        PROVE  OneLoopRun'
    <3>1. /\ \A q \in Runs \ {r} : row'[q] = row[q]
          /\ row'[r].kind # "loop"
      BY <1>2, <2>2 DEF IInv, TypeOK, Insert, StageKinds
    <3> QED BY <1>2, <3>1 DEF OneLoopRun
  <2>3. ASSUME NEW w \in Workers, NEW c \in Cards, NEW r \in Runs, ClaimLoopRun(w, c, r)
        PROVE  OneLoopRun'
    <3>1. /\ \A q \in Runs \ {r} : row'[q] = row[q]
          /\ row'[r].card = c
          /\ \A q \in Runs : row[q].st = "running" => row[q].card # c
      BY <1>2, <2>3 DEF IInv, TypeOK, ClaimLoopRun, Insert, HasRunningRow, RunningRow
    <3> QED BY <1>2, <3>1 DEF OneLoopRun
  <2> QED BY <1>2, <2>1, <2>2, <2>3, RowStep
<1> QED BY <1>1, <1>2, Inductive, PTL DEF Spec

-----------------------------------------------------------------------------
(* Offered retries.                                                        *)

\* What FirstEndingWins asks of a step.
OfferedByAnEnding ==
  \A c \in Cards :
    retryable'[c] \notin {"none", retryable[c]}
    => \E r \in Runs : RunningRow(c, r) /\ row[r].kind = retryable'[c]
                       /\ row'[r].st # "running"

LEMMA NothingOffered ==
  ASSUME IInv,
         \/ UNCHANGED retryable
         \/ \E c \in Cards : retryable' = [retryable EXCEPT ![c] = "none"]
  PROVE  OfferedByAnEnding
  BY DEF IInv, TypeOK, OfferedByAnEnding

LEMMA OfferKeeps ==
  ASSUME IInv, NEW r \in Runs, NEW st, NEW offer, Offer(r, st, offer),
         row[r].st = "running" => row[r] \in Rows /\ row'[r].st # "running"
  PROVE  OfferedByAnEnding
<1>1. CASE row[r].st # "running" BY <1>1, NothingOffered DEF Offer
<1>2. CASE row[r].st = "running"
  <2>1. row[r].card \in Cards BY <1>2, RowParts
  <2> QED BY <1>2, <2>1 DEF Offer, IInv, TypeOK, OfferedByAnEnding, RunningRow
<1> QED BY <1>1, <1>2

LEMMA FinishRunOffers ==
  ASSUME IInv, NEW r \in Runs, row[r] \in Rows, NEW st, NEW offer, NEW sess,
         FinishRun(r, st, offer, sess)
  PROVE  OfferedByAnEnding
  BY OfferKeeps, CloseRowKeeps DEF FinishRun

LEMMA SessionOffers ==
  ASSUME IInv, NEW r \in Runs, Session(r)
  PROVE  OfferedByAnEnding
<1>1. row[r] \in Rows
  BY ResumesType
     DEF Session, StageEnds, StageAborts, StageFails, PlanSaved, PlanWritten, PlanThrows, PlanLost,
         CriticPasses, CriticRevises, EvaluatorPasses, EvaluatorRevises, LoopEnds,
         LoopThrows, LoopExits, LoopDone, LoopFails, LoopGate, LoopPauses, LoopDrains,
         WatchdogTrips, LoopRegisters, ControlPoll, Phases, Registered
<1>2. \A st, offer, sess : FinishRun(r, st, offer, sess) => OfferedByAnEnding
  BY <1>1, FinishRunOffers
<1>3. UNCHANGED retryable => OfferedByAnEnding BY NothingOffered
<1>4. CASE LoopThrows(r)
  <2>1. ASSUME NEW q \in Runs, RunningRow(row[r].card, q), Offer(q, "failed", TRUE),
               row' = [i \in Runs |->
                 IF i = q /\ session'[q] # "none"
                 THEN [row[q] EXCEPT !.st = "closed", !.control = "cancel"]
                 ELSE IF i = q \/ (i = r /\ row[r].st # "running") THEN Free
                 ELSE row[i]]
        PROVE  OfferedByAnEnding
    <3>1. row[q] \in Rows BY <2>1, RowOfSession DEF RunningRow
    <3>2. [row[q] EXCEPT !.st = "closed", !.control = "cancel"].st # "running"
      BY <3>1 DEF Rows
    <3>3. row'[q].st # "running" BY <2>1, <3>2, FreeIsNoRow
    <3> QED BY <2>1, <3>1, <3>3, OfferKeeps
  <2> QED BY <1>3, <1>4, <2>1 DEF LoopThrows
<1>5. CASE StageEnds(r)
  BY <1>2, <1>3, <1>5
     DEF StageEnds, StageAborts, StageFails, PlanSaved, PlanWritten, PlanThrows, PlanLost,
         CriticPasses, CriticRevises, EvaluatorPasses, EvaluatorRevises, cardVars
<1>6. CASE LoopEnds(r) \/ WatchdogTrips(r)
  BY <1>2, <1>3, <1>4, <1>6
     DEF LoopEnds, LoopExits, LoopDone, LoopFails, LoopGate, LoopPauses, LoopDrains,
         WatchdogTrips, cardVars
<1> QED BY <1>3, <1>5, <1>6 DEF Session, LoopRegisters, ControlPoll, cardVars

LEMMA WorkerOffers ==
  ASSUME IInv, NEW w \in Workers, Liveliness(w) \/ Shutdown(w)
  PROVE  OfferedByAnEnding
<1>1. UNCHANGED retryable => OfferedByAnEnding BY NothingOffered
<1>2. ASSUME NEW r \in Runs, Interrupt(w, r) PROVE OfferedByAnEnding
  <2>1. row[r] \in Rows BY <1>2, RowOfSession DEF Interrupt
  <2> QED BY <1>2, <2>1, OfferKeeps, CloseRowKeeps DEF Interrupt
<1> QED BY <1>1, <1>2
        DEF Liveliness, Beats, Ages, Boots, BootEnds, Reap, SweepOrphan, cardVars,
            Shutdown, Crashes, Drains, GivesUp, Exits, Releases

\* A step is offered for a retry only by closing a run of that step which was
\* still running: an ending that comes second (a cancel, a reaper, a late
\* continuation) changes nothing of what the first one left.
THEOREM FirstEnding == Spec => FirstEndingWins
<1>. DEFINE A == OfferedByAnEnding
<1>1. ASSUME IInv, Next PROVE OfferedByAnEnding
  <2>1. UNCHANGED retryable => OfferedByAnEnding BY <1>1, NothingOffered
  <2>2. \A c \in Cards : retryable' = [retryable EXCEPT ![c] = "none"] => OfferedByAnEnding
    BY <1>1, NothingOffered
  <2>3. ASSUME NEW p \in Procs, NEW c \in Cards, Operator(p, c) PROVE UNCHANGED retryable
    BY <2>3 DEF Operator, QueueCard, StartVerb, StartCard, CancelCard, PauseCard,
       ResumeCard, ApprovePlan, RejectReview, RetryFailedStep, ApproveInstall, cardVars
  <2>4. ASSUME NEW p \in Procs, WebCrashes(p) PROVE UNCHANGED retryable
    BY <2>4 DEF WebCrashes, cardVars
  <2>5. ASSUME NEW p \in Procs, Segment(p)
        PROVE  \/ UNCHANGED retryable
               \/ \E c \in Cards : retryable' = [retryable EXCEPT ![c] = "none"]
    <3>1. CASE CloseSegment(p)
      BY <1>1, <3>1, SegmentParts DEF IInv, CloseSegment
    <3> QED BY <2>5, <3>1
        DEF Segment, PullSegment, QueueSegment, MoveSegment, ReplanSegment, PauseSegment,
            AdvanceSegment, EvaluateSegment, MoveInto, ParkSegment, SweepSegment, cardVars
  <2>6. ASSUME NEW w \in Workers, Pump(w) \/ StageBegins(w)
        PROVE  \/ UNCHANGED retryable
               \/ \E c \in Cards : retryable' = [retryable EXCEPT ![c] = "none"]
    BY <2>6 DEF Pump, PumpEvaluation, PumpReady, PumpTodo, StartCard, ClaimLoopRun,
       Insert, StageBegins, StageInserts, StageThrows
  <2> QED BY <1>1, <2>1, <2>2, <2>3, <2>4, <2>5, <2>6, SessionOffers, WorkerOffers DEF Next
<1>2. IInv /\ [Next]_vars => [A]_vars
  BY <1>1
<1>3. [A]_vars => [\A c \in Cards :
       retryable'[c] \notin {"none", retryable[c]}
       => \E r \in Runs : RunningRow(c, r) /\ row[r].kind = retryable'[c]
                          /\ row'[r].st # "running"]_vars
  BY DEF OfferedByAnEnding
<1> QED BY <1>2, <1>3, Inductive, PTL DEF Spec, FirstEndingWins

-----------------------------------------------------------------------------
(* Who moves a card, and into what.                                        *)

\* A move that is still to be written takes its card out of a stage.
PendingMoves ==
  \A p \in Procs :
    /\ seg[p].op = "move" => seg[p].from \in Running /\ seg[p].to \notin Running
    /\ seg[p].op = "sweep" => seg[p].from \in Running

MInv == IInv /\ PendingMoves

\* The card took the last step through a claim, which read the load just before.
Claimed(c) ==
  /\ Load < Limit
  /\ \A d \in Cards \ {c} : status'[d] = status[d]
  /\ \A r \in Runs : row'[r].st = "running" =>
       row'[r].card = c \/ (row[r].st = "running" /\ row'[r].card = row[r].card)

\* The only ways a card's status changes.
StatusChange(c) ==
  \/ status'[c] = status[c]
  \/ status[c] = "backlog" /\ status'[c] = "todo"
  \/ status'[c] = "backlog"
  \/ /\ status[c] # "backlog"
     /\ status[c] \in Running \/ status'[c] \notin {"planning", "looping"} \/ Claimed(c)

LEMMA MoveCardMoves ==
  ASSUME IInv, NEW x \in Cards, NEW from, NEW to, MoveCard(x, from, to), NEW c \in Cards
  PROVE  status'[c] = status[c] \/ (c = x /\ status[c] = from /\ status'[c] = to)
  BY DEF IInv, TypeOK, MoveCard

LEMMA ClaimIsClaimed ==
  ASSUME IInv, NEW c \in Cards, NEW from, NEW to, ClaimStage(c, from, to), UNCHANGED row
  PROVE  Claimed(c)
  BY DEF IInv, TypeOK, ClaimStage, MoveCard, Claimed

LEMMA StartCardMoves ==
  ASSUME IInv, NEW p \in Procs, NEW x \in Cards, StartCard(p, x), NEW c \in Cards
  PROVE  StatusChange(c)
<1>1. CASE MoveCard(x, status[x], "ready") \/ MoveCard(x, "needs_attention", "todo")
  BY <1>1, MoveCardMoves DEF StartCard, StatusChange
<1>2. CASE ClaimStage(x, status[x], "planning") /\ UNCHANGED row
  <2>1. Claimed(x) BY <1>2, ClaimIsClaimed
  <2>2. status'[c] = status[c] \/ c = x
    BY <1>2, MoveCardMoves DEF ClaimStage
  <2> QED BY <2>1, <2>2 DEF StatusChange, StartCard
<1> QED BY <1>1, <1>2 DEF StartCard

LEMMA OperatorMoves ==
  ASSUME MInv, NEW p \in Procs, NEW x \in Cards, Operator(p, x), NEW c \in Cards
  PROVE  StatusChange(c)
<1>. IInv BY DEF MInv
<1>1. UNCHANGED status => StatusChange(c) BY DEF StatusChange
<1>2. CASE QueueCard(p, x)
  BY <1>2 DEF IInv, TypeOK, QueueCard, StatusChange
<1>3. CASE StartVerb(p, x) BY <1>3, StartCardMoves DEF StartVerb
<1>4. CASE CancelCard(p, x) BY <1>1, <1>4 DEF CancelCard, cardVars
<1>5. CASE PauseCard(p, x) BY <1>5, MoveCardMoves DEF PauseCard, StatusChange
<1>6. CASE ResumeCard(p, x) BY <1>6, MoveCardMoves DEF ResumeCard, StatusChange
<1>7. CASE ApprovePlan(p, x) BY <1>7, MoveCardMoves DEF ApprovePlan, StatusChange
<1>8. CASE RejectReview(p, x) BY <1>8, MoveCardMoves DEF RejectReview, StatusChange
<1>9. ASSUME NEW to, ClaimStage(x, "needs_attention", to), UNCHANGED row
      PROVE  StatusChange(c)
  <2>1. Claimed(x) BY <1>9, ClaimIsClaimed
  <2>2. status'[c] = status[c] \/ (c = x /\ status[c] = "needs_attention")
    BY <1>9, MoveCardMoves DEF ClaimStage
  <2> QED BY <2>1, <2>2 DEF StatusChange
<1>10. CASE RetryFailedStep(p, x)
  <2>1. CASE MoveCard(x, "needs_attention", "ready") \/ MoveCard(x, "needs_attention", "todo")
    BY <2>1, MoveCardMoves DEF StatusChange
  <2> QED BY <1>1, <1>9, <1>10, <2>1 DEF RetryFailedStep
<1>11. CASE ApproveInstall(p, x)
  <2>1. CASE MoveCard(x, "needs_attention", "ready")
    BY <2>1, MoveCardMoves DEF StatusChange
  <2> QED BY <1>1, <1>9, <1>11, <2>1 DEF ApproveInstall
<1> QED BY <1>2, <1>3, <1>4, <1>5, <1>6, <1>7, <1>8, <1>10, <1>11 DEF Operator

LEMMA PumpMoves ==
  ASSUME MInv, NEW w \in Workers, Pump(w), NEW c \in Cards
  PROVE  StatusChange(c)
<1>. IInv BY DEF MInv
<1>1. ASSUME NEW x \in Cards, PumpEvaluation(w, x) PROVE StatusChange(c)
  BY <1>1, MoveCardMoves DEF PumpEvaluation, ClaimStage, StatusChange
<1>2. ASSUME NEW x \in Cards, NEW r \in Runs, PumpReady(w, x, r) PROVE StatusChange(c)
  <2>1. status'[c] = status[c] \/ (c = x /\ status[c] = "ready")
    BY <1>2, MoveCardMoves DEF PumpReady, ClaimLoopRun
  <2>2. \A d \in Cards \ {x} : status'[d] = status[d]
    BY <1>2, MoveCardMoves DEF PumpReady, ClaimLoopRun
  <2>3. Claimed(x)
    BY <1>2, <2>2 DEF IInv, TypeOK, PumpReady, ClaimLoopRun, Insert, Claimed
  <2> QED BY <2>1, <2>3 DEF StatusChange
<1>3. ASSUME NEW x \in Cards, PumpTodo(w, x) PROVE StatusChange(c)
  BY <1>3, StartCardMoves DEF PumpTodo, Procs
<1> QED BY <1>1, <1>2, <1>3 DEF Pump

LEMMA SegmentMoves ==
  ASSUME MInv, NEW p \in Procs, Segment(p), NEW c \in Cards
  PROVE  StatusChange(c)
<1>. IInv BY DEF MInv
<1>1. UNCHANGED status => StatusChange(c) BY DEF StatusChange
<1>2. seg[p].op # "idle" => seg[p].card \in Cards BY SegmentParts DEF IInv
<1>3. CASE PullSegment(p)
  BY <1>2, <1>3 DEF IInv, TypeOK, PullSegment, StatusChange
<1>4. CASE MoveSegment(p)
  BY <1>2, <1>4, MoveCardMoves DEF MInv, PendingMoves, MoveSegment, StatusChange, Running
<1>5. ASSUME NEW op, NEW from, NEW to, NEW k, MoveInto(p, op, from, to, k),
             op \in {"replan", "advance", "evaluate"}, "backlog" \notin from,
             from \subseteq Running \/ to \notin {"planning", "looping"}
      PROVE  StatusChange(c)
  <2>1. CASE status[seg[p].card] \in from
    BY <1>2, <1>5, <2>1, MoveCardMoves DEF MoveInto, StatusChange
  <2>2. CASE status[seg[p].card] \notin from
    BY <1>1, <1>5, <2>2 DEF MoveInto
  <2> QED BY <2>1, <2>2
<1>6. CASE ReplanSegment(p) BY <1>5, <1>6 DEF ReplanSegment, Running
<1>7. CASE AdvanceSegment(p) BY <1>5, <1>7 DEF AdvanceSegment
<1>8. CASE EvaluateSegment(p) BY <1>5, <1>8 DEF EvaluateSegment
<1>9. ASSUME NEW x \in Cards, NEW from, ParkOrResume(x, from) PROVE StatusChange(c)
  <2>1. CASE from \in Running
    BY <1>9, <2>1, MoveCardMoves DEF ParkOrResume, StatusChange, Running
  <2>2. CASE from \notin Running BY <1>1, <1>9, <2>2 DEF ParkOrResume
  <2> QED BY <2>1, <2>2
<1>10. CASE ParkSegment(p) \/ SweepSegment(p)
  BY <1>2, <1>9, <1>10 DEF ParkSegment, SweepSegment
<1> QED BY <1>1, <1>3, <1>4, <1>6, <1>7, <1>8, <1>10
        DEF Segment, CloseSegment, PauseSegment, QueueSegment, cardVars

\* A step moves a card in one of those ways only.
LEMMA StatusStep ==
  ASSUME MInv, [Next]_vars, NEW c \in Cards
  PROVE  StatusChange(c)
<1>. IInv BY DEF MInv
<1>1. UNCHANGED status => StatusChange(c) BY DEF StatusChange
<1>2. ASSUME NEW w \in Workers, StageBegins(w) PROVE StatusChange(c)
  <2>1. ASSUME NEW x \in Cards, NEW k \in StageKinds, StageThrows(w, x, k)
        PROVE  StatusChange(c)
    BY <2>1, MoveCardMoves DEF StageThrows, StatusChange, StageOf, Running
  <2> QED BY <1>1, <1>2, <2>1 DEF StageBegins, StageInserts
<1>3. ASSUME NEW r \in Runs, Session(r) PROVE UNCHANGED status
  BY <1>3
     DEF Session, StageEnds, StageAborts, StageFails, PlanSaved, PlanWritten, PlanThrows, PlanLost,
         CriticPasses, CriticRevises, EvaluatorPasses, EvaluatorRevises, LoopEnds,
         LoopThrows, LoopExits, LoopDone, LoopFails, LoopGate, LoopPauses, LoopDrains,
         WatchdogTrips, LoopRegisters, ControlPoll, cardVars
<1>4. ASSUME NEW w \in Workers, Liveliness(w) \/ Shutdown(w) PROVE UNCHANGED status
  BY <1>4
     DEF Liveliness, Beats, Ages, Boots, BootEnds, Reap, SweepOrphan, cardVars,
         Shutdown, Crashes, Drains, GivesUp, Exits, Releases
<1>5. ASSUME NEW p \in Procs, WebCrashes(p) PROVE UNCHANGED status
  BY <1>5 DEF WebCrashes, cardVars
<1> QED BY <1>1, <1>2, <1>3, <1>4, <1>5, OperatorMoves, PumpMoves, SegmentMoves
        DEF Next, vars

LEMMA ThenMoves ==
  ASSUME MInv, NEW p \in Procs, NEW s, Then(p, s) \/ UNCHANGED seg,
         s.op = "move" => s.from \in Running /\ s.to \notin Running,
         s.op = "sweep" => s.from \in Running
  PROVE  PendingMoves'
  BY DEF MInv, IInv, TypeOK, Then, PendingMoves

LEMMA SessionPends ==
  ASSUME MInv, NEW r \in Runs, Session(r)
  PROVE  PendingMoves'
<1>. IInv BY DEF MInv
<1>1. /\ row[r] \in Rows /\ row[r].card \in Cards /\ row[r].owner \in Procs
      /\ row[r].kind \in Kinds
  BY ResumesType
     DEF Session, StageEnds, StageAborts, StageFails, PlanSaved, PlanWritten, PlanThrows, PlanLost,
         CriticPasses, CriticRevises, EvaluatorPasses, EvaluatorRevises, LoopEnds,
         LoopThrows, LoopExits, LoopDone, LoopFails, LoopGate, LoopPauses, LoopDrains,
         WatchdogTrips, LoopRegisters, ControlPoll, Phases, Registered
<1>. DEFINE c == row[r].card
            w == row[r].owner
<1>2. UNCHANGED seg => PendingMoves' BY DEF MInv, PendingMoves
<1>3. ASSUME NEW from \in Running, NEW to \in Statuses \ Running, Then(w, Move(c, from, to))
      PROVE  PendingMoves'
  BY <1>1, <1>3, ThenMoves DEF Move
<1>4. ASSUME NEW op \in {"replan", "advance"}, Then(w, Do(op, c)) PROVE PendingMoves'
  BY <1>1, <1>4, ThenMoves DEF Do
<1>5. CASE StageEnds(r)
  <2>1. StageOf(row[r].kind) \in Running BY DEF StageOf, Running
  <2>2. PlanDestination \in Statuses \ Running
    BY DEF PlanDestination, Statuses, Running
  <2>3. "planning" \in Running /\ "evaluating" \in Running BY DEF Running
  <2>4. {"needs_attention", "plan_review", "ready", "review"} \subseteq Statuses \ Running
    BY DEF Statuses, Running
  <2> QED BY <1>2, <1>3, <1>4, <1>5, <2>1, <2>2, <2>3, <2>4
          DEF StageEnds, StageAborts, StageFails, PlanSaved, PlanWritten, PlanThrows, PlanLost,
              CriticPasses, CriticRevises, EvaluatorPasses, EvaluatorRevises
<1>6. CASE LoopEnds(r) \/ WatchdogTrips(r)
  <2>1. "looping" \in Running BY DEF Running
  <2>2. {"needs_attention", "ready"} \subseteq Statuses \ Running
    BY DEF Statuses, Running
  <2> QED BY <1>2, <1>3, <1>4, <1>6, <2>1, <2>2
          DEF LoopEnds, LoopThrows, LoopExits, LoopDone, LoopFails, LoopGate,
              LoopPauses, LoopDrains, WatchdogTrips
<1> QED BY <1>2, <1>5, <1>6 DEF Session, LoopRegisters, ControlPoll

LEMMA PendingStep ==
  ASSUME MInv, [Next]_vars
  PROVE  PendingMoves'
<1>. IInv BY DEF MInv
<1>1. UNCHANGED seg => PendingMoves' BY DEF MInv, PendingMoves
<1>2. ASSUME NEW p \in Procs, NEW s, Then(p, s), s.op \notin {"move", "sweep"}
      PROVE  PendingMoves'
  BY <1>2, ThenMoves
<1>3. ASSUME NEW p \in Procs, Leave(p) PROVE PendingMoves'
  BY <1>3 DEF MInv, IInv, TypeOK, Leave, PendingMoves, Idle
<1>4. ASSUME NEW p \in Procs, NEW c \in Cards, Operator(p, c) PROVE PendingMoves'
  <2>1. UNCHANGED seg \/ \E s : Then(p, s) /\ s.op \notin {"move", "sweep"}
    <3>0. Do("queue", c).op \notin {"move", "sweep"} /\ Do("evaluate", c).op \notin {"move", "sweep"}
      BY DEF Do
    <3>1. CASE RetryFailedStep(p, c)
      <4>1. UNCHANGED seg \/ Then(p, Do("queue", c)) \/ Then(p, Do("evaluate", c))
        BY <3>1 DEF RetryFailedStep
      <4> QED BY <3>0, <4>1
    <3>2. CASE ApproveInstall(p, c)
      <4>1. UNCHANGED seg \/ Then(p, Do("queue", c))
        BY <3>2 DEF ApproveInstall
      <4> QED BY <3>0, <4>1
    <3>3. CASE PauseCard(p, c) BY <3>3 DEF PauseCard, Do
    <3>4. CASE CancelCard(p, c)
      <4>1. ASSUME NEW r \in Runs, Then(p, [op |-> "close", card |-> c, run |-> r])
            PROVE  \E s : Then(p, s) /\ s.op \notin {"move", "sweep"}
        <5>. DEFINE s == [op |-> "close", card |-> c, run |-> r]
        <5>1. Then(p, s) /\ s.op \notin {"move", "sweep"} BY <4>1
        <5> QED BY <5>1
      <4>2. Do("pull", c).op \notin {"move", "sweep"} BY DEF Do
      <4> QED BY <3>4, <4>1, <4>2 DEF CancelCard
    <3> QED BY <1>4, <3>1, <3>2, <3>3, <3>4
            DEF Operator, QueueCard, StartVerb, StartCard, ResumeCard, ApprovePlan,
                RejectReview
  <2> QED BY <1>1, <1>2, <2>1
<1>5. ASSUME NEW p \in Procs, Segment(p) PROVE PendingMoves'
  <2>1. CASE CloseSegment(p) BY <1>2, <2>1 DEF CloseSegment, Do
  <2> QED BY <1>3, <1>5, <2>1
      DEF Segment, PullSegment, QueueSegment, MoveSegment, ReplanSegment, PauseSegment,
          AdvanceSegment, EvaluateSegment, MoveInto, ParkSegment, SweepSegment
<1>6. ASSUME NEW p \in Procs, WebCrashes(p) PROVE PendingMoves'
  BY <1>3, <1>6 DEF WebCrashes
<1>7. ASSUME NEW w \in Workers, Pump(w) \/ StageBegins(w) PROVE UNCHANGED seg
  BY <1>7 DEF Pump, PumpEvaluation, PumpReady, PumpTodo, StartCard, StageBegins,
     StageInserts, StageThrows
<1>8. ASSUME NEW w \in Workers, Liveliness(w) \/ Shutdown(w) PROVE PendingMoves'
  <2>. w \in Procs BY DEF Procs
  <2>1. ASSUME NEW r \in Runs, Interrupt(w, r) PROVE PendingMoves'
    BY <1>2, <2>1 DEF Interrupt, Do
  <2>2. ASSUME NEW c \in Cards, SweepOrphan(w, c) PROVE PendingMoves'
    BY <2>2, ThenMoves DEF SweepOrphan
  <2>3. Dies(w) => PendingMoves'
    BY <1>3 DEF Dies, Leave
  <2> QED BY <1>1, <1>8, <2>1, <2>2, <2>3
      DEF Liveliness, Beats, Ages, Boots, BootEnds, Reap, Shutdown, Crashes, Drains,
          GivesUp, Exits, Releases
<1> QED BY <1>1, <1>4, <1>5, <1>6, <1>7, <1>8, SessionPends DEF Next, vars

LEMMA MovesInductive ==
  /\ Init => MInv
  /\ MInv /\ [Next]_vars => MInv'
<1>1. Init => PendingMoves BY DEF Init, PendingMoves, Idle
<1> QED BY <1>1, Inductive, PendingStep DEF MInv

\* A card pulled back to Backlog stays there until an operator queues it: no
\* late continuation, reaper, sweep or pump of any process moves it.
THEOREM PulledBack == Spec => PulledBackStays
<1>1. ASSUME MInv, [Next]_vars, NEW c \in Cards, status[c] = "backlog"
      PROVE  status'[c] \in {"backlog", "todo"}
  BY <1>1, StatusStep DEF StatusChange
<1>2. MInv /\ [Next]_vars =>
        [\A c \in Cards : status[c] = "backlog" => status'[c] \in {"backlog", "todo"}]_vars
  BY <1>1
<1> QED BY <1>2, MovesInductive, PTL DEF Spec, PulledBackStays

\* A claim that read a load below the cap leaves one not above it.
LEMMA ClaimedLoad ==
  ASSUME MInv, NEW c \in Cards, Claimed(c)
  PROVE  Load' <= Limit
<1>. DEFINE S == {d \in Cards : status[d] \in Running \/ HasRunningRow(d)}
            T == {d \in Cards : status'[d] \in Running \/ HasRunningRow(d)'}
<1>1. T \subseteq S \cup {c}
  BY DEF Claimed, HasRunningRow, RunningRow
<1>2. IsFiniteSet(S)
  <2>1. S \subseteq Cards OBVIOUS
  <2> QED BY <2>1, PipelineAssumption, FS_Subset
<1>3. /\ IsFiniteSet(S \cup {c})
      /\ Cardinality(S \cup {c}) = Cardinality(S)
           \/ Cardinality(S \cup {c}) = Cardinality(S) + 1
  BY <1>2, FS_AddElement
<1>. HIDE DEF S, T
<1>4. /\ Cardinality(S) \in Nat /\ Cardinality(S \cup {c}) \in Nat
      /\ Cardinality(T) \in Nat /\ Cardinality(T) <= Cardinality(S \cup {c})
  <2>1. IsFiniteSet(T) /\ Cardinality(T) <= Cardinality(S \cup {c})
    BY <1>1, <1>3, FS_Subset
  <2> QED BY <1>2, <1>3, <2>1, FS_CardinalityType
<1>5. Load = Cardinality(S) /\ Load' = Cardinality(T) BY DEF Load, S, T
<1>6. Limit \in Nat /\ Cardinality(S) < Limit
  BY <1>5, PipelineAssumption DEF Claimed
<1> QED BY <1>3, <1>4, <1>5, <1>6

\* No pump of any worker starts a card past its repository's cap: planning and
\* the loop are entered only in a transaction that counted the load again.
THEOREM ClaimsWithinTheCap == Spec => ClaimsWithinCap
<1>1. ASSUME MInv, [Next]_vars, NEW c \in Cards, Enters(c, {"planning", "looping"})
      PROVE  Load' <= Limit
  <2>1. Claimed(c)
    BY <1>1, StatusStep DEF Enters, StatusChange, Running
  <2> QED BY <1>1, <2>1, ClaimedLoad
<1>2. MInv /\ [Next]_vars =>
        [\A c \in Cards : Enters(c, {"planning", "looping"}) => Load' <= Limit]_vars
  BY <1>1
<1> QED BY <1>2, MovesInductive, PTL DEF Spec, ClaimsWithinCap

-----------------------------------------------------------------------------
(* The living and their runs, while no process stalls.                     *)

Alive(w) == worker[w] \notin {"new", "gone"}

\* A process that runs is fresh, and only one that runs holds functions.
HeldByTheLiving ==
  /\ \A w \in Workers : Alive(w) => heartbeat[w] = "fresh"
  /\ \A r \in Runs : session[r] # "none" => Alive(row[r].owner)

LInv == IInv /\ HeldByTheLiving

\* No function changes hands: the step only ends functions.
SessionsKept ==
  \A r \in Runs : session'[r] # "none" =>
    session[r] # "none" /\ row'[r].owner = row[r].owner

LEMMA SessionsStay ==
  ASSUME IInv, NEW r \in Runs, Session(r)
  PROVE  SessionsKept
<1>1. row[r] \in Rows /\ session[r] # "none"
  BY ResumesType
     DEF Session, StageEnds, StageAborts, StageFails, PlanSaved, PlanWritten, PlanThrows, PlanLost,
         CriticPasses, CriticRevises, EvaluatorPasses, EvaluatorRevises, LoopEnds,
         LoopThrows, LoopExits, LoopDone, LoopFails, LoopGate, LoopPauses, LoopDrains,
         WatchdogTrips, LoopRegisters, ControlPoll, Phases, Registered, Resumes
<1>2. ASSUME NEW st, NEW offer, NEW sess, FinishRun(r, st, offer, sess)
      PROVE  SessionsKept
  <2>1. session' = [session EXCEPT ![r] = sess] /\ CloseRow(r, sess)
    BY <1>2 DEF FinishRun
  <2>2. \A q \in Runs \ {r} : row'[q] = row[q]
    BY <1>1, <2>1, CloseRowType DEF IInv
  <2>3. sess # "none" => row'[r].owner = row[r].owner
    BY <1>1, <2>1 DEF IInv, TypeOK, CloseRow, Rows
  <2> QED BY <1>1, <2>1, <2>2, <2>3 DEF IInv, TypeOK, SessionsKept
<1>3. EndSession(r) => SessionsKept
  BY DEF IInv, TypeOK, EndSession, SessionsKept
<1>4. CASE LoopThrows(r)
  <2>1. ASSUME NEW q \in Runs, RunningRow(row[r].card, q),
               session' = [i \in Runs |->
                 IF i = r THEN "none"
                 ELSE IF i = q /\ session[q] \in Registered /\ row[q].owner = row[r].owner THEN "aborted"
                 ELSE session[i]],
               row' = [i \in Runs |->
                 IF i = q /\ session'[q] # "none"
                 THEN [row[q] EXCEPT !.st = "closed", !.control = "cancel"]
                 ELSE IF i = q \/ (i = r /\ row[r].st # "running") THEN Free
                 ELSE row[i]]
        PROVE  SessionsKept
    <3>1. row[q] \in Rows BY <2>1, RowOfSession DEF RunningRow
    <3>2. [row[q] EXCEPT !.st = "closed", !.control = "cancel"].owner = row[q].owner
      BY <3>1 DEF Rows
    <3>3. session' \in [Runs -> Phases] /\ session'[r] = "none"
          /\ \A i \in Runs \ {q, r} : session'[i] = session[i]
      BY <2>1 DEF IInv, TypeOK, Phases
    <3>4. session'[q] # "none" => session[q] # "none"
      BY <2>1 DEF IInv, TypeOK, Registered
    <3>5. \A i \in Runs : session'[i] # "none" => row'[i].owner = row[i].owner
      BY <2>1, <3>2, <3>3
    <3> QED BY <3>3, <3>4, <3>5 DEF SessionsKept
  <2> QED BY <1>3, <1>4, <2>1 DEF LoopThrows
<1>5. CASE LoopRegisters(r)
  BY <1>1, <1>5 DEF IInv, TypeOK, LoopRegisters, SessionsKept
<1>6. CASE ControlPoll(r)
  BY <1>1, <1>6 DEF IInv, TypeOK, ControlPoll, SessionsKept, Rows
<1>7. CASE PlanSaved(r)
  BY <1>1, <1>7 DEF IInv, TypeOK, PlanSaved, SessionsKept
<1>8. CASE StageEnds(r)
  BY <1>2, <1>3, <1>7, <1>8
     DEF StageEnds, StageAborts, StageFails, PlanWritten, PlanThrows, PlanLost,
         CriticPasses, CriticRevises, EvaluatorPasses, EvaluatorRevises
<1>9. CASE LoopEnds(r) \/ WatchdogTrips(r)
  BY <1>2, <1>3, <1>4, <1>9
     DEF LoopEnds, LoopExits, LoopDone, LoopFails, LoopGate, LoopPauses, LoopDrains,
         WatchdogTrips
<1> QED BY <1>5, <1>6, <1>8, <1>9 DEF Session

LEMMA SegmentSessions ==
  ASSUME IInv, NEW p \in Procs, Segment(p)
  PROVE  SessionsKept
<1>1. UNCHANGED <<row, session>> => SessionsKept BY DEF SessionsKept
<1>2. CASE CloseSegment(p)
  <2>. DEFINE r == seg[p].run
  <2>1. r \in Runs BY <1>2, SegmentParts DEF IInv, CloseSegment
  <2>2. RunningRow(seg[p].card, r) => row[r] \in Rows
    BY <2>1, RowOfSession DEF RunningRow
  <2>3. \/ UNCHANGED <<row, session>>
        \/ session[r] = "none" /\ session' = session /\ row' = [row EXCEPT ![r] = Free]
        \/ /\ session[r] # "none" /\ row[r] \in Rows
           /\ row' = [row EXCEPT ![r] = [row[r] EXCEPT !.st = "closed", !.control = "cancel"]]
           /\ session' = session \/ session' = [session EXCEPT ![r] = "aborted"]
    BY <1>2, <2>1, <2>2 DEF CloseSegment, IInv, TypeOK, Registered
  <2>4. row[r] \in Rows =>
          [row[r] EXCEPT !.st = "closed", !.control = "cancel"].owner = row[r].owner
    BY DEF Rows
  <2> QED BY <2>1, <2>3, <2>4 DEF IInv, TypeOK, SessionsKept
<1>3. CASE PauseSegment(p)
  <2>1. \A r \in Runs : RunningRow(seg[p].card, r) => row[r] \in Rows
    BY RowOfSession DEF RunningRow
  <2> QED BY <1>3, <2>1 DEF PauseSegment, SessionsKept, Rows
<1> QED BY <1>1, <1>2, <1>3
        DEF Segment, PullSegment, QueueSegment, MoveSegment, ReplanSegment,
            AdvanceSegment, EvaluateSegment, MoveInto, ParkSegment, SweepSegment

LEMMA InterruptSessions ==
  ASSUME IInv, NEW w \in Workers, NEW r \in Runs, Interrupt(w, r), UNCHANGED session
  PROVE  SessionsKept
<1>1. row[r] \in Rows BY RowOfSession DEF Interrupt
<1>2. \A q \in Runs \ {r} : row'[q] = row[q]
  BY <1>1, CloseRowType DEF Interrupt, IInv
<1>3. session[r] # "none" => row'[r].owner = row[r].owner
  BY <1>1 DEF IInv, TypeOK, Interrupt, CloseRow, Rows
<1> QED BY <1>2, <1>3 DEF SessionsKept

\* Where functions are only ended and nobody dies or falls silent.
LEMMA KeptLiving ==
  ASSUME LInv, SessionsKept,
         \A v \in Workers : (Alive(v) => Alive(v)') /\ (Alive(v)' => heartbeat'[v] = "fresh")
  PROVE  HeldByTheLiving'
<1>1. ASSUME NEW r \in Runs, session'[r] # "none" PROVE Alive(row[r].owner)'
  <2>1. session[r] # "none" /\ row'[r].owner = row[r].owner
    BY <1>1 DEF SessionsKept
  <2>2. row[r].owner \in Workers
    BY <2>1, RowOfSession, RowParts DEF LInv
  <2> QED BY <2>1, <2>2 DEF LInv, HeldByTheLiving, Alive
<1> QED BY <1>1 DEF HeldByTheLiving, Alive

LEMMA SameLiving ==
  ASSUME LInv, UNCHANGED procVars, SessionsKept
  PROVE  HeldByTheLiving'
  BY KeptLiving DEF LInv, HeldByTheLiving, procVars, Alive

LEMMA ShutdownLiving ==
  ASSUME LInv, NEW w \in Workers, Shutdown(w)
  PROVE  HeldByTheLiving'
<1>. IInv BY DEF LInv
<1>1. ASSUME Dies(w), \A v \in Workers \ {w} : heartbeat'[v] = heartbeat[v]
      PROVE  HeldByTheLiving'
  <2>1. \A v \in Workers : Alive(v)' => v # w /\ Alive(v)
    BY <1>1 DEF IInv, TypeOK, Dies, Alive
  <2>2. \A r \in Runs : session'[r] # "none" =>
          session[r] # "none" /\ row'[r] = row[r] /\ row[r].owner # w
    BY <1>1 DEF IInv, TypeOK, Dies
  <2>3. \A r \in Runs : session'[r] # "none" => worker'[row'[r].owner] = worker[row[r].owner]
    BY <1>1, <2>2 DEF IInv, TypeOK, Dies
  <2> QED BY <1>1, <2>1, <2>2, <2>3 DEF LInv, HeldByTheLiving, Alive
<1>2. CASE Drains(w) \/ GivesUp(w)
  BY <1>2, KeptLiving
     DEF LInv, IInv, TypeOK, HeldByTheLiving, Drains, GivesUp, Alive, SessionsKept
<1>3. CASE Crashes(w) BY <1>1, <1>3 DEF Crashes
<1>4. CASE Exits(w) BY <1>1, <1>4 DEF Exits, IInv, TypeOK
<1>5. ASSUME NEW r \in Runs, Releases(w, r) PROVE HeldByTheLiving'
  BY <1>5, InterruptSessions, SameLiving DEF Releases
<1> QED BY <1>2, <1>3, <1>4, <1>5 DEF Shutdown

LEMMA BeginsLiving ==
  ASSUME LInv, NEW w \in Workers, Pump(w) \/ StageBegins(w)
  PROVE  HeldByTheLiving'
<1>. IInv BY DEF LInv
<1>1. ASSUME NEW c \in Cards, NEW k, NEW r \in Runs, NEW ph, Insert(r, c, k, w), Alive(w),
             session' = [session EXCEPT ![r] = ph], UNCHANGED procVars
      PROVE  HeldByTheLiving'
  <2>1. \A q \in Runs \ {r} : row'[q] = row[q] /\ session'[q] = session[q]
    BY <1>1 DEF IInv, TypeOK, Insert
  <2>2. row'[r].owner = w BY <1>1 DEF IInv, TypeOK, Insert
  <2> QED BY <1>1, <2>1, <2>2 DEF LInv, HeldByTheLiving, procVars, Alive
<1>2. UNCHANGED <<row, session, procVars>> => HeldByTheLiving'
  BY SameLiving DEF SessionsKept
<1>3. CASE Pump(w)
  <2>1. ASSUME NEW c \in Cards, NEW r \in Runs, PumpReady(w, c, r) PROVE HeldByTheLiving'
    BY <1>1, <2>1 DEF PumpReady, ClaimLoopRun, Pumping, Alive
  <2> QED BY <1>2, <1>3, <2>1 DEF Pump, PumpEvaluation, PumpTodo, StartCard
<1>4. CASE StageBegins(w)
  <2>1. ASSUME NEW c \in Cards, NEW k \in StageKinds, NEW r \in Runs, StageInserts(w, c, k, r)
        PROVE  HeldByTheLiving'
    BY <1>1, <1>2, <2>1 DEF StageInserts, Awake, Alive
  <2> QED BY <1>2, <1>4, <2>1 DEF StageBegins, StageThrows
<1> QED BY <1>3, <1>4

LEMMA LivingStep ==
  ASSUME "stall" \notin Faults, LInv, [Next]_vars
  PROVE  HeldByTheLiving'
<1>. IInv BY DEF LInv
<1>1. UNCHANGED <<row, session, procVars>> => HeldByTheLiving'
  BY SameLiving DEF SessionsKept
<1>2. ASSUME NEW p \in Procs, NEW c \in Cards, Operator(p, c)
      PROVE  UNCHANGED <<row, session, procVars>>
  BY <1>2 DEF Operator, QueueCard, StartVerb, StartCard, CancelCard, PauseCard,
     ResumeCard, ApprovePlan, RejectReview, RetryFailedStep, ApproveInstall
<1>3. ASSUME NEW p \in Procs, WebCrashes(p) PROVE UNCHANGED <<row, session, procVars>>
  BY <1>3 DEF WebCrashes
<1>4. ASSUME NEW p \in Procs, Segment(p) PROVE HeldByTheLiving'
  <2>1. UNCHANGED procVars
    BY <1>4
       DEF Segment, PullSegment, QueueSegment, MoveSegment, ReplanSegment, PauseSegment,
           AdvanceSegment, EvaluateSegment, MoveInto, ParkSegment, SweepSegment, CloseSegment
  <2> QED BY <1>4, <2>1, SegmentSessions, SameLiving
<1>5. ASSUME NEW r \in Runs, Session(r) PROVE HeldByTheLiving'
  <2>1. UNCHANGED procVars
    BY <1>5
       DEF Session, StageEnds, StageAborts, StageFails, PlanSaved, PlanWritten, PlanThrows, PlanLost,
           CriticPasses, CriticRevises, EvaluatorPasses, EvaluatorRevises, LoopEnds,
           LoopThrows, LoopExits, LoopDone, LoopFails, LoopGate, LoopPauses, LoopDrains,
           WatchdogTrips, LoopRegisters, ControlPoll
  <2> QED BY <1>5, <2>1, SessionsStay, SameLiving
<1>6. ASSUME NEW w \in Workers, Liveliness(w) PROVE HeldByTheLiving'
  <2>1. ASSUME NEW r \in Runs, Reap(w, r) PROVE HeldByTheLiving'
    BY <2>1, InterruptSessions, SameLiving DEF Reap
  <2>2. CASE Beats(w) \/ Ages(w) \/ Boots(w) \/ BootEnds(w)
    <3>1. SessionsKept BY <2>2 DEF Beats, Ages, Boots, BootEnds, SessionsKept
    <3>2. ASSUME NEW v \in Workers
          PROVE  (Alive(v) => Alive(v)') /\ (Alive(v)' => heartbeat'[v] = "fresh")
      BY <2>2 DEF LInv, IInv, TypeOK, HeldByTheLiving, Beats, Ages, Boots, BootEnds, Alive
    <3> QED BY <3>1, <3>2, KeptLiving
  <2> QED BY <1>1, <1>6, <2>1, <2>2 DEF Liveliness, SweepOrphan
<1> QED BY <1>1, <1>2, <1>3, <1>4, <1>5, <1>6, BeginsLiving, ShutdownLiving
        DEF Next, vars, procVars

-----------------------------------------------------------------------------
(* A function that works on keeps its row.                                 *)

\* The step takes no row from a working function without asking it to stop.
CutsAsk == \A q \in Runs : CutOff(q) => row'[q].control = "cancel"

LEMMA NothingCloses ==
  ASSUME \A q \in Runs : row[q].st = "running" => row'[q].st = "running"
  PROVE  CutsAsk
  BY DEF CutsAsk, CutOff

LEMMA SessionCuts ==
  ASSUME IInv, NEW r \in Runs, Session(r)
  PROVE  CutsAsk
<1>1. row[r] \in Rows
  BY ResumesType
     DEF Session, StageEnds, StageAborts, StageFails, PlanSaved, PlanWritten, PlanThrows, PlanLost,
         CriticPasses, CriticRevises, EvaluatorPasses, EvaluatorRevises, LoopEnds,
         LoopThrows, LoopExits, LoopDone, LoopFails, LoopGate, LoopPauses, LoopDrains,
         WatchdogTrips, LoopRegisters, ControlPoll, Phases, Registered, Resumes
<1>2. ASSUME NEW st, NEW offer, NEW sess \in {"none", "aborted"}, FinishRun(r, st, offer, sess)
      PROVE  CutsAsk
  <2>1. session'[r] = sess /\ CloseRow(r, sess)
    BY <1>2 DEF FinishRun, IInv, TypeOK
  <2>2. \A q \in Runs \ {r} : row'[q] = row[q]
    BY <1>1, <2>1, CloseRowType DEF IInv
  <2> QED BY <1>2, <2>1, <2>2 DEF CutsAsk, CutOff, AtWork
<1>3. EndSession(r) => CutsAsk
  BY NothingCloses DEF IInv, TypeOK, EndSession
<1>4. CASE LoopThrows(r)
  <2>1. ASSUME NEW q \in Runs, RunningRow(row[r].card, q),
               session' = [i \in Runs |->
                 IF i = r THEN "none"
                 ELSE IF i = q /\ session[q] \in Registered /\ row[q].owner = row[r].owner THEN "aborted"
                 ELSE session[i]],
               row' = [i \in Runs |->
                 IF i = q /\ session'[q] # "none"
                 THEN [row[q] EXCEPT !.st = "closed", !.control = "cancel"]
                 ELSE IF i = q \/ (i = r /\ row[r].st # "running") THEN Free
                 ELSE row[i]]
        PROVE  CutsAsk
    <3>1. row[q] \in Rows BY <2>1, RowOfSession DEF RunningRow
    <3>2. [row[q] EXCEPT !.st = "closed", !.control = "cancel"].control = "cancel"
      BY <3>1 DEF Rows
    <3>3. \A i \in Runs \ {q} : row[i].st = "running" => row'[i] = row[i]
      BY <2>1
    <3>4. session'[q] # "none" => row'[q].control = "cancel"
      BY <2>1, <3>2
    <3> QED BY <3>3, <3>4 DEF CutsAsk, CutOff, AtWork
  <2> QED BY <1>3, <1>4, <2>1 DEF LoopThrows
<1>5. CASE LoopRegisters(r) \/ PlanSaved(r)
  BY <1>5, NothingCloses DEF LoopRegisters, PlanSaved
<1>6. CASE ControlPoll(r)
  BY <1>1, <1>6, NothingCloses DEF IInv, TypeOK, ControlPoll, Rows
<1>7. CASE StageEnds(r)
  BY <1>2, <1>3, <1>5, <1>7
     DEF StageEnds, StageAborts, StageFails, PlanWritten, PlanThrows, PlanLost,
         CriticPasses, CriticRevises, EvaluatorPasses, EvaluatorRevises
<1>8. CASE LoopEnds(r) \/ WatchdogTrips(r)
  BY <1>2, <1>3, <1>4, <1>8
     DEF LoopEnds, LoopExits, LoopDone, LoopFails, LoopGate, LoopPauses, LoopDrains,
         WatchdogTrips
<1> QED BY <1>5, <1>6, <1>7, <1>8 DEF Session

LEMMA SegmentCuts ==
  ASSUME IInv, NEW p \in Procs, Segment(p)
  PROVE  CutsAsk
<1>1. UNCHANGED row => CutsAsk BY NothingCloses
<1>2. CASE CloseSegment(p)
  <2>. DEFINE r == seg[p].run
  <2>1. r \in Runs BY <1>2, SegmentParts DEF IInv, CloseSegment
  <2>2. RunningRow(seg[p].card, r) => row[r] \in Rows
    BY <2>1, RowOfSession DEF RunningRow
  <2>3. \/ UNCHANGED row
        \/ session[r] = "none" /\ session' = session /\ row' = [row EXCEPT ![r] = Free]
        \/ /\ row[r] \in Rows
           /\ row' = [row EXCEPT ![r] = [row[r] EXCEPT !.st = "closed", !.control = "cancel"]]
    BY <1>2, <2>1, <2>2 DEF CloseSegment, IInv, TypeOK, Registered
  <2>4. row[r] \in Rows =>
          [row[r] EXCEPT !.st = "closed", !.control = "cancel"].control = "cancel"
    BY DEF Rows
  <2> HIDE DEF r
  <2> QED BY <2>1, <2>3, <2>4 DEF IInv, TypeOK, CutsAsk, CutOff, AtWork
<1>3. CASE PauseSegment(p)
  <2>1. \A r \in Runs : RunningRow(seg[p].card, r) => row[r] \in Rows
    BY RowOfSession DEF RunningRow
  <2> QED BY <1>3, <2>1, NothingCloses DEF PauseSegment, Rows
<1> QED BY <1>1, <1>2, <1>3
        DEF Segment, PullSegment, QueueSegment, MoveSegment, ReplanSegment,
            AdvanceSegment, EvaluateSegment, MoveInto, ParkSegment, SweepSegment

\* Only a reaper and a worker that lets go close a row without asking.
LEMMA WhoCuts ==
  ASSUME IInv, [Next]_vars
  PROVE  \/ CutsAsk
         \/ \E w \in Workers, r \in Runs : Reap(w, r) \/ Releases(w, r)
<1>1. UNCHANGED row => CutsAsk BY NothingCloses
<1>2. ASSUME NEW p \in Procs, NEW c \in Cards, Operator(p, c) PROVE UNCHANGED row
  BY <1>2 DEF Operator, QueueCard, StartVerb, StartCard, CancelCard, PauseCard,
     ResumeCard, ApprovePlan, RejectReview, RetryFailedStep, ApproveInstall
<1>3. ASSUME NEW w \in Workers, Pump(w) \/ StageBegins(w) PROVE CutsAsk
  <2>1. ASSUME NEW r \in Runs, NEW c \in Cards, NEW k, Insert(r, c, k, w) PROVE CutsAsk
    BY <2>1, NothingCloses DEF Insert, FreeSlot, Free, IInv, TypeOK
  <2> QED BY <1>1, <1>3, <2>1
          DEF Pump, PumpEvaluation, PumpReady, ClaimLoopRun, PumpTodo, StartCard,
              StageBegins, StageInserts, StageThrows
<1>4. ASSUME NEW w \in Workers, Shutdown(w), \A r \in Runs : ~Releases(w, r) PROVE CutsAsk
  <2>1. Dies(w) => CutsAsk
    BY NothingCloses DEF Dies
  <2> QED BY <1>1, <1>4, <2>1 DEF Shutdown, Crashes, Drains, GivesUp, Exits
<1>5. ASSUME NEW w \in Workers, Liveliness(w), \A r \in Runs : ~Reap(w, r) PROVE CutsAsk
  BY <1>1, <1>5 DEF Liveliness, Beats, Ages, Boots, BootEnds, SweepOrphan
<1>6. ASSUME NEW p \in Procs, WebCrashes(p) PROVE UNCHANGED row
  BY <1>6 DEF WebCrashes
<1> QED BY <1>1, <1>2, <1>3, <1>4, <1>5, <1>6, SegmentCuts, SessionCuts DEF Next, vars

\* The three reasons LiveRunsNotReaped allows.
Excused(r) ==
  LET w == row[r].owner IN
  \/ row'[r].control = "cancel"
  \/ worker[w] = "exiting" /\ seg'[w] = Do("park", row[r].card)
  \/ "stall" \in Faults /\ heartbeat[w] = "stale" /\ seg'[w] = seg[w]

\* Interrupting a run closes no other's row, and only a running one's.
LEMMA InterruptCuts ==
  ASSUME IInv, NEW w \in Workers, NEW r \in Runs, Interrupt(w, r), UNCHANGED session,
         NEW q \in Runs, CutOff(q)
  PROVE  q = r /\ row[r] \in Rows /\ row[r].owner \in Workers /\ session[r] # "none"
<1>1. row[r] \in Rows BY RowOfSession DEF Interrupt
<1>2. \A i \in Runs \ {r} : row'[i] = row[i]
  BY <1>1, CloseRowType DEF Interrupt, IInv
<1> QED BY <1>1, <1>2, RowParts DEF CutOff, AtWork

\* A function that works on has its row closed only by somebody who asks it to
\* stop, by its own process as it exits, or, if processes may stall, by a peer
\* for whom it has gone silent.  Where nobody stalls a reaper takes only the
\* runs of the dead: a live worker is fresh, and only a live one has functions.
THEOREM OnlyTheDeadAreReaped == Spec => LiveRunsNotReaped
<1>. DEFINE Held == "stall" \notin Faults => HeldByTheLiving
<1>1. Init => Held
  BY DEF Init, HeldByTheLiving, Alive
<1>2. IInv /\ Held /\ [Next]_vars => Held'
  BY LivingStep DEF LInv
<1>3. ASSUME IInv, Held, [Next]_vars, NEW q \in Runs, CutOff(q)
      PROVE  Excused(q)
  <2>1. CASE CutsAsk
    BY <1>3, <2>1 DEF CutsAsk, Excused
  <2>2. ASSUME NEW w \in Workers, NEW r \in Runs, Reap(w, r) PROVE Excused(q)
    <3>1. q = r /\ row[r] \in Rows /\ row[r].owner \in Workers /\ session[r] # "none"
      BY <1>3, <2>2, InterruptCuts DEF Reap
    <3>2. heartbeat[row[r].owner] = "stale" /\ row[r].owner # w
      BY <1>3, <2>2, <3>1 DEF Reap, Live, IInv, TypeOK
    <3>3. "stall" \in Faults
      BY <1>3, <3>1, <3>2 DEF HeldByTheLiving
    <3>4. seg'[row[r].owner] = seg[row[r].owner]
      BY <1>3, <2>2, <3>1, <3>2 DEF Reap, Interrupt, Then, IInv, TypeOK, Procs
    <3> QED BY <3>1, <3>2, <3>3, <3>4 DEF Excused
  <2>3. ASSUME NEW w \in Workers, NEW r \in Runs, Releases(w, r) PROVE Excused(q)
    <3>1. q = r
      BY <1>3, <2>3, InterruptCuts DEF Releases
    <3>2. worker[row[r].owner] = "exiting" /\ seg'[row[r].owner] = Do("park", row[r].card)
      BY <1>3, <2>3 DEF Releases, Interrupt, Then, IInv, TypeOK, Procs
    <3> QED BY <3>1, <3>2 DEF Excused
  <2> QED BY <1>3, <2>1, <2>2, <2>3, WhoCuts
<1>4. IInv /\ Held /\ [Next]_vars => [\A r \in Runs : CutOff(r) =>
       LET w == row[r].owner IN
       \/ row'[r].control = "cancel"
       \/ worker[w] = "exiting" /\ seg'[w] = Do("park", row[r].card)
       \/ "stall" \in Faults /\ heartbeat[w] = "stale" /\ seg'[w] = seg[w]]_vars
  BY <1>3 DEF Excused
<1> QED BY <1>1, <1>2, <1>4, Inductive, PTL DEF Spec, LiveRunsNotReaped

-----------------------------------------------------------------------------
(* Where one process does everything: the server started with both roles.  *)

\* One process that serves the operators and runs the agents.  It is not killed
\* and does not drain, no install gate stops a loop, and no loop throws after
\* somebody closed its run; its heartbeat may be late.
OneProcess(w) ==
  /\ w \in Workers /\ Workers = {w} /\ Web = {} /\ Later = {}
  /\ Faults \subseteq {"stall"}

-----------------------------------------------------------------------------
(* The inductive invariant.                                                *)

RunningLoop(r) == row[r].st = "running" /\ row[r].kind = "loop"
LoopRunning(c) == \E r \in Runs : RunningLoop(r) /\ row[r].card = c

\* Who is told to stop has lost its run to whoever told it.
AbortedIsClosed ==
  \A r \in Runs : session[r] = "aborted" \/ row[r].control = "cancel" => row[r].st # "running"

\* A running loop is its card's only running run, and its card is in the loop or
\* paused there: paused, once the loop is asked to pause.  A card in the loop has
\* no other run.
LoopsAreLooping ==
  \A r \in Runs : RunningLoop(r) =>
    /\ status[row[r].card] \in {"looping", "paused"}
    /\ row[r].control = "pause" => status[row[r].card] = "paused"
LoopRunsAlone ==
  \A q, r \in Runs : RunningLoop(r) /\ RunningRow(row[r].card, q) => q = r
LoopingRunsLoops ==
  \A r \in Runs :
    row[r].st = "running" /\ status[row[r].card] = "looping" => row[r].kind = "loop"

\* A segment that is under way still finds what it has read: in one process
\* nothing comes between its writes.
SegmentFollows(w) ==
  LET s == seg[w]
  IN /\ s.op \notin {"park", "sweep"}
     /\ s.op = "close" => RunningRow(s.card, s.run)
     /\ s.op \in {"pull", "advance"} \/ (s.op = "move" /\ s.from = "looping")
        => ~LoopRunning(s.card)
     /\ s.op \in {"queue", "evaluate"} => status[s.card] = "needs_attention"
     /\ s.op = "pause" => status[s.card] = "paused"

\* What will take the card out of the stage that it is in: the segment under
\* way, or a function of this stage with its row, or before it.
Taking(w, c) ==
  LET s == seg[w]
  IN /\ \/ s.op \in {"close", "pull"}
        \/ s.op = "move" /\ s.from = status[c]
        \/ s.op = "replan" /\ status[c] = "evaluating"
        \/ s.op = "advance" /\ status[c] = "looping"
     /\ s.card = c
StageFor(k) == IF k = "loop" THEN "looping" ELSE StageOf(k)
HasStageRow(c) == \E r \in Runs : RunningRow(c, r) /\ StageFor(row[r].kind) = status[c]
Prepared(w, c) == \E k \in StageKinds : prep[w][c][k] > 0 /\ StageOf(k) = status[c]
StagesAreAttended(w) ==
  \A c \in Cards : status[c] \in Running => Taking(w, c) \/ HasStageRow(c) \/ Prepared(w, c)

RunsAreHeld == \A r \in Runs : row[r].st = "running" => session[r] # "none"

Alone(w) ==
  /\ worker[w] = "up"
  /\ AbortedIsClosed /\ LoopsAreLooping /\ LoopRunsAlone /\ LoopingRunsLoops
  /\ SegmentFollows(w) /\ StagesAreAttended(w) /\ RunsAreHeld

\* The steps of the invariant's proof have the types and the pending moves too.
AInv(w) == MInv /\ Alone(w)

-----------------------------------------------------------------------------
(* Three kinds of steps.                                                   *)

LEMMA StagesOfKinds ==
  /\ \A k \in StageKinds : StageOf(k) \in {"planning", "evaluating"} /\ StageFor(k) = StageOf(k)
  /\ StageFor("loop") = "looping"
  /\ \A k \in Kinds : StageFor(k) \in Running
  /\ \A k \in Kinds : StageFor(k) = "looping" => k = "loop"
  BY DEF StageKinds, StageOf, StageFor, Kinds, Running

\* Cards move, and no run changes.
LEMMA CardsStep ==
  ASSUME NEW w \in Workers, AInv(w), UNCHANGED <<row, session, worker>>,
         \A c \in Cards : status'[c] \in Running =>
           \/ \E k \in StageKinds : prep'[w][c][k] > 0 /\ StageOf(k) = status'[c]
           \/ status'[c] = status[c] /\ ~Taking(w, c),
         \A c \in Cards, k \in StageKinds :
           prep[w][c][k] > 0 /\ StageOf(k) = status'[c] => prep'[w][c][k] > 0,
         \A c \in Cards : status[c] \in {"looping", "paused"} =>
           status'[c] \in {status[c], "paused"} \/ ~LoopRunning(c),
         SegmentFollows(w)'
  PROVE  Alone(w)'
<1>. IInv BY DEF AInv, MInv
<1>1. \A r \in Runs : row[r].st = "running" => row[r] \in Rows /\ row[r].card \in Cards
  BY RowOfSession, RowParts
<1>2. worker'[w] = "up" /\ AbortedIsClosed' /\ LoopRunsAlone' /\ RunsAreHeld'
  BY DEF AInv, Alone, AbortedIsClosed, LoopRunsAlone, RunsAreHeld, RunningLoop, RunningRow
<1>3. LoopsAreLooping'
  BY <1>1 DEF AInv, Alone, LoopsAreLooping, RunningLoop, LoopRunning
<1>4. LoopingRunsLoops'
  BY <1>1, StagesOfKinds DEF AInv, Alone, LoopingRunsLoops, Running
<1>5. ASSUME NEW c \in Cards, status'[c] \in Running
      PROVE  (Taking(w, c) \/ HasStageRow(c) \/ Prepared(w, c))'
  <2>1. CASE status'[c] = status[c] /\ ~Taking(w, c)
    <3>1. HasStageRow(c) \/ Prepared(w, c)
      BY <1>5, <2>1 DEF AInv, Alone, StagesAreAttended
    <3> QED BY <2>1, <3>1 DEF HasStageRow, Prepared, RunningRow
  <2>2. CASE \E k \in StageKinds : prep'[w][c][k] > 0 /\ StageOf(k) = status'[c]
    BY <2>2 DEF Prepared
  <2> QED BY <1>5, <2>1, <2>2
<1> QED BY <1>2, <1>3, <1>4, <1>5 DEF Alone, StagesAreAttended

\* Run r ends, or is over, and nothing else happens but that its card's next
\* step is prepared or begins.
LEMMA EndStep ==
  ASSUME NEW w \in Workers, AInv(w), UNCHANGED <<status, worker>>,
         NEW r \in Runs, row[r] \in Rows, NEW x \in Cards, row[r].card = x,
         \A q \in Runs \ {r} : row'[q] = row[q] /\ session'[q] = session[q],
         row'[r].st # "running",
         \A c \in Cards : Taking(w, c) => c = x,
         \A c \in Cards, k \in StageKinds : prep[w][c][k] > 0 => prep'[w][c][k] > 0,
         \/ Taking(w, x)'
         \/ Prepared(w, x)'
         \/ status[x] \notin Running
         \/ /\ ~Taking(w, x)
            /\ row[r].st # "running" \/ StageFor(row[r].kind) # status[x],
         SegmentFollows(w)'
  PROVE  Alone(w)'
<1>. IInv BY DEF AInv, MInv
<1>1. worker'[w] = "up" BY DEF AInv, Alone
<1>2. AbortedIsClosed' BY DEF AInv, Alone, AbortedIsClosed
<1>3. LoopRunsAlone' BY DEF AInv, Alone, LoopRunsAlone, RunningLoop, RunningRow
<1>4. RunsAreHeld' BY DEF AInv, Alone, RunsAreHeld
<1>5. LoopsAreLooping' BY DEF AInv, Alone, LoopsAreLooping, RunningLoop
<1>6. LoopingRunsLoops' BY DEF AInv, Alone, LoopingRunsLoops
<1>7. ASSUME NEW c \in Cards, status'[c] \in Running
      PROVE  (Taking(w, c) \/ HasStageRow(c) \/ Prepared(w, c))'
  <2>1. CASE x = c /\ (Taking(w, c)' \/ Prepared(w, c)') BY <2>1
  <2>2. CASE /\ ~Taking(w, c)
             /\ x = c => row[r].st # "running" \/ StageFor(row[r].kind) # status[c]
    <3>1. HasStageRow(c) \/ Prepared(w, c)
      BY <1>7, <2>2 DEF AInv, Alone, StagesAreAttended
    <3>2. ASSUME NEW q \in Runs, RunningRow(c, q), StageFor(row[q].kind) = status[c]
          PROVE  HasStageRow(c)'
      <4>1. q # r BY <2>2, <3>2 DEF RunningRow
      <4> QED BY <3>2, <4>1 DEF HasStageRow, RunningRow
    <3>3. Prepared(w, c) => Prepared(w, c)' BY DEF Prepared
    <3> QED BY <3>1, <3>2, <3>3 DEF HasStageRow
  <2> QED BY <1>7, <2>1, <2>2
<1> QED BY <1>1, <1>2, <1>3, <1>4, <1>5, <1>6, <1>7 DEF Alone, StagesAreAttended

\* A run is inserted for a card that has reached the run's stage.
LEMMA InsertStep ==
  ASSUME NEW w \in Workers, AInv(w), UNCHANGED <<worker, seg>>, seg[w] = Idle,
         NEW r \in Runs, NEW c \in Cards, NEW k \in Kinds, NEW v \in Workers,
         Insert(r, c, k, v),
         session' = [session EXCEPT ![r] = IF k = "loop" THEN "setup" ELSE "live"],
         k = "loop" => ~HasRunningRow(c) /\ status[c] = "ready",
         k # "loop" => status[c] = status'[c],
         status'[c] = StageFor(k),
         \A d \in Cards \ {c} : status'[d] = status[d],
         \A d \in Cards \ {c} : prep'[w][d] = prep[w][d]
  PROVE  Alone(w)'
<1>. IInv BY DEF AInv, MInv
<1>1. /\ row'[r] = [card |-> c, kind |-> k, owner |-> v, st |-> "running", control |-> None]
      /\ \A q \in Runs \ {r} : row'[q] = row[q] /\ session'[q] = session[q]
      /\ session'[r] \in {"setup", "live"}
      /\ row[r].st # "running"
  BY FreeIsNoRow DEF IInv, TypeOK, Insert, FreeSlot
<1>2. \A q \in Runs : row[q].st = "running" => row[q] \in Rows /\ row[q].card \in Cards
  BY RowOfSession, RowParts
<1>3. /\ row'[r].card = c /\ row'[r].kind = k /\ row'[r].st = "running"
      /\ row'[r].control \notin {"cancel", "pause"}
  BY <1>1, PipelineAssumption
<1>4. AbortedIsClosed' BY <1>1, <1>3 DEF AInv, Alone, AbortedIsClosed
<1>5. RunsAreHeld' BY <1>1 DEF AInv, Alone, RunsAreHeld
<1>6. ASSUME NEW q \in Runs \ {r}, RunningLoop(q)
      PROVE  row[q].card # c
  <2>1. CASE k = "loop"
    BY <1>6, <2>1 DEF RunningLoop, HasRunningRow, RunningRow
  <2>2. CASE k # "loop"
    <3>1. status[c] \in {"planning", "evaluating"}
      BY <2>2, StagesOfKinds DEF Kinds
    <3> QED BY <1>6, <3>1 DEF AInv, Alone, LoopsAreLooping
  <2> QED BY <2>1, <2>2
<1>7. LoopsAreLooping'
  <2>1. RunningLoop(r)' => status'[c] = "looping"
    BY <1>3, StagesOfKinds DEF RunningLoop
  <2>2. ASSUME NEW q \in Runs \ {r}, RunningLoop(q)'
        PROVE  /\ status'[row'[q].card] \in {"looping", "paused"}
               /\ row'[q].control = "pause" => status'[row'[q].card] = "paused"
    <3>1. RunningLoop(q) /\ row'[q] = row[q] BY <1>1, <2>2 DEF RunningLoop
    <3>2. row[q].card \in Cards \ {c} BY <1>2, <1>6, <3>1 DEF RunningLoop
    <3> QED BY <3>1, <3>2 DEF AInv, Alone, LoopsAreLooping
  <2> QED BY <1>3, <2>1, <2>2 DEF LoopsAreLooping
<1>8. LoopRunsAlone'
  <2>1. ASSUME NEW p \in Runs, NEW q \in Runs, RunningLoop(q)', RunningRow(row[q].card, p)'
        PROVE  p = q
    <3>1. CASE q # r /\ p # r
      BY <1>1, <2>1, <3>1 DEF AInv, Alone, LoopRunsAlone, RunningLoop, RunningRow
    <3>2. CASE q # r /\ p = r
      BY <1>1, <1>3, <1>6, <2>1, <3>2 DEF RunningLoop, RunningRow
    <3>3. CASE q = r /\ p # r
      BY <1>1, <1>3, <2>1, <3>3 DEF RunningLoop, HasRunningRow, RunningRow
    <3> QED BY <3>1, <3>2, <3>3
  <2> QED BY <2>1 DEF LoopRunsAlone
<1>9. LoopingRunsLoops'
  <2>1. ASSUME NEW q \in Runs, row'[q].st = "running", status'[row'[q].card] = "looping"
        PROVE  row'[q].kind = "loop"
    <3>1. CASE q = r BY <1>3, <2>1, <3>1, StagesOfKinds
    <3>2. CASE q # r /\ row[q].card # c
      <4>1. status[row[q].card] = "looping" BY <1>1, <1>2, <2>1, <3>2
      <4> QED BY <1>1, <2>1, <3>2, <4>1 DEF AInv, Alone, LoopingRunsLoops
    <3>3. CASE q # r /\ row[q].card = c
      <4>1. k = "loop" BY <1>1, <2>1, <3>3, StagesOfKinds
      <4> QED BY <1>1, <2>1, <3>3, <4>1 DEF HasRunningRow, RunningRow
    <3> QED BY <3>1, <3>2, <3>3
  <2> QED BY <2>1 DEF LoopingRunsLoops
<1>10. SegmentFollows(w)'
  BY DEF SegmentFollows, Idle
<1>11. ASSUME NEW d \in Cards, status'[d] \in Running
      PROVE  (Taking(w, d) \/ HasStageRow(d) \/ Prepared(w, d))'
  <2>1. CASE d = c BY <1>3, <2>1 DEF HasStageRow, RunningRow
  <2>2. CASE d # c
    <3>1. HasStageRow(d) \/ Prepared(w, d)
      BY <1>11, <2>2 DEF AInv, Alone, StagesAreAttended, Taking, Idle
    <3>2. Prepared(w, d) => Prepared(w, d)' BY <2>2 DEF Prepared
    <3>3. HasStageRow(d) => HasStageRow(d)'
      BY <1>1, <2>2 DEF HasStageRow, RunningRow
    <3> QED BY <3>1, <3>2, <3>3
  <2> QED BY <2>1, <2>2
<1> QED BY <1>4, <1>5, <1>7, <1>8, <1>9, <1>10, <1>11 DEF AInv, Alone, StagesAreAttended

\* What a run that is closed leaves: no running loop, where it was running.
LEMMA LoopClosed ==
  ASSUME NEW w \in Workers, AInv(w), NEW r \in Runs, NEW x \in Cards, RunningRow(x, r),
         \A q \in Runs \ {r} : row'[q] = row[q], row'[r].st # "running"
  PROVE  ~LoopRunning(x)'
  BY DEF AInv, Alone, LoopRunsAlone, LoopRunning, RunningLoop, RunningRow

\* A step taken with no segment under way takes no card.
LEMMA NoneTaken ==
  ASSUME NEW w \in Workers, seg[w] = Idle
  PROVE  \A c \in Cards : ~Taking(w, c)
  BY DEF Taking, Idle

LEMMA IdleFollows ==
  ASSUME NEW w, seg'[w] = Idle
  PROVE  SegmentFollows(w)'
  BY DEF SegmentFollows, Idle

LEMMA SegOf ==
  ASSUME TypeOK, NEW p \in Procs
  PROVE  /\ \A s : Then(p, s) => seg'[p] = s
         /\ Leave(p) => seg'[p] = Idle
  BY DEF TypeOK, Then, Leave

\* A stage function that starts is on its way to its row.
LEMMA StartPrepares ==
  ASSUME TypeOK, NEW w \in Workers, NEW c \in Cards, NEW k \in StageKinds,
         StartStage(w, c, k)
  PROVE  /\ prep'[w][c][k] > 0
         /\ \A d \in Cards, j \in StageKinds : prep[w][d][j] > 0 => prep'[w][d][j] > 0
<1>1. /\ prep[w][c][k] \in Nat /\ MaxPrep \in Nat \ {0}
      /\ prep'[w][c][k] = IF prep[w][c][k] < MaxPrep THEN prep[w][c][k] + 1 ELSE prep[w][c][k]
  BY PipelineAssumption DEF TypeOK, StartStage
<1>2. prep'[w][c][k] > 0
  BY <1>1
<1>3. ASSUME NEW d \in Cards, NEW j \in StageKinds, ~(d = c /\ j = k)
      PROVE  prep'[w][d][j] = prep[w][d][j]
  BY <1>3 DEF TypeOK, StartStage
<1> QED BY <1>2, <1>3

\* A card that is in its stage before and after an operator's or a pump's step.
LEMMA IdleStep ==
  ASSUME NEW w \in Workers, AInv(w), UNCHANGED <<row, session, worker>>, seg[w] = Idle,
         NEW x \in Cards, \A c \in Cards \ {x} : status'[c] = status[c],
         \A c \in Cards, k \in StageKinds : prep[w][c][k] > 0 => prep'[w][c][k] > 0,
         \/ status'[x] = status[x]
         \/ /\ status'[x] \notin Running
            /\ status[x] \in {"looping", "paused"} => status'[x] = "paused" \/ ~HasRunningRow(x)
         \/ /\ \E k \in StageKinds : prep'[w][x][k] > 0 /\ StageOf(k) = status'[x]
            /\ status[x] \notin {"looping", "paused"},
         SegmentFollows(w)'
  PROVE  Alone(w)'
<1>1. HasRunningRow(x) \/ ~LoopRunning(x)
  BY DEF HasRunningRow, RunningRow, LoopRunning, RunningLoop
<1> QED BY <1>1, NoneTaken, CardsStep

-----------------------------------------------------------------------------
(* The operators and the pump.                                             *)

LEMMA StartCardAlone ==
  ASSUME NEW w \in Workers, AInv(w), NEW c \in Cards, StartCard(w, c), seg[w] = Idle
  PROVE  Alone(w)'
<1>. IInv /\ TypeOK BY DEF AInv, MInv, IInv
<1>0. /\ UNCHANGED <<row, session, worker, seg>> /\ status[c] \in {"todo", "needs_attention"}
      /\ seg'[w] = Idle
  BY DEF StartCard, procVars
<1>1. CASE UNCHANGED prep /\ \E from, to : MoveCard(c, from, to) /\ to \in {"ready", "todo"}
  <2>1. /\ \A d \in Cards \ {c} : status'[d] = status[d]
        /\ status'[c] = status[c] \/ status'[c] \notin Running
    BY <1>1, MoveCardMoves DEF Running
  <2> QED BY <1>0, <1>1, <2>1, IdleStep, IdleFollows
<1>2. CASE ClaimStage(c, status[c], "planning") /\ StartStage(w, c, "plan")
  <2>1. /\ \A d \in Cards \ {c} : status'[d] = status[d]
        /\ status'[c] = "planning"
    BY <1>2, MoveCardMoves DEF ClaimStage, MoveCard, TypeOK
  <2>2. /\ prep'[w][c]["plan"] > 0 /\ StageOf("plan") = "planning" /\ "plan" \in StageKinds
        /\ \A d \in Cards, j \in StageKinds : prep[w][d][j] > 0 => prep'[w][d][j] > 0
    BY <1>2, StartPrepares DEF StageOf, StageKinds
  <2> QED BY <1>0, <2>1, <2>2, IdleStep, IdleFollows
<1> QED BY <1>1, <1>2 DEF StartCard

LEMMA OperatorAlone ==
  ASSUME NEW w \in Workers, Procs = {w}, AInv(w), NEW c \in Cards, Operator(w, c)
  PROVE  Alone(w)'
<1>. IInv /\ TypeOK /\ w \in Procs BY DEF AInv, MInv, IInv
<1>0. /\ seg[w] = Idle /\ UNCHANGED <<row, session, worker>>
      /\ ~UNCHANGED prep => \/ StartVerb(w, c) \/ RetryFailedStep(w, c) \/ ApproveInstall(w, c)
  BY DEF Operator, QueueCard, StartVerb, StartCard, CancelCard, PauseCard, ResumeCard,
         ApprovePlan, RejectReview, RetryFailedStep, ApproveInstall, Verb, Serves, Awake,
         procVars, cardVars
<1>1. ASSUME NEW from, NEW to \in Statuses \ Running, MoveCard(c, from, to),
             from \in {"looping", "paused"} => to = "paused" \/ ~HasRunningRow(c),
             UNCHANGED prep, SegmentFollows(w)'
      PROVE  Alone(w)'
  <2>1. /\ \A d \in Cards \ {c} : status'[d] = status[d]
        /\ status'[c] = status[c] \/ (status[c] = from /\ status'[c] = to)
    BY <1>1, MoveCardMoves
  <2> QED BY <1>0, <1>1, <2>1, IdleStep
<1>2. ASSUME NEW k \in StageKinds, ClaimStage(c, "needs_attention", StageOf(k)),
             StartStage(w, c, k), UNCHANGED seg
      PROVE  Alone(w)'
  <2>1. /\ \A d \in Cards \ {c} : status'[d] = status[d]
        /\ status'[c] = StageOf(k) /\ status[c] = "needs_attention"
    BY <1>2, MoveCardMoves DEF ClaimStage, MoveCard, TypeOK
  <2>2. /\ prep'[w][c][k] > 0
        /\ \A d \in Cards, j \in StageKinds : prep[w][d][j] > 0 => prep'[w][d][j] > 0
    BY <1>2, StartPrepares
  <2> QED BY <1>0, <1>2, <2>1, <2>2, IdleStep, IdleFollows
<1>3. ASSUME UNCHANGED <<status, prep>>, SegmentFollows(w)'
      PROVE  Alone(w)'
  BY <1>0, <1>3, IdleStep
<1>4. UNCHANGED seg => SegmentFollows(w)' BY <1>0, IdleFollows
<1>5. ASSUME NEW op \in {"queue", "evaluate"}, Then(w, Do(op, c)), UNCHANGED status,
             status[c] = "needs_attention"
      PROVE  SegmentFollows(w)'
  <2>1. seg'[w] = Do(op, c) BY <1>5, SegOf
  <2> QED BY <1>5, <2>1 DEF SegmentFollows, Do
<1>6. CASE QueueCard(w, c)
  <2>1. /\ \A d \in Cards \ {c} : status'[d] = status[d]
        /\ status'[c] = "todo" /\ status[c] = "backlog"
    BY <1>6 DEF QueueCard, TypeOK
  <2> QED BY <1>0, <1>4, <1>6, <2>1, IdleStep DEF QueueCard, Running, TypeOK
<1>7. CASE StartVerb(w, c) BY <1>0, <1>7, StartCardAlone DEF StartVerb
<1>8. CASE CancelCard(w, c)
  <2>1. SegmentFollows(w)'
    <3>1. ASSUME NEW r \in Runs, RunningRow(c, r),
                 Then(w, [op |-> "close", card |-> c, run |-> r])
          PROVE  SegmentFollows(w)'
      <4>1. seg'[w] = [op |-> "close", card |-> c, run |-> r] BY <3>1, SegOf
      <4> QED BY <1>0, <3>1, <4>1 DEF SegmentFollows, RunningRow
    <3>2. ASSUME ~HasRunningRow(c), Then(w, Do("pull", c))
          PROVE  SegmentFollows(w)'
      <4>1. seg'[w] = Do("pull", c) BY <3>2, SegOf
      <4> QED BY <1>0, <3>2, <4>1
              DEF SegmentFollows, Do, HasRunningRow, RunningRow, LoopRunning, RunningLoop
    <3> QED BY <1>8, <3>1, <3>2 DEF CancelCard
  <2> QED BY <1>3, <1>8, <2>1 DEF CancelCard, cardVars
<1>9. CASE PauseCard(w, c)
  <2>1. seg'[w] = Do("pause", c) BY <1>9, SegOf DEF PauseCard
  <2>2. status'[c] = "paused" BY <1>9 DEF PauseCard, MoveCard, TypeOK
  <2>3. SegmentFollows(w)' BY <2>1, <2>2 DEF SegmentFollows, Do
  <2> QED BY <1>1, <1>9, <2>3 DEF PauseCard, Statuses, Running
<1>10. CASE ResumeCard(w, c)
  BY <1>1, <1>4, <1>10 DEF ResumeCard, Statuses, Running
<1>11. CASE ApprovePlan(w, c)
  BY <1>1, <1>4, <1>11 DEF ApprovePlan, Statuses, Running
<1>12. CASE RejectReview(w, c)
  BY <1>1, <1>4, <1>12 DEF RejectReview, Statuses, Running
<1>13. CASE RetryFailedStep(w, c)
  <2>1. CASE UNCHANGED <<status, prep>> /\ (Then(w, Do("queue", c)) \/ Then(w, Do("evaluate", c)))
    BY <1>3, <1>5, <1>13, <2>1 DEF RetryFailedStep
  <2>2. CASE (MoveCard(c, "needs_attention", "ready") \/ MoveCard(c, "needs_attention", "todo"))
             /\ UNCHANGED <<prep, seg>>
    BY <1>1, <1>4, <2>2 DEF Statuses, Running
  <2> QED BY <1>2, <1>13, <2>1, <2>2 DEF RetryFailedStep
<1>14. CASE ApproveInstall(w, c)
  <2>1. CASE UNCHANGED <<status, prep>> /\ Then(w, Do("queue", c))
    BY <1>3, <1>5, <1>14, <2>1 DEF ApproveInstall
  <2>2. CASE MoveCard(c, "needs_attention", "ready") /\ UNCHANGED <<prep, seg>>
    BY <1>1, <1>4, <2>2 DEF Statuses, Running
  <2>3. StageOf("evaluate") = "evaluating" /\ "evaluate" \in StageKinds
    BY DEF StageOf, StageKinds
  <2> QED BY <1>2, <1>14, <2>1, <2>2, <2>3 DEF ApproveInstall
<1> QED BY <1>6, <1>7, <1>8, <1>9, <1>10, <1>11, <1>12, <1>13, <1>14 DEF Operator

LEMMA PumpAlone ==
  ASSUME NEW w \in Workers, Procs = {w}, AInv(w), Pump(w)
  PROVE  Alone(w)'
<1>. IInv /\ TypeOK /\ w \in Procs BY DEF AInv, MInv, IInv
<1>0. seg[w] = Idle
  BY DEF Pump, PumpEvaluation, PumpReady, PumpTodo, Pumping
<1>1. ASSUME NEW c \in Cards, PumpEvaluation(w, c) PROVE Alone(w)'
  <2>1. /\ \A d \in Cards \ {c} : status'[d] = status[d]
        /\ status'[c] = "evaluating" /\ status[c] = "needs_attention"
    BY <1>1, MoveCardMoves DEF PumpEvaluation, ClaimStage, MoveCard, TypeOK
  <2>2. /\ prep'[w][c]["evaluate"] > 0 /\ "evaluate" \in StageKinds
        /\ StageOf("evaluate") = "evaluating"
        /\ \A d \in Cards, j \in StageKinds : prep[w][d][j] > 0 => prep'[w][d][j] > 0
    BY <1>1, StartPrepares DEF PumpEvaluation, StageKinds, StageOf
  <2>3. UNCHANGED <<row, session, worker, seg>>
    BY <1>1 DEF PumpEvaluation, procVars
  <2> QED BY <1>0, <2>1, <2>2, <2>3, IdleStep, IdleFollows
<1>2. ASSUME NEW c \in Cards, NEW r \in Runs, PumpReady(w, c, r) PROVE Alone(w)'
  <2>1. /\ \A d \in Cards \ {c} : status'[d] = status[d]
        /\ status'[c] = "looping" /\ status[c] = "ready" /\ ~HasRunningRow(c)
    BY <1>2, MoveCardMoves DEF PumpReady, ClaimLoopRun, MoveCard, TypeOK
  <2>2. UNCHANGED <<prep, worker, seg>> /\ Insert(r, c, "loop", w)
        /\ session' = [session EXCEPT ![r] = "setup"]
    BY <1>2 DEF PumpReady, ClaimLoopRun, procVars
  <2>3. "loop" \in Kinds BY DEF Kinds
  <2> QED BY <1>0, <2>1, <2>2, <2>3, StagesOfKinds, InsertStep
<1>3. ASSUME NEW c \in Cards, PumpTodo(w, c) PROVE Alone(w)'
  BY <1>0, <1>3, StartCardAlone DEF PumpTodo
<1> QED BY <1>1, <1>2, <1>3 DEF Pump

LEMMA BeginsAlone ==
  ASSUME NEW w \in Workers, Procs = {w}, AInv(w), StageBegins(w)
  PROVE  Alone(w)'
<1>. IInv /\ TypeOK /\ w \in Procs BY DEF AInv, MInv, IInv
<1>0. /\ seg[w] = Idle /\ UNCHANGED <<worker, seg>>
  BY DEF StageBegins, StageInserts, StageThrows, Awake, procVars
<1>1. PICK c \in Cards, k \in StageKinds :
        (\E r \in Runs : StageInserts(w, c, k, r)) \/ StageThrows(w, c, k)
  BY DEF StageBegins
<1>2. /\ \A d \in Cards \ {c} : prep'[w][d] = prep[w][d]
      /\ \A j \in StageKinds \ {k} : prep'[w][c][j] = prep[w][c][j]
  BY <1>1 DEF TypeOK, StageInserts, StageThrows
<1>3. ASSUME UNCHANGED <<row, session>>,
             \A d \in Cards \ {c} : status'[d] = status[d],
             \/ status'[c] = status[c] /\ status[c] # StageOf(k)
             \/ status'[c] = "needs_attention" /\ status[c] = StageOf(k)
      PROVE  Alone(w)'
  <2>1. \A j \in StageKinds : StageOf(j) \in {"planning", "evaluating"} BY StagesOfKinds
  <2>2. status'[c] # StageOf(k) /\ (status'[c] = status[c] \/ status'[c] \notin Running)
    BY <1>3, <2>1 DEF Running
  <2>3. \A d \in Cards, j \in StageKinds :
          prep[w][d][j] > 0 /\ StageOf(j) = status'[d] => prep'[w][d][j] > 0
    BY <1>2, <2>2
  <2>4. SegmentFollows(w)' BY <1>0, IdleFollows
  <2>5. status[c] \in {"looping", "paused"} => status'[c] = status[c]
    BY <1>3, <2>1
  <2> QED BY <1>0, <1>3, <2>2, <2>3, <2>4, <2>5, NoneTaken, CardsStep
<1>4. ASSUME NEW r \in Runs, StageInserts(w, c, k, r) PROVE Alone(w)'
  <2>1. CASE status[c] = StageOf(k)
    <3>1. /\ Insert(r, c, k, w) /\ session' = [session EXCEPT ![r] = "live"]
          /\ UNCHANGED status
      BY <1>4, <2>1 DEF StageInserts
    <3>2. k \in Kinds /\ k # "loop" /\ StageFor(k) = StageOf(k)
      BY StagesOfKinds DEF Kinds, StageKinds
    <3> QED BY <1>0, <1>2, <2>1, <3>1, <3>2, InsertStep
  <2>2. CASE status[c] # StageOf(k) BY <1>3, <1>4, <2>2 DEF StageInserts
  <2> QED BY <2>1, <2>2
<1>5. CASE StageThrows(w, c, k)
  <2>1. /\ \A d \in Cards \ {c} : status'[d] = status[d]
        /\ \/ status'[c] = status[c] /\ status[c] # StageOf(k)
           \/ status'[c] = "needs_attention" /\ status[c] = StageOf(k)
    BY <1>5, MoveCardMoves DEF StageThrows, MoveCard, TypeOK
  <2> QED BY <1>3, <1>5, <2>1 DEF StageThrows
<1> QED BY <1>1, <1>4, <1>5

-----------------------------------------------------------------------------
(* The rest of a segment: it finds what the step that it belongs to read.  *)

\* The segment moves its card, or leaves it where somebody attends to it.
LEMMA LastMove ==
  ASSUME NEW w \in Workers, w \in Procs, AInv(w), UNCHANGED <<row, session, worker>>, Leave(w),
         NEW x \in Cards, seg[w].card = x,
         \A c \in Cards \ {x} : status'[c] = status[c],
         \A c \in Cards, k \in StageKinds : prep[w][c][k] > 0 => prep'[w][c][k] > 0,
         \/ status'[x] = status[x] /\ ~Taking(w, x)
         \/ status'[x] \notin Running
         \/ \E k \in StageKinds : prep'[w][x][k] > 0 /\ StageOf(k) = status'[x],
         status[x] \in {"looping", "paused"} => status'[x] = status[x] \/ ~LoopRunning(x)
  PROVE  Alone(w)'
<1>1. SegmentFollows(w)' BY SegOf, IdleFollows DEF AInv, MInv, IInv
<1>2. \A c \in Cards \ {x} : ~Taking(w, c) BY DEF Taking
<1> QED BY <1>1, <1>2, CardsStep

LEMMA MoveIntoAlone ==
  ASSUME NEW w \in Workers, w \in Procs, AInv(w), NEW op, NEW from, NEW to,
         NEW k \in StageKinds, StageOf(k) = to, MoveInto(w, op, from, to, k), op # "idle",
         status[seg[w].card] \notin from => ~Taking(w, seg[w].card),
         status[seg[w].card] \in {"looping", "paused"} \cap from => ~LoopRunning(seg[w].card)
  PROVE  Alone(w)'
<1>. IInv /\ TypeOK BY DEF AInv, MInv, IInv
<1>. DEFINE x == seg[w].card
<1>1. x \in Cards BY SegmentParts DEF MoveInto
<1>2. UNCHANGED <<row, session, worker>> /\ Leave(w) BY DEF MoveInto, procVars
<1>3. CASE status[x] \in from
  <2>1. /\ \A d \in Cards \ {x} : status'[d] = status[d]
        /\ status'[x] = to
    BY <1>1, <1>3, MoveCardMoves DEF MoveInto, MoveCard, TypeOK
  <2>2. /\ prep'[w][x][k] > 0
        /\ \A d \in Cards, j \in StageKinds : prep[w][d][j] > 0 => prep'[w][d][j] > 0
    BY <1>1, <1>3, StartPrepares DEF MoveInto
  <2> QED BY <1>1, <1>2, <1>3, <2>1, <2>2, LastMove
<1>4. CASE status[x] \notin from
  <2>1. UNCHANGED <<status, prep>> BY <1>4 DEF MoveInto
  <2> QED BY <1>1, <1>2, <1>4, <2>1, LastMove
<1> QED BY <1>3, <1>4

LEMMA SegmentAlone ==
  ASSUME NEW w \in Workers, Procs = {w}, AInv(w), Segment(w)
  PROVE  Alone(w)'
<1>. IInv /\ TypeOK /\ w \in Procs BY DEF AInv, MInv, IInv
<1>. DEFINE x == seg[w].card
<1>0. /\ seg[w].op # "idle" /\ x \in Cards /\ seg[w].op \notin {"park", "sweep"}
      /\ SegmentFollows(w)
  BY SegmentParts
     DEF Segment, CloseSegment, PullSegment, PauseSegment, QueueSegment, MoveSegment,
         ReplanSegment, AdvanceSegment, EvaluateSegment, MoveInto, ParkSegment, SweepSegment,
         AInv, Alone, SegmentFollows
<1>1. CASE CloseSegment(w)
  <2>0. PICK y \in Cards, r \in Runs : y = x /\ r = seg[w].run
    BY <1>0, <1>1, SegmentParts DEF CloseSegment
  <2>1. RunningRow(y, r)
    BY <1>0, <1>1, <2>0 DEF CloseSegment, SegmentFollows
  <2>2. row[r] \in Rows /\ row[r].card = y BY <2>1, RowOfSession DEF RunningRow
  <2>3. \A q \in Runs \ {r} : row'[q] = row[q] /\ session'[q] = session[q]
    BY <1>1, <2>0 DEF CloseSegment, TypeOK
  <2>4. row'[r].st # "running"
    BY <1>1, <2>0, <2>1, <2>2, FreeIsNoRow DEF CloseSegment, TypeOK, Rows
  <2>5. seg'[w] = Do("pull", y) /\ UNCHANGED <<status, worker, prep>>
    BY <1>1, <2>0, SegOf DEF CloseSegment, procVars
  <2>6. ~LoopRunning(y)' BY <2>1, <2>3, <2>4, LoopClosed
  <2>7. SegmentFollows(w)'
    BY <2>5, <2>6 DEF SegmentFollows, Do, LoopRunning
  <2>8. (\A c \in Cards : Taking(w, c) => c = y) /\ Taking(w, y)'
    BY <2>0, <2>5 DEF Taking, Do
  <2> QED BY <2>1, <2>2, <2>3, <2>4, <2>5, <2>7, <2>8, EndStep
<1>2. CASE PullSegment(w)
  <2>1. /\ \A d \in Cards \ {x} : status'[d] = status[d]
        /\ status'[x] = "backlog"
    BY <1>0, <1>2 DEF PullSegment, TypeOK
  <2>2. ~LoopRunning(x) BY <1>0, <1>2 DEF PullSegment, SegmentFollows
  <2>3. UNCHANGED <<row, session, worker, prep>> /\ Leave(w)
    BY <1>2 DEF PullSegment, procVars
  <2> QED BY <1>0, <2>1, <2>2, <2>3, LastMove DEF Running
<1>3. CASE PauseSegment(w)
  <2>1. /\ status[x] = "paused" /\ UNCHANGED <<status, session, prep, worker>>
        /\ \A c \in Cards : ~Taking(w, c)
        /\ SegmentFollows(w)'
    BY <1>0, <1>3, SegOf, IdleFollows
       DEF PauseSegment, SegmentFollows, Taking, cardVars, procVars
  <2>2. \A q \in Runs : /\ row[q].st = "running" => row[q] \in Rows
                        /\ RunningRow(x, q) => [row[q] EXCEPT !.control = "pause"].control = "pause"
                        /\ RunningRow(x, q) => row[q].card = x
    BY RowOfSession DEF RunningRow, Rows
  <2>3. \A q \in Runs :
          /\ row'[q].st = row[q].st /\ row'[q].card = row[q].card
          /\ row'[q].kind = row[q].kind
          /\ row'[q].control = row[q].control
             \/ (row'[q].control = "pause" /\ RunningRow(x, q))
    BY <1>3, <2>2 DEF PauseSegment, RunningRow, Rows
  <2>4. AbortedIsClosed' BY <2>1, <2>3 DEF AInv, Alone, AbortedIsClosed
  <2>5. LoopsAreLooping'
    BY <2>1, <2>2, <2>3 DEF AInv, Alone, LoopsAreLooping, RunningLoop
  <2>6. LoopRunsAlone' BY <2>3 DEF AInv, Alone, LoopRunsAlone, RunningLoop, RunningRow
  <2>7. LoopingRunsLoops' BY <2>1, <2>3 DEF AInv, Alone, LoopingRunsLoops
  <2>8. RunsAreHeld' BY <2>1, <2>3 DEF AInv, Alone, RunsAreHeld
  <2>9. StagesAreAttended(w)'
    BY <2>1, <2>3 DEF AInv, Alone, StagesAreAttended, HasStageRow, RunningRow, Prepared
  <2> QED BY <2>1, <2>4, <2>5, <2>6, <2>7, <2>8, <2>9 DEF AInv, Alone
<1>4. CASE QueueSegment(w)
  <2>1. ~Taking(w, x) BY <1>4 DEF QueueSegment, Taking
  <2> QED BY <1>0, <1>4, <2>1, LastMove DEF QueueSegment, procVars
<1>5. CASE MoveSegment(w)
  <2>1. /\ \A d \in Cards \ {x} : status'[d] = status[d]
        /\ \/ status'[x] = status[x] /\ status[x] # seg[w].from
           \/ status'[x] = seg[w].to /\ status[x] = seg[w].from
    BY <1>0, <1>5, MoveCardMoves DEF MoveSegment, MoveCard, TypeOK
  <2>2. seg[w].op = "move" /\ seg[w].from \in Running /\ seg[w].to \notin Running
    BY <1>5 DEF MoveSegment, AInv, MInv, PendingMoves
  <2>3. seg[w].from = "looping" => ~LoopRunning(x) BY <1>0, <2>2 DEF SegmentFollows
  <2>4. status[x] # seg[w].from => ~Taking(w, x) BY <2>2 DEF Taking
  <2>5. UNCHANGED <<row, session, worker, prep>> /\ Leave(w)
    BY <1>5 DEF MoveSegment, procVars
  <2> QED BY <1>0, <2>1, <2>2, <2>3, <2>4, <2>5, LastMove DEF Running
<1>6. CASE ReplanSegment(w)
  <2>1. seg[w].op = "replan" /\ StageOf("plan") = "planning" /\ "plan" \in StageKinds
    BY <1>6 DEF ReplanSegment, MoveInto, StageOf, StageKinds
  <2>2. status[x] \notin {"evaluating"} => ~Taking(w, x) BY <2>1 DEF Taking
  <2> QED BY <1>0, <1>6, <2>1, <2>2, MoveIntoAlone DEF ReplanSegment
<1>7. CASE AdvanceSegment(w)
  <2>1. seg[w].op = "advance" /\ StageOf("evaluate") = "evaluating" /\ "evaluate" \in StageKinds
    BY <1>7 DEF AdvanceSegment, MoveInto, StageOf, StageKinds
  <2>2. status[x] \notin {"looping", "paused"} => ~Taking(w, x) BY <2>1 DEF Taking
  <2>3. ~LoopRunning(x) BY <1>0, <2>1 DEF SegmentFollows
  <2> QED BY <1>0, <1>7, <2>1, <2>2, <2>3, MoveIntoAlone DEF AdvanceSegment
<1>8. CASE EvaluateSegment(w)
  <2>1. seg[w].op = "evaluate" /\ StageOf("evaluate") = "evaluating" /\ "evaluate" \in StageKinds
    BY <1>8 DEF EvaluateSegment, MoveInto, StageOf, StageKinds
  <2>2. ~Taking(w, x) BY <2>1 DEF Taking
  <2> QED BY <1>0, <1>8, <2>1, <2>2, MoveIntoAlone DEF EvaluateSegment
<1> QED BY <1>0, <1>1, <1>2, <1>3, <1>4, <1>5, <1>6, <1>7, <1>8
        DEF Segment, ParkSegment, SweepSegment

-----------------------------------------------------------------------------
(* The functions of the runs.                                              *)

\* finishRun by the run's own function, and a return that finds its row closed,
\* leave a row that is not running, and the other runs alone.
LEMMA FinishRunEnds ==
  ASSUME IInv, NEW r \in Runs, row[r] \in Rows, NEW st, NEW offer, NEW sess,
         FinishRun(r, st, offer, sess)
  PROVE  /\ row'[r].st # "running"
         /\ \A q \in Runs \ {r} : row'[q] = row[q] /\ session'[q] = session[q]
  BY CloseRowKeeps, CloseRowType DEF FinishRun, IInv, TypeOK

LEMMA EndSessionEnds ==
  ASSUME IInv, NEW r \in Runs, row[r] \in Rows, EndSession(r), row[r].st # "running"
  PROVE  /\ row'[r].st # "running"
         /\ \A q \in Runs \ {r} : row'[q] = row[q] /\ session'[q] = session[q]
  BY FreeIsNoRow DEF EndSession, IInv, TypeOK

\* The end of run r of card x, seen from the segment that it leaves to write:
\* none, or one that takes the card out of the run's stage.
LEMMA RunEnds ==
  ASSUME NEW w \in Workers, w \in Procs, AInv(w), UNCHANGED <<status, worker>>, seg[w] = Idle,
         NEW r \in Runs, row[r] \in Rows, NEW x \in Cards, row[r].card = x,
         \A q \in Runs \ {r} : row'[q] = row[q] /\ session'[q] = session[q],
         row'[r].st # "running",
         \A c \in Cards, k \in StageKinds : prep[w][c][k] > 0 => prep'[w][c][k] > 0,
         \/ /\ UNCHANGED seg
            /\ \/ status[x] = "paused" \/ row[r].st # "running"
               \/ \E k \in StageKinds : prep'[w][x][k] > 0 /\ StageOf(k) = StageFor(row[r].kind)
         \/ /\ row[r].kind = "loop" => row[r].st = "running"
            /\ \E to : Then(w, Move(x, StageFor(row[r].kind), to))
         \/ row[r].kind = "evaluate" /\ Then(w, Do("replan", x))
         \/ row[r].kind = "loop" /\ row[r].st = "running" /\ Then(w, Do("advance", x))
  PROVE  Alone(w)'
<1>. IInv /\ TypeOK BY DEF AInv, MInv, IInv
<1>1. \A c \in Cards : ~Taking(w, c) BY NoneTaken
<1>2. ASSUME SegmentFollows(w)',
             \/ Taking(w, x)' \/ Prepared(w, x)' \/ status[x] \notin Running
             \/ row[r].st # "running" \/ StageFor(row[r].kind) # status[x]
      PROVE  Alone(w)'
  BY <1>1, <1>2, EndStep
<1>3. row[r].st = "running" => ~LoopRunning(x)'
  BY LoopClosed DEF RunningRow
<1>4. CASE /\ UNCHANGED seg
           /\ \/ status[x] = "paused" \/ row[r].st # "running"
              \/ \E k \in StageKinds : prep'[w][x][k] > 0 /\ StageOf(k) = StageFor(row[r].kind)
  <2>1. SegmentFollows(w)' BY <1>4, IdleFollows
  <2>2. ASSUME NEW k \in StageKinds, prep'[w][x][k] > 0, StageOf(k) = status'[x]
        PROVE  Prepared(w, x)'
    BY <2>2 DEF Prepared
  <2>3. status[x] = "paused" => status[x] \notin Running BY DEF Running
  <2> QED BY <1>2, <1>4, <2>1, <2>2, <2>3
<1>5. ASSUME NEW to, Then(w, Move(x, StageFor(row[r].kind), to)),
             row[r].kind = "loop" => row[r].st = "running"
      PROVE  Alone(w)'
  <2>1. seg'[w] = Move(x, StageFor(row[r].kind), to) BY <1>5, SegOf
  <2>2. StageFor(row[r].kind) = "looping" => row[r].kind = "loop"
    BY RowParts, StagesOfKinds
  <2>3. SegmentFollows(w)' BY <1>3, <1>5, <2>1, <2>2 DEF SegmentFollows, Move
  <2>4. StageFor(row[r].kind) = status[x] => Taking(w, x)'
    BY <2>1 DEF Taking, Move
  <2> QED BY <1>2, <2>3, <2>4
<1>6. ASSUME row[r].kind = "evaluate", Then(w, Do("replan", x)) PROVE Alone(w)'
  <2>1. seg'[w] = Do("replan", x) BY <1>6, SegOf
  <2>2. SegmentFollows(w)' BY <2>1 DEF SegmentFollows, Do
  <2>3. StageFor(row[r].kind) = status[x] => Taking(w, x)'
    BY <1>6, <2>1 DEF Taking, Do, StageFor, StageOf
  <2> QED BY <1>2, <2>2, <2>3
<1>7. ASSUME row[r].kind = "loop", row[r].st = "running", Then(w, Do("advance", x))
      PROVE  Alone(w)'
  <2>1. seg'[w] = Do("advance", x) BY <1>7, SegOf
  <2>2. SegmentFollows(w)' BY <1>3, <1>7, <2>1 DEF SegmentFollows, Do
  <2>3. StageFor(row[r].kind) = status[x] => Taking(w, x)'
    BY <1>7, <2>1 DEF Taking, Do, StageFor
  <2> QED BY <1>2, <2>2, <2>3
<1> QED BY <1>4, <1>5, <1>6, <1>7

LEMMA SessionParts ==
  ASSUME NEW w \in Workers, Workers = {w}, AInv(w), NEW r \in Runs, Session(r)
  PROVE  /\ row[r] \in Rows /\ row[r].card \in Cards /\ row[r].owner = w
         /\ row[r].kind \in Kinds /\ session[r] # "none" /\ seg[w] = Idle
<1>. IInv BY DEF AInv, MInv
<1>1. session[r] # "none" /\ Awake(row[r].owner)
  BY DEF Session, StageEnds, StageAborts, StageFails, PlanSaved, PlanWritten, PlanThrows, PlanLost,
         CriticPasses, CriticRevises, EvaluatorPasses, EvaluatorRevises, LoopEnds,
         LoopThrows, LoopExits, LoopDone, LoopFails, LoopGate, LoopPauses, LoopDrains,
         WatchdogTrips, LoopRegisters, ControlPoll, Phases, Registered, Resumes
<1> QED BY <1>1, RowOfSession, RowParts DEF Awake

\* A function goes on: its row stays as it is.
LEMMA GoesOn ==
  ASSUME NEW w \in Workers, AInv(w), UNCHANGED <<status, row, worker, prep, seg>>, seg[w] = Idle,
         \A r \in Runs : /\ session[r] # "none" => session'[r] # "none"
                         /\ session'[r] = "aborted" => session[r] = "aborted"
  PROVE  Alone(w)'
<1>1. AbortedIsClosed' /\ RunsAreHeld'
  BY DEF AInv, Alone, AbortedIsClosed, RunsAreHeld
<1>2. LoopsAreLooping' /\ LoopRunsAlone' /\ LoopingRunsLoops'
  BY DEF AInv, Alone, LoopsAreLooping, LoopRunsAlone, LoopingRunsLoops, RunningLoop, RunningRow
<1>3. SegmentFollows(w)' BY IdleFollows
<1>4. StagesAreAttended(w)'
  BY NoneTaken DEF AInv, Alone, StagesAreAttended, HasStageRow, RunningRow, Prepared
<1> QED BY <1>1, <1>2, <1>3, <1>4 DEF AInv, Alone

LEMMA StageEndsAlone ==
  ASSUME NEW w \in Workers, w \in Procs, Workers = {w}, AInv(w), NEW r \in Runs, StageEnds(r)
  PROVE  Alone(w)'
<1>. IInv /\ TypeOK BY DEF AInv, MInv, IInv
<1>0. PICK x \in Cards : x = row[r].card /\ Session(r)
  BY SessionParts DEF Session
<1>1. /\ row[r] \in Rows /\ row[r].owner = w /\ row[r].kind \in Kinds /\ seg[w] = Idle
      /\ session[r] \in Phases
  BY <1>0, SessionParts DEF TypeOK
<1>2. \A st, offer : FinishRun(r, st, offer, "none") =>
        /\ row'[r].st # "running"
        /\ \A q \in Runs \ {r} : row'[q] = row[q] /\ session'[q] = session[q]
  BY <1>1, FinishRunEnds
<1>3. UNCHANGED prep => \A c \in Cards, k \in StageKinds : prep[w][c][k] > 0 => prep'[w][c][k] > 0
  OBVIOUS
<1>4. /\ StageFor("plan") = "planning" /\ StageFor("critique") = "planning"
      /\ StageFor("evaluate") = "evaluating" /\ "loop" \notin StageKinds
      /\ StageOf("plan") = "planning" /\ StageOf("critique") = "planning"
      /\ {"plan", "critique"} \subseteq StageKinds
  BY DEF StageFor, StageOf, StageKinds
<1>5. CASE StageAborts(r)
  <2>1. session[r] = "aborted" /\ EndSession(r) /\ UNCHANGED <<status, worker, prep, seg>>
    BY <1>5 DEF StageAborts, Resumes, cardVars, procVars
  <2>2. row[r].st # "running" BY <2>1 DEF AInv, Alone, AbortedIsClosed
  <2> QED BY <1>0, <1>1, <1>3, <2>1, <2>2, EndSessionEnds, RunEnds
<1>6. ASSUME NEW st, NEW offer, StageFails(r, st, offer) PROVE Alone(w)'
  <2>1. /\ FinishRun(r, st, offer, "none") /\ UNCHANGED <<status, worker, prep>>
        /\ Then(w, Move(x, StageOf(row[r].kind), "needs_attention"))
        /\ row[r].kind \in StageKinds
    BY <1>0, <1>1, <1>6 DEF StageFails, Resumes, procVars
  <2>2. StageOf(row[r].kind) = StageFor(row[r].kind) BY <2>1, StagesOfKinds
  <2> QED BY <1>0, <1>1, <1>2, <1>3, <1>4, <2>1, <2>2, RunEnds
<1>7. CASE PlanSaved(r)
  BY <1>1, <1>7, GoesOn DEF PlanSaved, TypeOK, procVars
<1>8. CASE PlanWritten(r)
  <2>1. /\ FinishRun(r, "completed", FALSE, "none") /\ UNCHANGED <<status, worker>>
        /\ row[r].kind = "plan"
    BY <1>8 DEF PlanWritten, Resumes, procVars
  <2>2. CASE Then(w, Move(x, "planning", PlanDestination)) /\ UNCHANGED prep
    BY <1>0, <1>1, <1>2, <1>3, <1>4, <2>1, <2>2, RunEnds
  <2>3. ASSUME NEW k \in {"plan", "critique"}, StartStage(w, x, k), UNCHANGED seg
        PROVE  Alone(w)'
    <3>1. /\ prep'[w][x][k] > 0 /\ k \in StageKinds /\ StageOf(k) = "planning"
          /\ \A c \in Cards, j \in StageKinds : prep[w][c][j] > 0 => prep'[w][c][j] > 0
      BY <1>4, <2>3, StartPrepares
    <3> QED BY <1>0, <1>1, <1>2, <1>4, <2>1, <2>3, <3>1, RunEnds
  <2> QED BY <1>0, <1>1, <1>8, <2>2, <2>3 DEF PlanWritten
<1>9. CASE PlanLost(r)
  <2>1. /\ FinishRun(r, "completed", FALSE, "none") /\ UNCHANGED <<status, worker, prep, seg>>
        /\ row[r].st # "running"
    BY <1>9 DEF PlanLost, procVars
  <2> QED BY <1>0, <1>1, <1>2, <1>3, <2>1, RunEnds
<1>10. CASE PlanThrows(r)
  <2>1. /\ FinishRun(r, "failed", TRUE, "none") /\ UNCHANGED <<status, worker, prep>>
        /\ Then(w, Move(x, "planning", "needs_attention")) /\ row[r].kind = "plan"
    BY <1>0, <1>1, <1>10 DEF PlanThrows, Resumes, procVars
  <2> QED BY <1>0, <1>1, <1>2, <1>3, <1>4, <2>1, RunEnds
<1>11. ASSUME NEW dest, CriticPasses(r, dest) PROVE Alone(w)'
  <2>1. /\ FinishRun(r, "completed", FALSE, "none") /\ UNCHANGED <<status, worker, prep>>
        /\ Then(w, Move(x, "planning", dest)) /\ row[r].kind = "critique"
    BY <1>0, <1>1, <1>11 DEF CriticPasses, Resumes, procVars
  <2> QED BY <1>0, <1>1, <1>2, <1>3, <1>4, <2>1, RunEnds
<1>12. CASE CriticRevises(r)
  <2>1. /\ FinishRun(r, "completed", FALSE, "none") /\ UNCHANGED <<status, worker, seg>>
        /\ StartStage(w, x, "plan") /\ row[r].kind = "critique"
    BY <1>0, <1>1, <1>12 DEF CriticRevises, Resumes, procVars
  <2>2. /\ prep'[w][x]["plan"] > 0
        /\ \A c \in Cards, j \in StageKinds : prep[w][c][j] > 0 => prep'[w][c][j] > 0
    BY <1>4, <2>1, StartPrepares
  <2> QED BY <1>0, <1>1, <1>2, <1>4, <2>1, <2>2, RunEnds
<1>13. CASE EvaluatorPasses(r)
  <2>1. /\ FinishRun(r, "completed", FALSE, "none") /\ UNCHANGED <<status, worker, prep>>
        /\ Then(w, Move(x, "evaluating", "review")) /\ row[r].kind = "evaluate"
    BY <1>0, <1>1, <1>13 DEF EvaluatorPasses, Resumes, procVars
  <2> QED BY <1>0, <1>1, <1>2, <1>3, <1>4, <2>1, RunEnds
<1>14. CASE EvaluatorRevises(r)
  <2>1. /\ FinishRun(r, "completed", FALSE, "none") /\ UNCHANGED <<status, worker, prep>>
        /\ Then(w, Do("replan", x)) /\ row[r].kind = "evaluate"
    BY <1>0, <1>1, <1>14 DEF EvaluatorRevises, Resumes, procVars
  <2> QED BY <1>0, <1>1, <1>2, <1>3, <2>1, RunEnds
<1> QED BY <1>5, <1>6, <1>7, <1>8, <1>9, <1>10, <1>11, <1>12, <1>13, <1>14 DEF StageEnds

LEMMA LoopEndsAlone ==
  ASSUME NEW w \in Workers, w \in Procs, Workers = {w}, Faults \subseteq {"stall"},
         AInv(w), NEW r \in Runs, LoopEnds(r) \/ WatchdogTrips(r)
  PROVE  Alone(w)'
<1>. IInv /\ TypeOK BY DEF AInv, MInv, IInv
<1>0. PICK x \in Cards : x = row[r].card /\ Session(r)
  BY SessionParts DEF Session
<1>1. /\ row[r] \in Rows /\ row[r].owner = w /\ seg[w] = Idle /\ row[r].kind = "loop"
  BY <1>0, SessionParts
     DEF LoopEnds, LoopThrows, LoopExits, LoopDone, LoopFails, LoopGate, LoopPauses,
         LoopDrains, WatchdogTrips, Resumes
<1>2. \A st, offer, sess : FinishRun(r, st, offer, sess) =>
        /\ row'[r].st # "running"
        /\ \A q \in Runs \ {r} : row'[q] = row[q] /\ session'[q] = session[q]
  BY <1>1, FinishRunEnds
<1>3. UNCHANGED prep => \A c \in Cards, k \in StageKinds : prep[w][c][k] > 0 => prep'[w][c][k] > 0
  OBVIOUS
<1>4. StageFor(row[r].kind) = "looping" BY <1>1 DEF StageFor
<1>5. CASE LoopThrows(r)
  <2>1. /\ UNCHANGED <<status, worker, prep>> /\ Then(w, Move(x, "looping", "needs_attention"))
        /\ row[r].st = "running"
    BY <1>0, <1>1, <1>5 DEF LoopThrows, procVars
  <2>2. RunningRow(x, r) /\ HasRunningRow(x)
    BY <1>0, <2>1 DEF HasRunningRow, RunningRow
  <2>3. \A q \in Runs : RunningRow(x, q) => q = r
    BY <1>0, <1>1, <2>1 DEF AInv, Alone, LoopRunsAlone, RunningLoop
  <2>4. PICK q \in Runs :
          /\ RunningRow(row[r].card, q)
          /\ session' = [i \in Runs |->
               IF i = r THEN "none"
               ELSE IF i = q /\ session[q] \in Registered /\ row[q].owner = row[r].owner THEN "aborted"
               ELSE session[i]]
          /\ row' = [i \in Runs |->
               IF i = q /\ session'[q] # "none"
               THEN [row[q] EXCEPT !.st = "closed", !.control = "cancel"]
               ELSE IF i = q \/ (i = r /\ row[r].st # "running") THEN Free
               ELSE row[i]]
    <3>1. HasRunningRow(row[r].card) BY <1>0, <2>2
    <3> QED BY <1>5, <3>1, Zenon DEF LoopThrows
  <2>5. q = r BY <1>0, <2>3, <2>4
  <2>6. /\ session'[r] = "none"
        /\ \A i \in Runs \ {r} : session'[i] = session[i]
    BY <2>4, <2>5 DEF TypeOK
  <2>7. /\ row'[r].st # "running"
        /\ \A i \in Runs \ {r} : row'[i] = row[i]
    BY <2>4, <2>5, <2>6, FreeIsNoRow
  <2> QED BY <1>0, <1>1, <1>3, <1>4, <2>1, <2>6, <2>7, RunEnds
<1>6. CASE LoopExits(r)
  <2>1. EndSession(r) /\ ~Active(r) /\ UNCHANGED <<status, worker, prep, seg>>
    BY <1>6 DEF LoopExits, cardVars, procVars
  <2>2. row[r].st # "running"
    BY <1>1, <2>1 DEF Active, AInv, Alone, AbortedIsClosed, LoopsAreLooping, RunningLoop
  <2> QED BY <1>0, <1>1, <1>3, <2>1, <2>2, EndSessionEnds, RunEnds
<1>7. CASE LoopDone(r)
  <2>1. /\ FinishRun(r, "completed", FALSE, "none") /\ UNCHANGED <<status, worker, prep>>
        /\ row[r].st = "running" /\ Then(w, Do("advance", x))
    BY <1>0, <1>1, <1>7 DEF LoopDone, procVars
  <2> QED BY <1>0, <1>1, <1>2, <1>3, <2>1, RunEnds
<1>8. ASSUME NEW offer, NEW done, NEW stops, LoopFails(r, offer, done, stops) PROVE Alone(w)'
  <2>1. /\ FinishRun(r, "failed", offer, "none") /\ UNCHANGED <<status, worker, prep>>
        /\ row[r].st = "running" /\ Then(w, Move(x, "looping", "needs_attention"))
    BY <1>0, <1>1, <1>8 DEF LoopFails, procVars
  <2> QED BY <1>0, <1>1, <1>2, <1>3, <1>4, <2>1, RunEnds
<1>9. ASSUME NEW done, LoopGate(r, done) PROVE FALSE
  BY <1>9 DEF LoopGate
<1>10. CASE LoopPauses(r)
  <2>1. /\ FinishRun(r, "paused", FALSE, "none") /\ UNCHANGED <<status, worker, prep, seg>>
        /\ status[x] = "paused" \/ row[r].control = "pause"
    BY <1>0, <1>10 DEF LoopPauses, procVars
  <2>2. status[x] = "paused" \/ row[r].st # "running"
    BY <1>0, <1>1, <2>1 DEF AInv, Alone, LoopsAreLooping, RunningLoop
  <2> QED BY <1>0, <1>1, <1>2, <1>3, <2>1, <2>2, RunEnds
<1>11. CASE LoopDrains(r)
  <2>1. worker[w] = "draining" BY <1>1, <1>11 DEF LoopDrains
  <2> QED BY <2>1 DEF AInv, Alone
<1>12. CASE WatchdogTrips(r)
  <2>1. /\ FinishRun(r, "failed", TRUE, "aborted") /\ UNCHANGED <<status, worker, prep>>
        /\ row[r].st = "running" /\ Then(w, Move(x, "looping", "needs_attention"))
    BY <1>0, <1>1, <1>12 DEF WatchdogTrips, procVars
  <2> QED BY <1>0, <1>1, <1>2, <1>3, <1>4, <2>1, RunEnds
<1> QED BY <1>5, <1>6, <1>7, <1>8, <1>9, <1>10, <1>11, <1>12 DEF LoopEnds

LEMMA SessionAlone ==
  ASSUME NEW w \in Workers, w \in Procs, Workers = {w}, Faults \subseteq {"stall"},
         AInv(w), NEW r \in Runs, Session(r)
  PROVE  Alone(w)'
<1>. IInv /\ TypeOK BY DEF AInv, MInv, IInv
<1>0. row[r] \in Rows /\ row[r].owner = w /\ row[r].card \in Cards /\ seg[w] = Idle
  BY SessionParts
<1>1. CASE LoopRegisters(r)
  BY <1>0, <1>1, GoesOn DEF LoopRegisters, cardVars, procVars, TypeOK
<1>2. CASE ControlPoll(r)
  <2>1. /\ UNCHANGED <<status, worker, prep, seg>> /\ row[r].control = "cancel"
        /\ session' = [session EXCEPT ![r] = "aborted"]
        /\ row' = [row EXCEPT ![r].control = None]
    BY <1>2 DEF ControlPoll, cardVars, procVars
  <2>2. row[r].st # "running" BY <2>1 DEF AInv, Alone, AbortedIsClosed
  <2>3. /\ row'[r].st # "running"
        /\ \A q \in Runs \ {r} : row'[q] = row[q] /\ session'[q] = session[q]
    BY <1>0, <2>1, <2>2 DEF TypeOK, Rows
  <2> QED BY <1>0, <2>1, <2>2, <2>3, RunEnds
<1> QED BY <1>1, <1>2, StageEndsAlone, LoopEndsAlone DEF Session

-----------------------------------------------------------------------------
(* The invariant, and what it says.                                        *)

\* No other process takes anything from this one, and it is not killed.
LEMMA LivesAlone ==
  ASSUME NEW w, OneProcess(w), AInv(w), Liveliness(w) \/ Shutdown(w)
  PROVE  Alone(w)'
<1>. IInv /\ TypeOK /\ w \in Workers /\ worker[w] = "up"
  BY DEF AInv, Alone, MInv, IInv, OneProcess
<1>1. CASE Beats(w) \/ Ages(w)
  <2>1. UNCHANGED <<status, row, session, prep, worker, seg>>
    BY <1>1 DEF Beats, Ages, cardVars
  <2> QED BY <2>1
          DEF AInv, Alone, AbortedIsClosed, LoopsAreLooping, LoopRunsAlone, LoopingRunsLoops,
              SegmentFollows, StagesAreAttended, RunsAreHeld, RunningLoop, RunningRow,
              LoopRunning, Taking, HasStageRow, Prepared
<1>2. ASSUME NEW r \in Runs, Reap(w, r) PROVE FALSE
  <2>1. row[r].st = "running" /\ row[r].owner # w
    BY <1>2 DEF Reap, Interrupt, Live
  <2>2. row[r].owner \in Workers BY <2>1, RowOfSession, RowParts
  <2> QED BY <2>1, <2>2 DEF OneProcess
<1> QED BY <1>1, <1>2
        DEF Liveliness, Boots, BootEnds, SweepOrphan, Shutdown, Crashes, Drains, GivesUp,
            Releases, Exits, OneProcess

LEMMA AloneInductive ==
  ASSUME NEW w, OneProcess(w)
  PROVE  /\ Init => AInv(w)
         /\ AInv(w) /\ [Next]_vars => AInv(w)'
<1>. w \in Workers /\ Workers = {w} /\ Procs = {w} /\ w \in Procs /\ Faults \subseteq {"stall"}
  BY DEF OneProcess, Procs
<1>1. Init => Alone(w)
  BY FreeIsNoRow
     DEF Init, OneProcess, Alone, AbortedIsClosed, LoopsAreLooping, LoopRunsAlone,
         LoopingRunsLoops, SegmentFollows, StagesAreAttended, RunsAreHeld, RunningLoop,
         Running, Idle, Free
<1>2. ASSUME AInv(w), Next PROVE Alone(w)'
  <2>1. ASSUME WebCrashes(w) PROVE FALSE
    BY <2>1 DEF WebCrashes
  <2> QED BY <1>2, <2>1, OperatorAlone, SegmentAlone, PumpAlone, BeginsAlone, LivesAlone, SessionAlone
          DEF Next
<1>3. ASSUME AInv(w), UNCHANGED vars PROVE Alone(w)'
  BY <1>3 DEF vars, AInv, Alone, AbortedIsClosed, LoopsAreLooping, LoopRunsAlone,
     LoopingRunsLoops, SegmentFollows, StagesAreAttended, RunsAreHeld, RunningLoop, RunningRow,
     LoopRunning, Taking, HasStageRow, Prepared
<1> QED BY <1>1, <1>2, <1>3, MovesInductive DEF AInv

\* In one process a card in a stage always has a run, a function or a segment
\* that will take it out of there, and no running row is without its function:
\* nothing waits for a restart to be freed.
THEOREM NothingStranded ==
  ASSUME NEW w, OneProcess(w)
  PROVE  Spec => []NothingIsStranded
<1>. w \in Workers /\ Workers = {w} /\ Procs = {w}
  BY DEF OneProcess, Procs
<1>1. ASSUME AInv(w) PROVE StageHasAnActor
  <2>1. ASSUME NEW c \in Cards, status[c] \in Running PROVE Attended(c)
    <3>1. Taking(w, c) \/ HasStageRow(c) \/ Prepared(w, c)
      BY <1>1, <2>1 DEF AInv, Alone, StagesAreAttended
    <3>2. Taking(w, c) => seg[w] # Idle /\ seg[w].card = c
      BY DEF Taking, Idle
    <3> QED BY <3>1, <3>2 DEF Attended, HasStageRow, HasRunningRow, Prepared
  <2> QED BY <2>1 DEF StageHasAnActor
<1>2. AInv(w) => NoAbandonedRow BY DEF AInv, Alone, RunsAreHeld, NoAbandonedRow
<1>3. AInv(w) => NothingIsStranded BY <1>1, <1>2 DEF NothingIsStranded
<1> QED BY <1>3, AloneInductive, PTL DEF Spec

\* Only the last write of a segment takes a card out of its loop for a human.
LEMMA ParksByMoving ==
  ASSUME NEW w, OneProcess(w), AInv(w), Next, NEW c \in Cards,
         status[c] = "looping", status'[c] = "needs_attention"
  PROVE  MoveSegment(w) /\ seg[w].card = c /\ seg[w].from = "looping"
<1>. IInv /\ TypeOK /\ w \in Workers /\ Workers = {w} /\ Procs = {w}
  BY DEF OneProcess, Procs, AInv, MInv, IInv
<1>1. \A x \in Cards : \A from, to : MoveCard(x, from, to) =>
        x = c /\ from = "looping" /\ to = "needs_attention"
  BY MoveCardMoves
<1>2. ASSUME UNCHANGED status PROVE FALSE
  BY <1>2
<1>3. ASSUME NEW x \in Cards, Operator(w, x) PROVE FALSE
  <2>1. CASE QueueCard(w, x) BY <2>1 DEF QueueCard, TypeOK
  <2>2. CASE StartVerb(w, x) \/ RetryFailedStep(w, x) \/ ApproveInstall(w, x)
    BY <1>1, <1>2, <2>2
       DEF StartVerb, StartCard, RetryFailedStep, ApproveInstall, ClaimStage
  <2>3. CASE CancelCard(w, x) BY <1>2, <2>3 DEF CancelCard, cardVars
  <2> QED BY <1>1, <1>3, <2>1, <2>2, <2>3
          DEF Operator, PauseCard, ResumeCard, ApprovePlan, RejectReview
<1>4. ASSUME Pump(w) PROVE FALSE
  <2>1. ASSUME NEW x \in Cards, NEW r \in Runs, PumpReady(w, x, r) PROVE FALSE
    BY <1>1, <2>1 DEF PumpReady, ClaimLoopRun
  <2>2. ASSUME NEW x \in Cards, PumpEvaluation(w, x) \/ PumpTodo(w, x) PROVE FALSE
    BY <1>1, <2>2 DEF PumpEvaluation, PumpTodo, StartCard, ClaimStage
  <2> QED BY <1>4, <2>1, <2>2 DEF Pump
<1>5. ASSUME StageBegins(w) PROVE FALSE
  <2>1. ASSUME NEW x \in Cards, NEW k \in StageKinds, StageThrows(w, x, k) PROVE FALSE
    BY <1>1, <2>1, StagesOfKinds DEF StageThrows
  <2> QED BY <1>2, <1>5, <2>1 DEF StageBegins, StageInserts
<1>6. ASSUME NEW r \in Runs, Session(r) PROVE UNCHANGED status
  BY <1>6
     DEF Session, StageEnds, StageAborts, StageFails, PlanSaved, PlanWritten, PlanThrows, PlanLost,
         CriticPasses, CriticRevises, EvaluatorPasses, EvaluatorRevises, LoopEnds,
         LoopThrows, LoopExits, LoopDone, LoopFails, LoopGate, LoopPauses, LoopDrains,
         WatchdogTrips, LoopRegisters, ControlPoll, cardVars
<1>7. ASSUME Liveliness(w) \/ Shutdown(w) \/ WebCrashes(w) PROVE UNCHANGED status
  BY <1>7
     DEF Liveliness, Beats, Ages, Boots, BootEnds, Reap, SweepOrphan, cardVars,
         Shutdown, Crashes, Drains, GivesUp, Exits, Releases, WebCrashes
<1>8. ASSUME Segment(w) PROVE MoveSegment(w)
  <2>. DEFINE x == seg[w].card
  <2>0. seg[w].op # "idle" => x \in Cards BY SegmentParts
  <2>1. CASE PullSegment(w) BY <2>0, <2>1 DEF PullSegment, TypeOK
  <2>2. ASSUME NEW op, NEW from, NEW k, NEW to, MoveInto(w, op, from, to, k),
               op \in {"replan", "advance", "evaluate"}, to # "needs_attention"
        PROVE  FALSE
    BY <1>1, <1>2, <2>0, <2>2 DEF MoveInto
  <2>3. CASE ParkSegment(w) \/ SweepSegment(w)
    BY <2>3 DEF ParkSegment, SweepSegment, AInv, Alone, SegmentFollows
  <2> QED BY <1>2, <1>8, <2>1, <2>2, <2>3
          DEF Segment, CloseSegment, PauseSegment, QueueSegment, ReplanSegment,
              AdvanceSegment, EvaluateSegment, cardVars
<1>9. MoveSegment(w)
  BY <1>2, <1>3, <1>4, <1>5, <1>6, <1>7, <1>8 DEF Next
<1> QED BY <1>1, <1>9, SegmentParts DEF MoveSegment

\* In one process a card leaves its loop for a human only when no run of it is
\* going any more: whoever parks it has closed the run itself.
THEOREM OwnRunParks ==
  ASSUME NEW w, OneProcess(w)
  PROVE  Spec => OnlyTheOwnRunParks
<1>. w \in Workers /\ Workers = {w} /\ Procs = {w}
  BY DEF OneProcess, Procs
<1>. DEFINE Parks(c) == status[c] = "looping" /\ status'[c] = "needs_attention"
<1>1. ASSUME AInv(w), Next, NEW c \in Cards, Parks(c) PROVE ~HasRunningRow(c)
  <2>. IInv /\ TypeOK BY <1>1 DEF AInv, MInv, IInv
  <2>2. MoveSegment(w) /\ seg[w].card = c /\ seg[w].from = "looping"
    BY <1>1, ParksByMoving
  <2>3. ~LoopRunning(c)
    BY <1>1, <2>2 DEF AInv, Alone, SegmentFollows, MoveSegment
  <2>4. \A r \in Runs : RunningRow(c, r) => RunningLoop(r)
    BY <1>1 DEF AInv, Alone, LoopingRunsLoops, RunningRow, RunningLoop
  <2> QED BY <2>3, <2>4 DEF HasRunningRow, LoopRunning, RunningRow
<1>2. ASSUME AInv(w), [Next]_vars
      PROVE  [\A c \in Cards : Parks(c) => ~HasRunningRow(c)]_vars
  BY <1>1, <1>2
<1> QED BY <1>2, AloneInductive, PTL DEF Spec, OnlyTheOwnRunParks
=============================================================================
