---------------------------- MODULE StageProofs -----------------------------
(***************************************************************************)
(* What the rounds of a card, the providers that its stages call and the   *)
(* feed of its events keep, for any number of runs, of operators' verbs,   *)
(* of calls, logins and tabs, of processes and of changes.                 *)
(***************************************************************************)
EXTENDS Rounds, CircuitBreaker, ProviderLogin, EventFeed, FiniteSetTheorems,
        SequenceTheorems, WellFoundedInduction, TLAPS

(***************************************************************************)
(* The rounds, with or without a critic and a review of the plan: what an  *)
(* agent is shown is of its round, a verdict is the one that its own run   *)
(* wrote, feedback is answered once, and a card is sent back a bounded     *)
(* number of times.                                                        *)
(***************************************************************************)

RoundBounds == MaxVerbs \in Nat /\ MaxRuns \in Nat

-----------------------------------------------------------------------------
(* The inductive invariant.                                                *)

LastKind == IF runs = <<>> THEN "none" ELSE runs[Len(runs)].kind

\* A stage works for the newest row, which is one of its kind; only a stage that
\* is being prepared has none.
StageHasRow ==
  /\ stage.run # 0 => stage.run = Len(runs) /\ runs[stage.run].kind = stage.kind
  /\ stage.pc \notin {"off", "prep"} \/ stage.kind = "loop" => stage.run # 0
  /\ stage.kind = "none" => stage = NoStage
  /\ stage.pc = "off" => stage.kind = "none"
  /\ stage.pc = "gate" => stage.kind = "evaluate"
  /\ stage.pc = "commit" => stage.kind = "plan"

\* The gate's result is that of the code or missing, and so are the notes once
\* an evaluator is the last that ran; the draft is that of the last run, if it was
\* a planner.
FilesAreOfCode ==
  /\ files.gate \in {0, files.code}
  /\ LastKind = "evaluate" => files.notes \in {0, files.code}
  /\ LastKind = "plan" => files.draft.by \in {0, Len(runs)}

\* What a stage was given is of this code, and of the run before its own.
StageIsOfCode ==
  /\ stage.kind = "loop" /\ stage.pc = "agent" => files.code = stage.run
  /\ stage.kind = "evaluate" => stage.notes \in {0, files.code}
  /\ stage.kind = "evaluate" /\ stage.pc \in {"agent", "after"} => stage.gate = files.code
  /\ stage.drafts # 0 => stage.drafts = stage.run - 1 /\ stage.kind = "plan"

\* What is there of an artifact, its own agent has written.
ArtifactsAreOwn ==
  /\ stage.kind = "plan" /\ stage.pc \in {"agent", "after"} =>
       files.draft.says = "nothing" \/ files.draft.by = stage.run
  /\ stage.kind = "critique" /\ stage.pc \in {"agent", "after"} =>
       files.critique.says = "nothing" \/ files.critique.by = stage.run
  /\ stage.kind = "evaluate" /\ stage.pc \in {"gate", "agent", "after"} =>
       files.evaluation.says = "nothing" \/ files.evaluation.by = stage.run

\* A planner that was told to revise may still do so.
RevisionsLeft == stage.pc = "commit" /\ stage.revise => MayRevise

\* The row of a stage is about the newest version, or a planner's about none yet.
RowsAreOfPlan ==
  /\ stage.run # 0 =>
       runs[stage.run].plan = IF stage.kind = "plan" /\ stage.pc # "commit" THEN 0 ELSE Len(plans)
  /\ stage.kind = "plan" /\ stage.pc \in {"agent", "after"} => stage.answers = Pending

\* After a loop, and its evaluators, the newest version is the one it worked on.
LoopIsOfPlan ==
  /\ LastKind \in {"loop", "evaluate"} =>
       Cycle \in DOMAIN runs /\ runs[Cycle].kind = "loop" /\ runs[Cycle].plan = Len(plans)
  /\ stage.kind = "evaluate" => LastKind \in {"loop", "evaluate"}
  /\ status = "review" => stage = NoStage /\ LastKind = "evaluate"

\* Every version has a run that wrote it, and one that is being written a run more.
VersionsHaveRuns ==
  /\ Len(plans) <= Len(runs)
  /\ stage.kind = "plan" /\ stage.pc \in {"agent", "after"} => Len(plans) < Len(runs)

RInv ==
  /\ VersionsHaveRuns
  /\ RoundTypeOK /\ StageHasRow /\ FilesAreOfCode /\ StageIsOfCode /\ ArtifactsAreOwn
  /\ RevisionsAreBounded /\ RevisionsLeft /\ RowsAreOfPlan /\ LoopIsOfPlan /\ FeedbackIsAnswered

-----------------------------------------------------------------------------
(* The sets the variables are in.                                          *)

RunKinds == {"plan", "critique", "loop", "evaluate"}
Statuses == {"backlog", "todo", "planning", "plan_review", "ready", "looping",
             "evaluating", "review", "needs_attention", "done"}
Endings == {"running", "completed", "failed", "interrupted", "cancelled"}
Exits == {"none", "ok", "approve", "limit", "revise", "precheck", "questions", "blocked",
          "exhausted", "failed"}
Rows == [kind : RunKinds, plan : 0..MaxRuns, status : Endings, exit : Exits, rejected : BOOLEAN]
Drafts == [by : 0..MaxRuns, says : {"nothing", "plan", "questions"}]
Verdicts == [by : 0..MaxRuns, says : {"nothing", "approve", "revise"}]
Files == [draft : Drafts, critique : Verdicts, evaluation : Verdicts, code : 0..MaxRuns,
          notes : 0..MaxRuns, gate : 0..MaxRuns, ticked : BOOLEAN, done : BOOLEAN]
Stages == [kind : {"none", "plan", "critique", "loop", "evaluate"},
           pc : {"off", "prep", "gate", "agent", "after", "commit"},
           run : 0..MaxRuns, aborted : BOOLEAN, revise : BOOLEAN,
           answers : 0..MaxRuns, drafts : 0..MaxRuns, gate : 0..MaxRuns, notes : 0..MaxRuns]

\* The type invariant, by its named parts.
LEMMA Typed ==
  RoundTypeOK <=>
    /\ status \in Statuses /\ plans \in Seq(0..MaxRuns) /\ runs \in Seq(Rows)
    /\ Len(runs) <= MaxRuns /\ files \in Files /\ stage \in Stages /\ verbs \in 0..MaxVerbs
<1>1. {"nothing"} \cup {"plan", "questions"} = {"nothing", "plan", "questions"}
  OBVIOUS
<1>2. {"nothing"} \cup {"approve", "revise"} = {"nothing", "approve", "revise"}
  OBVIOUS
<1> QED BY <1>1, <1>2, Zenon DEF RoundTypeOK, Statuses, Rows, RunKinds, Endings, Exits, Files, Drafts,
        Verdicts, Stages

LEMMA TypedNext ==
  RoundTypeOK' <=>
    /\ status' \in Statuses /\ plans' \in Seq(0..MaxRuns) /\ runs' \in Seq(Rows)
    /\ Len(runs') <= MaxRuns /\ files' \in Files /\ stage' \in Stages /\ verbs' \in 0..MaxVerbs
<1>1. {"nothing"} \cup {"plan", "questions"} = {"nothing", "plan", "questions"}
  OBVIOUS
<1>2. {"nothing"} \cup {"approve", "revise"} = {"nothing", "approve", "revise"}
  OBVIOUS
<1> QED BY <1>1, <1>2, Zenon DEF RoundTypeOK, Statuses, Rows, RunKinds, Endings, Exits, Files, Drafts,
        Verdicts, Stages

-----------------------------------------------------------------------------
(* The newest of some runs.                                                *)

LEMMA MaxExists ==
  ASSUME NEW n \in Nat, NEW S, S \subseteq 1..n, S # {}
  PROVE  Max(S) \in S /\ \A y \in S : Max(S) >= y
<1> DEFINE R == {ss \in Nat \X Nat : ss[1] < ss[2]}
<1> DEFINE T == {n - s : s \in S}
<1>1. IsWellFoundedOn(R, Nat)
  BY NatLessThanWellFounded, Zenon DEF OpToRel
<1>2. T \subseteq Nat /\ T # {}
  <2>1. \A s \in S : n - s \in Nat
    OBVIOUS
  <2>2. PICK s \in S : TRUE
    OBVIOUS
  <2>3. n - s \in T
    OBVIOUS
  <2> QED BY <2>1, <2>3
<1>3. PICK x \in T : \A y \in T : ~(<<y, x>> \in R)
  <2> HIDE DEF R, T
  <2> QED BY <1>1, <1>2, WFMin
<1>4. \A y \in T : y >= x
  <2> TAKE y \in T
  <2>1. y \in Nat /\ x \in Nat /\ <<y, x>> \notin R
    <3> HIDE DEF R, T
    <3> QED BY <1>2, <1>3
  <2>2. ~(y < x)
    <3>1. SUFFICES ASSUME y < x PROVE FALSE
      OBVIOUS
    <3>2. <<y, x>> \in Nat \X Nat /\ <<y, x>>[1] < <<y, x>>[2]
      <4> HIDE DEF R, T
      <4> QED BY <2>1, <3>1
    <3>3. <<y, x>> \in R
      BY <3>2
    <3> QED BY <3>3, <2>1
  <2> QED BY <2>1, <2>2
<1>5. PICK m \in S : x = n - m
  OBVIOUS
<1>6. \A s \in S : m >= s
  <2> TAKE s \in S
  <2>1. n - s \in T
    OBVIOUS
  <2>2. n - s >= x
    BY <1>4, <2>1
  <2> HIDE DEF R, T
  <2> QED BY <2>2, <1>5, s \in Int, m \in Int
<1> HIDE DEF R, T
<1>7. \E z \in S : \A y \in S : z >= y
  BY <1>6
<1> QED BY <1>7 DEF Max

\* The newest of some runs is one of them and as new as any, or there is none.
LEMMA NewestIs ==
  ASSUME NEW n \in Nat, NEW S, S \subseteq 1..n
  PROVE  /\ Newest(S) \in 0..n
         /\ S # {} => Newest(S) \in S /\ \A y \in S : Newest(S) >= y
         /\ Newest(S) = 0 <=> S = {}
<1>1. CASE S = {}
  BY <1>1 DEF Newest
<1>2. CASE S # {}
  <2>1. Newest(S) \in S /\ \A y \in S : Newest(S) >= y
    BY <1>2, MaxExists, Zenon DEF Newest
  <2>2. Newest(S) \in 1..n
    BY <2>1
  <2> QED BY <1>2, <2>1, <2>2
<1> QED BY <1>1, <1>2

LEMMA NewestIsLast ==
  ASSUME NEW n \in Nat, NEW S, S \subseteq 1..(n + 1), n + 1 \in S
  PROVE  Newest(S) = n + 1
<1>1. n + 1 \in Nat
  OBVIOUS
<1>2. Newest(S) \in S /\ \A y \in S : Newest(S) >= y
  BY <1>1, NewestIs
<1>3. Newest(S) \in 1..(n + 1) /\ Newest(S) >= n + 1
  BY <1>2
<1> QED BY <1>3

-----------------------------------------------------------------------------
(* How rows change.                                                        *)

\* No row is lost, and each stays of its kind.
Kept ==
  /\ runs' \in Seq(Rows) /\ Len(runs') = Len(runs)
  /\ \A i \in 1..Len(runs) : runs'[i].kind = runs[i].kind

\* The run of the stage ends as told, if any does.
Ended(exit) ==
  /\ Kept
  /\ \A i \in 1..Len(runs) :
       /\ runs'[i].plan = runs[i].plan /\ runs'[i].rejected = runs[i].rejected
       /\ runs'[i].exit # runs[i].exit => i = stage.run /\ runs'[i].exit = exit

\* The plans that came back since the last loop, and those the evaluator sent back.
Sent(kind, exit) == {i \in OfKind(kind) : i > Cycle /\ runs[i].exit = exit}
Returned == {i \in OfKind("evaluate") : runs[i].exit = "revise"}

LEMMA RowsOf ==
  ASSUME runs \in Seq(Rows)
  PROVE  /\ Len(runs) \in Nat /\ DOMAIN runs = 1..Len(runs)
         /\ \A i \in 1..Len(runs) : runs[i] \in Rows
         /\ \A kind : OfKind(kind) \subseteq 1..Len(runs)
         /\ Cycle \in 0..Len(runs)
         /\ \A kind, exit : Sent(kind, exit) \subseteq 1..Len(runs)
         /\ Returned \subseteq 1..Len(runs)
         /\ \A p : Asked(p) \subseteq 1..Len(runs)
<1>1. Len(runs) \in Nat /\ DOMAIN runs = 1..Len(runs)
  BY LenProperties
<1>2. \A i \in 1..Len(runs) : runs[i] \in Rows
  BY ElementOfSeq
<1>3. \A kind : OfKind(kind) \subseteq 1..Len(runs)
  BY <1>1 DEF OfKind
<1>4. Cycle \in 0..Len(runs)
  BY <1>1, <1>3, NewestIs DEF Cycle
<1>5. \A kind, exit : Sent(kind, exit) \subseteq 1..Len(runs)
  BY <1>3 DEF Sent
<1>6. Returned \subseteq 1..Len(runs)
  BY <1>3 DEF Returned
<1>7. \A p : Asked(p) \subseteq 1..Len(runs)
  BY <1>1 DEF Asked
<1> QED BY <1>1, <1>2, <1>3, <1>4, <1>5, <1>6, <1>7

LEMMA KeptRows ==
  ASSUME runs \in Seq(Rows), Kept
  PROVE  /\ DOMAIN runs' = DOMAIN runs /\ LastKind' = LastKind /\ Cycle' = Cycle
         /\ \A kind : OfKind(kind)' = OfKind(kind)
<1>1. /\ Len(runs) \in Nat /\ DOMAIN runs = 1..Len(runs) /\ DOMAIN runs' = 1..Len(runs)
      /\ (runs = <<>> <=> Len(runs) = 0) /\ (runs' = <<>> <=> Len(runs) = 0)
  <2>1. /\ Len(runs) \in Nat /\ DOMAIN runs = 1..Len(runs)
        /\ Len(runs') = Len(runs) /\ DOMAIN runs' = 1..Len(runs')
    BY LenProperties DEF Kept
  <2>2. (runs = <<>> <=> Len(runs) = 0) /\ (runs' = <<>> <=> Len(runs') = 0)
    BY EmptySeq DEF Kept
  <2> QED BY <2>1, <2>2
<1>2. LastKind' = LastKind
  BY <1>1 DEF LastKind, Kept
<1>3. \A kind : OfKind(kind)' = OfKind(kind)
  BY <1>1 DEF OfKind, Kept
<1>4. Cycle' = Cycle
  BY <1>3 DEF Cycle
<1> QED BY <1>1, <1>2, <1>3, <1>4

LEMMA EndedRows ==
  ASSUME runs \in Seq(Rows), NEW exit, Ended(exit)
  PROVE  /\ \A kind, other : other # exit => Sent(kind, other)' \subseteq Sent(kind, other)
         /\ \A kind, other : Sent(kind, other)' \subseteq Sent(kind, other) \cup {stage.run}
         /\ \A kind, other : stage.run \notin OfKind(kind) => Sent(kind, other)' \subseteq Sent(kind, other)
         /\ Returned' \subseteq Returned \cup {stage.run}
         /\ exit # "revise" \/ stage.run \notin OfKind("evaluate") => Returned' \subseteq Returned
         /\ \A p : (stage.run # 0 => p # runs[stage.run].plan) => Asked(p)' = Asked(p)
<1>1. /\ DOMAIN runs = 1..Len(runs) /\ DOMAIN runs' = 1..Len(runs) /\ Cycle' = Cycle
      /\ \A kind : OfKind(kind)' = OfKind(kind) /\ OfKind(kind) \subseteq 1..Len(runs)
  BY KeptRows, RowsOf DEF Ended
<1>2. \A i \in 1..Len(runs) :
        /\ runs'[i].plan = runs[i].plan /\ runs'[i].rejected = runs[i].rejected
        /\ runs'[i].exit # runs[i].exit => i = stage.run /\ runs'[i].exit = exit
  BY DEF Ended
<1>3. /\ \A kind, other : other # exit => Sent(kind, other)' \subseteq Sent(kind, other)
      /\ \A kind, other : Sent(kind, other)' \subseteq Sent(kind, other) \cup {stage.run}
      /\ \A kind, other : stage.run \notin OfKind(kind) => Sent(kind, other)' \subseteq Sent(kind, other)
  BY <1>1, <1>2 DEF Sent
<1>4. /\ Returned' \subseteq Returned \cup {stage.run}
      /\ exit # "revise" \/ stage.run \notin OfKind("evaluate") => Returned' \subseteq Returned
  BY <1>1, <1>2 DEF Returned
<1>5. ASSUME NEW p, stage.run # 0 => p # runs[stage.run].plan
      PROVE  Asked(p)' = Asked(p)
  <2>1. \A i \in 1..Len(runs) : runs[i].plan = p => runs'[i].exit = runs[i].exit
    BY <1>2, <1>5, RowsOf
  <2> QED BY <1>1, <1>2, <2>1 DEF Asked
<1> QED BY <1>3, <1>4, <1>5

LEMMA AppendedRows ==
  ASSUME runs \in Seq(Rows), NEW row \in Rows, runs' = Append(runs, row)
  PROVE  /\ runs' \in Seq(Rows) /\ Len(runs') = Len(runs) + 1 /\ DOMAIN runs' = 1..(Len(runs) + 1)
         /\ \A i \in 1..Len(runs) : runs'[i] = runs[i]
         /\ runs'[Len(runs) + 1] = row
         /\ LastKind' = row.kind
         /\ \A kind : OfKind(kind)' = IF kind = row.kind THEN OfKind(kind) \cup {Len(runs) + 1} ELSE OfKind(kind)
         /\ Cycle' = IF row.kind = "loop" THEN Len(runs) + 1 ELSE Cycle
<1>1. /\ runs' \in Seq(Rows) /\ Len(runs') = Len(runs) + 1 /\ runs' # <<>>
      /\ \A i \in 1..Len(runs) : runs'[i] = runs[i]
      /\ runs'[Len(runs) + 1] = row
  BY AppendProperties
<1>2. DOMAIN runs' = 1..(Len(runs) + 1) /\ DOMAIN runs = 1..Len(runs) /\ Len(runs) \in Nat
  BY <1>1, LenProperties
<1>3. LastKind' = row.kind
  BY <1>1 DEF LastKind
<1>4. \A kind : OfKind(kind)' = IF kind = row.kind THEN OfKind(kind) \cup {Len(runs) + 1} ELSE OfKind(kind)
  <2> TAKE kind
  <2>1. OfKind(kind)' = {i \in 1..(Len(runs) + 1) : runs'[i].kind = kind}
    BY <1>2 DEF OfKind
  <2>2. OfKind(kind) = {i \in 1..Len(runs) : runs[i].kind = kind}
    BY <1>2 DEF OfKind
  <2> QED BY <1>1, <1>2, <2>1, <2>2
<1>5. Cycle' = IF row.kind = "loop" THEN Len(runs) + 1 ELSE Cycle
  <2>1. CASE row.kind = "loop"
    <3>1. OfKind("loop")' = OfKind("loop") \cup {Len(runs) + 1} /\ OfKind("loop") \subseteq 1..Len(runs)
      BY <1>4, <2>1, RowsOf
    <3>2. /\ OfKind("loop")' \subseteq 1..(Len(runs) + 1) /\ Len(runs) + 1 \in OfKind("loop")'
      BY <1>2, <3>1
    <3> HIDE DEF OfKind
    <3>3. Newest(OfKind("loop")') = Len(runs) + 1
      BY <1>1, <3>2, NewestIsLast, RowsOf
    <3> QED BY <2>1, <3>3 DEF Cycle
  <2>2. CASE row.kind # "loop"
    BY <1>4, <2>2 DEF Cycle
  <2> QED BY <2>1, <2>2
<1> QED BY <1>1, <1>2, <1>3, <1>4, <1>5

\* A row that says nothing yet takes part in no count.
LEMMA AppendedCounts ==
  ASSUME runs \in Seq(Rows), NEW row \in Rows, runs' = Append(runs, row),
         row.exit = "none", ~row.rejected
  PROVE  /\ \A p : Asked(p)' = Asked(p)
         /\ Returned' = Returned
         /\ \A kind, exit : exit # "none" =>
              Sent(kind, exit)' = IF row.kind = "loop" THEN {} ELSE Sent(kind, exit)
<1>1. /\ DOMAIN runs' = 1..(Len(runs) + 1) /\ DOMAIN runs = 1..Len(runs) /\ Len(runs) \in Nat
      /\ \A i \in 1..Len(runs) : runs'[i] = runs[i]
      /\ runs'[Len(runs) + 1] = row
      /\ \A kind : OfKind(kind)' = IF kind = row.kind THEN OfKind(kind) \cup {Len(runs) + 1} ELSE OfKind(kind)
      /\ Cycle' = IF row.kind = "loop" THEN Len(runs) + 1 ELSE Cycle
      /\ \A kind : OfKind(kind) \subseteq 1..Len(runs)
  BY AppendedRows, RowsOf
<1>2. \A p : Asked(p)' = Asked(p)
  <2> TAKE p
  <2>1. Asked(p)' = {i \in 1..(Len(runs) + 1) :
                       runs'[i].plan = p /\ (runs'[i].exit \in Asking \/ runs'[i].rejected)}
    BY <1>1 DEF Asked
  <2>2. Asked(p) = {i \in 1..Len(runs) :
                      runs[i].plan = p /\ (runs[i].exit \in Asking \/ runs[i].rejected)}
    BY <1>1 DEF Asked
  <2>3. "none" \notin Asking
    BY DEF Asking
  <2> HIDE DEF Asking
  <2> QED BY <1>1, <2>1, <2>2, <2>3
<1>3. Returned' = Returned
  <2>1. Returned' = {i \in OfKind("evaluate")' : runs'[i].exit = "revise"}
    BY DEF Returned
  <2>2. \A i : i \in OfKind("evaluate")' => i \in OfKind("evaluate") \/ i = Len(runs) + 1
    BY <1>1
  <2>3. \A i \in OfKind("evaluate") : i \in OfKind("evaluate")' /\ runs'[i] = runs[i]
    BY <1>1
  <2> QED BY <1>1, <2>1, <2>2, <2>3 DEF Returned
<1>4. ASSUME NEW kind, NEW exit, exit # "none"
      PROVE  Sent(kind, exit)' = IF row.kind = "loop" THEN {} ELSE Sent(kind, exit)
  <2>1. Sent(kind, exit)' = {i \in OfKind(kind)' : i > Cycle' /\ runs'[i].exit = exit}
    BY DEF Sent
  <2>2. \A i : i \in OfKind(kind)' => i \in OfKind(kind) \/ i = Len(runs) + 1
    BY <1>1
  <2>3. \A i \in OfKind(kind) : i \in OfKind(kind)' /\ runs'[i] = runs[i] /\ i \in 1..Len(runs)
    BY <1>1
  <2> QED BY <1>1, <1>4, <2>1, <2>2, <2>3 DEF Sent
<1> QED BY <1>2, <1>3, <1>4

LEMMA CountOf ==
  ASSUME NEW n \in Nat, NEW S, S \subseteq 1..n
  PROVE  Cardinality(S) \in Nat /\ IsFiniteSet(S)
<1>1. IsFiniteSet(1..n)
  BY FS_Interval
<1>2. IsFiniteSet(S)
  BY <1>1, FS_Subset
<1> QED BY <1>2, FS_CardinalityType

LEMMA CountFewer ==
  ASSUME NEW n \in Nat, NEW S, S \subseteq 1..n, NEW T, T \subseteq S
  PROVE  Cardinality(T) <= Cardinality(S)
BY CountOf, FS_Subset

LEMMA CountOneMore ==
  ASSUME NEW n \in Nat, NEW S, S \subseteq 1..n, NEW x \in 1..n, NEW T, T \subseteq S \cup {x}
  PROVE  Cardinality(T) <= Cardinality(S) + 1
<1>1. IsFiniteSet(S) /\ Cardinality(S) \in Nat
  BY CountOf
<1>2. IsFiniteSet(S \cup {x}) /\ Cardinality(S \cup {x}) <= Cardinality(S) + 1
  <2>1. /\ IsFiniteSet(S \cup {x})
        /\ Cardinality(S \cup {x}) = IF x \in S THEN Cardinality(S) ELSE Cardinality(S) + 1
    BY <1>1, FS_AddElement
  <2> QED BY <1>1, <2>1
<1>3. Cardinality(T) <= Cardinality(S \cup {x})
  BY <1>2, FS_Subset
<1>4. Cardinality(T) \in Nat /\ Cardinality(S \cup {x}) \in Nat
  BY <1>2, FS_Subset, FS_CardinalityType
<1> QED BY <1>1, <1>2, <1>3, <1>4

-----------------------------------------------------------------------------
(* What most steps have in common.                                         *)

Fresh == \/ stage' = NoStage \/ stage' = Begin("plan") \/ stage' = Begin("critique")
         \/ stage' = Begin("evaluate")

LEMMA BeginIs ==
  ASSUME RoundBounds, NEW kind \in RunKinds
  PROVE  /\ Begin(kind) \in Stages /\ Begin(kind).kind = kind /\ Begin(kind).pc = "prep"
         /\ Begin(kind).run = 0 /\ Begin(kind).drafts = 0 /\ Begin(kind).notes = 0
         /\ ~Begin(kind).aborted /\ ~Begin(kind).revise
<1>1. /\ NoStage \in Stages /\ NoStage.run = 0 /\ NoStage.drafts = 0 /\ NoStage.notes = 0
      /\ ~NoStage.aborted /\ ~NoStage.revise
  BY DEF NoStage, Stages, RoundBounds
<1> QED BY <1>1 DEF Begin, Stages, RunKinds

LEMMA FreshStage ==
  ASSUME RoundBounds, Fresh
  PROVE  /\ StageHasRow' /\ StageIsOfCode' /\ ArtifactsAreOwn' /\ RevisionsLeft' /\ RowsAreOfPlan'
         /\ stage' \in Stages
         /\ stage'.kind \in {"none", "plan", "critique", "evaluate"} /\ stage'.pc \in {"off", "prep"}
<1>1. /\ stage' \in Stages /\ stage'.run = 0 /\ stage'.drafts = 0 /\ stage'.notes = 0
      /\ stage'.kind = "none" => stage' = NoStage
      /\ stage'.kind \in {"none", "plan", "critique", "evaluate"}
      /\ stage'.pc \in {"off", "prep"} /\ (stage'.pc = "off" => stage'.kind = "none")
  <2>1. CASE stage' = NoStage
    <3>1. NoStage \in Stages
      BY DEF RoundBounds, NoStage, Stages
    <3> QED BY <2>1, <3>1 DEF NoStage
  <2>2. CASE stage' # NoStage
    <3>1. PICK kind \in {"plan", "critique", "evaluate"} : stage' = Begin(kind)
      BY <2>2 DEF Fresh
    <3>2. /\ Begin(kind) \in Stages /\ Begin(kind).kind = kind /\ Begin(kind).pc = "prep"
          /\ Begin(kind).run = 0 /\ Begin(kind).drafts = 0 /\ Begin(kind).notes = 0
      BY BeginIs DEF RunKinds
    <3> QED BY <3>1, <3>2
  <2> QED BY <2>1, <2>2
<1>2. StageHasRow'
  BY <1>1 DEF StageHasRow
<1>3. StageIsOfCode'
  BY <1>1 DEF StageIsOfCode
<1>4. ArtifactsAreOwn'
  BY <1>1 DEF ArtifactsAreOwn
<1>5. RevisionsLeft'
  BY <1>1 DEF RevisionsLeft
<1>6. RowsAreOfPlan'
  BY <1>1 DEF RowsAreOfPlan
<1> QED BY <1>1, <1>2, <1>3, <1>4, <1>5, <1>6

\* What earlier versions answer stays, as long as no row of theirs changes.
LEMMA PlansKept ==
  ASSUME plans \in Seq(0..MaxRuns), FeedbackIsAnswered, UNCHANGED plans,
         \A p \in 1..(Len(plans) - 1) : Asked(p)' = Asked(p)
  PROVE  FeedbackIsAnswered'
<1>1. DOMAIN plans = 1..Len(plans) /\ Len(plans) \in Nat
  BY LenProperties
<1>2. SUFFICES ASSUME NEW p \in 1..Len(plans)
               PROVE  plans[p] = IF p = 1 THEN 0 ELSE Newest(Asked(p - 1)')
  BY <1>1 DEF FeedbackIsAnswered
<1>3. plans[p] = IF p = 1 THEN 0 ELSE Newest(Asked(p - 1))
  BY <1>1 DEF FeedbackIsAnswered
<1>4. CASE p = 1
  BY <1>3, <1>4
<1>5. CASE p # 1
  <2>1. p - 1 \in 1..(Len(plans) - 1)
    BY <1>1, <1>5
  <2>2. Asked(p - 1)' = Asked(p - 1)
    BY <2>1
  <2> QED BY <1>3, <1>5, <2>2
<1> QED BY <1>4, <1>5

LEMMA Counted ==
  ASSUME runs \in Seq(Rows)
  PROVE  Prechecks \in Nat /\ Critics \in Nat /\ PriorRevisions \in Nat
<1>1. /\ Sent("plan", "precheck") \subseteq 1..Len(runs) /\ Sent("critique", "revise") \subseteq 1..Len(runs)
      /\ Returned \subseteq 1..Len(runs) /\ Len(runs) \in Nat
  BY RowsOf
<1>2. /\ Prechecks = Cardinality(Sent("plan", "precheck")) /\ Critics = Cardinality(Sent("critique", "revise"))
      /\ PriorRevisions = Cardinality(Returned)
  BY DEF Prechecks, Critics, PriorRevisions, SentBack, Sent, Returned
<1> QED BY <1>1, <1>2, CountOf

\* How an ending counts: not at all, or once and for its own kind.
LEMMA EndedCounts ==
  ASSUME runs \in Seq(Rows), NEW exit, Ended(exit), stage.run \in 1..Len(runs) \/ exit \notin {"revise", "precheck"}
  PROVE  /\ Prechecks' <= Prechecks + (IF exit = "precheck" THEN 1 ELSE 0)
         /\ Critics' <= Critics + (IF exit = "revise" /\ stage.run \in OfKind("critique") THEN 1 ELSE 0)
         /\ PriorRevisions' <= PriorRevisions + (IF exit = "revise" /\ stage.run \in OfKind("evaluate") THEN 1 ELSE 0)
         /\ Prechecks' \in Nat /\ Critics' \in Nat /\ PriorRevisions' \in Nat
<1> DEFINE P == Sent("plan", "precheck") C == Sent("critique", "revise") R == Returned
<1>1. /\ P \subseteq 1..Len(runs) /\ C \subseteq 1..Len(runs) /\ R \subseteq 1..Len(runs) /\ Len(runs) \in Nat
  BY RowsOf
<1>2. /\ Prechecks = Cardinality(P) /\ Critics = Cardinality(C) /\ PriorRevisions = Cardinality(R)
      /\ Prechecks' = Cardinality(P') /\ Critics' = Cardinality(C') /\ PriorRevisions' = Cardinality(R')
  BY DEF Prechecks, Critics, PriorRevisions, SentBack, Sent, Returned
<1>3. /\ exit # "precheck" => P' \subseteq P
      /\ exit = "precheck" => P' \subseteq P \cup {stage.run}
  BY EndedRows
<1>4. /\ ~(exit = "revise" /\ stage.run \in OfKind("critique")) => C' \subseteq C
      /\ exit = "revise" => C' \subseteq C \cup {stage.run}
  BY EndedRows
<1>5. /\ ~(exit = "revise" /\ stage.run \in OfKind("evaluate")) => R' \subseteq R
      /\ exit = "revise" => R' \subseteq R \cup {stage.run}
  BY EndedRows
<1>6. runs' \in Seq(Rows)
  BY DEF Ended, Kept
<1>7. Prechecks' \in Nat /\ Critics' \in Nat /\ PriorRevisions' \in Nat
  <2>1. /\ P' \subseteq 1..Len(runs) /\ C' \subseteq 1..Len(runs) /\ R' \subseteq 1..Len(runs)
    <3> HIDE DEF P, C, R
    <3> QED BY <1>1, <1>3, <1>4, <1>5
  <2> HIDE DEF P, C, R
  <2> QED BY <1>1, <1>2, <2>1, CountOf
<1>8. Prechecks \in Nat /\ Critics \in Nat /\ PriorRevisions \in Nat
  BY Counted
<1> HIDE DEF P, C, R
<1>9. Prechecks' <= Prechecks + (IF exit = "precheck" THEN 1 ELSE 0)
  <2>1. CASE exit = "precheck"
    <3>1. Cardinality(P') <= Cardinality(P) + 1
      BY <1>1, <1>3, <2>1, CountOneMore
    <3> QED BY <1>2, <2>1, <3>1
  <2>2. CASE exit # "precheck"
    <3>1. Cardinality(P') <= Cardinality(P)
      BY <1>1, <1>3, <2>2, CountFewer
    <3> QED BY <1>2, <1>8, <2>2, <3>1
  <2> QED BY <2>1, <2>2
<1>10. Critics' <= Critics + (IF exit = "revise" /\ stage.run \in OfKind("critique") THEN 1 ELSE 0)
  <2>1. CASE exit = "revise" /\ stage.run \in OfKind("critique")
    <3>1. Cardinality(C') <= Cardinality(C) + 1
      BY <1>1, <1>4, <2>1, CountOneMore
    <3> QED BY <1>2, <2>1, <3>1
  <2>2. CASE ~(exit = "revise" /\ stage.run \in OfKind("critique"))
    <3>1. Cardinality(C') <= Cardinality(C)
      BY <1>1, <1>4, <2>2, CountFewer
    <3> QED BY <1>2, <1>8, <2>2, <3>1
  <2> QED BY <2>1, <2>2
<1>11. PriorRevisions' <= PriorRevisions + (IF exit = "revise" /\ stage.run \in OfKind("evaluate") THEN 1 ELSE 0)
  <2>1. CASE exit = "revise" /\ stage.run \in OfKind("evaluate")
    <3>1. Cardinality(R') <= Cardinality(R) + 1
      BY <1>1, <1>5, <2>1, CountOneMore
    <3> QED BY <1>2, <2>1, <3>1
  <2>2. CASE ~(exit = "revise" /\ stage.run \in OfKind("evaluate"))
    <3>1. Cardinality(R') <= Cardinality(R)
      BY <1>1, <1>5, <2>2, CountFewer
    <3> QED BY <1>2, <1>8, <2>2, <3>1
  <2> QED BY <2>1, <2>2
<1> QED BY <1>7, <1>9, <1>10, <1>11

\* The row of the stage is of the newest version or of none.
LEMMA OwnRow ==
  ASSUME RInv, stage.run # 0
  PROVE  /\ stage.run \in 1..Len(runs) /\ stage.run = Len(runs)
         /\ runs[stage.run].kind = stage.kind /\ LastKind = stage.kind
         /\ runs[stage.run].plan \in {0, Len(plans)}
         /\ \A kind : stage.run \in OfKind(kind) <=> kind = stage.kind
<1>1. /\ stage \in Stages /\ runs \in Seq(Rows) /\ DOMAIN runs = 1..Len(runs) /\ Len(runs) \in Nat
  BY Typed, LenProperties DEF RInv
<1>2. stage.run = Len(runs) /\ runs[stage.run].kind = stage.kind
  BY DEF RInv, StageHasRow
<1>3. stage.run \in 1..Len(runs)
  BY <1>1, <1>2
<1>4. runs[stage.run].plan \in {0, Len(plans)}
  BY DEF RInv, RowsAreOfPlan
<1>5. LastKind = stage.kind
  BY <1>1, <1>2, <1>3, EmptySeq DEF LastKind
<1>6. \A kind : stage.run \in OfKind(kind) <=> kind = stage.kind
  BY <1>1, <1>2, <1>3 DEF OfKind
<1> QED BY <1>2, <1>3, <1>4, <1>5, <1>6

LEMMA SameEnds ==
  ASSUME runs \in Seq(Rows), UNCHANGED runs, NEW exit
  PROVE  Ended(exit)
BY DEF Ended, Kept

LEMMA FinishEnds ==
  ASSUME RInv, stage.run # 0, NEW to \in Endings, NEW exit \in Exits, Finish(stage.run, to, exit)
  PROVE  Ended(exit)
<1>1. runs \in Seq(Rows) /\ stage.run \in 1..Len(runs)
  BY Typed, OwnRow DEF RInv
<1>2. CASE UNCHANGED runs
  BY <1>1, <1>2, SameEnds
<1>3. CASE runs' = [runs EXCEPT ![stage.run] = [@ EXCEPT !.status = to, !.exit = exit]]
  <2> DEFINE row == [runs[stage.run] EXCEPT !.status = to, !.exit = exit]
  <2>1. /\ row \in Rows /\ row.kind = runs[stage.run].kind /\ row.plan = runs[stage.run].plan
        /\ row.rejected = runs[stage.run].rejected /\ row.exit = exit
    <3>1. runs[stage.run] \in Rows
      BY <1>1, ElementOfSeq
    <3> QED BY <3>1 DEF Rows
  <2>2. runs' = [runs EXCEPT ![stage.run] = row]
    BY <1>3
  <2> HIDE DEF row
  <2>3. /\ runs' \in Seq(Rows) /\ Len(runs') = Len(runs)
        /\ \A j \in 1..Len(runs) : runs'[j] = IF j = stage.run THEN row ELSE runs[j]
    BY <1>1, <2>1, <2>2, ExceptSeq
  <2> QED BY <1>1, <2>1, <2>3 DEF Ended, Kept
<1> QED BY <1>2, <1>3 DEF Finish

\* An ending that sends nothing back uses up no revision.
LEMMA UsualEnds ==
  ASSUME RInv, NEW exit, exit \notin {"revise", "precheck"}, Ended(exit)
  PROVE  RevisionsAreBounded' /\ (MayRevise => MayRevise')
<1>1. runs \in Seq(Rows)
  BY Typed DEF RInv
<1>2. /\ Prechecks' <= Prechecks /\ Critics' <= Critics /\ PriorRevisions' <= PriorRevisions
      /\ Prechecks' \in Nat /\ Critics' \in Nat /\ PriorRevisions' \in Nat
      /\ Prechecks \in Nat /\ Critics \in Nat /\ PriorRevisions \in Nat
  BY <1>1, EndedCounts, Counted
<1>3. Prechecks <= 1 /\ Critics + Prechecks <= 2 /\ PriorRevisions <= 2
  BY DEF RInv, RevisionsAreBounded
<1> DEFINE p == Prechecks' c == Critics' v == PriorRevisions'
<1>4. /\ p <= 1 /\ c + p <= 2 /\ v <= 2
      /\ Prechecks = 0 /\ Critics + Prechecks < 2 => p = 0 /\ c + p < 2
  <2>1. p <= Prechecks /\ c <= Critics /\ v <= PriorRevisions /\ p \in Nat /\ c \in Nat /\ v \in Nat
    BY <1>2
  <2> HIDE DEF p, c, v
  <2> QED BY <1>2, <1>3, <2>1
<1> QED BY <1>4 DEF RevisionsAreBounded, MayRevise

\* Files that stay of the same code stay of the same runs.
LEMMA FilesKept ==
  ASSUME RInv, Kept, files'.gate = files.gate, files'.code = files.code, files'.notes = files.notes,
         files'.draft.by \in {files.draft.by, 0, Len(runs)}
  PROVE  FilesAreOfCode'
<1>1. LastKind' = LastKind /\ Len(runs') = Len(runs)
  BY KeptRows, Typed DEF RInv, Kept
<1> QED BY <1>1 DEF RInv, FilesAreOfCode

\* What a run leaves as it was, of earlier versions, when it ends.
LEMMA EndedKeeps ==
  ASSUME RInv, NEW exit, Ended(exit), UNCHANGED plans
  PROVE  /\ FeedbackIsAnswered'
         /\ LastKind' \in {"loop", "evaluate"} =>
              Cycle' \in DOMAIN runs' /\ runs'[Cycle'].kind = "loop" /\ runs'[Cycle'].plan = Len(plans')
<1>1. runs \in Seq(Rows) /\ plans \in Seq(0..MaxRuns) /\ Kept
  BY Typed DEF RInv, Ended
<1>2. \A p \in 1..(Len(plans) - 1) : Asked(p)' = Asked(p)
  <2> TAKE p \in 1..(Len(plans) - 1)
  <2>1. Len(plans) \in Nat
    BY <1>1, LenProperties
  <2>2. p # 0 /\ p # Len(plans)
    BY <2>1
  <2>3. stage.run # 0 => p # runs[stage.run].plan
    BY <2>2, OwnRow
  <2> QED BY <1>1, <2>3, EndedRows
<1>3. FeedbackIsAnswered'
  BY <1>1, <1>2, PlansKept DEF RInv
<1>4. DOMAIN runs' = DOMAIN runs /\ LastKind' = LastKind /\ Cycle' = Cycle /\ DOMAIN runs = 1..Len(runs)
  BY <1>1, KeptRows, RowsOf
<1>5. \A i \in 1..Len(runs) : runs'[i].kind = runs[i].kind /\ runs'[i].plan = runs[i].plan
  BY DEF Ended, Kept
<1> QED BY <1>3, <1>4, <1>5 DEF RInv, LoopIsOfPlan

\* A stage ends, with its run, and another one begins or none.
LEMMA FreshKeeps ==
  ASSUME RoundBounds, RInv, Fresh, UNCHANGED plans, NEW exit, Ended(exit),
         status' \in Statuses, verbs' \in 0..MaxVerbs, files' \in Files,
         FilesAreOfCode', RevisionsAreBounded',
         stage'.kind = "evaluate" => LastKind \in {"loop", "evaluate"},
         status' = "review" => stage' = NoStage /\ LastKind = "evaluate"
  PROVE  RInv'
<1>1. /\ runs \in Seq(Rows) /\ plans \in Seq(0..MaxRuns) /\ Kept /\ Len(runs) <= MaxRuns
      /\ runs' \in Seq(Rows) /\ Len(runs') = Len(runs)
  BY Typed DEF RInv, Ended, Kept
<1>2. /\ StageHasRow' /\ StageIsOfCode' /\ ArtifactsAreOwn' /\ RevisionsLeft' /\ RowsAreOfPlan'
      /\ stage' \in Stages /\ stage'.pc \in {"off", "prep"}
  BY FreshStage
<1>3. RoundTypeOK'
  BY <1>1, <1>2, TypedNext
<1>4. LastKind' = LastKind
  BY <1>1, KeptRows
<1>5. FeedbackIsAnswered' /\ LoopIsOfPlan'
  BY <1>4, EndedKeeps DEF LoopIsOfPlan
<1>6. VersionsHaveRuns'
  BY <1>1, <1>2 DEF RInv, VersionsHaveRuns
<1> QED BY <1>2, <1>3, <1>5, <1>6 DEF RInv

\* A stage that works has a run; there is none to review.
LEMMA AtWork ==
  ASSUME RInv
  PROVE  /\ stage.pc \in {"gate", "agent", "after", "commit"} => stage.run # 0 /\ stage # NoStage
         /\ stage.kind = "loop" => stage.run # 0
         /\ stage # NoStage => status # "review" /\ stage.pc # "off" /\ stage.kind \in RunKinds
         /\ NoStage.run = 0 /\ NoStage.kind = "none"
         /\ runs \in Seq(Rows) /\ files \in Files /\ stage \in Stages /\ status \in Statuses
         /\ verbs \in 0..MaxVerbs /\ plans \in Seq(0..MaxRuns)
<1>1. /\ runs \in Seq(Rows) /\ files \in Files /\ stage \in Stages /\ status \in Statuses
      /\ verbs \in 0..MaxVerbs /\ plans \in Seq(0..MaxRuns)
  BY Typed DEF RInv
<1>2. NoStage.run = 0 /\ NoStage.kind = "none" /\ NoStage.pc = "off"
  BY DEF NoStage
<1>3. stage # NoStage => stage.kind # "none"
  BY DEF RInv, StageHasRow
<1>4. stage.kind \in RunKinds \cup {"none"}
  BY <1>1 DEF Stages, RunKinds
<1> QED BY <1>1, <1>2, <1>3, <1>4 DEF RInv, StageHasRow, LoopIsOfPlan

-----------------------------------------------------------------------------
(* The steps that end a stage, and those that begin one.                   *)

\* Steps that start a stage and touch no row and no file.
LEMMA StartKeeps ==
  ASSUME RoundBounds, RInv, UNCHANGED <<plans, runs, files>>, verbs' \in 0..MaxVerbs,
         status' \in Statuses \ {"review"},
         \/ stage' = Begin("plan") \/ stage' = NoStage \/ stage' = Begin("critique")
         \/ stage' = Begin("evaluate") /\ LastKind \in {"loop", "evaluate"}
  PROVE  RInv'
<1>1. Ended("none")
  BY SameEnds, AtWork
<1>2. Fresh
  BY DEF Fresh
<1>3. RevisionsAreBounded' /\ FilesAreOfCode'
  BY <1>1, UsualEnds, FilesKept DEF Ended, RInv, FilesAreOfCode
<1>4. stage'.kind = "evaluate" => LastKind \in {"loop", "evaluate"}
  BY BeginIs, AtWork DEF RunKinds
<1> QED BY <1>1, <1>2, <1>3, <1>4, FreshKeeps, AtWork

LEMMA VerbIsBounded == ASSUME NEW verb, RoundBounds, RInv, May(verb) PROVE verbs' \in 0..MaxVerbs
BY AtWork DEF May, RoundBounds

LEMMA StartStarts ==
  ASSUME RInv, Start, stage = NoStage
  PROVE  status' \in Statuses \ {"review"} /\ (stage' = Begin("plan") \/ stage' = NoStage)
BY DEF Start, Statuses

LEMMA PumpTodoKeeps == ASSUME RoundBounds, RInv, PumpTodo PROVE RInv'
BY StartStarts, StartKeeps, AtWork DEF PumpTodo

LEMMA RestartKeeps == ASSUME RoundBounds, RInv, Restart PROVE RInv'
BY StartStarts, StartKeeps, VerbIsBounded DEF Restart

LEMMA RetryStepKeeps == ASSUME RoundBounds, RInv, RetryStep PROVE RInv'
<1>1. verbs' \in 0..MaxVerbs
  BY VerbIsBounded DEF RetryStep
<1> DEFINE step == IF Len(runs) = 0 THEN "none" ELSE runs[Len(runs)].kind
<1>2. runs \in Seq(Rows) /\ Len(runs) \in Nat /\ (runs = <<>> <=> Len(runs) = 0)
  BY AtWork, LenProperties, EmptySeq
<1>3. step = LastKind
  BY <1>2 DEF LastKind
<1>4. step # "none" => step \in RunKinds
  <2>1. Len(runs) # 0 => runs[Len(runs)] \in Rows
    BY <1>2, ElementOfSeq
  <2> QED BY <2>1 DEF Rows
<1> HIDE DEF step
<1>5. /\ stage = NoStage /\ step # "none" /\ UNCHANGED <<plans, runs, files>>
      /\ \/ status' = "ready" /\ stage' = stage
         \/ status' = StatusOf[IF step = "loop" THEN "evaluate" ELSE step]
            /\ stage' = Begin(IF step = "loop" THEN "evaluate" ELSE step)
  BY Zenon DEF RetryStep, step
<1>6. status' \in Statuses \ {"review"}
  BY <1>4, <1>5 DEF StatusOf, Statuses, RunKinds
<1>7. \/ stage' = Begin("plan") \/ stage' = NoStage \/ stage' = Begin("critique")
      \/ stage' = Begin("evaluate") /\ LastKind \in {"loop", "evaluate"}
  BY <1>3, <1>4, <1>5 DEF RunKinds
<1> QED BY <1>1, <1>5, <1>6, <1>7, StartKeeps

\* Steps that end the run of the stage, and send nothing back.
LEMMA EndKeeps ==
  ASSUME RoundBounds, RInv, UNCHANGED plans, NEW exit \in Exits, exit \notin {"revise", "precheck"}, Ended(exit),
         verbs' \in 0..MaxVerbs, status' \in Statuses, stage # NoStage,
         files' \in Files, files'.gate = files.gate \/ files'.gate = files.code, files'.code = files.code,
         files'.notes = files.notes, files'.draft.by \in {files.draft.by, 0},
         \/ stage' = NoStage
         \/ stage' = Begin("plan") \/ stage' = Begin("critique")
         \/ stage' = Begin("evaluate") /\ LastKind \in {"loop", "evaluate"},
         status' = "review" => stage' = NoStage /\ LastKind = "evaluate"
  PROVE  RInv'
<1>1. Fresh
  BY DEF Fresh
<1>2. FilesAreOfCode'
  <2>1. LastKind' = LastKind /\ Len(runs') = Len(runs)
    BY KeptRows, AtWork DEF Ended, Kept
  <2> QED BY <2>1 DEF RInv, FilesAreOfCode
<1>3. RevisionsAreBounded'
  BY UsualEnds
<1>4. stage'.kind = "evaluate" => LastKind \in {"loop", "evaluate"}
  BY BeginIs, AtWork DEF RunKinds
<1> QED BY <1>1, <1>2, <1>3, <1>4, FreshKeeps, AtWork

LEMMA MoveIs ==
  ASSUME RInv, NEW from, NEW to \in Statuses, Move(from, to)
  PROVE  status' \in Statuses /\ (status' = "review" => status = "review" \/ to = "review")
BY AtWork DEF Move

LEMMA PreparationThrowsKeeps == ASSUME RoundBounds, RInv, PreparationThrows PROVE RInv'
<1>1. stage # NoStage
  BY AtWork DEF PreparationThrows, NoStage
<1>2. Ended("failed")
  <2>1. CASE stage.kind = "loop"
    BY <2>1, AtWork, FinishEnds DEF PreparationThrows, Endings, Exits
  <2>2. CASE stage.kind # "loop"
    BY <2>2, AtWork, SameEnds DEF PreparationThrows
  <2> QED BY <2>1, <2>2
<1>3. status' \in Statuses /\ status' # "review"
  BY <1>1, MoveIs, AtWork DEF PreparationThrows, Statuses
<1> QED BY <1>1, <1>2, <1>3, EndKeeps, AtWork DEF PreparationThrows, Exits

LEMMA FailKeeps == ASSUME RoundBounds, RInv, Fail PROVE RInv'
<1>1. stage.run # 0 /\ stage # NoStage
  BY AtWork DEF Fail
<1>2. Ended("failed")
  BY <1>1, FinishEnds DEF Fail, Endings, Exits
<1>3. status' \in Statuses /\ status' # "review"
  BY <1>1, MoveIs, AtWork DEF Fail, Statuses
<1> QED BY <1>1, <1>2, <1>3, EndKeeps, AtWork DEF Fail, Exits

LEMMA DropKeeps == ASSUME RoundBounds, RInv, Drop PROVE RInv'
<1>1. stage # NoStage
  BY AtWork DEF Drop, NoStage
<1>2. Ended("none")
  BY SameEnds, AtWork DEF Drop
<1> QED BY <1>1, <1>2, EndKeeps, AtWork DEF Drop, Exits

LEMMA NoVerdictKeeps == ASSUME RoundBounds, RInv, NoVerdictOfTheCancelled PROVE RInv'
<1>1. stage # NoStage
  BY AtWork DEF NoVerdictOfTheCancelled, NoStage
<1>2. Ended("none")
  BY SameEnds, AtWork DEF NoVerdictOfTheCancelled
<1> QED BY <1>1, <1>2, EndKeeps, AtWork DEF NoVerdictOfTheCancelled, Exits

LEMMA AskQuestionsKeeps == ASSUME RoundBounds, RInv, AskQuestions PROVE RInv'
<1>1. stage.run # 0 /\ stage # NoStage
  BY AtWork DEF AskQuestions
<1>2. Ended("questions")
  BY <1>1, FinishEnds DEF AskQuestions, Endings, Exits
<1>3. status' \in Statuses /\ status' # "review"
  BY <1>1, MoveIs, AtWork DEF AskQuestions, Statuses
<1> QED BY <1>1, <1>2, <1>3, EndKeeps, AtWork DEF AskQuestions, Exits

LEMMA CrashKeeps == ASSUME RoundBounds, RInv, Crash PROVE RInv'
<1>1. verbs' \in 0..MaxVerbs
  BY VerbIsBounded DEF Crash
<1>2. Ended("failed")
  <2>1. CASE stage.run # 0
    BY <2>1, FinishEnds DEF Crash, Endings, Exits
  <2>2. CASE stage.run = 0
    BY <2>2, AtWork, SameEnds DEF Crash
  <2> QED BY <2>1, <2>2
<1>3. status' \in Statuses /\ status' # "review" /\ stage # NoStage
  BY AtWork DEF Crash, Statuses, InStage
<1>4. /\ files' \in Files /\ files'.gate = files.gate /\ files'.code = files.code
      /\ files'.notes = files.notes /\ files'.draft = files.draft
  <2>1. PICK ticked \in BOOLEAN :
          files' = [files EXCEPT !.ticked = @ \/ ticked, !.done = @ \/ ticked]
    BY DEF Crash
  <2>2. (files.ticked \/ ticked) \in BOOLEAN /\ (files.done \/ ticked) \in BOOLEAN
    OBVIOUS
  <2> QED BY <2>1, <2>2, AtWork DEF Files
<1> QED BY <1>1, <1>2, <1>3, <1>4, EndKeeps DEF Crash, Exits

LEMMA LoopFailsKeeps == ASSUME RoundBounds, RInv, LoopFails PROVE RInv'
<1>1. stage.run # 0 /\ stage # NoStage
  BY AtWork DEF LoopFails
<1>2. PICK exit \in {"blocked", "exhausted", "failed"} :
        /\ Finish(stage.run, "failed", exit)
        /\ files' = [files EXCEPT !.ticked = @ \/ exit = "exhausted"]
  BY DEF LoopFails
<1>3. Ended(exit)
  BY <1>1, <1>2, FinishEnds DEF Endings, Exits
<1>4. status' \in Statuses /\ status' # "review"
  BY <1>1, MoveIs, AtWork DEF LoopFails, Statuses
<1>5. /\ files' \in Files /\ files'.gate = files.gate /\ files'.code = files.code
      /\ files'.notes = files.notes /\ files'.draft = files.draft
  <2>1. (files.ticked \/ exit = "exhausted") \in BOOLEAN
    OBVIOUS
  <2> QED BY <1>2, <2>1, AtWork DEF Files
<1> QED BY <1>1, <1>3, <1>4, <1>5, EndKeeps, AtWork DEF LoopFails, Exits

LEMMA LoopDoneKeeps == ASSUME RoundBounds, RInv, LoopDone PROVE RInv'
<1>1. stage.run # 0 /\ stage # NoStage /\ LastKind = "loop" /\ stage.run = files.code
  BY AtWork, OwnRow DEF LoopDone, RInv, StageIsOfCode
<1>2. /\ files' \in Files /\ files'.code = files.code /\ files'.gate \in {files.gate, files.code}
      /\ files'.notes = files.notes /\ files'.draft = files.draft
  <2>1. PICK gate \in {files.gate, stage.run} :
          files' = [files EXCEPT !.gate = gate, !.ticked = TRUE, !.done = TRUE]
    BY DEF LoopDone
  <2>2. gate \in 0..MaxRuns
    BY <2>1, <1>1, AtWork DEF Files
  <2> QED BY <2>1, <2>2, <1>1, AtWork DEF Files
<1>3. CASE Finish(stage.run, "completed", "ok") /\ Move("looping", "evaluating") /\ stage' = Begin("evaluate")
  <2>1. Ended("ok")
    BY <1>1, <1>3, FinishEnds DEF Endings, Exits
  <2>2. status' \in Statuses /\ status' # "review"
    BY <1>1, <1>3, MoveIs, AtWork DEF Statuses
  <2> QED BY <1>1, <1>2, <1>3, <2>1, <2>2, EndKeeps, AtWork DEF LoopDone, Exits
<1>4. CASE Finish(stage.run, "failed", "failed") /\ Move("looping", "needs_attention") /\ stage' = NoStage
  <2>1. Ended("failed")
    BY <1>1, <1>4, FinishEnds DEF Endings, Exits
  <2>2. status' \in Statuses /\ status' # "review"
    BY <1>1, <1>4, MoveIs, AtWork DEF Statuses
  <2> QED BY <1>1, <1>2, <1>4, <2>1, <2>2, EndKeeps, AtWork DEF LoopDone, Exits
<1> QED BY <1>3, <1>4 DEF LoopDone

\* A revision is counted once, within what was left.
LEMMA RevisionCounts ==
  ASSUME RInv, stage.run # 0, NEW exit \in {"revise", "precheck"}, Ended(exit),
         exit = "precheck" => MayRevise,
         exit = "revise" /\ stage.kind = "critique" => Critics + Prechecks < 2,
         exit = "revise" /\ stage.kind = "evaluate" => PriorRevisions < 2
  PROVE  RevisionsAreBounded'
<1> DEFINE p == Prechecks' c == Critics' v == PriorRevisions'
<1>1. /\ p <= Prechecks + (IF exit = "precheck" THEN 1 ELSE 0)
      /\ c <= Critics + (IF exit = "revise" /\ stage.kind = "critique" THEN 1 ELSE 0)
      /\ v <= PriorRevisions + (IF exit = "revise" /\ stage.kind = "evaluate" THEN 1 ELSE 0)
      /\ p \in Nat /\ c \in Nat /\ v \in Nat
  <2>1. /\ stage.run \in 1..Len(runs) /\ runs \in Seq(Rows)
        /\ \A kind : stage.run \in OfKind(kind) <=> kind = stage.kind
    BY OwnRow, AtWork
  <2> QED BY <2>1, EndedCounts
<1>2. Prechecks \in Nat /\ Critics \in Nat /\ PriorRevisions \in Nat
  BY Counted, AtWork
<1>3. /\ Prechecks <= 1 /\ Critics + Prechecks <= 2 /\ PriorRevisions <= 2
      /\ exit = "precheck" => Prechecks = 0 /\ Critics + Prechecks < 2
  BY DEF RInv, RevisionsAreBounded, MayRevise
<1> HIDE DEF p, c, v
<1>4. p <= 1 /\ v <= 2
  BY <1>1, <1>2, <1>3
<1>5. c + p <= 2
  <2>1. CASE exit = "precheck"
    <3>1. c <= Critics /\ p <= Prechecks + 1
      BY <1>1, <1>2, <2>1
    <3> QED BY <1>1, <1>2, <1>3, <2>1, <3>1
  <2>2. CASE exit = "revise" /\ stage.kind = "critique"
    <3>1. c <= Critics + 1 /\ p <= Prechecks
      BY <1>1, <1>2, <2>2
    <3> QED BY <1>1, <1>2, <1>3, <2>2, <3>1
  <2>3. CASE exit = "revise" /\ stage.kind # "critique"
    <3>1. c <= Critics /\ p <= Prechecks
      BY <1>1, <1>2, <2>3
    <3> QED BY <1>1, <1>2, <1>3, <3>1
  <2> QED BY <2>1, <2>2, <2>3
<1> QED BY <1>4, <1>5 DEF RevisionsAreBounded, p, c, v

\* Steps that send a card back to the planner.
LEMMA SendBackKeeps ==
  ASSUME RoundBounds, RInv, UNCHANGED plans, NEW exit \in {"revise", "precheck"}, Ended(exit), RevisionsAreBounded',
         verbs' = verbs, status' \in Statuses, status' # "review", stage' = Begin("plan"),
         files' \in Files, files'.gate = files.gate, files'.code = files.code,
         files'.notes = files.notes, files'.draft = files.draft
  PROVE  RInv'
<1>1. Fresh /\ stage'.kind = "plan"
  BY BeginIs DEF Fresh, RunKinds
<1>2. FilesAreOfCode'
  BY FilesKept DEF Ended
<1> QED BY <1>1, <1>2, FreshKeeps, AtWork

LEMMA RoutePlanKeeps == ASSUME RoundBounds, RInv, RoutePlan PROVE RInv'
<1>1. stage.run # 0 /\ stage # NoStage /\ stage.kind = "plan"
  BY AtWork DEF RoutePlan, RInv, StageHasRow
<1>2. CASE stage.revise
  <2>1. Ended("precheck")
    BY <1>1, <1>2, FinishEnds DEF RoutePlan, Endings, Exits
  <2>2. RevisionsAreBounded'
    BY <1>1, <1>2, <2>1, RevisionCounts DEF RoutePlan, RInv, RevisionsLeft
  <2> QED BY <1>1, <1>2, <2>1, <2>2, SendBackKeeps, AtWork DEF RoutePlan
<1>3. CASE ~stage.revise
  <2>1. Ended("ok")
    BY <1>1, <1>3, FinishEnds DEF RoutePlan, Endings, Exits
  <2>2. CASE CriticOn
    BY <1>1, <1>3, <2>1, <2>2, EndKeeps, AtWork DEF RoutePlan, Exits
  <2>3. CASE ~CriticOn
    <3>1. status' \in Statuses /\ status' # "review"
      BY <1>1, <1>3, <2>3, MoveIs, AtWork DEF RoutePlan, Destination, Statuses
    <3> QED BY <1>1, <1>3, <2>1, <2>3, <3>1, EndKeeps, AtWork DEF RoutePlan, Exits
  <2> QED BY <2>2, <2>3
<1> QED BY <1>2, <1>3

LEMMA DecideCritiqueKeeps == ASSUME RoundBounds, RInv, DecideCritique PROVE RInv'
<1>1. stage.run # 0 /\ stage # NoStage /\ stage.kind = "critique"
  BY AtWork DEF DecideCritique
<1>2. /\ files' \in Files /\ files'.gate = files.gate /\ files'.code = files.code
      /\ files'.notes = files.notes /\ files'.draft = files.draft
  <2>1. NoFile \in Verdicts
    BY DEF NoFile, Verdicts, RoundBounds
  <2> QED BY <2>1, AtWork DEF DecideCritique, Files
<1>3. CASE files.critique.says = "approve"
  <2>1. Ended("approve")
    BY <1>1, <1>3, FinishEnds DEF DecideCritique, Endings, Exits
  <2>2. status' \in Statuses /\ status' # "review"
    BY <1>1, <1>3, MoveIs, AtWork DEF DecideCritique, Destination, Statuses
  <2> QED BY <1>1, <1>2, <1>3, <2>1, <2>2, EndKeeps, AtWork DEF DecideCritique, Exits
<1>4. CASE files.critique.says # "approve" /\ Critics + Prechecks >= 2
  <2>1. Ended("limit")
    BY <1>1, <1>4, FinishEnds DEF DecideCritique, Endings, Exits
  <2>2. status' \in Statuses /\ status' # "review"
    BY <1>1, <1>4, MoveIs, AtWork DEF DecideCritique, Statuses
  <2> QED BY <1>1, <1>2, <1>4, <2>1, <2>2, EndKeeps, AtWork DEF DecideCritique, Exits
<1>5. CASE files.critique.says # "approve" /\ ~(Critics + Prechecks >= 2)
  <2>1. Ended("revise")
    BY <1>1, <1>5, FinishEnds DEF DecideCritique, Endings, Exits
  <2>2. Critics + Prechecks < 2
    BY <1>5, Counted, AtWork
  <2>3. RevisionsAreBounded'
    BY <1>1, <2>1, <2>2, RevisionCounts
  <2> QED BY <1>1, <1>2, <1>5, <2>1, <2>3, SendBackKeeps, AtWork DEF DecideCritique
<1> QED BY <1>3, <1>4, <1>5

LEMMA DecideEvaluationKeeps == ASSUME RoundBounds, RInv, DecideEvaluation PROVE RInv'
<1>1. stage.run # 0 /\ stage # NoStage /\ stage.kind = "evaluate" /\ LastKind = "evaluate"
  BY AtWork, OwnRow DEF DecideEvaluation
<1>2. CASE files.evaluation.says = "revise" /\ PriorRevisions < 2
  <2>1. Ended("revise")
    BY <1>1, <1>2, FinishEnds DEF DecideEvaluation, Endings, Exits
  <2>2. RevisionsAreBounded'
    BY <1>1, <1>2, <2>1, RevisionCounts
  <2>3. status' \in Statuses /\ status' # "review"
    BY <1>1, <1>2, MoveIs, AtWork DEF DecideEvaluation, Statuses
  <2> QED BY <1>1, <1>2, <2>1, <2>2, <2>3, SendBackKeeps, AtWork DEF DecideEvaluation
<1>3. CASE ~(files.evaluation.says = "revise" /\ PriorRevisions < 2)
  <2>1. PICK exit \in {"approve", "limit"} : Finish(stage.run, "completed", exit)
    BY <1>3 DEF DecideEvaluation
  <2>2. Ended(exit)
    BY <1>1, <2>1, FinishEnds DEF Endings, Exits
  <2>3. status' \in Statuses
    BY <1>3, MoveIs DEF DecideEvaluation, Statuses
  <2> QED BY <1>1, <1>3, <2>1, <2>2, <2>3, EndKeeps, AtWork DEF DecideEvaluation, Exits
<1> QED BY <1>2, <1>3

-----------------------------------------------------------------------------
(* The steps within a stage, and those of operators.                       *)

LEMMA SameRows ==
  ASSUME UNCHANGED <<plans, runs>>
  PROVE  /\ LastKind' = LastKind /\ Cycle' = Cycle /\ Pending' = Pending
         /\ RevisionsAreBounded' <=> RevisionsAreBounded
         /\ MayRevise' <=> MayRevise
         /\ FeedbackIsAnswered' <=> FeedbackIsAnswered
<1>1. /\ LastKind' = LastKind /\ Cycle' = Cycle
      /\ Prechecks' = Prechecks /\ Critics' = Critics /\ PriorRevisions' = PriorRevisions
  BY DEF LastKind, Cycle, OfKind, Prechecks, Critics, PriorRevisions, SentBack
<1>2. Pending' = Pending
  BY DEF Pending, Asked
<1>3. FeedbackIsAnswered' <=> FeedbackIsAnswered
  BY DEF FeedbackIsAnswered, Asked
<1> QED BY <1>1, <1>2, <1>3 DEF RevisionsAreBounded, MayRevise

\* Only the card moves.
LEMMA StatusKeeps ==
  ASSUME RInv, UNCHANGED <<plans, runs, files, stage>>, verbs' \in 0..MaxVerbs,
         status' \in Statuses \ {"review"}
  PROVE  RInv'
<1>1. /\ LastKind' = LastKind /\ Cycle' = Cycle /\ Pending' = Pending
      /\ RevisionsAreBounded' /\ (MayRevise' <=> MayRevise) /\ FeedbackIsAnswered'
  BY SameRows DEF RInv
<1>2. RoundTypeOK'
  BY Typed, TypedNext DEF RInv
<1>3. VersionsHaveRuns' /\ StageHasRow' /\ FilesAreOfCode' /\ StageIsOfCode' /\ ArtifactsAreOwn'
  BY <1>1 DEF RInv, VersionsHaveRuns, StageHasRow, FilesAreOfCode, StageIsOfCode, ArtifactsAreOwn
<1>4. RevisionsLeft' /\ RowsAreOfPlan' /\ LoopIsOfPlan'
  BY <1>1 DEF RInv, RevisionsLeft, RowsAreOfPlan, LoopIsOfPlan
<1> QED BY <1>1, <1>2, <1>3, <1>4 DEF RInv

LEMMA QueueKeeps == ASSUME RoundBounds, RInv, Queue PROVE RInv'
BY StatusKeeps, VerbIsBounded DEF Queue, Statuses

LEMMA ApprovePlanKeeps == ASSUME RoundBounds, RInv, ApprovePlan PROVE RInv'
BY StatusKeeps, VerbIsBounded DEF ApprovePlan, Statuses

LEMMA ApproveKeeps == ASSUME RoundBounds, RInv, Approve PROVE RInv'
BY StatusKeeps, VerbIsBounded DEF Approve, Statuses

LEMMA RetryMergeKeeps == ASSUME RoundBounds, RInv, RetryMerge PROVE RInv'
BY StatusKeeps, VerbIsBounded DEF RetryMerge, Statuses

\* A stage goes on, and no row changes.
LEMMA WorkKeeps ==
  ASSUME RInv, UNCHANGED <<status, plans, runs, verbs>>, stage # NoStage,
         stage' \in Stages, stage'.kind = stage.kind, stage'.run = stage.run,
         stage'.answers = stage.answers,
         stage.pc \in {"gate", "agent"} \/ stage.kind = "loop", stage'.pc \in {"agent", "after"},
         files' \in Files, FilesAreOfCode', StageIsOfCode', ArtifactsAreOwn'
  PROVE  RInv'
<1>1. /\ LastKind' = LastKind /\ Cycle' = Cycle /\ Pending' = Pending
      /\ RevisionsAreBounded' /\ FeedbackIsAnswered'
  BY SameRows DEF RInv
<1>2. RoundTypeOK'
  BY Typed, TypedNext DEF RInv
<1>3. /\ stage.kind # "none" /\ stage.run # 0 /\ (stage.kind = "plan" => stage.pc = "agent")
  BY AtWork DEF RInv, StageHasRow, RunKinds
<1>4. VersionsHaveRuns' /\ StageHasRow'
  BY <1>3 DEF RInv, VersionsHaveRuns, StageHasRow
<1>5. RevisionsLeft'
  BY DEF RevisionsLeft
<1>6. RowsAreOfPlan'
  <2>1. stage.kind = "plan" => stage.pc # "commit"
    BY <1>3
  <2> QED BY <1>1, <1>3, <2>1 DEF RInv, RowsAreOfPlan
<1>7. LoopIsOfPlan'
  BY <1>1, AtWork DEF RInv, LoopIsOfPlan
<1> QED BY <1>1, <1>2, <1>4, <1>5, <1>6, <1>7 DEF RInv

LEMMA PrepareLoopKeeps == ASSUME RoundBounds, RInv, PrepareLoop PROVE RInv'
<1>1. stage # NoStage /\ stage.run # 0 /\ LastKind = "loop"
  BY AtWork, OwnRow DEF PrepareLoop, NoStage
<1>2. /\ stage' \in Stages /\ stage'.kind = "loop" /\ stage'.run = stage.run /\ stage'.pc = "agent"
      /\ stage'.answers = stage.answers /\ stage'.drafts = stage.drafts
  BY AtWork DEF PrepareLoop, Stages
<1>3. /\ files' \in Files /\ files'.gate = 0 /\ files'.code = stage.run
  <2>1. NoFile \in Verdicts /\ stage.run \in 0..MaxRuns /\ 0 \in 0..MaxRuns
    BY AtWork DEF NoFile, Verdicts, RoundBounds, Stages
  <2> QED BY <2>1, AtWork DEF PrepareLoop, ClearForLoop, Files
<1>4. LastKind' = LastKind
  BY SameRows DEF PrepareLoop
<1>5. FilesAreOfCode'
  BY <1>1, <1>3, <1>4 DEF FilesAreOfCode
<1>6. StageIsOfCode'
  BY <1>2, <1>3 DEF PrepareLoop, RInv, StageIsOfCode
<1>7. ArtifactsAreOwn'
  BY <1>2 DEF ArtifactsAreOwn
<1> QED BY <1>1, <1>2, <1>3, <1>5, <1>6, <1>7, WorkKeeps DEF PrepareLoop

LEMMA RunGateKeeps == ASSUME RoundBounds, RInv, RunGate PROVE RInv'
<1>1. stage # NoStage /\ stage.run # 0 /\ stage.kind = "evaluate"
  BY AtWork DEF RunGate, RInv, StageHasRow
<1> DEFINE gate == IF files.gate = 0 THEN files.code ELSE files.gate
<1>2. gate = files.code /\ gate \in 0..MaxRuns
  BY AtWork DEF RInv, FilesAreOfCode, Files
<1>3. files' = [files EXCEPT !.gate = gate] /\ stage' = [stage EXCEPT !.pc = "agent", !.gate = gate]
  BY Zenon DEF RunGate
<1> HIDE DEF gate
<1>4. /\ stage' \in Stages /\ stage'.kind = stage.kind /\ stage'.run = stage.run /\ stage'.pc = "agent"
      /\ stage'.answers = stage.answers /\ stage'.drafts = stage.drafts /\ stage'.notes = stage.notes
      /\ stage'.gate = gate
  BY <1>2, <1>3, AtWork DEF Stages
<1>5. /\ files' \in Files /\ files'.gate = gate /\ files'.code = files.code /\ files'.notes = files.notes
      /\ files'.draft = files.draft /\ files'.evaluation = files.evaluation
  BY <1>2, <1>3, AtWork DEF Files
<1>6. FilesAreOfCode'
  <2>1. LastKind' = LastKind /\ UNCHANGED runs
    BY SameRows DEF RunGate
  <2> QED BY <1>2, <1>5, <2>1 DEF RInv, FilesAreOfCode
<1>7. StageIsOfCode'
  BY <1>1, <1>2, <1>4, <1>5 DEF RInv, StageIsOfCode
<1>8. ArtifactsAreOwn'
  BY <1>1, <1>4, <1>5 DEF RInv, ArtifactsAreOwn, RunGate
<1> QED BY <1>1, <1>4, <1>5, <1>6, <1>7, <1>8, WorkKeeps DEF RunGate

LEMMA AgentEndsKeeps == ASSUME RoundBounds, RInv, AgentEnds PROVE RInv'
<1>1. stage # NoStage
  BY AtWork DEF AgentEnds
<1>2. /\ stage' \in Stages /\ stage'.kind = stage.kind /\ stage'.run = stage.run /\ stage'.pc = "after"
      /\ stage'.answers = stage.answers /\ stage'.drafts = stage.drafts /\ stage'.notes = stage.notes
      /\ stage'.gate = stage.gate
  BY AtWork DEF AgentEnds, Stages
<1>3. LastKind' = LastKind /\ UNCHANGED <<files, runs>> /\ files' \in Files
  BY SameRows, AtWork DEF AgentEnds
<1>4. FilesAreOfCode'
  BY <1>3 DEF RInv, FilesAreOfCode
<1>5. StageIsOfCode'
  BY <1>2, <1>3 DEF RInv, StageIsOfCode, AgentEnds
<1>6. ArtifactsAreOwn'
  BY <1>2, <1>3 DEF RInv, ArtifactsAreOwn, AgentEnds
<1> QED BY <1>1, <1>2, <1>3, <1>4, <1>5, <1>6, WorkKeeps DEF AgentEnds

LEMMA AgentWritesKeeps == ASSUME RoundBounds, RInv, AgentWrites PROVE RInv'
<1>1. stage # NoStage /\ stage.run # 0 /\ stage.pc = "agent" /\ stage.run = Len(runs)
      /\ LastKind = stage.kind /\ stage.run \in 0..MaxRuns
  BY AtWork, OwnRow DEF AgentWrites, Stages
<1>2. /\ UNCHANGED <<stage, runs, plans, status, verbs>> /\ LastKind' = LastKind
  BY SameRows DEF AgentWrites
<1>3. /\ files' \in Files /\ files'.code = files.code /\ files'.gate = files.gate
      /\ files'.draft = files.draft \/ (stage.kind = "plan" /\ files'.draft.by = stage.run)
      /\ files'.critique = files.critique \/ (stage.kind = "critique" /\ files'.critique.by = stage.run)
      /\ files'.evaluation = files.evaluation \/ (stage.kind = "evaluate" /\ files'.evaluation.by = stage.run)
      /\ files'.notes = files.notes \/ (stage.kind = "evaluate" /\ files'.notes = files.code)
  <2>1. CASE \E says \in {"plan", "questions"} :
               stage.kind = "plan" /\ files' = [files EXCEPT !.draft = [by |-> stage.run, says |-> says]]
    <3>1. PICK says \in {"plan", "questions"} :
               stage.kind = "plan" /\ files' = [files EXCEPT !.draft = [by |-> stage.run, says |-> says]]
      BY <2>1
    <3>2. [by |-> stage.run, says |-> says] \in Drafts
      BY <1>1, <3>1 DEF Drafts
    <3> QED BY <3>1, <3>2, AtWork DEF Files
  <2>2. CASE \E says \in {"approve", "revise"} :
               stage.kind = "critique" /\ files' = [files EXCEPT !.critique = [by |-> stage.run, says |-> says]]
    <3>1. PICK says \in {"approve", "revise"} :
               stage.kind = "critique" /\ files' = [files EXCEPT !.critique = [by |-> stage.run, says |-> says]]
      BY <2>2
    <3>2. [by |-> stage.run, says |-> says] \in Verdicts
      BY <1>1, <3>1 DEF Verdicts
    <3> QED BY <3>1, <3>2, AtWork DEF Files
  <2>3. CASE \E says \in {"approve", "revise"} :
               stage.kind = "evaluate" /\ files' = [files EXCEPT !.evaluation = [by |-> stage.run, says |-> says],
                                                                 !.notes = files.code]
    <3>1. PICK says \in {"approve", "revise"} :
               stage.kind = "evaluate" /\ files' = [files EXCEPT !.evaluation = [by |-> stage.run, says |-> says],
                                                                 !.notes = files.code]
      BY <2>3
    <3>2. [by |-> stage.run, says |-> says] \in Verdicts /\ files.code \in 0..MaxRuns
      BY <1>1, <3>1, AtWork DEF Verdicts, Files
    <3> QED BY <3>1, <3>2, AtWork DEF Files
  <2>4. CASE stage.kind = "evaluate" /\ files' = [files EXCEPT !.notes = files.code]
    <3>1. files.code \in 0..MaxRuns
      BY AtWork DEF Files
    <3> QED BY <2>4, <3>1, AtWork DEF Files
  <2> QED BY <2>1, <2>2, <2>3, <2>4 DEF AgentWrites
<1>4. FilesAreOfCode'
  BY <1>1, <1>2, <1>3 DEF RInv, FilesAreOfCode
<1>5. StageIsOfCode'
  BY <1>2, <1>3 DEF RInv, StageIsOfCode
<1>6. ArtifactsAreOwn'
  BY <1>2, <1>3 DEF RInv, ArtifactsAreOwn
<1>7. stage' \in Stages
  BY <1>2, AtWork
<1> QED BY <1>1, <1>2, <1>3, <1>4, <1>5, <1>6, <1>7, WorkKeeps

LEMMA CancelKeeps == ASSUME RoundBounds, RInv, Cancel PROVE RInv'
<1>1. verbs' \in 0..MaxVerbs /\ status' = "backlog"
  BY VerbIsBounded DEF Cancel
<1>2. CASE stage.run = 0
  BY <1>1, <1>2, StatusKeeps DEF Cancel, Statuses
<1>3. CASE stage.run # 0
  <2>1. Ended("none")
    BY <1>3, FinishEnds DEF Cancel, Endings, Exits
  <2>2. /\ runs \in Seq(Rows) /\ plans \in Seq(0..MaxRuns) /\ Kept /\ runs' \in Seq(Rows)
        /\ Len(runs') = Len(runs) /\ Len(runs) <= MaxRuns /\ UNCHANGED <<plans, files>>
        /\ LastKind' = LastKind
    BY <2>1, KeptRows, Typed DEF RInv, Ended, Kept, Cancel
  <2>3. /\ stage' \in Stages /\ stage'.kind = stage.kind /\ stage'.run = stage.run /\ stage'.pc = stage.pc
        /\ stage'.answers = stage.answers /\ stage'.drafts = stage.drafts /\ stage'.notes = stage.notes
        /\ stage'.gate = stage.gate /\ stage'.revise = stage.revise
    BY <1>3, AtWork DEF Cancel, Stages
  <2>4. RoundTypeOK'
    BY <1>1, <2>2, <2>3, AtWork, TypedNext DEF Statuses
  <2>5. RevisionsAreBounded' /\ (MayRevise => MayRevise') /\ FeedbackIsAnswered'
    BY <2>1, <2>2, UsualEnds, EndedKeeps
  <2>6. stage.run \in 1..Len(runs) /\ stage.kind # "none"
    BY <1>3, OwnRow, AtWork DEF RInv, StageHasRow
  <2>7. /\ runs'[stage.run].kind = runs[stage.run].kind /\ runs'[stage.run].plan = runs[stage.run].plan
    BY <2>1, <2>6 DEF Ended, Kept
  <2>8. StageHasRow' /\ VersionsHaveRuns'
    BY <2>2, <2>3, <2>6, <2>7 DEF RInv, StageHasRow, VersionsHaveRuns
  <2>9. FilesAreOfCode' /\ StageIsOfCode' /\ ArtifactsAreOwn'
    BY <2>2, <2>3 DEF RInv, FilesAreOfCode, StageIsOfCode, ArtifactsAreOwn
  <2>10. RevisionsLeft'
    BY <2>3, <2>5 DEF RInv, RevisionsLeft
  <2>11. RowsAreOfPlan'
    <3>1. ASSUME stage.kind = "plan", stage.pc \in {"agent", "after"}
          PROVE  Pending' = Pending
      <4>1. CASE plans = <<>>
        BY <2>2, <4>1 DEF Pending
      <4>2. CASE plans # <<>>
        <5>1. Len(plans) # 0
          BY <2>2, <4>2, EmptySeq
        <5>2. runs[stage.run].plan = 0
          BY <1>3, <3>1 DEF RInv, RowsAreOfPlan
        <5>3. Asked(Len(plans))' = Asked(Len(plans))
          BY <2>1, <2>2, <5>1, <5>2, EndedRows
        <5> QED BY <2>2, <5>3 DEF Pending
      <4> QED BY <4>1, <4>2
    <3> QED BY <1>3, <2>2, <2>3, <2>7, <3>1 DEF RInv, RowsAreOfPlan
  <2>12. LoopIsOfPlan'
    BY <1>1, <2>1, <2>2, <2>3, EndedKeeps DEF RInv, LoopIsOfPlan
  <2> QED BY <2>4, <2>5, <2>8, <2>9, <2>10, <2>11, <2>12 DEF RInv
<1> QED BY <1>2, <1>3

\* A new row, which says nothing yet.
LEMMA RowIs ==
  ASSUME RoundBounds, RInv, NEW kind \in RunKinds, NEW rowStatus \in Endings
  PROVE  /\ Row(kind, rowStatus) \in Rows /\ Row(kind, rowStatus).kind = kind
         /\ Row(kind, rowStatus).plan = IF kind = "plan" THEN 0 ELSE Len(plans)
         /\ Row(kind, rowStatus).exit = "none" /\ ~Row(kind, rowStatus).rejected
<1>1. Len(plans) \in 0..MaxRuns
  <2>1. Len(plans) \in Nat /\ Len(runs) \in Nat /\ Len(plans) <= Len(runs) /\ Len(runs) <= MaxRuns
    BY Typed, LenProperties DEF RInv, VersionsHaveRuns
  <2> QED BY <2>1 DEF RoundBounds
<1>2. (IF kind = "plan" THEN 0 ELSE Len(plans)) \in 0..MaxRuns
  BY <1>1 DEF RoundBounds
<1> QED BY <1>2 DEF Row, Rows, Exits

\* What a new row changes about the rows: the newest one, and at a loop the cycle.
LEMMA RowKeeps ==
  ASSUME RoundBounds, RInv, Len(runs) < MaxRuns, UNCHANGED plans,
         NEW kind \in RunKinds, NEW rowStatus \in Endings, runs' = Append(runs, Row(kind, rowStatus)),
         kind = "evaluate" => LastKind \in {"loop", "evaluate"}
  PROVE  /\ runs' \in Seq(Rows) /\ Len(runs') = Len(runs) + 1 /\ Len(runs') <= MaxRuns
         /\ Len(runs) \in Nat /\ Len(runs') # 0 /\ Len(runs') \in 0..MaxRuns
         /\ runs'[Len(runs')] = Row(kind, rowStatus) /\ LastKind' = kind
         /\ RevisionsAreBounded' /\ FeedbackIsAnswered' /\ Pending' = Pending
         /\ Len(plans') <= Len(runs') /\ Len(plans) < Len(runs')
         /\ LastKind' \in {"loop", "evaluate"} =>
              Cycle' \in DOMAIN runs' /\ runs'[Cycle'].kind = "loop" /\ runs'[Cycle'].plan = Len(plans')
<1> DEFINE row == Row(kind, rowStatus)
<1>1. /\ row \in Rows /\ row.kind = kind /\ row.exit = "none" /\ ~row.rejected
      /\ row.plan = IF kind = "plan" THEN 0 ELSE Len(plans)
  BY RowIs
<1>2. runs \in Seq(Rows) /\ plans \in Seq(0..MaxRuns) /\ Len(runs) \in Nat /\ DOMAIN runs = 1..Len(runs)
  BY AtWork, LenProperties
<1>3. runs' = Append(runs, row)
  OBVIOUS
<1> HIDE DEF row
<1>4. /\ runs' \in Seq(Rows) /\ Len(runs') = Len(runs) + 1 /\ DOMAIN runs' = 1..(Len(runs) + 1)
      /\ \A i \in 1..Len(runs) : runs'[i] = runs[i]
      /\ runs'[Len(runs) + 1] = row /\ LastKind' = kind
      /\ Cycle' = IF kind = "loop" THEN Len(runs) + 1 ELSE Cycle
  BY <1>1, <1>2, <1>3, AppendedRows
<1>5. /\ \A p : Asked(p)' = Asked(p)
      /\ Returned' = Returned
      /\ \A k, exit : exit # "none" => Sent(k, exit)' = IF kind = "loop" THEN {} ELSE Sent(k, exit)
  BY <1>1, <1>2, <1>3, AppendedCounts
<1>6. FeedbackIsAnswered'
  BY <1>2, <1>5, PlansKept DEF RInv
<1>7. Pending' = Pending
  BY <1>5 DEF Pending
<1>8. RevisionsAreBounded'
  <2>1. /\ Prechecks = Cardinality(Sent("plan", "precheck")) /\ Critics = Cardinality(Sent("critique", "revise"))
        /\ PriorRevisions = Cardinality(Returned)
        /\ Prechecks' = Cardinality(Sent("plan", "precheck")') /\ Critics' = Cardinality(Sent("critique", "revise")')
        /\ PriorRevisions' = Cardinality(Returned')
    BY DEF Prechecks, Critics, PriorRevisions, SentBack, Sent, Returned
  <2>2. CASE kind = "loop"
    <3>1. Sent("plan", "precheck")' = {} /\ Sent("critique", "revise")' = {}
      BY <1>5, <2>2
    <3>2. Prechecks' = 0 /\ Critics' = 0 /\ PriorRevisions' = PriorRevisions
      BY <1>5, <2>1, <3>1, FS_EmptySet
    <3> QED BY <3>2 DEF RInv, RevisionsAreBounded
  <2>3. CASE kind # "loop"
    <3>1. Prechecks' = Prechecks /\ Critics' = Critics /\ PriorRevisions' = PriorRevisions
      BY <1>5, <2>1, <2>3
    <3> QED BY <3>1 DEF RInv, RevisionsAreBounded
  <2> QED BY <2>2, <2>3
<1>9. /\ Len(plans') <= Len(runs') /\ Len(plans) < Len(runs')
  <2>1. Len(plans) \in Nat /\ Len(plans) <= Len(runs)
    BY <1>2, LenProperties DEF RInv, VersionsHaveRuns
  <2> QED BY <1>2, <1>4, <2>1
<1>10. /\ Len(runs') <= MaxRuns /\ Len(runs') # 0 /\ Len(runs') \in 0..MaxRuns
  BY <1>2, <1>4 DEF RoundBounds
<1>11. LastKind' \in {"loop", "evaluate"} =>
         Cycle' \in DOMAIN runs' /\ runs'[Cycle'].kind = "loop" /\ runs'[Cycle'].plan = Len(plans')
  <2>1. CASE kind = "loop"
    BY <1>1, <1>2, <1>4, <2>1
  <2>2. CASE kind = "evaluate"
    <3>1. Cycle \in 1..Len(runs) /\ runs[Cycle].kind = "loop" /\ runs[Cycle].plan = Len(plans)
      BY <1>2, <2>2 DEF RInv, LoopIsOfPlan
    <3> QED BY <1>2, <1>4, <2>2, <3>1
  <2> QED BY <1>4, <2>1, <2>2
<1> QED BY <1>2, <1>4, <1>6, <1>7, <1>8, <1>9, <1>10, <1>11 DEF row

LEMMA ClaimLoopKeeps == ASSUME RoundBounds, RInv, ClaimLoop PROVE RInv'
<1>1. /\ runs' \in Seq(Rows) /\ Len(runs') = Len(runs) + 1 /\ Len(runs') <= MaxRuns
      /\ Len(runs') # 0 /\ Len(runs') \in 0..MaxRuns
      /\ runs'[Len(runs')] = Row("loop", "running") /\ LastKind' = "loop"
      /\ RevisionsAreBounded' /\ FeedbackIsAnswered'
      /\ Len(plans') <= Len(runs')
      /\ Cycle' \in DOMAIN runs' /\ runs'[Cycle'].kind = "loop" /\ runs'[Cycle'].plan = Len(plans')
  BY RowKeeps DEF ClaimLoop, RunKinds, Endings
<1>2. /\ stage' \in Stages /\ stage'.kind = "loop" /\ stage'.pc = "prep" /\ stage'.run = Len(runs')
      /\ stage'.drafts = 0
  BY <1>1, BeginIs DEF ClaimLoop, RunKinds, Stages
<1>3. Row("loop", "running").kind = "loop" /\ Row("loop", "running").plan = Len(plans)
  BY RowIs DEF RunKinds, Endings
<1>4. RoundTypeOK'
  BY <1>1, <1>2, AtWork, TypedNext DEF ClaimLoop, Statuses
<1>5. VersionsHaveRuns' /\ StageHasRow'
  BY <1>1, <1>2, <1>3 DEF VersionsHaveRuns, StageHasRow
<1>6. FilesAreOfCode'
  BY <1>1 DEF ClaimLoop, RInv, FilesAreOfCode
<1>7. StageIsOfCode' /\ ArtifactsAreOwn' /\ RevisionsLeft'
  BY <1>2 DEF StageIsOfCode, ArtifactsAreOwn, RevisionsLeft
<1>8. RowsAreOfPlan'
  BY <1>1, <1>2, <1>3 DEF RowsAreOfPlan, ClaimLoop
<1>9. LoopIsOfPlan'
  BY <1>1, <1>2 DEF LoopIsOfPlan, ClaimLoop
<1> QED BY <1>1, <1>4, <1>5, <1>6, <1>7, <1>8, <1>9 DEF RInv

\* A stage opens its row, with what it starts from; or its card has left.
LEMMA OpenKeeps ==
  ASSUME RoundBounds, RInv, UNCHANGED <<status, plans, verbs>>, stage # NoStage,
         NEW kind \in {"plan", "critique", "evaluate"}, NEW next \in Stages, OpenRow(kind, next),
         next.kind = kind, next.pc = IF kind = "evaluate" THEN "gate" ELSE "agent",
         kind = "plan" => next.answers = Pending,
         kind = "evaluate" => LastKind \in {"loop", "evaluate"} /\ next.notes \in {0, files.code},
         next.drafts # 0 => next.drafts = Len(runs) /\ kind = "plan",
         files' \in Files, files'.code = files.code, files'.gate = files.gate,
         kind = "evaluate" => files'.notes \in {0, files.code} /\ files'.evaluation = NoFile,
         kind = "plan" => files'.draft = NoFile,
         kind = "critique" => files'.critique = NoFile
  PROVE  RInv'
<1>1. PICK rowStatus \in Endings :
        /\ runs' = Append(runs, Row(kind, rowStatus))
        /\ stage' = [next EXCEPT !.run = Len(runs')] \/ stage' = NoStage
  BY DEF OpenRow, Endings
<1>2. /\ runs' \in Seq(Rows) /\ Len(runs') = Len(runs) + 1 /\ Len(runs') <= MaxRuns
      /\ Len(runs') # 0 /\ Len(runs') \in 0..MaxRuns /\ Len(runs) \in Nat
      /\ runs'[Len(runs')] = Row(kind, rowStatus) /\ LastKind' = kind
      /\ RevisionsAreBounded' /\ FeedbackIsAnswered' /\ Pending' = Pending
      /\ Len(plans') <= Len(runs') /\ Len(plans') < Len(runs')
      /\ LastKind' \in {"loop", "evaluate"} =>
           Cycle' \in DOMAIN runs' /\ runs'[Cycle'].kind = "loop" /\ runs'[Cycle'].plan = Len(plans')
  BY <1>1, RowKeeps DEF OpenRow, RunKinds
<1>3. NoFile.by = 0 /\ NoFile.says = "nothing"
  BY DEF NoFile
<1>4. FilesAreOfCode'
  BY <1>2, <1>3 DEF RInv, FilesAreOfCode
<1>5. status # "review"
  BY AtWork
<1>6. CASE stage' = NoStage
  <2>1. Fresh
    BY <1>6 DEF Fresh
  <2>2. /\ StageHasRow' /\ StageIsOfCode' /\ ArtifactsAreOwn' /\ RevisionsLeft' /\ RowsAreOfPlan'
        /\ stage' \in Stages /\ stage'.pc \in {"off", "prep"} /\ stage'.kind = "none"
    BY <1>6, <2>1, FreshStage, AtWork
  <2>3. RoundTypeOK'
    BY <1>2, <2>2, AtWork, TypedNext
  <2>4. VersionsHaveRuns' /\ LoopIsOfPlan'
    BY <1>2, <1>5, <2>2 DEF VersionsHaveRuns, LoopIsOfPlan
  <2> QED BY <1>2, <1>4, <2>2, <2>3, <2>4 DEF RInv
<1>7. CASE stage' = [next EXCEPT !.run = Len(runs')]
  <2>1. /\ stage' \in Stages /\ stage'.kind = kind /\ stage'.pc = next.pc /\ stage'.run = Len(runs')
        /\ stage'.answers = next.answers /\ stage'.drafts = next.drafts /\ stage'.notes = next.notes
    BY <1>2, <1>7 DEF Stages
  <2>2. /\ Row(kind, rowStatus).kind = kind
        /\ Row(kind, rowStatus).plan = IF kind = "plan" THEN 0 ELSE Len(plans)
    BY RowIs DEF RunKinds
  <2>3. RoundTypeOK'
    BY <1>2, <2>1, AtWork, TypedNext
  <2>4. VersionsHaveRuns' /\ LoopIsOfPlan'
    BY <1>2, <1>5, <2>1 DEF VersionsHaveRuns, LoopIsOfPlan
  <2>5. StageHasRow'
    BY <1>2, <2>1, <2>2 DEF StageHasRow
  <2>6. StageIsOfCode'
    <3>1. stage'.drafts # 0 => stage'.drafts = stage'.run - 1 /\ stage'.kind = "plan"
      BY <1>2, <2>1
    <3>2. stage'.kind = "evaluate" => stage'.notes \in {0, files'.code} /\ stage'.pc = "gate"
      BY <2>1
    <3> QED BY <2>1, <3>1, <3>2 DEF StageIsOfCode
  <2>7. ArtifactsAreOwn'
    BY <1>3, <2>1 DEF ArtifactsAreOwn
  <2>8. RevisionsLeft'
    BY <2>1 DEF RevisionsLeft
  <2>9. RowsAreOfPlan'
    BY <1>2, <2>1, <2>2 DEF RowsAreOfPlan
  <2> QED BY <1>2, <1>4, <2>3, <2>4, <2>5, <2>6, <2>7, <2>8, <2>9 DEF RInv
<1> QED BY <1>1, <1>6, <1>7

\* The run before, if it was of this kind and failed, is the last one.
LEMMA FailedBeforeIs ==
  ASSUME RInv, NEW kind, FailedBefore(kind) # 0
  PROVE  LastKind = kind
<1>1. Len(runs) > 0 /\ runs[Len(runs)].kind = kind
  BY DEF FailedBefore
<1>2. runs # <<>>
  BY <1>1, EmptySeq
<1> QED BY <1>1, <1>2 DEF LastKind

LEMMA PendingIs == ASSUME RoundBounds, RInv PROVE Pending \in 0..MaxRuns
<1>1. runs \in Seq(Rows) /\ Len(runs) \in Nat /\ Len(runs) <= MaxRuns /\ \A p : Asked(p) \subseteq 1..Len(runs)
  BY RowsOf, Typed DEF RInv
<1>2. Newest(Asked(Len(plans))) \in 0..Len(runs)
  BY <1>1, NewestIs
<1> QED BY <1>1, <1>2 DEF Pending, RoundBounds

LEMMA PreparePlannerKeeps == ASSUME RoundBounds, RInv, PreparePlanner PROVE RInv'
<1>1. stage # NoStage
  BY AtWork DEF PreparePlanner, NoStage
<1> DEFINE drafts == IF FailedBefore("plan") # 0 THEN files.draft.by ELSE 0
           next == [stage EXCEPT !.pc = "agent", !.answers = Pending, !.drafts = drafts]
<1>2. drafts \in 0..MaxRuns /\ (drafts # 0 => drafts = Len(runs))
  <2>1. files.draft.by \in 0..MaxRuns
    BY AtWork DEF Files, Drafts
  <2> QED BY <2>1, FailedBeforeIs DEF RInv, FilesAreOfCode, RoundBounds
<1>3. OpenRow("plan", next)
  BY Zenon DEF PreparePlanner
<1> HIDE DEF drafts
<1>4. /\ next \in Stages /\ next.kind = "plan" /\ next.pc = "agent" /\ next.answers = Pending
      /\ next.drafts = drafts
  BY <1>2, PendingIs, AtWork DEF PreparePlanner, Stages
<1> HIDE DEF next
<1>5. /\ files' \in Files /\ files'.code = files.code /\ files'.gate = files.gate /\ files'.draft = NoFile
  <2>1. NoFile \in Drafts
    BY DEF NoFile, Drafts, RoundBounds
  <2> QED BY <2>1, AtWork DEF PreparePlanner, ClearPlannerArtifacts, Files
<1> QED BY <1>1, <1>2, <1>3, <1>4, <1>5, OpenKeeps DEF PreparePlanner

LEMMA PrepareCriticKeeps == ASSUME RoundBounds, RInv, PrepareCritic PROVE RInv'
<1>1. stage # NoStage
  BY AtWork DEF PrepareCritic, NoStage
<1> DEFINE next == [stage EXCEPT !.pc = "agent"]
<1>2. /\ next \in Stages /\ next.kind = "critique" /\ next.pc = "agent" /\ next.drafts = 0
  BY AtWork DEF PrepareCritic, Stages, RInv, StageIsOfCode
<1>3. OpenRow("critique", next)
  BY Zenon DEF PrepareCritic
<1> HIDE DEF next
<1>4. /\ files' \in Files /\ files'.code = files.code /\ files'.gate = files.gate /\ files'.critique = NoFile
  <2>1. NoFile \in Verdicts
    BY DEF NoFile, Verdicts, RoundBounds
  <2> QED BY <2>1, AtWork DEF PrepareCritic, Files
<1> QED BY <1>1, <1>2, <1>3, <1>4, OpenKeeps DEF PrepareCritic

LEMMA PrepareEvaluatorKeeps == ASSUME RoundBounds, RInv, PrepareEvaluator PROVE RInv'
<1>1. stage # NoStage /\ LastKind \in {"loop", "evaluate"}
  BY AtWork DEF PrepareEvaluator, NoStage, RInv, LoopIsOfPlan
<1> DEFINE notes == IF FailedBefore("evaluate") # 0 THEN files.notes ELSE 0
           next == [stage EXCEPT !.pc = "gate", !.notes = notes]
<1>2. notes \in 0..MaxRuns /\ notes \in {0, files.code}
  <2>1. files.notes \in 0..MaxRuns
    BY AtWork DEF Files
  <2> QED BY <2>1, FailedBeforeIs DEF RInv, FilesAreOfCode, RoundBounds
<1>3. OpenRow("evaluate", next) /\ files' = [files EXCEPT !.evaluation = NoFile, !.notes = notes]
  BY DEF PrepareEvaluator
<1> HIDE DEF notes
<1>4. /\ next \in Stages /\ next.kind = "evaluate" /\ next.pc = "gate" /\ next.notes = notes
      /\ next.drafts = 0
  BY <1>2, AtWork DEF PrepareEvaluator, Stages, RInv, StageIsOfCode
<1> HIDE DEF next
<1>5. /\ files' \in Files /\ files'.code = files.code /\ files'.gate = files.gate /\ files'.evaluation = NoFile
      /\ files'.notes = notes
  <2>1. NoFile \in Verdicts
    BY DEF NoFile, Verdicts, RoundBounds
  <2> QED BY <1>2, <1>3, <2>1, AtWork DEF Files
<1> QED BY <1>1, <1>2, <1>3, <1>4, <1>5, OpenKeeps DEF PrepareEvaluator

\* No exit changes, so nothing counts anew.
LEMMA ExitsKept ==
  ASSUME RInv, Kept, \A i \in 1..Len(runs) : runs'[i].exit = runs[i].exit
  PROVE  RevisionsAreBounded' /\ (MayRevise' <=> MayRevise)
<1>1. /\ Cycle' = Cycle
      /\ \A kind : OfKind(kind)' = OfKind(kind) /\ OfKind(kind) \subseteq 1..Len(runs)
  BY KeptRows, RowsOf, AtWork
<1>2. /\ Sent("plan", "precheck")' = Sent("plan", "precheck")
      /\ Sent("critique", "revise")' = Sent("critique", "revise") /\ Returned' = Returned
  BY <1>1 DEF Sent, Returned
<1>3. /\ Prechecks = Cardinality(Sent("plan", "precheck")) /\ Critics = Cardinality(Sent("critique", "revise"))
      /\ PriorRevisions = Cardinality(Returned)
      /\ Prechecks' = Cardinality(Sent("plan", "precheck")') /\ Critics' = Cardinality(Sent("critique", "revise")')
      /\ PriorRevisions' = Cardinality(Returned')
  BY DEF Prechecks, Critics, PriorRevisions, SentBack, Sent, Returned
<1>4. Prechecks' = Prechecks /\ Critics' = Critics /\ PriorRevisions' = PriorRevisions
  BY <1>2, <1>3
<1> QED BY <1>4 DEF RInv, RevisionsAreBounded, MayRevise

LEMMA RejectKeeps == ASSUME RoundBounds, RInv, Reject PROVE RInv'
<1>1. /\ stage = NoStage /\ LastKind = "evaluate" /\ Cycle \in DOMAIN runs /\ runs[Cycle].plan = Len(plans)
      /\ verbs' \in 0..MaxVerbs
  BY VerbIsBounded DEF Reject, RInv, LoopIsOfPlan
<1>2. runs \in Seq(Rows) /\ plans \in Seq(0..MaxRuns) /\ DOMAIN runs = 1..Len(runs) /\ Len(runs) <= MaxRuns
  BY Typed, LenProperties DEF RInv
<1> DEFINE row == [runs[Cycle] EXCEPT !.rejected = TRUE]
<1>3. /\ row \in Rows /\ row.kind = runs[Cycle].kind /\ row.plan = runs[Cycle].plan
      /\ row.exit = runs[Cycle].exit
  <2>1. runs[Cycle] \in Rows
    BY <1>1, <1>2, ElementOfSeq
  <2> QED BY <2>1 DEF Rows
<1>4. runs' = [runs EXCEPT ![Cycle] = row]
  BY DEF Reject
<1> HIDE DEF row
<1>5. /\ runs' \in Seq(Rows) /\ Len(runs') = Len(runs)
      /\ \A j \in 1..Len(runs) : runs'[j] = IF j = Cycle THEN row ELSE runs[j]
  BY <1>1, <1>2, <1>3, <1>4, ExceptSeq
<1>6. Kept
  BY <1>1, <1>2, <1>3, <1>5 DEF Kept
<1>7. RevisionsAreBounded'
  BY <1>3, <1>5, <1>6, ExitsKept
<1>8. DOMAIN runs' = DOMAIN runs /\ LastKind' = LastKind /\ Cycle' = Cycle
  BY <1>2, <1>6, KeptRows
<1>9. ASSUME NEW p \in 1..(Len(plans) - 1) PROVE Asked(p)' = Asked(p)
  <2>1. p # Len(plans)
    BY <1>2, LenProperties
  <2>2. Asked(p)' = {i \in 1..Len(runs) : runs'[i].plan = p /\ (runs'[i].exit \in Asking \/ runs'[i].rejected)}
    BY <1>2, <1>8 DEF Asked
  <2>3. Asked(p) = {i \in 1..Len(runs) : runs[i].plan = p /\ (runs[i].exit \in Asking \/ runs[i].rejected)}
    BY <1>2 DEF Asked
  <2>4. runs'[Cycle].plan # p /\ runs[Cycle].plan # p
    BY <1>1, <1>2, <1>3, <1>5, <2>1
  <2> HIDE DEF Asking
  <2> QED BY <1>5, <2>2, <2>3, <2>4
<1>10. FeedbackIsAnswered'
  BY <1>2, <1>9, PlansKept DEF Reject, RInv
<1>11. /\ StageHasRow' /\ StageIsOfCode' /\ ArtifactsAreOwn' /\ RevisionsLeft' /\ RowsAreOfPlan'
       /\ stage' \in Stages /\ stage'.pc \in {"off", "prep"} /\ stage'.kind = "none"
  BY <1>1, FreshStage, AtWork DEF Reject, Fresh
<1>12. RoundTypeOK'
  BY <1>1, <1>2, <1>5, <1>11, AtWork, TypedNext DEF Reject, Statuses
<1>13. FilesAreOfCode'
  BY <1>5, <1>8 DEF Reject, RInv, FilesAreOfCode
<1>14. VersionsHaveRuns'
  BY <1>5, <1>11 DEF Reject, RInv, VersionsHaveRuns
<1>15. LoopIsOfPlan'
  <2>1. runs[Cycle].kind = "loop"
    BY <1>1 DEF RInv, LoopIsOfPlan
  <2> QED BY <1>1, <1>2, <1>3, <1>5, <1>8, <1>11, <2>1 DEF Reject, LoopIsOfPlan
<1> QED BY <1>7, <1>10, <1>11, <1>12, <1>13, <1>14, <1>15 DEF RInv

LEMMA WritePlanKeeps == ASSUME RoundBounds, RInv, WritePlan PROVE RInv'
<1>1. /\ stage.run # 0 /\ stage # NoStage /\ stage.run = Len(runs) /\ stage.run \in 1..Len(runs)
      /\ LastKind = "plan" /\ runs[stage.run].kind = "plan" /\ runs[stage.run].plan = 0
      /\ stage.answers = Pending
  BY AtWork, OwnRow DEF WritePlan, RInv, RowsAreOfPlan
<1>2. /\ runs \in Seq(Rows) /\ plans \in Seq(0..MaxRuns) /\ DOMAIN runs = 1..Len(runs) /\ Len(runs) <= MaxRuns
      /\ Len(runs) \in Nat /\ Len(plans) \in Nat /\ DOMAIN plans = 1..Len(plans)
  BY Typed, LenProperties DEF RInv
<1>3. Len(plans) < Len(runs)
  BY DEF RInv, VersionsHaveRuns, WritePlan
<1>4. stage.answers \in 0..MaxRuns
  BY AtWork DEF Stages
<1>5. /\ plans' \in Seq(0..MaxRuns) /\ Len(plans') = Len(plans) + 1 /\ DOMAIN plans' = 1..(Len(plans) + 1)
      /\ \A p \in 1..Len(plans) : plans'[p] = plans[p]
      /\ plans'[Len(plans) + 1] = stage.answers
  <2>1. plans' = Append(plans, stage.answers)
    BY DEF WritePlan
  <2>2. /\ plans' \in Seq(0..MaxRuns) /\ Len(plans') = Len(plans) + 1
        /\ \A p \in 1..Len(plans) : plans'[p] = plans[p]
        /\ plans'[Len(plans) + 1] = stage.answers
    BY <1>2, <1>4, <2>1, AppendProperties
  <2> QED BY <2>2, LenProperties
<1> DEFINE row == [runs[stage.run] EXCEPT !.plan = Len(plans')]
<1>6. /\ row \in Rows /\ row.kind = "plan" /\ row.plan = Len(plans) + 1
      /\ row.exit = runs[stage.run].exit /\ row.rejected = runs[stage.run].rejected
  <2>1. runs[stage.run] \in Rows /\ Len(plans') \in 0..MaxRuns
    BY <1>1, <1>2, <1>3, <1>5, ElementOfSeq DEF RoundBounds
  <2> QED BY <1>1, <1>5, <2>1 DEF Rows
<1>7. runs' = [runs EXCEPT ![stage.run] = row]
  BY DEF WritePlan
<1> HIDE DEF row
<1>8. /\ runs' \in Seq(Rows) /\ Len(runs') = Len(runs)
      /\ \A j \in 1..Len(runs) : runs'[j] = IF j = stage.run THEN row ELSE runs[j]
  BY <1>1, <1>2, <1>6, <1>7, ExceptSeq
<1>9. Kept
  BY <1>1, <1>2, <1>6, <1>8 DEF Kept
<1>10. RevisionsAreBounded' /\ (MayRevise' <=> MayRevise)
  BY <1>6, <1>8, <1>9, ExitsKept
<1>11. DOMAIN runs' = DOMAIN runs /\ LastKind' = LastKind /\ Cycle' = Cycle
  BY <1>2, <1>9, KeptRows
<1>12. ASSUME NEW p \in 1..Len(plans) PROVE Asked(p)' = Asked(p)
  <2>1. p # 0 /\ p # Len(plans) + 1
    BY <1>2
  <2>2. Asked(p)' = {i \in 1..Len(runs) : runs'[i].plan = p /\ (runs'[i].exit \in Asking \/ runs'[i].rejected)}
    BY <1>2, <1>11 DEF Asked
  <2>3. Asked(p) = {i \in 1..Len(runs) : runs[i].plan = p /\ (runs[i].exit \in Asking \/ runs[i].rejected)}
    BY <1>2 DEF Asked
  <2>4. runs'[stage.run].plan # p /\ runs[stage.run].plan # p
    BY <1>1, <1>2, <1>6, <1>8, <2>1
  <2> HIDE DEF Asking
  <2> QED BY <1>8, <2>2, <2>3, <2>4
<1>13. FeedbackIsAnswered'
  <2>1. SUFFICES ASSUME NEW p \in 1..(Len(plans) + 1)
                 PROVE  plans'[p] = IF p = 1 THEN 0 ELSE Newest(Asked(p - 1)')
    BY <1>5 DEF FeedbackIsAnswered
  <2>2. CASE p \in 1..Len(plans)
    <3>1. plans'[p] = IF p = 1 THEN 0 ELSE Newest(Asked(p - 1))
      BY <1>2, <1>5, <2>2 DEF RInv, FeedbackIsAnswered
    <3>2. CASE p = 1
      BY <3>1, <3>2
    <3>3. CASE p # 1
      <4>1. p - 1 \in 1..Len(plans)
        BY <1>2, <2>2, <3>3
      <4>2. Asked(p - 1)' = Asked(p - 1)
        BY <1>12, <4>1
      <4> QED BY <3>1, <3>3, <4>2
    <3> QED BY <3>2, <3>3
  <2>3. CASE p = Len(plans) + 1
    <3>1. plans'[p] = Pending
      BY <1>1, <1>5, <2>3
    <3>2. CASE plans = <<>>
      <4>1. p = 1 /\ Pending = 0
        BY <2>3, <3>2, EmptySeq DEF Pending
      <4> QED BY <3>1, <4>1
    <3>3. CASE plans # <<>>
      <4>1. Len(plans) # 0
        BY <1>2, <3>3, EmptySeq
      <4>2. p # 1 /\ p - 1 = Len(plans) /\ Len(plans) \in 1..Len(plans)
        BY <1>2, <2>3, <4>1
      <4>3. Asked(p - 1)' = Asked(Len(plans))
        BY <1>12, <4>2
      <4>4. Pending = Newest(Asked(Len(plans)))
        BY <3>3 DEF Pending
      <4> QED BY <3>1, <4>2, <4>3, <4>4
    <3> QED BY <3>2, <3>3
  <2> QED BY <1>2, <2>2, <2>3
<1>14. PICK alreadyPassing \in BOOLEAN :
         stage' = [stage EXCEPT !.pc = "commit", !.revise = alreadyPassing /\ MayRevise]
  BY DEF WritePlan
<1>15. /\ stage' \in Stages /\ stage'.kind = "plan" /\ stage'.run = stage.run /\ stage'.pc = "commit"
       /\ stage'.drafts = stage.drafts /\ (stage'.revise => MayRevise)
  <2> DEFINE revise == alreadyPassing /\ MayRevise
  <2>1. revise \in BOOLEAN /\ (revise => MayRevise)
    BY DEF MayRevise
  <2>2. stage' = [stage EXCEPT !.pc = "commit", !.revise = revise]
    BY <1>14
  <2> HIDE DEF revise
  <2> QED BY <2>1, <2>2, AtWork DEF WritePlan, Stages
<1>16. files' \in Files /\ files'.draft = NoFile /\ files'.gate = files.gate /\ files'.code = files.code
  <2>1. NoFile \in Drafts
    BY DEF NoFile, Drafts, RoundBounds
  <2> QED BY <2>1, AtWork DEF WritePlan, Files
<1>17. RoundTypeOK'
  BY <1>2, <1>5, <1>8, <1>15, <1>16, AtWork, TypedNext DEF WritePlan
<1>18. VersionsHaveRuns'
  BY <1>2, <1>3, <1>5, <1>8, <1>15 DEF VersionsHaveRuns
<1>19. StageHasRow'
  BY <1>1, <1>6, <1>8, <1>15 DEF StageHasRow
<1>20. FilesAreOfCode'
  <2>1. NoFile.by = 0
    BY DEF NoFile
  <2> QED BY <1>1, <1>11, <1>16, <2>1 DEF RInv, FilesAreOfCode
<1>21. StageIsOfCode' /\ ArtifactsAreOwn' /\ RevisionsLeft'
  BY <1>10, <1>15 DEF RInv, StageIsOfCode, ArtifactsAreOwn, RevisionsLeft, WritePlan
<1>22. RowsAreOfPlan'
  BY <1>1, <1>5, <1>6, <1>8, <1>15 DEF RowsAreOfPlan
<1>23. LoopIsOfPlan'
  BY <1>1, <1>11, <1>15, AtWork DEF LoopIsOfPlan, WritePlan
<1> QED BY <1>10, <1>13, <1>17, <1>18, <1>19, <1>20, <1>21, <1>22, <1>23 DEF RInv

-----------------------------------------------------------------------------
(* The theorems.                                                           *)

LEMMA InitHolds == ASSUME RoundBounds, RoundInit PROVE RInv
<1>1. stage = NoStage /\ runs = <<>> /\ plans = <<>> /\ Len(runs) = 0 /\ Len(plans) = 0
      /\ DOMAIN runs = {} /\ DOMAIN plans = {}
  BY EmptySeq DEF RoundInit
<1>2. /\ NoStage \in Stages /\ NoStage.run = 0 /\ NoStage.kind = "none" /\ NoStage.pc = "off"
      /\ NoStage.drafts = 0
  BY DEF NoStage, Stages, RoundBounds
<1>3. NoFile \in Drafts /\ NoFile \in Verdicts /\ NoFile.by = 0
  BY DEF NoFile, Drafts, Verdicts, RoundBounds
<1>4. files \in Files /\ files.gate = 0 /\ files.code = 0
  BY <1>3 DEF RoundInit, Files, RoundBounds
<1>5. RoundTypeOK
  BY <1>1, <1>2, <1>4, Typed, EmptySeq DEF RoundInit, Statuses, RoundBounds
<1>6. LastKind = "none"
  BY <1>1 DEF LastKind
<1>7. /\ VersionsHaveRuns /\ StageHasRow /\ FilesAreOfCode /\ StageIsOfCode /\ ArtifactsAreOwn /\ RevisionsLeft
      /\ RowsAreOfPlan /\ FeedbackIsAnswered
  BY <1>1, <1>2, <1>4, <1>6 DEF VersionsHaveRuns, StageHasRow, FilesAreOfCode, StageIsOfCode, ArtifactsAreOwn,
       RevisionsLeft, RowsAreOfPlan, FeedbackIsAnswered
<1>8. LoopIsOfPlan
  BY <1>1, <1>2, <1>6 DEF LoopIsOfPlan, RoundInit
<1>9. RevisionsAreBounded
  <2>1. \A kind : OfKind(kind) = {}
    BY <1>1 DEF OfKind
  <2>2. Prechecks = Cardinality({}) /\ Critics = Cardinality({}) /\ PriorRevisions = Cardinality({})
    BY <2>1 DEF Prechecks, Critics, PriorRevisions, SentBack
  <2> QED BY <2>2, FS_EmptySet DEF RevisionsAreBounded
<1> QED BY <1>5, <1>7, <1>8, <1>9 DEF RInv

LEMMA StutterHolds == ASSUME RoundBounds, RInv, UNCHANGED roundVars PROVE RInv'
<1>1. /\ LastKind' = LastKind /\ Cycle' = Cycle /\ Pending' = Pending
      /\ RevisionsAreBounded' /\ (MayRevise' <=> MayRevise) /\ FeedbackIsAnswered'
  BY SameRows DEF RInv, roundVars
<1>2. RoundTypeOK'
  BY Typed, TypedNext DEF RInv, roundVars
<1>3. VersionsHaveRuns' /\ StageHasRow' /\ FilesAreOfCode' /\ StageIsOfCode' /\ ArtifactsAreOwn'
  BY <1>1 DEF RInv, VersionsHaveRuns, StageHasRow, FilesAreOfCode, StageIsOfCode, ArtifactsAreOwn, roundVars
<1>4. RevisionsLeft' /\ RowsAreOfPlan' /\ LoopIsOfPlan'
  BY <1>1 DEF RInv, RevisionsLeft, RowsAreOfPlan, LoopIsOfPlan, roundVars
<1> QED BY <1>1, <1>2, <1>3, <1>4 DEF RInv

LEMMA NextKeeps == ASSUME RoundBounds, RInv, [RoundNext]_roundVars PROVE RInv'
<1>1. CASE Automatic
  BY <1>1, PumpTodoKeeps, ClaimLoopKeeps, PreparePlannerKeeps, PrepareCriticKeeps, PrepareEvaluatorKeeps,
     PrepareLoopKeeps, PreparationThrowsKeeps, RunGateKeeps, AgentEndsKeeps, FailKeeps, DropKeeps,
     AskQuestionsKeeps, WritePlanKeeps, RoutePlanKeeps, DecideCritiqueKeeps, NoVerdictKeeps,
     LoopDoneKeeps, LoopFailsKeeps, DecideEvaluationKeeps DEF Automatic
<1>2. CASE RoundNext /\ ~Automatic
  BY <1>2, AgentWritesKeeps, QueueKeeps, RestartKeeps, ApprovePlanKeeps, CancelKeeps, RejectKeeps, ApproveKeeps,
     RetryMergeKeeps, RetryStepKeeps, CrashKeeps DEF RoundNext
<1>3. CASE UNCHANGED roundVars
  BY <1>3, StutterHolds
<1> QED BY <1>1, <1>2, <1>3

\* A stage that ends says only what its own agent has written.
LEMMA OwnEnding ==
  ASSUME RInv, UNCHANGED plans, NEW exit, Ended(exit),
         exit = "questions" => files.draft.by = stage.run,
         exit \in {"approve", "limit", "revise"} =>
           stage.run = IF stage.kind = "critique" THEN files.critique.by ELSE files.evaluation.by
  PROVE  OwnVerdict
<1>1. runs \in Seq(Rows) /\ DOMAIN runs = 1..Len(runs) /\ Len(plans') = Len(plans) /\ Len(plans) \in Nat
  BY AtWork, LenProperties
<1>2. ASSUME NEW i \in 1..Len(runs), runs'[i].exit # runs[i].exit
      PROVE  CASE runs'[i].exit = "questions" -> files.draft.by = i
               [] runs'[i].exit \in {"approve", "limit", "revise"} ->
                    i = (IF runs[i].kind = "critique" THEN files.critique.by ELSE files.evaluation.by)
               [] OTHER -> TRUE
  <2>1. i = stage.run /\ runs'[i].exit = exit
    BY <1>2 DEF Ended
  <2>2. i # 0 /\ runs[i].kind = stage.kind
    BY <1>1, <2>1, OwnRow
  <2> QED BY <2>1, <2>2
<1> QED BY <1>1, <1>2 DEF OwnVerdict

\* A step that changes no exit and stores no plan concludes nothing.
LEMMA NoEnding ==
  ASSUME RInv, UNCHANGED plans, \A i \in 1..Len(runs) : runs'[i].exit = runs[i].exit
  PROVE  OwnVerdict
<1>1. DOMAIN runs = 1..Len(runs) /\ Len(plans') = Len(plans) /\ Len(plans) \in Nat
  BY AtWork, LenProperties
<1> QED BY <1>1 DEF OwnVerdict

LEMMA OpensNoEnding ==
  ASSUME RoundBounds, RInv, UNCHANGED plans, NEW kind \in RunKinds, NEW rowStatus \in Endings,
         runs' = Append(runs, Row(kind, rowStatus))
  PROVE  OwnVerdict
<1>1. Row(kind, rowStatus) \in Rows
  BY RowIs
<1>2. \A i \in 1..Len(runs) : runs'[i] = runs[i]
  BY <1>1, AtWork, AppendProperties
<1> QED BY <1>2, NoEnding

LEMMA StepIsOwn == ASSUME RoundBounds, RInv, RoundNext PROVE OwnVerdict
<1>1. CASE \/ PumpTodo \/ PrepareLoop \/ RunGate \/ AgentEnds \/ Drop \/ NoVerdictOfTheCancelled
           \/ AgentWrites \/ Queue \/ Restart \/ ApprovePlan \/ Approve \/ RetryMerge \/ RetryStep
  <2>1. UNCHANGED <<plans, runs>>
    BY <1>1, Zenon DEF PumpTodo, PrepareLoop, RunGate, AgentEnds, Drop, NoVerdictOfTheCancelled, AgentWrites, Queue,
       Restart, ApprovePlan, Approve, RetryMerge, RetryStep
  <2> QED BY <2>1, NoEnding
<1>2. CASE ClaimLoop
  BY <1>2, OpensNoEnding DEF ClaimLoop, RunKinds, Endings
<1>3. CASE PreparePlanner \/ PrepareCritic \/ PrepareEvaluator
  <2>1. PICK kind \in RunKinds, rowStatus \in Endings : runs' = Append(runs, Row(kind, rowStatus))
    BY <1>3 DEF PreparePlanner, PrepareCritic, PrepareEvaluator, OpenRow, RunKinds, Endings
  <2>2. UNCHANGED plans
    BY <1>3 DEF PreparePlanner, PrepareCritic, PrepareEvaluator
  <2> QED BY <2>1, <2>2, OpensNoEnding
<1>4. CASE PreparationThrows \/ Crash \/ Cancel
  <2>1. UNCHANGED plans
    BY <1>4 DEF PreparationThrows, Crash, Cancel
  <2>2. CASE UNCHANGED runs
    BY <2>1, <2>2, NoEnding
  <2>3. CASE runs' # runs
    <3>1. stage.run # 0
      BY <1>4, <2>3, AtWork DEF PreparationThrows, Crash, Cancel
    <3>2. PICK to \in Endings, exit \in {"failed", "none"} : Finish(stage.run, to, exit)
      BY <1>4, <2>3, <3>1 DEF PreparationThrows, Crash, Cancel, Endings
    <3>3. Ended(exit)
      BY <3>1, <3>2, FinishEnds DEF Exits
    <3> QED BY <2>1, <3>3, OwnEnding
  <2> QED BY <2>2, <2>3
<1>5. CASE Fail \/ RoutePlan \/ LoopDone \/ LoopFails
  <2>1. UNCHANGED plans /\ stage.run # 0
    BY <1>5, AtWork DEF Fail, RoutePlan, LoopDone, LoopFails
  <2>2. PICK to \in Endings, exit \in {"failed", "ok", "precheck", "blocked", "exhausted"} :
          Finish(stage.run, to, exit)
    BY <1>5 DEF Fail, RoutePlan, LoopDone, LoopFails, Endings
  <2>3. Ended(exit)
    BY <2>1, <2>2, FinishEnds DEF Exits
  <2> QED BY <2>1, <2>3, OwnEnding
<1>6. CASE AskQuestions
  <2>1. stage.run # 0 /\ files.draft.by = stage.run
    BY <1>6, AtWork DEF AskQuestions, RInv, ArtifactsAreOwn
  <2>2. Ended("questions")
    BY <1>6, <2>1, FinishEnds DEF AskQuestions, Endings, Exits
  <2> QED BY <1>6, <2>1, <2>2, OwnEnding DEF AskQuestions
<1>7. CASE WritePlan
  <2>1. stage.run # 0 /\ files.draft.by = stage.run
    BY <1>7, AtWork DEF WritePlan, RInv, ArtifactsAreOwn
  <2>2. stage.run \in 1..Len(runs) /\ runs \in Seq(Rows) /\ DOMAIN runs = 1..Len(runs)
    BY <2>1, OwnRow, AtWork, LenProperties
  <2>3. runs' = [runs EXCEPT ![stage.run].plan = Len(plans')]
    BY <1>7 DEF WritePlan
  <2>4. \A i \in 1..Len(runs) : runs'[i].exit = runs[i].exit
    <3> TAKE i \in 1..Len(runs)
    <3>1. runs[i] \in Rows
      BY <2>2, ElementOfSeq
    <3> QED BY <2>2, <2>3, <3>1 DEF Rows
  <2> QED BY <2>1, <2>2, <2>4 DEF OwnVerdict
<1>8. CASE DecideCritique
  <2>1. stage.run # 0 /\ stage.kind = "critique" /\ files.critique.by = stage.run /\ UNCHANGED plans
    BY <1>8, AtWork DEF DecideCritique, RInv, ArtifactsAreOwn
  <2>2. PICK exit \in {"approve", "limit", "revise"} : Finish(stage.run, "completed", exit)
    BY <1>8 DEF DecideCritique
  <2>3. Ended(exit)
    BY <2>1, <2>2, FinishEnds DEF Endings, Exits
  <2> QED BY <2>1, <2>3, OwnEnding
<1>9. CASE DecideEvaluation
  <2>1. stage.run # 0 /\ stage.kind = "evaluate" /\ files.evaluation.by = stage.run /\ UNCHANGED plans
    BY <1>9, AtWork DEF DecideEvaluation, RInv, ArtifactsAreOwn
  <2>2. PICK exit \in {"approve", "limit", "revise"} : Finish(stage.run, "completed", exit)
    BY <1>9 DEF DecideEvaluation
  <2>3. Ended(exit)
    BY <2>1, <2>2, FinishEnds DEF Endings, Exits
  <2> QED BY <2>1, <2>3, OwnEnding
<1>10. CASE Reject
  <2>1. Cycle \in 1..Len(runs) /\ runs \in Seq(Rows) /\ DOMAIN runs = 1..Len(runs)
    BY <1>10, AtWork, LenProperties DEF Reject, RInv, LoopIsOfPlan
  <2>2. runs' = [runs EXCEPT ![Cycle].rejected = TRUE]
    BY <1>10 DEF Reject
  <2>3. \A i \in 1..Len(runs) : runs'[i].exit = runs[i].exit
    <3> TAKE i \in 1..Len(runs)
    <3>1. runs[i] \in Rows
      BY <2>1, ElementOfSeq
    <3> QED BY <2>1, <2>2, <3>1 DEF Rows
  <2> QED BY <1>10, <2>3, NoEnding DEF Reject
<1> QED BY <1>1, <1>2, <1>3, <1>4, <1>5, <1>6, <1>7, <1>8, <1>9, <1>10 DEF RoundNext, Automatic

LEMMA RoundsInductive == ASSUME RoundBounds PROVE RoundSpec => []RInv
<1>1. RoundInit => RInv
  BY InitHolds
<1>2. RInv /\ [RoundNext]_roundVars => RInv'
  BY NextKeeps
<1> QED BY <1>1, <1>2, PTL DEF RoundSpec

\* The rows, the versions, the files and the stage of a card keep their shape,
\* for any number of runs and verbs (runs and plans tables, the card's .ralph files).
THEOREM RoundsAreTyped == ASSUME RoundBounds PROVE RoundSpec => []RoundTypeOK
<1>1. RInv => RoundTypeOK
  BY DEF RInv
<1> QED BY <1>1, RoundsInductive, PTL

\* A plan is stored, and a run concludes, only from what its own agent has
\* written: clearPlannerArtifacts and the removals before each session leave no
\* verdict of an earlier round to be read (planningService.ts,
\* planCriticService.ts, evaluationService.ts).
THEOREM VerdictsAreOwn == ASSUME RoundBounds PROVE RoundSpec => [][OwnVerdict]_roundVars
<1>1. RInv /\ [RoundNext]_roundVars => [OwnVerdict]_roundVars
  BY StepIsOwn
<1> QED BY <1>1, RoundsInductive, PTL DEF RoundSpec

\* What an agent is shown of others' work is about the code there is: the gate's
\* result and the notes an evaluator gets, the draft a planner resumes
\* (previousAttempt.ts), whatever failed, was cancelled or crashed before.
THEOREM EvidenceIsFresh == ASSUME RoundBounds PROVE RoundSpec => []EvidenceIsOfThisCycle
<1>1. RInv => EvidenceIsOfThisCycle
  BY DEF RInv, StageIsOfCode, EvidenceIsOfThisCycle
<1> QED BY <1>1, RoundsInductive, PTL

\* MAX_CRITIC_REVISIONS and MAX_EVALUATOR_REVISIONS: how often a card can be
\* sent back, whatever the agents say and however rounds are cut short.
THEOREM RevisionsBounded == ASSUME RoundBounds PROVE RoundSpec => []RevisionsAreBounded
<1>1. RInv => RevisionsAreBounded
  BY DEF RInv
<1> QED BY <1>1, RoundsInductive, PTL

\* pendingReplanFeedback: every version answers the newest feedback on the one
\* before it, and none is answered twice or dropped.
THEOREM FeedbackAnswered == ASSUME RoundBounds PROVE RoundSpec => []FeedbackIsAnswered
<1>1. RInv => FeedbackIsAnswered
  BY DEF RInv
<1> QED BY <1>1, RoundsInductive, PTL

(***************************************************************************)
(* The circuit breaker of a provider, whose calls one process makes: it    *)
(* opens on what they have met since the last success.                     *)
(***************************************************************************)

\* Calls of one process, whose threshold is a number.
OneProcess ==
  /\ Threshold \in Nat
  /\ \A c, d \in Calls : ProcessOf[c] = ProcessOf[d]

-----------------------------------------------------------------------------
(* The inductive invariant.                                                *)

Records == [pc : {"idle", "called", "writing"}, kind : Kinds \cup {"none"}, seen : Nat,
            wasOpen : BOOLEAN, named : Resets \cup {0}, probe : BOOLEAN]

CountsAreTyped ==
  /\ calls \in [Calls -> Records]
  /\ breaker.count \in Nat /\ strikes.failed \in Nat /\ strikes.limited \in BOOLEAN

OneWriter ==
  \A c, d \in Calls : calls[c].pc = "writing" /\ calls[d].pc = "writing" => c = d

\* What a call is about to write it has read from the row as it is, and its own
\* failure is counted in the strikes.
WritesWhatItRead ==
  \A c \in Calls : calls[c].pc = "writing" =>
    /\ calls[c].seen = breaker.count /\ (calls[c].wasOpen <=> breaker.state = "open")
    /\ calls[c].seen + 1 <= strikes.failed
    /\ calls[c].kind = "limit" => strikes.limited

BreakerInv ==
  /\ CountsAreTyped /\ OneWriter /\ WritesWhatItRead
  /\ breaker.count <= strikes.failed
  /\ OpensOnEvidence

-----------------------------------------------------------------------------
(* Every step keeps it.                                                    *)

LEMMA BreakerInitInv == ASSUME OneProcess, BreakerInit PROVE BreakerInv
<1>1. calls \in [Calls -> Records] /\ \A c \in Calls : calls[c].pc = "idle"
  BY DEF BreakerInit, Free, Records
<1> QED BY <1>1 DEF BreakerInit, BreakerInv, CountsAreTyped, OneWriter, WritesWhatItRead,
                    OpensOnEvidence, Closed

\* While a call is not disturbed, no call writes.
LEMMA NobodyWrites ==
  ASSUME OneProcess, NEW c \in Calls, Undisturbed(c)
  PROVE  \A d \in Calls : calls[d].pc # "writing"
BY DEF OneProcess, Undisturbed, Mid

\* A call that is not about to write comes or goes.
LEMMA QuietKeeps ==
  ASSUME OneProcess, BreakerInv, NEW c \in Calls, \A d \in Calls : calls[d].pc # "writing",
         NEW r \in Records, r.pc # "writing", calls' = [calls EXCEPT ![c] = r],
         \/ UNCHANGED <<breaker, strikes>>
         \/ breaker' = Closed /\ strikes' = [failed |-> 0, limited |-> FALSE]
  PROVE  BreakerInv'
<1>1. calls' \in [Calls -> Records] /\ \A d \in Calls : calls'[d].pc # "writing"
  BY DEF BreakerInv, CountsAreTyped
<1>2. OneWriter' /\ WritesWhatItRead'
  BY <1>1 DEF OneWriter, WritesWhatItRead
<1>3. CASE UNCHANGED <<breaker, strikes>>
  BY <1>1, <1>2, <1>3 DEF BreakerInv, CountsAreTyped, OpensOnEvidence
<1>4. CASE breaker' = Closed /\ strikes' = [failed |-> 0, limited |-> FALSE]
  BY <1>1, <1>2, <1>4 DEF BreakerInv, CountsAreTyped, OpensOnEvidence, Closed
<1> QED BY <1>3, <1>4

LEMMA CallKeeps ==
  ASSUME OneProcess, BreakerInv, NEW c \in Calls, Undisturbed(c),
         Call(c) \/ Observe(c) \/ Succeed(c) \/ Neutral(c)
  PROVE  BreakerInv'
<1>1. \A d \in Calls : calls[d].pc # "writing"
  BY NobodyWrites
<1>2. Free \in Records /\ Free.pc = "idle" /\ calls[c] \in Records
  BY DEF Free, Records, BreakerInv, CountsAreTyped
<1>3. CASE Call(c)
  <2> DEFINE p == CooledDown
             r == [calls[c] EXCEPT !.pc = "called", !.probe = p]
  <2>1. p \in BOOLEAN
    BY DEF CooledDown
  <2>2. r \in Records /\ r.pc = "called"
    <3> HIDE DEF p
    <3> QED BY <1>2, <2>1 DEF Records
  <2>3. calls' = [calls EXCEPT ![c] = r] /\ UNCHANGED <<breaker, strikes>>
    BY <1>3 DEF Call
  <2> HIDE DEF r
  <2> QED BY <1>1, <2>2, <2>3, QuietKeeps
<1>4. CASE Observe(c)
  <2>1. calls' = calls /\ UNCHANGED <<breaker, strikes>>
    BY <1>4 DEF Observe
  <2> QED BY <2>1 DEF BreakerInv, CountsAreTyped, OneWriter, WritesWhatItRead, OpensOnEvidence
<1>5. CASE Succeed(c) \/ Neutral(c)
  BY <1>1, <1>2, <1>5, QuietKeeps DEF Succeed, Neutral
<1> QED BY <1>3, <1>4, <1>5

LEMMA FailsKeeps == ASSUME OneProcess, BreakerInv, NEW c \in Calls, Fails(c) PROVE BreakerInv'
<1>1. PICK kind \in Kinds, named \in Resets \cup {0} :
        /\ calls' = [calls EXCEPT ![c] = [pc |-> "writing", kind |-> kind,
                                          seen |-> breaker.count,
                                          wasOpen |-> breaker.state = "open",
                                          named |-> named, probe |-> @.probe]]
        /\ strikes' = [failed |-> strikes.failed + 1, limited |-> strikes.limited \/ kind = "limit"]
  BY DEF Fails
<1>2. /\ calls[c].pc = "called" /\ UNCHANGED breaker
      /\ \A d \in Calls \ {c} : calls[d].pc # "writing"
  BY DEF Fails, OneProcess
<1> DEFINE n == breaker.count
           o == breaker.state = "open"
           b == calls[c].probe
           r == [pc |-> "writing", kind |-> kind, seen |-> n, wasOpen |-> o, named |-> named,
                 probe |-> b]
<1>3. n \in Nat /\ o \in BOOLEAN /\ b \in BOOLEAN
  BY DEF BreakerInv, CountsAreTyped, Records
<1>4. /\ r \in Records /\ r.pc = "writing" /\ r.kind = kind /\ r.seen = n /\ (r.wasOpen <=> o)
  <2> HIDE DEF n, o, b
  <2> QED BY <1>3 DEF Records
<1>5. calls' = [calls EXCEPT ![c] = r]
  BY <1>1
<1>6. /\ calls' \in [Calls -> Records] /\ calls'[c] = r
      /\ \A d \in Calls \ {c} : calls'[d].pc # "writing"
  <2> HIDE DEF r
  <2> QED BY <1>2, <1>4, <1>5 DEF BreakerInv, CountsAreTyped
<1> HIDE DEF r
<1>7. /\ strikes'.failed = strikes.failed + 1 /\ strikes.failed \in Nat
      /\ strikes'.limited \in BOOLEAN /\ (strikes.limited => strikes'.limited)
      /\ (kind = "limit" => strikes'.limited)
  BY <1>1 DEF BreakerInv, CountsAreTyped
<1>8. CountsAreTyped'
  BY <1>2, <1>6, <1>7 DEF BreakerInv, CountsAreTyped
<1>9. OneWriter'
  BY <1>6 DEF OneWriter
<1>10. breaker.count <= strikes.failed
  BY DEF BreakerInv
<1>11. WritesWhatItRead'
  <2> SUFFICES ASSUME NEW d \in Calls, calls'[d].pc = "writing"
               PROVE  /\ calls'[d].seen = breaker'.count
                      /\ (calls'[d].wasOpen <=> breaker'.state = "open")
                      /\ calls'[d].seen + 1 <= strikes'.failed
                      /\ calls'[d].kind = "limit" => strikes'.limited
    BY DEF WritesWhatItRead
  <2>1. d = c
    BY <1>6
  <2>2. n + 1 <= strikes'.failed
    BY <1>3, <1>7, <1>10
  <2> QED BY <1>2, <1>4, <1>6, <1>7, <2>1, <2>2
<1>12. breaker'.count <= strikes'.failed
  BY <1>2, <1>3, <1>7, <1>10
<1>13. OpensOnEvidence'
  <2>1. breaker.state = "open" => strikes.limited \/ strikes.failed >= Threshold
    BY DEF BreakerInv, OpensOnEvidence
  <2> QED BY <1>2, <1>7, <2>1 DEF OpensOnEvidence, OneProcess
<1> QED BY <1>8, <1>9, <1>11, <1>12, <1>13 DEF BreakerInv

LEMMA RecordKeeps == ASSUME OneProcess, BreakerInv, NEW c \in Calls, Record(c) PROVE BreakerInv'
<1> DEFINE call == calls[c]
<1>1. /\ call.pc = "writing" /\ UNCHANGED strikes /\ calls' = [calls EXCEPT ![c] = Free]
      /\ breaker' = IF Opens(call)
                    THEN [state |-> "open", count |-> call.seen + 1, reason |-> call.kind,
                          left |-> WaitFor(call)]
                    ELSE [state |-> "closed", count |-> call.seen + 1, reason |-> "none",
                          left |-> 0]
  BY DEF Record
<1>2. /\ call.seen + 1 <= strikes.failed /\ (call.wasOpen <=> breaker.state = "open")
      /\ (call.kind = "limit" => strikes.limited) /\ call.seen \in Nat
  BY <1>1 DEF BreakerInv, CountsAreTyped, WritesWhatItRead, Records
<1>3. breaker'.count = call.seen + 1 /\ (breaker'.state = "open" <=> Opens(call))
  BY <1>1
<1>4. Free \in Records /\ Free.pc = "idle"
  BY DEF Free, Records
<1>5. calls' \in [Calls -> Records] /\ \A d \in Calls : calls'[d].pc # "writing"
  BY <1>1, <1>4 DEF BreakerInv, CountsAreTyped, OneWriter
<1>6. OneWriter' /\ WritesWhatItRead'
  BY <1>5 DEF OneWriter, WritesWhatItRead
<1>7. strikes.failed \in Nat /\ strikes.limited \in BOOLEAN
  BY DEF BreakerInv, CountsAreTyped
<1>8. CountsAreTyped' /\ breaker'.count <= strikes'.failed
  BY <1>1, <1>2, <1>3, <1>5, <1>7 DEF CountsAreTyped
<1>9. OpensOnEvidence'
  <2> SUFFICES ASSUME Opens(call) PROVE strikes.limited \/ strikes.failed >= Threshold
    BY <1>1, <1>3 DEF OpensOnEvidence
  <2>1. CASE call.kind = "limit"
    BY <1>2, <2>1
  <2>2. CASE call.wasOpen
    BY <1>2, <2>2 DEF BreakerInv, OpensOnEvidence
  <2>3. CASE call.seen + 1 >= Threshold
    BY <1>2, <1>7, <2>3 DEF OneProcess
  <2> QED BY <2>1, <2>2, <2>3 DEF Opens
<1> QED BY <1>6, <1>8, <1>9 DEF BreakerInv

LEMMA BreakerStepKeeps ==
  ASSUME OneProcess, BreakerInv, [BreakerNext]_breakerVars PROVE BreakerInv'
<1>1. CASE UNCHANGED breakerVars
  BY <1>1 DEF breakerVars, BreakerInv, CountsAreTyped, OneWriter, WritesWhatItRead,
              OpensOnEvidence
<1>2. CASE Tick
  <2>1. breaker' = [breaker EXCEPT !.left = IF @ > 0 THEN @ - 1 ELSE @] /\ UNCHANGED <<calls, strikes>>
    BY <1>2 DEF Tick
  <2>2. breaker'.state = breaker.state /\ breaker'.count = breaker.count
    BY <2>1
  <2> QED BY <2>1, <2>2 DEF BreakerInv, CountsAreTyped, OneWriter, WritesWhatItRead, OpensOnEvidence
<1>3. ASSUME NEW c \in Calls, BreakerStep(c) PROVE BreakerInv'
  BY <1>3, CallKeeps, FailsKeeps, RecordKeeps DEF BreakerStep
<1> QED BY <1>1, <1>2, <1>3 DEF BreakerNext

LEMMA BreakerInvHolds == ASSUME OneProcess PROVE BreakerSpec => []BreakerInv
<1>1. BreakerInit => BreakerInv
  BY BreakerInitInv
<1>2. BreakerInv /\ [BreakerNext]_breakerVars => BreakerInv'
  BY BreakerStepKeeps
<1> QED BY <1>1, <1>2, PTL DEF BreakerSpec

-----------------------------------------------------------------------------
(* The theorem.                                                            *)

\* In one process recordFailure opens a provider's breaker on what its calls
\* have met since the last success, a limit or as many failures as the
\* threshold, with any number of calls under way.
THEOREM BreakerHasEvidence == ASSUME OneProcess PROVE BreakerSpec => []OpensOnEvidence
<1>1. BreakerInv => OpensOnEvidence
  BY DEF BreakerInv
<1> QED BY <1>1, BreakerInvHolds, PTL

(***************************************************************************)
(* Provider logins: an answer resolves the question that its tab has       *)
(* shown.                                                                  *)
(***************************************************************************)

\* A finished login is kept for a minute, a live one at least as long.
LoginSpans == Questions \in Nat /\ Ttl \in Nat /\ Ttl >= Brief /\ Notices \in Nat

-----------------------------------------------------------------------------
(* The inductive invariant.                                                *)

Views == [status : Live \cup {"none", "done", "failed", "expired", "deleted"},
          pending : 0..Questions, left : 0..Ttl]
Flows == [pc : {"none", "working", "asking", "ended"}, asked : 0..Questions,
          got : 0..Questions, aborted : BOOLEAN, notices : 0..Notices]

\* The question a session holds is the last that its flow has asked, and the
\* flow waits for it.
PendingIsAsked ==
  \A s \in Sessions : sessions[s].pending # 0 =>
    /\ sessions[s].status = "prompting"
    /\ flows[s].pc = "asking" /\ sessions[s].pending = flows[s].asked

\* A token on a screen was one of a session's.
TokenHasSession == \A b \in Tabs : tabs[b].token # 0 => tabs[b].session \in Sessions

LoginInv == LoginTypeOK /\ PendingIsAsked /\ TokenHasSession

LEMMA LoginTyped ==
  ASSUME LoginInv
  PROVE  /\ sessions \in [Sessions -> Views] /\ flows \in [Sessions -> Flows]
         /\ \A s \in Sessions : sessions[s] \in Views /\ flows[s] \in Flows
BY DEF LoginInv, LoginTypeOK, Views, Flows

LEMMA LoginInitInv == ASSUME LoginSpans, LoginInit PROVE LoginInv
<1>1. LoginTypeOK
  BY DEF LoginSpans, LoginInit, LoginTypeOK, Blank
<1> QED BY <1>1 DEF LoginInit, LoginInv, PendingIsAsked, TokenHasSession, Blank

\* What a session and its flow may become in one step.
Fits(view, flow) ==
  /\ view \in Views /\ flow \in Flows
  /\ view.pending # 0 => view.status = "prompting" /\ flow.pc = "asking" /\ view.pending = flow.asked

LEMMA FitsNow ==
  ASSUME LoginInv PROVE \A s \in Sessions : Fits(sessions[s], flows[s])
BY LoginTyped DEF LoginInv, PendingIsAsked, Fits

LEMMA FitsKeep ==
  ASSUME LoginInv,
         NEW views, views \in [Sessions -> Views], sessions' = views,
         NEW fs, fs \in [Sessions -> Flows], flows' = fs,
         \A s \in Sessions : Fits(views[s], fs[s]),
         NEW ts, ts \in [Tabs -> [session : Sessions \cup {0}, token : 0..Questions]], tabs' = ts,
         \A b \in Tabs : ts[b].token # 0 => ts[b].session \in Sessions
  PROVE  LoginInv'
<1>1. LoginTypeOK'
  BY DEF LoginTypeOK, Views, Flows
<1>2. PendingIsAsked' /\ TokenHasSession'
  BY DEF PendingIsAsked, TokenHasSession, Fits
<1> QED BY <1>1, <1>2 DEF LoginInv

LEMMA TabsNow ==
  ASSUME LoginInv
  PROVE  /\ tabs \in [Tabs -> [session : Sessions \cup {0}, token : 0..Questions]]
         /\ \A b \in Tabs : tabs[b].token # 0 => tabs[b].session \in Sessions
BY DEF LoginInv, LoginTypeOK, TokenHasSession

\* A sweep expires and deletes, and stops the flows of what it expires.
LEMMA SweptFits ==
  ASSUME LoginSpans, LoginInv
  PROVE  /\ Swept \in [Sessions -> Views] /\ SweptFlows \in [Sessions -> Flows]
         /\ \A s \in Sessions : Fits(Swept[s], SweptFlows[s])
         /\ \A s \in Sessions : Swept[s].pending # 0 => Swept[s] = sessions[s]
         /\ \A s \in Sessions : SweptFlows[s].got = flows[s].got
<1>1. ASSUME NEW s \in Sessions
      PROVE  /\ Swept[s] \in Views /\ SweptFlows[s] \in Flows /\ Fits(Swept[s], SweptFlows[s])
             /\ Swept[s].pending # 0 => Swept[s] = sessions[s]
             /\ SweptFlows[s].got = flows[s].got
  <2>1. sessions[s] \in Views /\ flows[s] \in Flows /\ Fits(sessions[s], flows[s])
    BY LoginTyped, FitsNow
  <2>2. CASE ~Due(s)
    <3>1. Swept[s] = sessions[s] /\ SweptFlows[s] = flows[s]
      BY <2>2 DEF Swept, SweptFlows
    <3> QED BY <2>1, <3>1
  <2>3. CASE Due(s) /\ IsLive(s)
    <3> DEFINE v == [status |-> "expired", pending |-> 0, left |-> Brief]
               f == Stopped(s)
    <3>1. Swept[s] = v /\ SweptFlows[s] = f
      BY <2>3 DEF Swept, SweptFlows
    <3>2. v \in Views /\ v.pending = 0
      BY DEF LoginSpans, Brief, Views
    <3>3. f \in Flows /\ f.got = flows[s].got
      BY <2>1 DEF Stopped, Flows
    <3> HIDE DEF v, f
    <3> QED BY <3>1, <3>2, <3>3 DEF Fits
  <2>4. CASE Due(s) /\ ~IsLive(s)
    <3> DEFINE v == [sessions[s] EXCEPT !.status = "deleted"]
    <3>1. Swept[s] = v /\ SweptFlows[s] = flows[s]
      BY <2>4 DEF Swept, SweptFlows
    <3>2. sessions[s].pending = 0
      BY <2>1, <2>4 DEF IsLive, Live, Fits
    <3>3. v \in Views /\ v.pending = 0
      BY <2>1, <3>2 DEF Views
    <3> HIDE DEF v
    <3> QED BY <2>1, <3>1, <3>3 DEF Fits
  <2> QED BY <2>2, <2>3, <2>4
<1>2. Swept \in [Sessions -> Views] /\ SweptFlows \in [Sessions -> Flows]
  BY <1>1 DEF Swept, SweptFlows
<1> QED BY <1>1, <1>2

\* One session's step, on what a sweep left of the others or on what there was.
LEMMA OneFits ==
  ASSUME LoginInv, NEW vs, vs \in [Sessions -> Views], NEW fs, fs \in [Sessions -> Flows],
         \A r \in Sessions : Fits(vs[r], fs[r]),
         NEW s \in Sessions, NEW v, NEW f, Fits(v, f),
         sessions' = [vs EXCEPT ![s] = v], flows' = [fs EXCEPT ![s] = f],
         NEW ts, ts \in [Tabs -> [session : Sessions \cup {0}, token : 0..Questions]], tabs' = ts,
         \A b \in Tabs : ts[b].token # 0 => ts[b].session \in Sessions
  PROVE  LoginInv'
<1> DEFINE views == [vs EXCEPT ![s] = v]
           flowz == [fs EXCEPT ![s] = f]
<1>1. v \in Views /\ f \in Flows
  BY DEF Fits
<1>2. views \in [Sessions -> Views] /\ flowz \in [Sessions -> Flows]
  BY <1>1
<1>3. \A r \in Sessions : Fits(views[r], flowz[r])
  BY <1>1
<1>4. sessions' = views /\ flows' = flowz
  OBVIOUS
<1> HIDE DEF views, flowz
<1> QED BY <1>2, <1>3, <1>4, FitsKeep

-----------------------------------------------------------------------------
(* Every step keeps it.                                                    *)

LEMMA StartLoginKeeps ==
  ASSUME LoginSpans, LoginInv, NEW s \in Sessions, StartLogin(s) PROVE LoginInv'
<1> DEFINE v == [status |-> "waiting", pending |-> 0, left |-> Ttl]
           f == [SweptFlows[s] EXCEPT !.pc = "working"]
<1>1. SweptFlows \in [Sessions -> Flows] /\ SweptFlows[s] \in Flows
  BY SweptFits
<1>2. v \in Views /\ v.pending = 0
  BY DEF LoginSpans, Views, Live
<1>3. f \in Flows
  BY <1>1 DEF Flows
<1>4. sessions' = [Swept EXCEPT ![s] = v] /\ UNCHANGED tabs
  BY DEF StartLogin
<1>5. flows' = [SweptFlows EXCEPT ![s] = f]
  BY <1>1 DEF StartLogin
<1> HIDE DEF v, f
<1>6. Fits(v, f)
  BY <1>2, <1>3 DEF Fits
<1> QED BY <1>4, <1>5, <1>6, SweptFits, TabsNow, OneFits

LEMMA PollKeeps ==
  ASSUME LoginSpans, LoginInv, NEW b \in Tabs, NEW s \in Sessions, Poll(b, s) PROVE LoginInv'
<1> DEFINE r == [session |-> s, token |-> Swept[s].pending]
           ts == [tabs EXCEPT ![b] = r]
<1>1. Swept[s] \in Views
  BY SweptFits
<1>2. r \in [session : Sessions \cup {0}, token : 0..Questions] /\ r.session = s
  BY <1>1 DEF Views
<1>3. /\ ts \in [Tabs -> [session : Sessions \cup {0}, token : 0..Questions]]
      /\ \A c \in Tabs : ts[c].token # 0 => ts[c].session \in Sessions
  <2> HIDE DEF r
  <2> QED BY <1>2, TabsNow
<1>4. sessions' = Swept /\ flows' = SweptFlows /\ tabs' = ts
  BY DEF Poll
<1> HIDE DEF ts
<1> QED BY <1>3, <1>4, SweptFits, FitsKeep

LEMMA BlankTab ==
  ASSUME LoginSpans, LoginInv, NEW b \in Tabs
  PROVE  LET ts == [tabs EXCEPT ![b] = Blank] IN
         /\ ts \in [Tabs -> [session : Sessions \cup {0}, token : 0..Questions]]
         /\ \A c \in Tabs : ts[c].token # 0 => ts[c].session \in Sessions
<1>1. Blank \in [session : Sessions \cup {0}, token : 0..Questions] /\ Blank.token = 0
  BY DEF LoginSpans, Blank
<1> QED BY <1>1, TabsNow

LEMMA AnswerKeeps ==
  ASSUME LoginSpans, LoginInv, NEW b \in Tabs, AnswerLogin(b) PROVE LoginInv'
<1> DEFINE s == tabs[b].session
           k == tabs[b].token
           v == [status |-> "waiting", pending |-> 0, left |-> Ttl]
           f == [SweptFlows[s] EXCEPT !.pc = "working", !.got = k]
           ts == [tabs EXCEPT ![b] = Blank]
<1>1. k # 0 /\ sessions' = [Swept EXCEPT ![s] = v] /\ tabs' = ts
      /\ flows' = [SweptFlows EXCEPT ![s] = [@ EXCEPT !.pc = "working", !.got = k]]
  BY DEF AnswerLogin
<1>2. s \in Sessions /\ k \in 0..Questions
  BY <1>1, TabsNow
<1>3. SweptFlows \in [Sessions -> Flows] /\ SweptFlows[s] \in Flows
  BY <1>2, SweptFits
<1>4. v \in Views /\ v.pending = 0
  BY DEF LoginSpans, Views, Live
<1>5. f \in Flows
  <2> HIDE DEF s, k
  <2> QED BY <1>2, <1>3 DEF Flows
<1>6. flows' = [SweptFlows EXCEPT ![s] = f]
  BY <1>1
<1> HIDE DEF v, f, s
<1>7. Fits(v, f)
  BY <1>4, <1>5 DEF Fits
<1>8. /\ ts \in [Tabs -> [session : Sessions \cup {0}, token : 0..Questions]]
      /\ \A c \in Tabs : ts[c].token # 0 => ts[c].session \in Sessions
  BY BlankTab
<1> HIDE DEF ts
<1> QED BY <1>1, <1>2, <1>6, <1>7, <1>8, SweptFits, OneFits

LEMMA RefusedKeeps ==
  ASSUME LoginSpans, LoginInv, NEW b \in Tabs, AnswerRefused(b) PROVE LoginInv'
<1> DEFINE ts == [tabs EXCEPT ![b] = Blank]
<1>1. sessions' = Swept /\ flows' = SweptFlows /\ tabs' = ts
  BY DEF AnswerRefused
<1>2. /\ ts \in [Tabs -> [session : Sessions \cup {0}, token : 0..Questions]]
      /\ \A c \in Tabs : ts[c].token # 0 => ts[c].session \in Sessions
  BY BlankTab
<1> HIDE DEF ts
<1> QED BY <1>1, <1>2, SweptFits, FitsKeep

\* A step of one session and its flow.
LEMMA SessionKeeps ==
  ASSUME LoginSpans, LoginInv, NEW s \in Sessions, NEW v, NEW f, Fits(v, f),
         sessions' = [sessions EXCEPT ![s] = v], flows' = [flows EXCEPT ![s] = f], UNCHANGED tabs
  PROVE  LoginInv'
BY LoginTyped, FitsNow, TabsNow, OneFits

LEMMA CancelLoginKeeps ==
  ASSUME LoginSpans, LoginInv, NEW s \in Sessions, CancelLogin(s) PROVE LoginInv'
<1> DEFINE v == [status |-> "deleted", pending |-> 0, left |-> 0]
           f == Stopped(s)
<1>1. v \in Views /\ v.pending = 0
  BY DEF LoginSpans, Views
<1>2. f \in Flows
  BY LoginTyped DEF Stopped, Flows
<1>3. sessions' = [sessions EXCEPT ![s] = v] /\ flows' = [flows EXCEPT ![s] = f] /\ UNCHANGED tabs
  BY DEF CancelLogin
<1> HIDE DEF v, f
<1>4. Fits(v, f)
  BY <1>1, <1>2 DEF Fits
<1> QED BY <1>3, <1>4, SessionKeeps

LEMMA NotifyKeeps ==
  ASSUME LoginSpans, LoginInv, NEW s \in Sessions, Notify(s) PROVE LoginInv'
<1> DEFINE n == flows[s].notices + 1
           v == [sessions[s] EXCEPT !.left = Ttl]
           f == [flows[s] EXCEPT !.notices = n]
<1>1. n \in 0..Notices /\ Ttl \in 0..Ttl /\ sessions[s] \in Views /\ flows[s] \in Flows
      /\ flows[s].pc = "working"
  BY LoginTyped DEF Notify, LoginSpans, Flows
<1>2. v \in Views /\ v.pending = sessions[s].pending
  BY <1>1 DEF Views
<1>3. f \in Flows
  <2> HIDE DEF n
  <2> QED BY <1>1 DEF Flows
<1>4. sessions' = [sessions EXCEPT ![s] = v] /\ flows' = [flows EXCEPT ![s] = f] /\ UNCHANGED tabs
  BY LoginTyped DEF Notify
<1>5. sessions[s].pending = 0
  BY <1>1, FitsNow DEF Fits
<1> HIDE DEF v, f
<1>6. Fits(v, f)
  BY <1>2, <1>3, <1>5 DEF Fits
<1> QED BY <1>4, <1>6, SessionKeeps

LEMMA AskKeeps ==
  ASSUME LoginSpans, LoginInv, NEW s \in Sessions, Ask(s) PROVE LoginInv'
<1> DEFINE n == flows[s].asked + 1
           v == [status |-> "prompting", pending |-> n, left |-> Ttl]
           f == [flows[s] EXCEPT !.pc = "asking", !.asked = n]
<1>1. n \in 0..Questions /\ Ttl \in 0..Ttl /\ flows[s] \in Flows
  BY LoginTyped DEF Ask, LoginSpans, Flows
<1>2. sessions' = [sessions EXCEPT ![s] = v] /\ flows' = [flows EXCEPT ![s] = f] /\ UNCHANGED tabs
  BY LoginTyped DEF Ask
<1> HIDE DEF n
<1>3. v \in Views /\ v.pending = n /\ v.status = "prompting"
  BY <1>1 DEF Views, Live
<1>4. f \in Flows /\ f.pc = "asking" /\ f.asked = n
  BY <1>1 DEF Flows
<1> HIDE DEF v, f
<1>5. Fits(v, f)
  BY <1>3, <1>4 DEF Fits
<1> QED BY <1>2, <1>5, SessionKeeps

LEMMA WithdrawKeeps ==
  ASSUME LoginSpans, LoginInv, NEW s \in Sessions, Withdraw(s) PROVE LoginInv'
<1> DEFINE v == [sessions[s] EXCEPT !.pending = 0, !.status = "waiting"]
           f == [flows[s] EXCEPT !.pc = "working"]
<1>1. sessions[s] \in Views /\ flows[s] \in Flows /\ 0 \in 0..Questions
  BY LoginTyped DEF LoginSpans
<1>2. v \in Views /\ v.pending = 0
  BY <1>1 DEF Views, Live
<1>3. f \in Flows
  BY <1>1 DEF Flows
<1>4. sessions' = [sessions EXCEPT ![s] = v] /\ flows' = [flows EXCEPT ![s] = f] /\ UNCHANGED tabs
  BY LoginTyped DEF Withdraw
<1> HIDE DEF v, f
<1>5. Fits(v, f)
  BY <1>2, <1>3 DEF Fits
<1> QED BY <1>4, <1>5, SessionKeeps

LEMMA SettlesKeeps ==
  ASSUME LoginSpans, LoginInv, NEW s \in Sessions, LoginResolves(s) \/ LoginRejects(s) PROVE LoginInv'
<1> DEFINE f == [flows[s] EXCEPT !.pc = "ended"]
           d == [status |-> "done", pending |-> 0, left |-> Brief]
           e == [status |-> "failed", pending |-> 0, left |-> Brief]
<1>1. sessions[s] \in Views /\ flows[s] \in Flows /\ flows[s].pc = "working"
      /\ sessions \in [Sessions -> Views] /\ flows \in [Sessions -> Flows]
  BY LoginTyped DEF LoginResolves, LoginRejects
<1>2. f \in Flows
  BY <1>1 DEF Flows
<1>3. d \in Views /\ e \in Views /\ d.pending = 0 /\ e.pending = 0
  BY DEF LoginSpans, Brief, Views
<1>4. sessions[s].pending = 0
  BY <1>1, FitsNow DEF Fits
<1>5. PICK v \in {sessions[s], d, e} : sessions' = [sessions EXCEPT ![s] = v]
  BY DEF LoginResolves, LoginRejects
<1>6. flows' = [flows EXCEPT ![s] = f] /\ UNCHANGED tabs
  BY <1>1 DEF LoginResolves, LoginRejects
<1> HIDE DEF f, d, e
<1>7. Fits(v, f)
  BY <1>1, <1>2, <1>3, <1>4, <1>5 DEF Fits
<1> QED BY <1>5, <1>6, <1>7, SessionKeeps

LEMMA PassesKeeps == ASSUME LoginSpans, LoginInv, Passes PROVE LoginInv'
<1> DEFINE later(s) == [sessions[s] EXCEPT !.left = IF @ > 0 THEN @ - 1 ELSE @]
           views == [s \in Sessions |-> later(s)]
<1>1. ASSUME NEW s \in Sessions
      PROVE  later(s) \in Views /\ Fits(later(s), flows[s])
  <2> DEFINE l == IF sessions[s].left > 0 THEN sessions[s].left - 1 ELSE sessions[s].left
             v == [sessions[s] EXCEPT !.left = l]
  <2>1. l \in 0..Ttl /\ sessions[s] \in Views
    BY LoginTyped DEF Views, LoginSpans
  <2>2. v \in Views /\ v.pending = sessions[s].pending /\ v.status = sessions[s].status
    <3> HIDE DEF l
    <3> QED BY <2>1 DEF Views
  <2>3. later(s) = v
    OBVIOUS
  <2> HIDE DEF v
  <2> QED BY <2>2, <2>3, FitsNow DEF Fits
<1>2. sessions' = views /\ UNCHANGED <<flows, tabs>>
  BY DEF Passes
<1>3. views \in [Sessions -> Views] /\ \A s \in Sessions : Fits(views[s], flows[s])
  <2> HIDE DEF later
  <2> QED BY <1>1
<1> HIDE DEF views
<1> QED BY <1>2, <1>3, LoginTyped, TabsNow, FitsKeep

LEMMA LoginStepKeeps == ASSUME LoginSpans, LoginInv, [LoginNext]_loginVars PROVE LoginInv'
<1>1. CASE UNCHANGED loginVars
  BY <1>1 DEF loginVars, LoginInv, LoginTypeOK, PendingIsAsked, TokenHasSession
<1>2. ASSUME NEW s \in Sessions,
             \/ StartLogin(s) \/ CancelLogin(s) \/ Notify(s) \/ Ask(s) \/ Withdraw(s)
             \/ LoginResolves(s) \/ LoginRejects(s)
      PROVE  LoginInv'
  BY <1>2, StartLoginKeeps, CancelLoginKeeps, NotifyKeeps, AskKeeps, WithdrawKeeps, SettlesKeeps
<1>3. ASSUME NEW b \in Tabs, NEW s \in Sessions, Poll(b, s) PROVE LoginInv'
  BY <1>3, PollKeeps
<1>4. ASSUME NEW b \in Tabs, AnswerLogin(b) \/ AnswerRefused(b) PROVE LoginInv'
  BY <1>4, AnswerKeeps, RefusedKeeps
<1> QED BY <1>1, <1>2, <1>3, <1>4, PassesKeeps DEF LoginNext

LEMMA LoginInvHolds == ASSUME LoginSpans PROVE LoginSpec => []LoginInv
<1>1. LoginInit => LoginInv
  BY LoginInitInv
<1>2. LoginInv /\ [LoginNext]_loginVars => LoginInv'
  BY LoginStepKeeps
<1> QED BY <1>1, <1>2, PTL DEF LoginSpec

-----------------------------------------------------------------------------
(* The theorems.                                                           *)

\* Sessions, flows and tabs keep their types.
THEOREM LoginsAreTyped == ASSUME LoginSpans PROVE LoginSpec => []LoginTypeOK
<1>1. LoginInv => LoginTypeOK
  BY DEF LoginInv
<1> QED BY <1>1, LoginInvHolds, PTL

LEMMA AnswerIsAsked ==
  ASSUME LoginSpans, LoginInv, [LoginNext]_loginVars PROVE AnswersItsQuestion \/ UNCHANGED loginVars
<1> SUFFICES ASSUME LoginNext, NEW s \in Sessions, flows'[s].got # flows[s].got
             PROVE  flows[s].pc = "asking" /\ flows'[s].got = flows[s].asked
  BY DEF AnswersItsQuestion
<1>1. flows \in [Sessions -> Flows] /\ SweptFlows \in [Sessions -> Flows]
      /\ \A r \in Sessions : flows[r] \in Flows /\ SweptFlows[r] \in Flows
  BY LoginTyped, SweptFits
<1>2. SweptFlows[s].got = flows[s].got
  BY SweptFits
<1>3. ~Passes
  BY DEF Passes
<1>4. ~(\E r \in Sessions : StartLogin(r))
  BY <1>1, <1>2 DEF StartLogin, Flows
<1>5. ASSUME NEW r \in Sessions, CancelLogin(r) PROVE FALSE
  <2> DEFINE f == Stopped(r)
  <2>1. f.got = flows[r].got
    BY <1>1 DEF Stopped, Flows
  <2>2. flows' = [flows EXCEPT ![r] = f]
    BY <1>5 DEF CancelLogin
  <2> HIDE DEF f
  <2> QED BY <1>1, <2>1, <2>2
<1>6. ASSUME NEW r \in Sessions, Notify(r) \/ Ask(r) PROVE FALSE
  <2> DEFINE n == flows[r].notices + 1
             m == flows[r].asked + 1
             f == [flows[r] EXCEPT !.notices = n]
             g == [flows[r] EXCEPT !.pc = "asking", !.asked = m]
  <2>1. flows' = [flows EXCEPT ![r] = f] \/ flows' = [flows EXCEPT ![r] = g]
    BY <1>1, <1>6 DEF Notify, Ask
  <2> HIDE DEF n, m
  <2>2. f.got = flows[r].got /\ g.got = flows[r].got
    BY <1>1 DEF Flows
  <2> HIDE DEF f, g
  <2> QED BY <1>1, <2>1, <2>2
<1>7. ASSUME NEW r \in Sessions, Withdraw(r) \/ LoginResolves(r) \/ LoginRejects(r) PROVE FALSE
  <2> DEFINE f == [flows[r] EXCEPT !.pc = "working"]
             g == [flows[r] EXCEPT !.pc = "ended"]
  <2>1. flows' = [flows EXCEPT ![r] = f] \/ flows' = [flows EXCEPT ![r] = g]
    BY <1>1, <1>7 DEF Withdraw, LoginResolves, LoginRejects
  <2>2. f.got = flows[r].got /\ g.got = flows[r].got
    BY <1>1 DEF Flows
  <2> HIDE DEF f, g
  <2> QED BY <1>1, <2>1, <2>2
<1>8. ~(\E b \in Tabs : AnswerRefused(b) \/ \E r \in Sessions : Poll(b, r))
  BY <1>2 DEF AnswerRefused, Poll
<1>9. PICK b \in Tabs : AnswerLogin(b)
  BY <1>3, <1>4, <1>5, <1>6, <1>7, <1>8 DEF LoginNext
<1> DEFINE q == tabs[b].session
           k == tabs[b].token
<1>10. /\ k # 0 /\ Swept[q].pending = k
       /\ flows' = [SweptFlows EXCEPT ![q] = [@ EXCEPT !.pc = "working", !.got = k]]
  BY <1>9 DEF AnswerLogin
<1>11. q \in Sessions
  BY <1>10, TabsNow
<1>12. q = s /\ flows'[s].got = k
  <2> HIDE DEF q, k
  <2> QED BY <1>1, <1>2, <1>10, <1>11 DEF Flows
<1>13. Swept[s].pending = k /\ Swept[s] = sessions[s]
  BY <1>10, <1>12, SweptFits
<1> QED BY <1>10, <1>12, <1>13, FitsNow DEF Fits

\* An answer that answerProviderLogin takes resolves the question that its page
\* was showing, however late it comes and whatever was asked, withdrawn or swept
\* in the meantime.
THEOREM AnswersAreForTheirQuestion ==
  ASSUME LoginSpans PROVE LoginSpec => [][AnswersItsQuestion]_loginVars
<1>1. LoginInv /\ [LoginNext]_loginVars => [AnswersItsQuestion]_loginVars
  BY AnswerIsAsked
<1> QED BY <1>1, LoginInvHolds, PTL DEF LoginSpec

(***************************************************************************)
(* The event feed, for any number of processes, changes and drops: a       *)
(* process's listeners hear every event since its boot, once.              *)
(***************************************************************************)

\* There are finitely many processes, and the bounds are numbers.
FeedBounds == IsFiniteSet(Procs) /\ MaxEvents \in Nat /\ Buffer \in Nat /\ MaxDrops \in Nat

Sending == {p \in Procs : unsent[p] = 1}

\* Every change has its row or a process that is about to insert it.
RowsAreOfChanges == rows + Cardinality(Sending) = version

\* A tailer's place lies between its boot and the last row, and what it has
\* noted as its own process's lies past its place.
PlacesAreOfRows ==
  \A p \in Procs : /\ tail[p].boot <= tail[p].last /\ tail[p].last <= rows
                   /\ tail[p].local \subseteq (tail[p].last + 1)..rows

\* What its listeners have heard is what the tailer has passed since it booted
\* and what the process has emitted itself, once each.
HeardIsPassed ==
  \A p \in Procs, i \in Ids :
    tail[p].heard[i] = IF /\ i > tail[p].boot
                          /\ (i <= tail[p].last \/ i \in tail[p].local)
                       THEN 1 ELSE 0

FeedInv == FeedTypeOK /\ RowsAreOfChanges /\ PlacesAreOfRows /\ HeardIsPassed

-----------------------------------------------------------------------------

TailRecord == [last : 0..MaxEvents, boot : 0..MaxEvents, local : SUBSET Ids,
               heard : [Ids -> 0..2]]
StreamRecord == [open : BOOLEAN, frames : 0..Buffer, drops : 0..MaxDrops]
TabRecord == [link : {"connecting", "open"}, missed : BOOLEAN, timer : BOOLEAN,
              since : 0..MaxEvents, shown : 0..MaxEvents, best : 0..MaxEvents]

\* A process that has just booted has heard nothing.
LEMMA BootedHasHeardNothing ==
  ASSUME FeedBounds, rows \in 0..MaxEvents
  PROVE  /\ Booted \in TailRecord
         /\ Booted.last = rows /\ Booted.boot = rows /\ Booted.local = {}
         /\ \A i \in Ids : Booted.heard[i] = 0
  BY DEF Booted, TailRecord, FeedBounds, Ids

\* A stream that is written to keeps its bounds.
LEMMA WrittenKeeps ==
  ASSUME FeedBounds, NEW s \in StreamRecord, NEW n \in Nat
  PROVE  Written(s, n) \in StreamRecord
<1>1. s.frames + n <= Buffer => [s EXCEPT !.frames = s.frames + n] \in StreamRecord
  BY DEF StreamRecord, FeedBounds
<1>2. [s EXCEPT !.frames = Buffer, !.open = FALSE] \in StreamRecord
  <2> DEFINE shut == FALSE
  <2>1. shut \in BOOLEAN /\ Buffer \in 0..Buffer
    BY DEF FeedBounds
  <2> HIDE DEF shut
  <2>2. [s EXCEPT !.frames = Buffer, !.open = shut] \in StreamRecord
    BY <2>1 DEF StreamRecord
  <2> QED BY <2>2 DEF shut
<1> QED BY <1>1, <1>2 DEF Written

\* What the bus tells is heard once more; the rest of a process's place is kept.
LEMMA HeardIsAdded ==
  ASSUME NEW t \in TailRecord, NEW ids,
         \A i \in Ids : t.heard[i] \in 0..1
  PROVE  /\ Heard(t, ids) \in TailRecord
         /\ Heard(t, ids).last = t.last /\ Heard(t, ids).boot = t.boot
         /\ Heard(t, ids).local = t.local
         /\ \A i \in Ids : Heard(t, ids).heard[i]
                             = t.heard[i] + (IF i \in ids THEN 1 ELSE 0)
<1> DEFINE h == [i \in Ids |-> t.heard[i] + (IF i \in ids THEN 1 ELSE 0)]
<1>1. h \in [Ids -> 0..2]
  OBVIOUS
<1>2. Heard(t, ids) = [t EXCEPT !.heard = h]
  BY DEF Heard
<1>3. \A i \in Ids : h[i] = t.heard[i] + (IF i \in ids THEN 1 ELSE 0)
  OBVIOUS
<1> HIDE DEF h
<1>4. [t EXCEPT !.heard = h] \in TailRecord
  BY <1>1 DEF TailRecord
<1> QED BY <1>2, <1>3, <1>4 DEF TailRecord

\* One place of all that changes.
LEMMA OnePlace ==
  ASSUME NEW p \in Procs, NEW t \in TailRecord, tail \in [Procs -> TailRecord],
         tail' = [tail EXCEPT ![p] = t]
  PROVE  /\ tail' \in [Procs -> TailRecord] /\ tail'[p] = t
         /\ \A q \in Procs \ {p} : tail'[q] = tail[q]
  OBVIOUS

LEMMA FeedStarts == FeedBounds /\ FeedInit => FeedInv
<1> SUFFICES ASSUME FeedBounds, FeedInit PROVE FeedInv
  OBVIOUS
<1> USE DEF FeedInit
<1>1. rows \in 0..MaxEvents /\ version \in 0..MaxEvents /\ MaxEvents \in Nat
  BY DEF FeedBounds
<1>2. /\ Booted \in TailRecord
      /\ Booted.last = rows /\ Booted.boot = rows /\ Booted.local = {}
      /\ \A i \in Ids : Booted.heard[i] = 0
  BY <1>1, BootedHasHeardNothing
<1>3. tail \in [Procs -> TailRecord] /\ \A p \in Procs : tail[p] = Booted
  BY <1>2
<1>4. unsent \in [Procs -> 0..1] /\ Sending = {}
  BY DEF Sending
<1>5. fetch \in [Fetches -> NotAsked..MaxEvents]
  <2>1. Requested \in NotAsked..MaxEvents /\ NotAsked \in NotAsked..MaxEvents
    BY <1>1 DEF Requested, NotAsked
  <2> QED BY <2>1
<1>6. stream \in StreamRecord /\ tab \in TabRecord
  BY <1>1 DEF StreamRecord, TabRecord, FeedBounds
<1>7. FeedTypeOK
  BY <1>1, <1>3, <1>4, <1>5, <1>6 DEF FeedTypeOK, TailRecord, StreamRecord, TabRecord
<1>8. RowsAreOfChanges
  BY <1>4, FS_EmptySet DEF RowsAreOfChanges
<1>9. PlacesAreOfRows
  BY <1>1, <1>2, <1>3 DEF PlacesAreOfRows
<1>10. HeardIsPassed
  BY <1>1, <1>2, <1>3 DEF HeardIsPassed, Ids
<1> QED BY <1>7, <1>8, <1>9, <1>10 DEF FeedInv

\* A handler's change is one more that is being sent.
LEMMA ChangeKeeps ==
  ASSUME FeedBounds, FeedInv, NEW p \in Procs, Change(p)
  PROVE  FeedInv'
<1> USE DEF FeedInv
<1>1. /\ version \in 0..MaxEvents /\ version < MaxEvents /\ MaxEvents \in Nat
      /\ rows \in 0..MaxEvents /\ unsent \in [Procs -> 0..1] /\ unsent[p] = 0
  BY DEF FeedTypeOK, Change, FeedBounds
<1>2. version' \in 0..MaxEvents /\ version' = version + 1 /\ rows' = rows
  BY <1>1 DEF Change
<1>3. unsent' \in [Procs -> 0..1] /\ Sending' = Sending \cup {p} /\ p \notin Sending
  BY <1>1 DEF Change, Sending
<1>4. FeedTypeOK'
  BY <1>2, <1>3 DEF FeedTypeOK, Change
<1>5. RowsAreOfChanges'
  <2>1. IsFiniteSet(Sending)
    BY FS_Subset DEF Sending, FeedBounds
  <2>2. Cardinality(Sending') = Cardinality(Sending) + 1 /\ Cardinality(Sending) \in Nat
    BY <1>3, <2>1, FS_AddElement, FS_CardinalityType
  <2> QED BY <1>1, <1>2, <2>2 DEF RowsAreOfChanges
<1>6. PlacesAreOfRows' /\ HeardIsPassed'
  BY <1>2 DEF PlacesAreOfRows, HeardIsPassed, Change
<1> QED BY <1>4, <1>5, <1>6

\* An event's row is inserted and heard in its own process, which notes it.
LEMMA EmitKeeps ==
  ASSUME FeedBounds, FeedInv, NEW p \in Procs, EmitEvent(p)
  PROVE  FeedInv'
<1> USE DEF FeedInv
<1>1. /\ version \in 0..MaxEvents /\ MaxEvents \in Nat /\ rows \in 0..MaxEvents
      /\ unsent \in [Procs -> 0..1] /\ unsent[p] = 1 /\ tail \in [Procs -> TailRecord]
      /\ stream \in StreamRecord
  BY DEF FeedTypeOK, EmitEvent, FeedBounds, TailRecord, StreamRecord
<1>2. /\ unsent' \in [Procs -> 0..1] /\ Sending' = Sending \ {p} /\ p \in Sending
      /\ version' = version /\ rows' = rows + 1
  BY <1>1 DEF EmitEvent, Sending
<1>3. /\ Cardinality(Sending') = Cardinality(Sending) - 1
      /\ Cardinality(Sending) \in Nat /\ Cardinality(Sending') \in Nat
  <2>1. IsFiniteSet(Sending)
    BY FS_Subset DEF Sending, FeedBounds
  <2> QED BY <1>2, <2>1, FS_RemoveElement, FS_CardinalityType
<1>4. RowsAreOfChanges' /\ rows' \in 0..MaxEvents /\ rows + 1 \in Ids
  BY <1>1, <1>2, <1>3 DEF RowsAreOfChanges, Ids
<1> DEFINE t == [tail[p] EXCEPT !.local = tail[p].local \cup {rows + 1}]
<1>5. /\ t \in TailRecord /\ t.last = tail[p].last /\ t.boot = tail[p].boot
      /\ t.local = tail[p].local \cup {rows + 1} /\ t.heard = tail[p].heard
  BY <1>1, <1>4 DEF TailRecord
<1>6. tail' = [tail EXCEPT ![p] = Heard(t, {rows + 1})]
  BY DEF EmitEvent, Bus
<1> HIDE DEF t
<1>7. \A i \in Ids : t.heard[i] \in 0..1
  BY <1>5 DEF HeardIsPassed
<1> DEFINE u == Heard(t, {rows + 1})
<1>8. /\ u \in TailRecord /\ u.last = tail[p].last /\ u.boot = tail[p].boot
      /\ u.local = tail[p].local \cup {rows + 1}
      /\ \A i \in Ids : u.heard[i] = tail[p].heard[i] + (IF i \in {rows + 1} THEN 1 ELSE 0)
  BY <1>5, <1>7, HeardIsAdded
<1> HIDE DEF u
<1>9. /\ tail' \in [Procs -> TailRecord] /\ tail'[p] = u
      /\ \A q \in Procs \ {p} : tail'[q] = tail[q]
  BY <1>1, <1>6, <1>8, OnePlace DEF u
<1>10. stream' \in StreamRecord
  <2>1. Cardinality({rows + 1}) \in Nat
    <3>1. Cardinality({rows + 1}) = 1
      BY FS_Singleton, Zenon
    <3> QED BY <3>1
  <2>2. Written(stream, Cardinality({rows + 1})) \in StreamRecord
    BY <1>1, <2>1, WrittenKeeps
  <2> QED BY <1>1, <2>2 DEF EmitEvent, Bus
<1>11. FeedTypeOK'
  BY <1>2, <1>4, <1>9, <1>10 DEF FeedTypeOK, EmitEvent, TailRecord, StreamRecord
<1>12. PlacesAreOfRows'
  <2>1. ASSUME NEW q \in Procs
        PROVE  /\ tail'[q].boot <= tail'[q].last /\ tail'[q].last <= rows'
               /\ tail'[q].local \subseteq (tail'[q].last + 1)..rows'
    <3>1. /\ tail[q].boot <= tail[q].last /\ tail[q].last <= rows
          /\ tail[q].local \subseteq (tail[q].last + 1)..rows
          /\ tail[q].last \in Nat /\ tail[q].boot \in Nat /\ rows \in Nat
      BY <1>1 DEF PlacesAreOfRows, TailRecord
    <3>2. CASE q = p
      BY <1>2, <1>8, <1>9, <3>1, <3>2
    <3>3. CASE q # p
      BY <1>2, <1>9, <3>1, <3>3
    <3> QED BY <3>2, <3>3
  <2> QED BY <2>1 DEF PlacesAreOfRows
<1>13. HeardIsPassed'
  <2>1. ASSUME NEW q \in Procs, NEW i \in Ids
        PROVE  tail'[q].heard[i] = IF /\ i > tail'[q].boot
                                      /\ (i <= tail'[q].last \/ i \in tail'[q].local)
                                   THEN 1 ELSE 0
    <3>1. /\ tail[q].boot <= tail[q].last /\ tail[q].last <= rows
          /\ tail[q].local \subseteq (tail[q].last + 1)..rows
          /\ tail[q].last \in Nat /\ tail[q].boot \in Nat /\ rows \in Nat /\ i \in Nat
      BY <1>1 DEF PlacesAreOfRows, TailRecord, Ids
    <3>2. tail[q].heard[i] = IF /\ i > tail[q].boot
                                /\ (i <= tail[q].last \/ i \in tail[q].local)
                             THEN 1 ELSE 0
      BY DEF HeardIsPassed
    <3>3. CASE q # p
      BY <1>9, <3>2, <3>3
    <3>4. CASE q = p /\ i = rows + 1
      <4>1. tail[p].heard[i] = 0
        BY <3>1, <3>2, <3>4
      <4>2. tail'[p].heard[i] = 1
        BY <1>8, <1>9, <3>4, <4>1
      <4>3. i > u.boot /\ i \in u.local
        BY <1>8, <3>1, <3>4
      <4> QED BY <1>9, <3>4, <4>2, <4>3
    <3>5. CASE q = p /\ i # rows + 1
      <4>1. tail'[p].heard[i] = tail[p].heard[i] /\ (i \in u.local <=> i \in tail[p].local)
        BY <1>8, <1>9, <3>2, <3>5
      <4> QED BY <1>8, <1>9, <3>2, <3>5, <4>1
    <3> QED BY <3>3, <3>4, <3>5
  <2> QED BY <2>1 DEF HeardIsPassed
<1> QED BY <1>4, <1>11, <1>12, <1>13

\* The tailer tells what its process has not emitted itself, and forgets what it
\* has noted.
LEMMA TailKeeps ==
  ASSUME FeedBounds, FeedInv, NEW p \in Procs, TailEventsOnce(p)
  PROVE  FeedInv'
<1> USE DEF FeedInv
<1>1. /\ rows \in 0..MaxEvents /\ MaxEvents \in Nat /\ tail \in [Procs -> TailRecord]
      /\ stream \in StreamRecord /\ rows' = rows /\ version' = version /\ unsent' = unsent
      /\ tail[p].last < rows
  BY DEF FeedTypeOK, TailEventsOnce, FeedBounds, TailRecord, StreamRecord
<1>2. /\ tail[p].boot <= tail[p].last /\ tail[p].last <= rows
      /\ tail[p].local \subseteq (tail[p].last + 1)..rows
      /\ tail[p].last \in Nat /\ tail[p].boot \in Nat /\ rows \in Nat
  BY <1>1 DEF PlacesAreOfRows, TailRecord
<1>3. Forgotten(p) = {}
  BY <1>2 DEF Forgotten
<1> DEFINE t == [tail[p] EXCEPT !.last = rows, !.local = Forgotten(p)]
<1>4. /\ t \in TailRecord /\ t.last = rows /\ t.boot = tail[p].boot
      /\ t.local = {} /\ t.heard = tail[p].heard
  BY <1>1, <1>3 DEF TailRecord
<1>5. tail' = [tail EXCEPT ![p] = Heard(t, Foreign(p))]
  BY DEF TailEventsOnce, Bus
<1> HIDE DEF t
<1>6. \A i \in Ids : t.heard[i] \in 0..1
  BY <1>4 DEF HeardIsPassed
<1> DEFINE u == Heard(t, Foreign(p))
<1>7. /\ u \in TailRecord /\ u.last = rows /\ u.boot = tail[p].boot /\ u.local = {}
      /\ \A i \in Ids : u.heard[i] = tail[p].heard[i] + (IF i \in Foreign(p) THEN 1 ELSE 0)
  BY <1>4, <1>6, HeardIsAdded
<1>8. \A i \in Ids : i \in Foreign(p) <=> (i > tail[p].last /\ i <= rows /\ i \notin tail[p].local)
  BY <1>2 DEF Foreign, Ids
<1> HIDE DEF u
<1>9. /\ tail' \in [Procs -> TailRecord] /\ tail'[p] = u
      /\ \A q \in Procs \ {p} : tail'[q] = tail[q]
  BY <1>1, <1>5, <1>7, OnePlace DEF u
<1>10. stream' \in StreamRecord
  <2>1. IsFiniteSet(Foreign(p))
    <3>1. IsFiniteSet((tail[p].last + 1)..rows)
      BY <1>2, FS_Interval
    <3> QED BY <3>1, FS_Subset DEF Foreign
  <2>2. Written(stream, Cardinality(Foreign(p))) \in StreamRecord
    BY <1>1, <2>1, FS_CardinalityType, WrittenKeeps
  <2> QED BY <1>1, <2>2 DEF TailEventsOnce, Bus
<1>11. FeedTypeOK' /\ RowsAreOfChanges'
  BY <1>1, <1>9, <1>10 DEF FeedTypeOK, TailEventsOnce, TailRecord, StreamRecord,
    RowsAreOfChanges, Sending
<1>12. PlacesAreOfRows'
  BY <1>1, <1>2, <1>7, <1>9 DEF PlacesAreOfRows
<1>13. HeardIsPassed'
  <2>1. ASSUME NEW i \in Ids
        PROVE  u.heard[i] = IF i > u.boot /\ (i <= u.last \/ i \in u.local) THEN 1 ELSE 0
    <3>1. tail[p].heard[i] = IF /\ i > tail[p].boot
                                /\ (i <= tail[p].last \/ i \in tail[p].local)
                             THEN 1 ELSE 0
      BY DEF HeardIsPassed
    <3>2. i \in Nat
      BY <1>1 DEF Ids
    <3>3. CASE i \in Foreign(p)
      <4>1. i > tail[p].last /\ i <= rows /\ i \notin tail[p].local
        BY <1>8, <3>3
      <4>2. u.heard[i] = 1
        BY <1>2, <1>7, <3>1, <3>2, <3>3, <4>1
      <4> QED BY <1>2, <1>7, <3>2, <4>1, <4>2
    <3>4. CASE i \notin Foreign(p)
      <4>1. i <= tail[p].last \/ i > rows \/ i \in tail[p].local
        BY <1>2, <1>8, <3>2, <3>4
      <4>2. u.heard[i] = tail[p].heard[i]
        BY <1>7, <3>1, <3>4
      <4>3. i \in tail[p].local => i <= rows /\ i > tail[p].boot
        BY <1>2, <3>2
      <4> QED BY <1>2, <1>7, <3>1, <3>2, <4>1, <4>2, <4>3
    <3> QED BY <3>3, <3>4
  <2> QED BY <1>9, <2>1 DEF HeardIsPassed
<1> QED BY <1>11, <1>12, <1>13

\* A process that boots starts at the last row.
LEMMA WebRestartKeeps == FeedBounds /\ FeedInv /\ RestartWeb => FeedInv'
<1> SUFFICES ASSUME FeedBounds, FeedInv, RestartWeb PROVE FeedInv'
  OBVIOUS
<1> USE DEF FeedInv
<1>1. /\ rows \in 0..MaxEvents /\ MaxEvents \in Nat /\ tail \in [Procs -> TailRecord]
      /\ rows' = rows /\ version' = version /\ unsent' = unsent
      /\ tail' = [tail EXCEPT ![Web] = Booted]
  BY DEF FeedTypeOK, RestartWeb, FeedBounds, TailRecord
<1>2. /\ Booted \in TailRecord
      /\ Booted.last = rows /\ Booted.boot = rows /\ Booted.local = {}
      /\ \A i \in Ids : Booted.heard[i] = 0
  BY <1>1, BootedHasHeardNothing
<1>3. /\ tail' \in [Procs -> TailRecord]
      /\ \A p \in Procs : tail'[p] = IF p = Web THEN Booted ELSE tail[p]
  BY <1>1, <1>2
<1>4. stream' \in StreamRecord /\ tab' \in TabRecord
  <2>1. /\ stream.drops \in 0..MaxDrops /\ stream.drops < MaxDrops /\ MaxDrops \in Nat /\ Buffer \in Nat
        /\ tab \in TabRecord
    BY DEF RestartWeb, FeedTypeOK, FeedBounds, TabRecord
  <2>2. stream' \in StreamRecord
    BY <2>1 DEF RestartWeb, Cut, StreamRecord
  <2> DEFINE m == tab.missed \/ (tab.link = "connecting" /\ stream.open)
  <2>3. m \in BOOLEAN /\ tab' = [tab EXCEPT !.missed = m]
    BY DEF RestartWeb, Cut
  <2> HIDE DEF m
  <2>4. tab' \in TabRecord
    BY <2>1, <2>3 DEF TabRecord
  <2> QED BY <2>2, <2>4
<1>5. FeedTypeOK' /\ RowsAreOfChanges'
  BY <1>1, <1>3, <1>4 DEF FeedTypeOK, RestartWeb, TailRecord, StreamRecord, TabRecord,
    RowsAreOfChanges, Sending
<1>6. PlacesAreOfRows'
  BY <1>1, <1>2, <1>3 DEF PlacesAreOfRows
<1>7. HeardIsPassed'
  <2>1. ASSUME NEW i \in Ids
        PROVE  Booted.heard[i] = IF i > Booted.boot /\ (i <= Booted.last \/ i \in Booted.local)
                                 THEN 1 ELSE 0
    BY <1>1, <1>2 DEF Ids
  <2> QED BY <1>3, <2>1 DEF HeardIsPassed
<1> QED BY <1>5, <1>6, <1>7

\* The stream, the tab and its requests touch neither rows nor tailers.
LEMMA PageKeeps ==
  ASSUME FeedBounds, FeedInv,
         \/ Disconnect \/ Connect \/ Opened \/ Lost \/ Receive \/ Refetch
         \/ \E f \in Fetches : Serve(f) \/ HandleCards(f)
  PROVE  FeedInv'
<1> USE DEF FeedInv
<1>1. /\ stream \in StreamRecord /\ tab \in TabRecord /\ MaxEvents \in Nat /\ MaxDrops \in Nat
      /\ Buffer \in Nat /\ fetch \in [Fetches -> NotAsked..MaxEvents] /\ version \in 0..MaxEvents
  BY DEF FeedTypeOK, StreamRecord, TabRecord, FeedBounds
<1>2. Requested \in NotAsked..MaxEvents /\ NotAsked \in NotAsked..MaxEvents
      /\ version \in NotAsked..MaxEvents
  BY <1>1 DEF Requested, NotAsked
<1>3. UNCHANGED <<version, rows, unsent, tail>>
  BY DEF Disconnect, Connect, Opened, Lost, Receive, Refetch, Serve, HandleCards
<1>4. SendFetch => fetch' \in [Fetches -> NotAsked..MaxEvents]
  BY <1>1, <1>2 DEF SendFetch, Idle
<1>5. stream' \in StreamRecord /\ tab' \in TabRecord /\ fetch' \in [Fetches -> NotAsked..MaxEvents]
  <2>1. CASE Disconnect
    <3>1. stream.drops \in 0..MaxDrops /\ stream.drops < MaxDrops /\ fetch' = fetch
      BY <1>1, <2>1 DEF Disconnect, StreamRecord
    <3>2. stream' \in StreamRecord
      BY <1>1, <2>1, <3>1 DEF Disconnect, Cut, StreamRecord
    <3> DEFINE m == tab.missed \/ (tab.link = "connecting" /\ stream.open)
    <3>3. m \in BOOLEAN /\ tab' = [tab EXCEPT !.missed = m]
      BY <2>1 DEF Disconnect, Cut
    <3> HIDE DEF m
    <3>4. tab' \in TabRecord
      BY <1>1, <3>3 DEF TabRecord
    <3> QED BY <1>1, <3>1, <3>2, <3>4
  <2>2. CASE Connect
    BY <1>1, <2>2 DEF Connect, StreamRecord
  <2>3. CASE Opened
    <3> DEFINE since == IF tab.since = MaxEvents THEN version ELSE tab.since
    <3>1. since \in 0..MaxEvents
      BY <1>1 DEF TabRecord
    <3>2. /\ tab' = [tab EXCEPT !.link = "open", !.missed = FALSE, !.since = since]
          /\ stream' = stream /\ (SendFetch \/ fetch' = fetch)
      BY <2>3 DEF Opened
    <3> HIDE DEF since
    <3>3. tab' \in TabRecord
      BY <1>1, <3>1, <3>2 DEF TabRecord
    <3> QED BY <1>1, <1>4, <3>2, <3>3
  <2>4. CASE Lost
    BY <1>1, <2>4 DEF Lost, TabRecord
  <2>5. CASE Receive
    <3>1. stream' \in StreamRecord
      BY <1>1, <2>5 DEF Receive, StreamRecord
    <3>2. tab' \in TabRecord
      BY <1>1, <2>5 DEF Receive, TabRecord
    <3> QED BY <1>1, <2>5, <3>1, <3>2 DEF Receive
  <2>6. CASE Refetch
    BY <1>1, <1>4, <2>6 DEF Refetch, TabRecord
  <2>7. ASSUME NEW f \in Fetches, Serve(f)
        PROVE  stream' \in StreamRecord /\ tab' \in TabRecord
               /\ fetch' \in [Fetches -> NotAsked..MaxEvents]
    BY <1>1, <1>2, <2>7 DEF Serve
  <2>8. ASSUME NEW f \in Fetches, HandleCards(f)
        PROVE  stream' \in StreamRecord /\ tab' \in TabRecord
               /\ fetch' \in [Fetches -> NotAsked..MaxEvents]
    <3> DEFINE best == IF fetch[f] > tab.best THEN fetch[f] ELSE tab.best
    <3>0. fetch[f] \in NotAsked..MaxEvents /\ fetch[f] >= 0
      BY <1>1, <2>8, Zenon DEF HandleCards
    <3>1. fetch[f] \in 0..MaxEvents /\ stream' = stream
          /\ fetch' = [fetch EXCEPT ![f] = NotAsked]
      <4>1. fetch[f] \in 0..MaxEvents
        BY <1>1, <3>0 DEF NotAsked
      <4>2. stream' = stream /\ fetch' = [fetch EXCEPT ![f] = NotAsked]
        BY <2>8 DEF HandleCards
      <4> QED BY <4>1, <4>2
    <3>2. best \in 0..MaxEvents
      BY <1>1, <3>1 DEF TabRecord
    <3>3. tab' = [tab EXCEPT !.shown = fetch[f], !.best = best]
      BY <2>8 DEF HandleCards
    <3> HIDE DEF best
    <3>4. tab' \in TabRecord
      BY <1>1, <3>1, <3>2, <3>3 DEF TabRecord
    <3>5. fetch' \in [Fetches -> NotAsked..MaxEvents]
      BY <1>1, <1>2, <3>1
    <3> QED BY <1>1, <3>1, <3>4, <3>5
  <2> QED BY <2>1, <2>2, <2>3, <2>4, <2>5, <2>6, <2>7, <2>8
<1>6. FeedTypeOK'
  BY <1>3, <1>5 DEF FeedTypeOK, StreamRecord, TabRecord
<1>7. RowsAreOfChanges' /\ PlacesAreOfRows' /\ HeardIsPassed'
  BY <1>3 DEF RowsAreOfChanges, PlacesAreOfRows, HeardIsPassed, Sending
<1> QED BY <1>6, <1>7

LEMMA FeedStutters == FeedInv /\ UNCHANGED feedVars => FeedInv'
  BY DEF FeedInv, FeedTypeOK, RowsAreOfChanges, PlacesAreOfRows, HeardIsPassed, Sending, feedVars

LEMMA FeedStays == FeedBounds /\ FeedInv /\ [FeedNext]_feedVars => FeedInv'
<1> SUFFICES ASSUME FeedBounds, FeedInv, [FeedNext]_feedVars PROVE FeedInv'
  OBVIOUS
<1>1. ASSUME NEW p \in Procs, Change(p) \/ EmitEvent(p) \/ TailEventsOnce(p) PROVE FeedInv'
  BY <1>1, ChangeKeeps, EmitKeeps, TailKeeps
<1>2. CASE RestartWeb
  BY <1>2, WebRestartKeeps
<1>3. CASE \/ Disconnect \/ Connect \/ Opened \/ Lost \/ Receive \/ Refetch
           \/ \E f \in Fetches : Serve(f) \/ HandleCards(f)
  BY <1>3, PageKeeps
<1>4. CASE UNCHANGED feedVars
  BY <1>4, FeedStutters
<1> QED BY <1>1, <1>2, <1>3, <1>4 DEF FeedNext

\* The event feed keeps its types: the table, the tailers, the stream's buffer
\* and the page.
THEOREM FeedsAreTyped == ASSUME FeedBounds PROVE FeedSpec => []FeedTypeOK
<1>1. FeedInv => FeedTypeOK
  BY DEF FeedInv
<1> QED BY <1>1, FeedStarts, FeedStays, PTL DEF FeedSpec

\* tailEventsOnce, emitEvent: the listeners of a process hear every event since
\* it booted once, its own when it is emitted and the others' when the tailer
\* passes them, in whatever order rows, ticks and restarts come.
THEOREM EventsAreHeardOnce == ASSUME FeedBounds PROVE FeedSpec => []BusDeliversOnce
<1>1. FeedBounds /\ FeedInv => BusDeliversOnce
  <2> SUFFICES ASSUME FeedBounds, FeedInv, NEW p \in Procs, NEW i \in Ids
               PROVE  /\ tail[p].heard[i] <= (IF i > tail[p].boot THEN 1 ELSE 0)
                      /\ i > tail[p].boot /\ i <= tail[p].last => tail[p].heard[i] = 1
    BY DEF BusDeliversOnce
  <2>1. tail[p].heard[i] = IF /\ i > tail[p].boot
                              /\ (i <= tail[p].last \/ i \in tail[p].local)
                           THEN 1 ELSE 0
    BY DEF FeedInv, HeardIsPassed
  <2> QED BY <2>1
<1> QED BY <1>1, FeedStarts, FeedStays, PTL DEF FeedSpec
=============================================================================
