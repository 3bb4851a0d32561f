------------------------- MODULE UnattendedProofs ---------------------------
(***************************************************************************)
(* What the work that nobody starts by hand keeps: improvement runs, for   *)
(* any number of workers, requests and cards; schedules, for any           *)
(* calendar, any number of schedules and of workers that tick; and the     *)
(* clean-up, for any number of cards, runs and days.                       *)
(***************************************************************************)
EXTENDS ImprovementRun, Schedules, Cleanup, FiniteSetTheorems, SequenceTheorems,
        WellFoundedInduction, TLAPS

(***************************************************************************)
(* Improvement runs: one active run of the repository, one driver of a     *)
(* run, no card after a Stop, and counters that tell the truth.            *)
(***************************************************************************)

\* The bounds are numbers, no worker is called None, and a process has the
\* worker role or has not.
RunBounds == /\ MaxRuns \in Nat /\ MaxCards \in Nat /\ MaxStalls \in Nat
             /\ FailureLimit \in Nat /\ EmptyLimit \in Nat
             /\ None \notin Workers /\ Workers \cap Web = {}

Row == [status : Ended \cup {"running", "deleted"}, worker : Workers \cup {None},
        cut : BOOLEAN, budget : {"open", "short", "past"}, stop : BOOLEAN,
        card : 0..MaxCards, created : Nat, succeeded : Nat, failures : Nat]
Task == [run : Numbers, status : Terminal \cup {"open"}, started : BOOLEAN, counted : BOOLEAN]
Driver == [pc : {"off", "loop", "proposing", "backoff", "awaiting"},
           streak : Nat, created : Nat, card : 0..MaxCards]

\* A driver or a request under way is about a row that is there.
RowsAreThere ==
  /\ \A w \in Workers, r \in Numbers : drivers[w][r].pc # "off" => r \in DOMAIN runRows
  /\ \A q \in Requests : requests[q].pc = "cutting" => requests[q].run \in DOMAIN runRows

TInv == RunTypeOK /\ RowsAreThere

-----------------------------------------------------------------------------
(* Sequences.                                                              *)

\* A function on the first n numbers is a sequence; so replacing what a sequence
\* has at some place keeps its type and its length.
LEMMA FunctionIsSeq ==
  ASSUME NEW S, NEW n \in Nat, NEW t \in [1..n -> S]
  PROVE  t \in Seq(S) /\ Len(t) = n /\ DOMAIN t = 1..n
OBVIOUS

\* Appending makes a sequence one longer and keeps what it had.
LEMMA AppendToSeq ==
  ASSUME NEW S, NEW s \in Seq(S), NEW v \in S
  PROVE  /\ Append(s, v) \in Seq(S)
         /\ Len(Append(s, v)) = Len(s) + 1
         /\ DOMAIN Append(s, v) = DOMAIN s \cup {Len(s) + 1}
         /\ Len(s) + 1 \notin DOMAIN s
         /\ Append(s, v)[Len(s) + 1] = v
         /\ \A i \in DOMAIN s : Append(s, v)[i] = s[i]
OBVIOUS

-----------------------------------------------------------------------------
(* Types.                                                                  *)

\* RunTypeOK, in the names of this module.
LEMMA RunTyped ==
  RunTypeOK <=>
    /\ runRows \in Seq(Row) /\ Len(runRows) \in 0..MaxRuns
    /\ tasks \in Seq(Task) /\ Len(tasks) \in 0..MaxCards
    /\ drivers \in [Workers -> [Numbers -> Driver]]
    /\ requests \in [Requests -> [pc : {"none", "checking", "cutting"},
                                  by : Workers \cup Web \cup {None}, run : 0..MaxRuns]]
    /\ host \in [Workers -> {"up", "stalled", "dead"}]
    /\ beating \subseteq Workers
    /\ stalls \in 0..MaxStalls
BY DEF RunTypeOK, Row, Task, Driver

\* What the handlers make of a row is a row.
LEMMA RowTypes ==
  ASSUME RunBounds, NEW row \in Row, NEW w \in Workers
  PROVE  /\ EndRun(row) \in Row
         /\ Released(row, w) \in Row
         /\ \A success \in BOOLEAN : Recorded(row, success) \in Row
<1>0. 0 \in 0..MaxCards
  BY DEF RunBounds
<1>1. \A rr \in Row, end \in Ended : Finish(rr, end) \in Row
  <2>1. \A rr \in Row, end \in Ended : [rr EXCEPT !.status = end, !.card = 0] \in Row
    BY <1>0 DEF Row
  <2> QED
    BY <2>1 DEF Finish
<1>2. EndRun(row) \in Row
  BY <1>1 DEF EndRun, Ended
<1>3. Released(row, w) \in Row
  BY DEF Row, Released
<1>4. ASSUME NEW success \in BOOLEAN PROVE Recorded(row, success) \in Row
  <2> DEFINE counted == [row EXCEPT !.succeeded = @ + (IF success THEN 1 ELSE 0),
                                    !.failures = IF success THEN 0 ELSE @ + 1,
                                    !.card = 0]
             n == row.succeeded + (IF success THEN 1 ELSE 0)
             k == IF success THEN 0 ELSE row.failures + 1
  <2>a. n \in Nat /\ k \in Nat
    BY DEF Row
  <2>b. counted = [row EXCEPT !.succeeded = n, !.failures = k, !.card = 0]
    OBVIOUS
  <2> HIDE DEF n, k, counted
  <2>1. counted \in Row
    BY <2>a, <2>b, <1>0 DEF Row
  <2> USE DEF counted
  <2> QED
    BY <1>1, <2>1 DEF Recorded, Ended
<1> QED
  BY <1>2, <1>3, <1>4

LEMMA InitTypes == ASSUME RunBounds, RunInit PROVE TInv
BY DEF RunBounds, RunInit, TInv, RunTypeOK, RowsAreThere, Idle, Quiet, Numbers, Ended, Terminal

\* A step that replaces one row (if it is there at all) by a row, one driver by
\* a driver and leaves the rest of the two sequences' shapes.
LEMMA RowReplaced ==
  ASSUME RunTypeOK, NEW r, NEW v, r \in DOMAIN runRows => v \in Row,
         runRows' = [runRows EXCEPT ![r] = v]
  PROVE  /\ runRows' \in Seq(Row) /\ Len(runRows') = Len(runRows)
         /\ DOMAIN runRows' = DOMAIN runRows
<1>1. /\ Len(runRows) \in Nat /\ DOMAIN runRows = 1..Len(runRows)
      /\ runRows \in [1..Len(runRows) -> Row]
  BY RunTyped, LenProperties
<1>2. runRows' \in [1..Len(runRows) -> Row]
  BY <1>1
<1> QED
  BY <1>1, <1>2, FunctionIsSeq

LEMMA DriverReplaced ==
  ASSUME RunTypeOK, NEW w \in Workers, NEW r \in Numbers, NEW d \in Driver,
         drivers' = [drivers EXCEPT ![w][r] = d]
  PROVE  /\ drivers' \in [Workers -> [Numbers -> Driver]]
         /\ drivers'[w][r] = d
         /\ \A v \in Workers, s \in Numbers : <<v, s>> # <<w, r>> => drivers'[v][s] = drivers[v][s]
BY RunTyped

\* The rows that are there: the elements of the sequence.
LEMMA RowElements ==
  ASSUME RunBounds, RunTypeOK
  PROVE  /\ \A r \in DOMAIN runRows : runRows[r] \in Row /\ r \in Numbers
         /\ \A c \in DOMAIN tasks : tasks[c] \in Task /\ c \in 1..MaxCards
<1>1. /\ runRows \in Seq(Row) /\ Len(runRows) \in 0..MaxRuns
      /\ tasks \in Seq(Task) /\ Len(tasks) \in 0..MaxCards
  BY RunTyped
<1>2. /\ runRows \in [1..Len(runRows) -> Row] /\ tasks \in [1..Len(tasks) -> Task]
  BY <1>1, LenProperties
<1> QED
  BY <1>1, <1>2 DEF Numbers, RunBounds

\* The lease step: whoever drives has a row and an idle driver's state.
LEMMA DriveTypes ==
  ASSUME RunBounds, TInv, NEW w \in Workers, NEW r \in Numbers, Resume(w, r)
  PROVE  TInv'
<1>1. r \in DOMAIN runRows /\ runRows[r] \in Row
  BY RowElements DEF Resume, TInv
<1>2. [runRows[r] EXCEPT !.worker = w] \in Row
  BY <1>1 DEF Row
<1>3. runRows' = [runRows EXCEPT ![r] = [runRows[r] EXCEPT !.worker = w]]
  BY DEF Resume, Drive
<1>4. [Idle EXCEPT !.pc = "loop"] \in Driver
  BY DEF Idle, Driver, RunBounds
<1>5. drivers' = [drivers EXCEPT ![w][r] = [Idle EXCEPT !.pc = "loop"]]
  BY DEF Resume, Drive
<1>6. UNCHANGED <<tasks, requests, host, beating, stalls>>
  BY DEF Resume
<1>7. /\ runRows' \in Seq(Row) /\ Len(runRows') = Len(runRows)
      /\ DOMAIN runRows' = DOMAIN runRows
  BY <1>2, <1>3, RowReplaced DEF TInv
<1>8. /\ drivers' \in [Workers -> [Numbers -> Driver]]
      /\ \A v \in Workers, s \in Numbers : <<v, s>> # <<w, r>> => drivers'[v][s] = drivers[v][s]
  BY <1>4, <1>5, DriverReplaced DEF TInv
<1>9. RunTypeOK'
  BY <1>6, <1>7, <1>8, RunTyped DEF TInv, RunTypeOK, Driver, Row
<1> QED
  BY <1>1, <1>6, <1>7, <1>8, <1>9 DEF TInv, RowsAreThere

\* A driver's move that leaves rows and tasks their shape.
LEMMA DriverMoves ==
  ASSUME RunBounds, TInv, NEW w \in Workers, NEW r \in DOMAIN runRows, NEW d \in Driver,
         drivers' = [drivers EXCEPT ![w][r] = d],
         runRows' \in Seq(Row), DOMAIN runRows' = DOMAIN runRows, Len(runRows') = Len(runRows),
         tasks' \in Seq(Task), Len(tasks') \in 0..MaxCards,
         UNCHANGED <<requests, host, beating, stalls>>
  PROVE  TInv'
<1>1. r \in Numbers
  BY RowElements DEF TInv
<1>2. /\ drivers' \in [Workers -> [Numbers -> Driver]]
      /\ \A v \in Workers, s \in Numbers : <<v, s>> # <<w, r>> => drivers'[v][s] = drivers[v][s]
  BY <1>1, DriverReplaced DEF TInv
<1>3. RunTypeOK'
  BY <1>2 DEF TInv, RunTypeOK, Driver, Row, Task
<1> QED
  BY <1>1, <1>2, <1>3 DEF TInv, RowsAreThere

\* A driver that leaves a run puts its row down and is idle again.
LEMMA LeaveTypes ==
  ASSUME RunBounds, TInv, NEW w \in Workers, NEW r \in DOMAIN runRows, NEW row \in Row,
         Leave(w, r, row)
  PROVE  TInv'
<1>1. Released(row, w) \in Row
  BY RowTypes
<1>2. runRows' = [runRows EXCEPT ![r] = Released(row, w)]
  BY DEF Leave
<1>3. /\ runRows' \in Seq(Row) /\ Len(runRows') = Len(runRows)
      /\ DOMAIN runRows' = DOMAIN runRows
  BY <1>1, <1>2, RowReplaced DEF TInv
<1>4. Idle \in Driver
  BY DEF Idle, Driver, RunBounds
<1>5. tasks' \in Seq(Task) /\ Len(tasks') \in 0..MaxCards
  BY RunTyped DEF Leave, TInv
<1>6. drivers' = [drivers EXCEPT ![w][r] = Idle] /\ UNCHANGED <<requests, host, beating, stalls>>
  BY DEF Leave
<1> QED
  BY <1>3, <1>4, <1>5, <1>6, DriverMoves

\* What a driver of a row there is, and the same with another place or card.
LEMMA DriverElements ==
  ASSUME RunBounds, TInv, NEW w \in Workers, NEW r \in Numbers
  PROVE  /\ drivers[w][r] \in Driver
         /\ \A pc \in {"off", "loop", "proposing", "backoff", "awaiting"}, c \in 0..MaxCards :
              /\ [drivers[w][r] EXCEPT !.pc = pc] \in Driver
              /\ [drivers[w][r] EXCEPT !.pc = pc, !.card = c] \in Driver
         /\ \A pc \in {"off", "loop", "proposing", "backoff", "awaiting"}, k \in Nat :
              /\ [drivers[w][r] EXCEPT !.pc = pc, !.streak = k] \in Driver
              /\ [drivers[w][r] EXCEPT !.pc = pc, !.created = k] \in Driver
<1>1. drivers[w][r] \in Driver
  BY RunTyped DEF TInv
<1> QED
  BY <1>1 DEF Driver

\* A driver that records an outcome.
LEMMA RecordTypes ==
  ASSUME RunBounds, TInv, NEW w \in Workers, NEW r \in DOMAIN runRows, NEW c, Record(w, r, c)
  PROVE  TInv'
<1>1. runRows[r] \in Row /\ r \in Numbers
  BY RowElements DEF TInv
<1>2. runRows' = [runRows EXCEPT ![r] = Recorded(runRows[r], tasks[c].status = "done")]
  BY DEF Record
<1>3. Recorded(runRows[r], tasks[c].status = "done") \in Row
  <2>1. (tasks[c].status = "done") \in BOOLEAN
    OBVIOUS
  <2> QED
    BY <1>1, <2>1, RowTypes
<1>4. /\ runRows' \in Seq(Row) /\ Len(runRows') = Len(runRows)
      /\ DOMAIN runRows' = DOMAIN runRows
  BY <1>2, <1>3, RowReplaced DEF TInv
<1>5. tasks' = [tasks EXCEPT ![c] = [tasks[c] EXCEPT !.counted = tasks[c].status = "done"]]
  BY DEF Record, Count
<1>6. c \in DOMAIN tasks => [tasks[c] EXCEPT !.counted = tasks[c].status = "done"] \in Task
  BY RowElements DEF TInv, Task
<1>7. tasks \in Seq(Task) /\ Len(tasks) \in 0..MaxCards
  BY RunTyped DEF TInv
<1>8. tasks' \in Seq(Task) /\ Len(tasks') \in 0..MaxCards
  <2> DEFINE v == [tasks[c] EXCEPT !.counted = tasks[c].status = "done"]
  <2>1. tasks' = [tasks EXCEPT ![c] = v] /\ (c \in DOMAIN tasks => v \in Task)
    BY <1>5, <1>6
  <2> HIDE DEF v
  <2>2. /\ Len(tasks) \in Nat /\ DOMAIN tasks = 1..Len(tasks)
        /\ tasks \in [1..Len(tasks) -> Task]
    BY <1>7, LenProperties
  <2>3. tasks' \in [1..Len(tasks) -> Task]
    BY <2>1, <2>2
  <2> QED
    BY <1>7, <2>2, <2>3, FunctionIsSeq
<1>9. [drivers[w][r] EXCEPT !.pc = "loop", !.card = 0] \in Driver
  <2>1. 0 \in 0..MaxCards
    BY DEF RunBounds
  <2> QED
    BY <1>1, <2>1, DriverElements
<1>10. /\ drivers' = [drivers EXCEPT ![w][r] = [drivers[w][r] EXCEPT !.pc = "loop", !.card = 0]]
       /\ UNCHANGED <<requests, host, beating, stalls>>
  BY <1>1, RunTyped DEF Record, TInv
<1> QED
  BY <1>4, <1>8, <1>9, <1>10, DriverMoves

\* A driver's turn, and whatever else it does.
LEMMA TurnTypes ==
  ASSUME RunBounds, TInv, NEW w \in Workers, NEW r \in Numbers, Turn(w, r)
  PROVE  TInv'
<1> DEFINE row == runRows[r]
<1>1. r \in DOMAIN runRows
  BY DEF TInv, RowsAreThere, Turn
<1>2. row \in Row
  BY <1>1, RowElements DEF TInv
<1>3. CASE Leave(w, r, row) \/ Leave(w, r, EndRun(row))
  BY <1>1, <1>2, <1>3, RowTypes, LeaveTypes
<1>4. CASE Record(w, r, row.card)
  BY <1>1, <1>4, RecordTypes
<1>5. CASE /\ drivers' = [drivers EXCEPT ![w][r] = [@ EXCEPT !.pc = "awaiting", !.card = row.card]]
           /\ tasks' = [tasks EXCEPT ![row.card].started = TRUE]
           /\ UNCHANGED <<runRows, requests, host, beating, stalls>>
  <2>1. tasks \in Seq(Task) /\ Len(tasks) \in 0..MaxCards /\ runRows \in Seq(Row)
    BY RunTyped DEF TInv
  <2>2. tasks' = [tasks EXCEPT ![row.card] = [tasks[row.card] EXCEPT !.started = TRUE]]
    BY <1>5
  <2>3. row.card \in DOMAIN tasks => [tasks[row.card] EXCEPT !.started = TRUE] \in Task
    BY RowElements DEF TInv, Task
  <2>4. tasks' \in Seq(Task) /\ Len(tasks') \in 0..MaxCards
    <3> DEFINE v == [tasks[row.card] EXCEPT !.started = TRUE]
    <3>1. tasks' = [tasks EXCEPT ![row.card] = v] /\ (row.card \in DOMAIN tasks => v \in Task)
      BY <2>2, <2>3
    <3> HIDE DEF v, row
    <3>2. /\ Len(tasks) \in Nat /\ DOMAIN tasks = 1..Len(tasks)
          /\ tasks \in [1..Len(tasks) -> Task]
      BY <2>1, LenProperties
    <3>3. tasks' \in [1..Len(tasks) -> Task]
      BY <3>1, <3>2
    <3> QED
      BY <2>1, <3>2, <3>3, FunctionIsSeq
  <2>5. [drivers[w][r] EXCEPT !.pc = "awaiting", !.card = row.card] \in Driver
    <3>1. row.card \in 0..MaxCards
      BY <1>2 DEF Row
    <3> QED
      BY <3>1, DriverElements
  <2>6. drivers' = [drivers EXCEPT ![w][r] = [drivers[w][r] EXCEPT !.pc = "awaiting", !.card = row.card]]
    BY <1>5, RunTyped DEF TInv
  <2> QED
    BY <1>1, <1>5, <2>1, <2>4, <2>5, <2>6, DriverMoves
<1>6. CASE /\ drivers' = [drivers EXCEPT ![w][r] = [@ EXCEPT !.pc = "proposing", !.created = row.created]]
           /\ UNCHANGED <<runRows, tasks, requests, host, beating, stalls>>
  <2>1. /\ tasks \in Seq(Task) /\ Len(tasks) \in 0..MaxCards /\ runRows \in Seq(Row)
        /\ row.created \in Nat
    BY <1>2, RunTyped DEF TInv, Row
  <2>2. [drivers[w][r] EXCEPT !.pc = "proposing", !.created = row.created] \in Driver
    BY <2>1, DriverElements
  <2>3. drivers' = [drivers EXCEPT ![w][r] = [drivers[w][r] EXCEPT !.pc = "proposing",
                                                                   !.created = row.created]]
    BY <1>6, RunTyped DEF TInv
  <2> QED
    BY <1>1, <1>6, <2>1, <2>2, <2>3, DriverMoves
<1> QED
  BY <1>3, <1>4, <1>5, <1>6 DEF Turn

LEMMA AnswerTypes ==
  ASSUME RunBounds, TInv, NEW w \in Workers, NEW r \in Numbers,
         ProposeNothing(w, r) \/ BackOff(w, r) \/ Settle(w, r)
  PROVE  TInv'
<1>1. r \in DOMAIN runRows
  BY DEF TInv, RowsAreThere, ProposeNothing, BackOff, Settle
<1>2. runRows[r] \in Row
  BY <1>1, RowElements DEF TInv
<1>3. CASE Leave(w, r, EndRun(runRows[r]))
  BY <1>1, <1>2, <1>3, RowTypes, LeaveTypes
<1>4. CASE Settle(w, r)
  BY <1>1, <1>4, RecordTypes DEF Settle
<1>5. CASE /\ \/ drivers' = [drivers EXCEPT ![w][r] = [@ EXCEPT !.pc = "backoff",
                                                          !.streak = drivers[w][r].streak + 1]]
              \/ drivers' = [drivers EXCEPT ![w][r].pc = "loop"]
           /\ UNCHANGED <<runRows, tasks, requests, host, beating, stalls>>
  <2>1. /\ tasks \in Seq(Task) /\ Len(tasks) \in 0..MaxCards /\ runRows \in Seq(Row)
        /\ drivers[w][r] \in Driver
    BY DriverElements, RunTyped DEF TInv
  <2>2. drivers[w][r].streak + 1 \in Nat /\ 0 \in 0..MaxCards
    BY <2>1 DEF Driver, RunBounds
  <2>3. /\ [drivers[w][r] EXCEPT !.pc = "backoff", !.streak = drivers[w][r].streak + 1] \in Driver
        /\ [drivers[w][r] EXCEPT !.pc = "loop"] \in Driver
    <3> DEFINE k == drivers[w][r].streak + 1
    <3>1. k \in Nat
      BY <2>2
    <3> HIDE DEF k
    <3>2. [drivers[w][r] EXCEPT !.pc = "backoff", !.streak = k] \in Driver
      BY <3>1, DriverElements
    <3>3. [drivers[w][r] EXCEPT !.pc = "loop"] \in Driver
      BY <2>2, DriverElements
    <3> QED
      BY <3>2, <3>3 DEF k
  <2>4. \/ drivers' = [drivers EXCEPT ![w][r] =
              [drivers[w][r] EXCEPT !.pc = "backoff", !.streak = drivers[w][r].streak + 1]]
        \/ drivers' = [drivers EXCEPT ![w][r] = [drivers[w][r] EXCEPT !.pc = "loop"]]
    BY <1>5, RunTyped DEF TInv
  <2> QED
    BY <1>1, <1>5, <2>1, <2>3, <2>4, DriverMoves
<1> QED
  BY <1>3, <1>4, <1>5 DEF ProposeNothing, BackOff

LEMMA ProposeTypes ==
  ASSUME RunBounds, TInv, NEW w \in Workers, NEW r \in Numbers, Propose(w, r)
  PROVE  TInv'
<1>1. r \in DOMAIN runRows
  BY DEF TInv, RowsAreThere, Propose
<1>2. runRows[r] \in Row /\ drivers[w][r] \in Driver
  BY <1>1, RowElements, DriverElements DEF TInv
<1>3. CASE Leave(w, r, EndRun(runRows[r]))
  BY <1>1, <1>2, <1>3, RowTypes, LeaveTypes
<1>4. CASE BudgetLeft(r)
  <2> DEFINE n == Len(tasks) + 1
             task == [NewTask(r) EXCEPT !.started = TRUE]
             row == [runRows[r] EXCEPT !.card = n, !.created = drivers[w][r].created + 1]
             d == [pc |-> "awaiting", streak |-> 0, created |-> 0, card |-> n]
  <2>1. tasks \in Seq(Task) /\ Len(tasks) \in 0..MaxCards /\ runRows \in Seq(Row)
    BY RunTyped DEF TInv
  <2>2. /\ Len(tasks) < MaxCards
        /\ tasks' = Append(tasks, task)
        /\ runRows' = [runRows EXCEPT ![r] = row]
        /\ drivers' = [drivers EXCEPT ![w][r] = d]
        /\ UNCHANGED <<requests, host, beating, stalls>>
    BY <1>4 DEF Propose
  <2>3. n \in 0..MaxCards /\ drivers[w][r].created + 1 \in Nat
    BY <1>2, <2>1, <2>2 DEF RunBounds, Driver
  <2>4. task \in Task
    BY DEF NewTask, Task, Terminal
  <2>5. d \in Driver
    BY <2>3 DEF Driver
  <2>6. row \in Row
    <3> DEFINE k == drivers[w][r].created + 1
    <3>1. k \in Nat /\ row = [runRows[r] EXCEPT !.card = n, !.created = k]
      BY <2>3
    <3> HIDE DEF k, n
    <3> QED
      BY <1>2, <2>3, <3>1 DEF Row
  <2>7. tasks' \in Seq(Task) /\ Len(tasks') = n
    <3> HIDE DEF task
    <3> QED
      BY <2>1, <2>2, <2>4, AppendToSeq
  <2>8. /\ runRows' \in Seq(Row) /\ Len(runRows') = Len(runRows)
        /\ DOMAIN runRows' = DOMAIN runRows
    <3> HIDE DEF row
    <3> QED
      BY <2>2, <2>6, RowReplaced DEF TInv
  <2> HIDE DEF n, d, row, task
  <2> QED
    BY <1>1, <2>2, <2>3, <2>5, <2>7, <2>8, DriverMoves
<1> QED
  BY <1>3, <1>4 DEF Propose

\* Rows of a sequence keep their type and number when one of them is replaced,
\* and drivers and requests about the rows that are there stay well formed.
LEMMA RowStep ==
  ASSUME RunBounds, TInv, NEW r, NEW v, r \in DOMAIN runRows => v \in Row,
         runRows' = [runRows EXCEPT ![r] = v],
         UNCHANGED <<tasks, drivers, requests, host, beating, stalls>>
  PROVE  TInv'
<1>1. /\ runRows' \in Seq(Row) /\ Len(runRows') = Len(runRows)
      /\ DOMAIN runRows' = DOMAIN runRows
  BY RowReplaced DEF TInv
<1>2. RunTypeOK'
  BY <1>1 DEF TInv, RunTypeOK, Row
<1> QED
  BY <1>1, <1>2 DEF TInv, RowsAreThere

LEMMA ClockTypes ==
  ASSUME RunBounds, TInv, NEW r \in Numbers, StopRun(r) \/ Elapse(r)
  PROVE  TInv'
<1>1. r \in DOMAIN runRows /\ runRows[r] \in Row
  BY RowElements DEF TInv, StopRun, Elapse, ActiveRuns
<1>2. CASE StopRun(r)
  <2>1. [runRows[r] EXCEPT !.stop = TRUE, !.budget = "past"] \in Row
    BY <1>1 DEF Row
  <2>2. runRows' = [runRows EXCEPT ![r] = [runRows[r] EXCEPT !.stop = TRUE, !.budget = "past"]]
    BY <1>1, <1>2, RunTyped DEF StopRun, TInv
  <2> QED
    BY <1>2, <2>1, <2>2, RowStep DEF StopRun
<1>3. CASE Elapse(r)
  <2>1. \A b \in {"short", "past"} : [runRows[r] EXCEPT !.budget = b] \in Row
    BY <1>1 DEF Row
  <2>2. PICK b \in {"short", "past"} : runRows' = [runRows EXCEPT ![r] = [runRows[r] EXCEPT !.budget = b]]
    BY <1>1, <1>3, RunTyped DEF Elapse, TInv
  <2> QED
    BY <1>3, <2>1, <2>2, RowStep DEF Elapse
<1> QED
  BY <1>2, <1>3

\* Requests: a row is inserted only where there is room, and a request that
\* cuts a branch is about the row it inserted.
LEMMA RequestTypes ==
  ASSUME RunBounds, TInv, NEW q \in Requests,
         RequestStep(q) \/ \E p \in Workers \cup Web : Ask(q, p)
  PROVE  TInv'
<1>0. /\ runRows \in Seq(Row) /\ Len(runRows) \in 0..MaxRuns
      /\ Quiet \in [pc : {"none", "checking", "cutting"}, by : Workers \cup Web \cup {None}, run : 0..MaxRuns]
  BY RunTyped DEF TInv, Quiet, RunBounds
<1>1. ASSUME NEW p \in Workers \cup Web, Ask(q, p) PROVE TInv'
  BY <1>1 DEF Ask, TInv, RunTypeOK, RowsAreThere, RunBounds
<1>2. CASE ClaimSlot(q)
  <2>1. CASE SlotFree(q)
    <3>1. NewRow \in Row
      BY DEF NewRow, Row, RunBounds
    <3>2. /\ runRows' = Append(runRows, NewRow) /\ Len(runRows) < MaxRuns
          /\ requests' = [requests EXCEPT ![q] = [@ EXCEPT !.pc = "cutting", !.run = Len(runRows) + 1]]
          /\ UNCHANGED <<tasks, drivers, host, beating, stalls>>
      BY <1>2, <2>1 DEF ClaimSlot
    <3>3. /\ runRows' \in Seq(Row) /\ Len(runRows') = Len(runRows) + 1
          /\ DOMAIN runRows' = DOMAIN runRows \cup {Len(runRows) + 1}
      <4> HIDE DEF NewRow
      <4> QED
        BY <1>0, <3>1, <3>2, AppendToSeq
    <3>4. Len(runRows) + 1 \in 0..MaxRuns
      BY <1>0, <3>2 DEF RunBounds
    <3>5. RunTypeOK'
      BY <3>2, <3>3, <3>4 DEF TInv, RunTypeOK, Row
    <3> QED
      BY <3>2, <3>3, <3>5 DEF TInv, RunTypeOK, RowsAreThere
  <2>2. CASE ~SlotFree(q)
    <3>1. UNCHANGED <<runRows, tasks, drivers, host, beating, stalls>>
          /\ requests' = [requests EXCEPT ![q] = Quiet]
      BY <1>2, <2>2 DEF ClaimSlot
    <3> QED
      BY <1>0, <3>1 DEF TInv, RunTypeOK, RowsAreThere, Quiet
  <2> QED
    BY <2>1, <2>2
<1>3. CASE CutBranch(q) \/ CutFails(q)
  <2> DEFINE r == requests[q].run
             p == requests[q].by
  <2>1. r \in DOMAIN runRows
    BY <1>3 DEF CutBranch, CutFails, TInv, RowsAreThere
  <2>2. runRows[r] \in Row /\ r \in Numbers
    BY <2>1, RowElements DEF TInv
  <2>3. requests' = [requests EXCEPT ![q] = Quiet] /\ UNCHANGED <<tasks, host, beating, stalls>>
    BY <1>3 DEF CutBranch, CutFails
  <2>4. PICK v \in Row : runRows' = [runRows EXCEPT ![r] = v]
    <3>1. CASE CutFails(q)
      <4>1. [runRows[r] EXCEPT !.status = "deleted"] \in Row
        BY <2>2 DEF Row
      <4> QED
        BY <2>1, <3>1, <4>1, <1>0 DEF CutFails
    <3>2. CASE CutBranch(q)
      <4> DEFINE row == [runRows[r] EXCEPT !.cut = TRUE]
      <4>1. row \in Row /\ \A w \in Workers : [row EXCEPT !.worker = w] \in Row
        BY <2>2 DEF Row
      <4>2. \/ runRows' = [runRows EXCEPT ![r] = row]
            \/ p \in Workers /\ runRows' = [runRows EXCEPT ![r] = [row EXCEPT !.worker = p]]
        BY <3>2 DEF CutBranch
      <4> HIDE DEF row
      <4> QED
        BY <4>1, <4>2
    <3> QED
      BY <1>3, <3>1, <3>2
  <2>5. /\ runRows' \in Seq(Row) /\ Len(runRows') = Len(runRows)
        /\ DOMAIN runRows' = DOMAIN runRows
    BY <2>4, RowReplaced DEF TInv
  <2>6. [Idle EXCEPT !.pc = "loop"] \in Driver
    BY DEF Idle, Driver, RunBounds
  <2>7. /\ drivers' \in [Workers -> [Numbers -> Driver]]
        /\ \A u \in Workers, s \in Numbers :
              drivers'[u][s].pc # "off" => drivers[u][s].pc # "off" \/ s = r
    <3>1. CASE drivers' = drivers
      BY <3>1, RunTyped DEF TInv
    <3>2. CASE p \in Workers /\ drivers' = [drivers EXCEPT ![p][r] = [Idle EXCEPT !.pc = "loop"]]
      <4>1. /\ drivers' \in [Workers -> [Numbers -> Driver]]
            /\ \A u \in Workers, s \in Numbers : <<u, s>> # <<p, r>> => drivers'[u][s] = drivers[u][s]
        <5> DEFINE d == [Idle EXCEPT !.pc = "loop"]
        <5>1. /\ RunTypeOK /\ p \in Workers /\ r \in Numbers /\ d \in Driver
              /\ drivers' = [drivers EXCEPT ![p][r] = d]
          BY <2>2, <2>6, <3>2 DEF TInv
        <5> HIDE DEF d, r, p
        <5> QED
          BY <5>1, DriverReplaced
      <4> QED
        BY <4>1
    <3> QED
      BY <1>3, <3>1, <3>2 DEF CutBranch, CutFails
  <2>8. RunTypeOK'
    BY <1>0, <2>3, <2>5, <2>7 DEF TInv, RunTypeOK, Driver, Row
  <2> QED
    BY <2>1, <2>3, <2>5, <2>7, <2>8 DEF TInv, RunTypeOK, RowsAreThere, Quiet
<1> QED
  BY <1>1, <1>2, <1>3 DEF RequestStep

\* What the pipeline and an operator do to a card.
LEMMA CardTypes ==
  ASSUME RunBounds, TInv, NEW c \in 1..MaxCards, CardRuns(c) \/ Withdraw(c)
  PROVE  TInv'
<1>1. PICK s \in Terminal : tasks' = [tasks EXCEPT ![c] = [tasks[c] EXCEPT !.status = s]]
  BY DEF CardRuns, Withdraw, Terminal
<1>2. c \in DOMAIN tasks => [tasks[c] EXCEPT !.status = s] \in Task
  BY RowElements DEF TInv, Task
<1>3. tasks' \in Seq(Task) /\ Len(tasks') = Len(tasks)
  <2> DEFINE v == [tasks[c] EXCEPT !.status = s]
  <2>1. tasks' = [tasks EXCEPT ![c] = v] /\ (c \in DOMAIN tasks => v \in Task) /\ tasks \in Seq(Task)
    BY <1>1, <1>2, RunTyped DEF TInv
  <2> HIDE DEF v
  <2>2. /\ Len(tasks) \in Nat /\ DOMAIN tasks = 1..Len(tasks)
        /\ tasks \in [1..Len(tasks) -> Task]
    BY <2>1, LenProperties
  <2>3. tasks' \in [1..Len(tasks) -> Task]
    BY <2>1, <2>2
  <2> QED
    BY <2>2, <2>3, FunctionIsSeq
<1>4. UNCHANGED <<runRows, drivers, requests, host, beating, stalls>>
  BY DEF CardRuns, Withdraw
<1> QED
  BY <1>3, <1>4 DEF TInv, RunTypeOK, RowsAreThere, Task

LEMMA FaultTypes ==
  ASSUME RunBounds, TInv, NEW w \in Workers,
         Crash(w) \/ Stall(w) \/ Wake(w) \/ Beat(w) \/ \E r \in Numbers : CrashInserting(w, r)
  PROVE  TInv'
<1>1. CASE Stall(w) \/ Wake(w) \/ Beat(w)
  <2>1. /\ host' \in [Workers -> {"up", "stalled", "dead"}]
        /\ beating' \subseteq Workers
        /\ UNCHANGED <<runRows, tasks, drivers, requests>>
    BY <1>1 DEF Stall, Wake, Beat, TInv, RunTypeOK
  <2>2. stalls' \in 0..MaxStalls
    BY <1>1 DEF Stall, Wake, Beat, TInv, RunTypeOK, RunBounds
  <2> QED
    BY <2>1, <2>2 DEF TInv, RunTypeOK, RowsAreThere
<1>2. ASSUME Gone(w), UNCHANGED <<runRows, stalls>>,
             tasks' \in Seq(Task), Len(tasks') \in 0..MaxCards
      PROVE  TInv'
  <2>1. Idle \in Driver /\ Idle.pc = "off"
    BY DEF Idle, Driver, RunBounds
  <2>2. /\ drivers' \in [Workers -> [Numbers -> Driver]]
        /\ \A v \in Workers, s \in Numbers :
              drivers'[v][s].pc # "off" => drivers[v][s].pc # "off"
    <3> HIDE DEF Idle
    <3> QED
      BY <1>2, <2>1, RunTyped DEF Gone, TInv
  <2>3. /\ requests' \in [Requests -> [pc : {"none", "checking", "cutting"},
                                        by : Workers \cup Web \cup {None}, run : 0..MaxRuns]]
        /\ \A q \in Requests : requests'[q] \in {Quiet, requests[q]}
    BY <1>2, RunTyped DEF Gone, TInv, Quiet, RunBounds
  <2>4. RunTypeOK'
    BY <1>2, <2>2, <2>3 DEF Gone, TInv, RunTypeOK, Driver, Task
  <2> QED
    BY <1>2, <2>2, <2>3, <2>4 DEF TInv, RowsAreThere, Quiet
<1>3. CASE Crash(w)
  BY <1>2, <1>3, RunTyped DEF Crash, TInv
<1>4. ASSUME NEW r \in Numbers, CrashInserting(w, r) PROVE TInv'
  <2>1. NewTask(r) \in Task
    BY DEF NewTask, Task, Terminal
  <2>2. tasks \in Seq(Task) /\ Len(tasks) \in 0..MaxCards /\ Len(tasks) < MaxCards
    BY <1>4, RunTyped DEF CrashInserting, TInv
  <2>3. tasks' = Append(tasks, NewTask(r))
    BY <1>4 DEF CrashInserting
  <2>4. tasks' \in Seq(Task) /\ Len(tasks') = Len(tasks) + 1
    BY <2>1, <2>2, <2>3, AppendToSeq
  <2>5. Len(tasks') \in 0..MaxCards
    BY <2>2, <2>4 DEF RunBounds
  <2> QED
    BY <1>2, <1>4, <2>4, <2>5 DEF CrashInserting
<1> QED
  BY <1>1, <1>3, <1>4

\* Every step keeps the types.
LEMMA RunTypes == ASSUME RunBounds, TInv, [RunNext]_runVars PROVE TInv'
<1>1. CASE UNCHANGED runVars
  BY <1>1 DEF runVars, TInv, RunTypeOK, RowsAreThere
<1> QED
  BY <1>1, DriveTypes, TurnTypes, AnswerTypes, ProposeTypes, ClockTypes, RequestTypes, CardTypes,
     FaultTypes
  DEF RunNext, DriverStep, Answered, RequestStep

LEMMA TypeInvariant == ASSUME RunBounds PROVE RunSpec => []TInv
<1>1. RunInit => TInv
  BY InitTypes
<1>2. TInv /\ [RunNext]_runVars => TInv'
  BY RunTypes
<1> QED
  BY <1>1, <1>2, PTL DEF RunSpec

\* Every state of the improvement runs is well-typed: a driver only drives a run
\* that was created, a run's card was, and no row or card is made past its bound.
THEOREM RunsAreTyped == ASSUME RunBounds PROVE RunSpec => []RunTypeOK
<1>1. TInv => RunTypeOK
  BY DEF TInv
<1> QED
  BY <1>1, TypeInvariant, PTL

-----------------------------------------------------------------------------
(* One active run, and no card after a Stop.                               *)

\* A run that was asked to stop has no budget left.
StoppedIsPast(row) == row.stop => row.budget = "past"

\* What the handlers of a run's end keep of its row.
LEMMA RowFates ==
  ASSUME NEW row \in Row, NEW w
  PROVE  /\ LET e == EndRun(row) IN
            /\ e.status # "running" /\ e.worker = row.worker /\ e.cut = row.cut
            /\ e.stop = row.stop /\ e.budget = row.budget
            /\ e.created = row.created /\ e.succeeded = row.succeeded
            /\ e.card = IF row.status = "running" THEN 0 ELSE row.card
            /\ e.status = "deleted" <=> row.status = "deleted"
         /\ LET e == Released(row, w) IN
            /\ e.status = row.status /\ e.cut = row.cut
            /\ e.stop = row.stop /\ e.budget = row.budget
            /\ e.created = row.created /\ e.succeeded = row.succeeded /\ e.card = row.card
            /\ e.worker = IF row.worker = w THEN None ELSE row.worker
         /\ \A success \in BOOLEAN : LET e == Recorded(row, success) IN
            /\ e.status = "running" => row.status = "running"
            /\ e.status = "deleted" <=> row.status = "deleted"
            /\ e.worker = row.worker /\ e.cut = row.cut
            /\ e.stop = row.stop /\ e.budget = row.budget
            /\ e.created = row.created /\ e.card = 0
            /\ e.succeeded = row.succeeded + (IF success THEN 1 ELSE 0)
<1>1. \A rr \in Row, end \in Ended : LET e == Finish(rr, end) IN
        /\ e.status # "running" /\ e.worker = rr.worker /\ e.cut = rr.cut
        /\ e.stop = rr.stop /\ e.budget = rr.budget
        /\ e.created = rr.created /\ e.succeeded = rr.succeeded
        /\ e.card = IF rr.status = "running" THEN 0 ELSE rr.card
        /\ e.status = "deleted" <=> rr.status = "deleted"
  BY DEF Finish, Row, Ended
<1>2. LET e == Released(row, w) IN
        /\ e.status = row.status /\ e.cut = row.cut
        /\ e.stop = row.stop /\ e.budget = row.budget
        /\ e.created = row.created /\ e.succeeded = row.succeeded /\ e.card = row.card
        /\ e.worker = IF row.worker = w THEN None ELSE row.worker
  BY DEF Released, Row
<1>3. ASSUME NEW success \in BOOLEAN
      PROVE LET e == Recorded(row, success) IN
            /\ e.status = "running" => row.status = "running"
            /\ e.status = "deleted" <=> row.status = "deleted"
            /\ e.worker = row.worker /\ e.cut = row.cut
            /\ e.stop = row.stop /\ e.budget = row.budget
            /\ e.created = row.created /\ e.card = 0
            /\ e.succeeded = row.succeeded + (IF success THEN 1 ELSE 0)
  BY DEF Recorded, Finish, Row, Ended
<1> QED
  BY <1>1, <1>2, <1>3 DEF EndRun, Ended

\* Which rows a step other than an insert may change, and how.
RowKept(r) ==
  /\ runRows'[r].status = "running" => runRows[r].status = "running"
  /\ StoppedIsPast(runRows[r]) => StoppedIsPast(runRows'[r])

\* No step but an insert makes a run active or takes a Stop back.
LEMMA RowsKept ==
  ASSUME RunBounds, TInv, [RunNext]_runVars, ~\E q \in Requests : ClaimSlot(q)
  PROVE  DOMAIN runRows' = DOMAIN runRows /\ \A r \in DOMAIN runRows : RowKept(r)
<1> DEFINE Kept == DOMAIN runRows' = DOMAIN runRows /\ \A r \in DOMAIN runRows : RowKept(r)
<1>0. \A r \in DOMAIN runRows : runRows[r] \in Row
  BY RowElements DEF TInv
<1>1. ASSUME runRows' = runRows PROVE Kept
  BY <1>1 DEF RowKept
<1>2. ASSUME NEW r \in DOMAIN runRows, NEW v, runRows' = [runRows EXCEPT ![r] = v],
             v.status = "running" => runRows[r].status = "running",
             StoppedIsPast(runRows[r]) => StoppedIsPast(v)
      PROVE  Kept
  <2>1. runRows \in Seq(Row)
    BY RunTyped DEF TInv
  <2> QED
    BY <1>2, <2>1 DEF RowKept
<1>3. ASSUME NEW w \in Workers, NEW r \in DOMAIN runRows,
             Leave(w, r, runRows[r]) \/ Leave(w, r, EndRun(runRows[r]))
      PROVE  Kept
  <2>1. EndRun(runRows[r]) \in Row
    BY <1>0, RowTypes
  <2>2. \A v \in {Released(runRows[r], w), Released(EndRun(runRows[r]), w)} :
          /\ v.status = "running" => runRows[r].status = "running"
          /\ StoppedIsPast(runRows[r]) => StoppedIsPast(v)
    BY <1>0, <2>1, RowFates DEF StoppedIsPast
  <2> QED
    BY <1>2, <1>3, <2>2 DEF Leave
<1>4. ASSUME NEW w \in Workers, NEW r \in DOMAIN runRows, NEW c, Record(w, r, c)
      PROVE  Kept
  <2> DEFINE v == Recorded(runRows[r], tasks[c].status = "done")
  <2>1. (tasks[c].status = "done") \in BOOLEAN /\ runRows[r] \in Row
    BY <1>0
  <2>2. /\ v.status = "running" => runRows[r].status = "running"
        /\ StoppedIsPast(runRows[r]) => StoppedIsPast(v)
    BY <2>1, RowFates DEF StoppedIsPast
  <2>3. runRows' = [runRows EXCEPT ![r] = v]
    BY <1>4 DEF Record
  <2> HIDE DEF v
  <2> QED
    BY <1>2, <2>2, <2>3
<1>5. ASSUME NEW w \in Workers, NEW r \in Numbers, Resume(w, r) PROVE Kept
  <2>1. r \in DOMAIN runRows /\ runRows' = [runRows EXCEPT ![r] = [runRows[r] EXCEPT !.worker = w]]
    BY <1>5, RunTyped DEF Resume, Drive, TInv
  <2> QED
    BY <1>0, <1>2, <2>1 DEF Row, StoppedIsPast
<1>6. ASSUME NEW w \in Workers, NEW r \in Numbers, DriverStep(w, r) \/ ProposeNothing(w, r)
      PROVE  Kept
  <2>1. r \in DOMAIN runRows
    BY <1>6 DEF TInv, RowsAreThere, DriverStep, Turn, Settle, BackOff, ProposeNothing
  <2> QED
    BY <1>1, <1>3, <1>4, <1>6, <2>1 DEF DriverStep, Turn, Settle, BackOff, ProposeNothing
<1>7. ASSUME NEW w \in Workers, NEW r \in Numbers, Propose(w, r) PROVE Kept
  <2>1. r \in DOMAIN runRows
    BY <1>7 DEF TInv, RowsAreThere, Propose
  <2>2. CASE Leave(w, r, EndRun(runRows[r]))
    BY <1>3, <2>1, <2>2
  <2>3. CASE runRows' = [runRows EXCEPT ![r] = [@ EXCEPT !.card = Len(tasks) + 1,
                                        !.created = drivers[w][r].created + 1]]
    <3>1. runRows' = [runRows EXCEPT ![r] = [runRows[r] EXCEPT !.card = Len(tasks) + 1,
                                              !.created = drivers[w][r].created + 1]]
      BY <2>1, <2>3, RunTyped DEF TInv
    <3> QED
      BY <1>0, <1>2, <2>1, <3>1 DEF Row, StoppedIsPast
  <2> QED
    BY <1>7, <2>2, <2>3 DEF Propose
<1>8. ASSUME NEW r \in Numbers, StopRun(r) \/ Elapse(r) PROVE Kept
  <2>1. r \in DOMAIN runRows
    BY <1>8 DEF StopRun, Elapse, ActiveRuns
  <2>2. PICK v : /\ runRows' = [runRows EXCEPT ![r] = v]
                 /\ v.status = runRows[r].status
                 /\ StoppedIsPast(runRows[r]) => StoppedIsPast(v)
    <3>1. CASE StopRun(r)
      <4>1. runRows' = [runRows EXCEPT ![r] = [runRows[r] EXCEPT !.stop = TRUE, !.budget = "past"]]
        BY <2>1, <3>1, RunTyped DEF StopRun, TInv
      <4>2. LET v == [runRows[r] EXCEPT !.stop = TRUE, !.budget = "past"]
            IN v.status = runRows[r].status /\ StoppedIsPast(v)
        BY <1>0, <2>1 DEF Row, StoppedIsPast
      <4> QED
        BY <4>1, <4>2
    <3>2. CASE Elapse(r)
      <4>1. /\ runRows[r].budget # "past"
            /\ runRows' = [runRows EXCEPT ![r] = [runRows[r] EXCEPT !.budget =
                             IF runRows[r].budget = "open" THEN "short" ELSE "past"]]
        BY <2>1, <3>2, RunTyped DEF Elapse, TInv
      <4> QED
        <5> DEFINE v == [runRows[r] EXCEPT !.budget = IF runRows[r].budget = "open" THEN "short" ELSE "past"]
        <5>1. /\ v.status = runRows[r].status
              /\ StoppedIsPast(runRows[r]) => StoppedIsPast(v)
          BY <1>0, <2>1, <4>1 DEF Row, StoppedIsPast
        <5> QED
          BY <4>1, <5>1
    <3> QED
      BY <1>8, <3>1, <3>2
  <2> QED
    BY <1>2, <2>1, <2>2
<1>9. ASSUME NEW q \in Requests, CutBranch(q) \/ CutFails(q) PROVE Kept
  <2> DEFINE r == requests[q].run
             p == requests[q].by
  <2>1. r \in DOMAIN runRows
    BY <1>9 DEF TInv, RowsAreThere, CutBranch, CutFails
  <2>2. CASE CutFails(q)
    <3>1. runRows' = [runRows EXCEPT ![r] = [runRows[r] EXCEPT !.status = "deleted"]]
      BY <2>1, <2>2, RunTyped DEF CutFails, TInv
    <3> QED
      BY <1>0, <1>2, <2>1, <3>1 DEF Row, StoppedIsPast
  <2>3. CASE CutBranch(q)
    <3> DEFINE row == [runRows[r] EXCEPT !.cut = TRUE]
               v == IF p \in Workers /\ drivers[p][r].pc = "off" /\ Claimable(r, p)
                    THEN [row EXCEPT !.worker = p] ELSE row
    <3>1. runRows' = [runRows EXCEPT ![r] = v]
      BY <2>3 DEF CutBranch
    <3>2. v.status = runRows[r].status /\ v.stop = runRows[r].stop /\ v.budget = runRows[r].budget
      BY <1>0, <2>1 DEF Row
    <3> HIDE DEF v
    <3> QED
      BY <1>2, <2>1, <3>1, <3>2 DEF StoppedIsPast
  <2> QED
    BY <1>9, <2>2, <2>3
<1>10. ASSUME NEW w \in Workers,
              Crash(w) \/ Stall(w) \/ Wake(w) \/ Beat(w) \/ \E r \in Numbers : CrashInserting(w, r)
       PROVE  Kept
  BY <1>1, <1>10 DEF Crash, Stall, Wake, Beat, CrashInserting
<1>11. ASSUME NEW c \in 1..MaxCards, CardRuns(c) \/ Withdraw(c) PROVE Kept
  BY <1>1, <1>11 DEF CardRuns, Withdraw
<1>12. ASSUME NEW q \in Requests, NEW p, Ask(q, p) PROVE Kept
  BY <1>1, <1>12 DEF Ask
<1>13. ASSUME UNCHANGED runVars PROVE Kept
  BY <1>1, <1>13 DEF runVars
<1> HIDE DEF Kept
<1>14. Kept
  <2>1. CASE \E q \in Requests : RequestStep(q) \/ \E p \in Workers \cup Web : Ask(q, p)
    BY <1>9, <1>12, <2>1 DEF RequestStep
  <2>2. CASE \E w \in Workers, r \in Numbers :
               Resume(w, r) \/ DriverStep(w, r) \/ Answered(w, r) \/ CrashInserting(w, r)
    BY <1>5, <1>6, <1>7, <1>10, <2>2 DEF Answered
  <2> QED
    <3>1. CASE \E r \in Numbers : StopRun(r) \/ Elapse(r)
      BY <1>8, <3>1
    <3>2. CASE \E w \in Workers : Crash(w) \/ Stall(w) \/ Wake(w) \/ Beat(w)
      BY <1>10, <3>2
    <3>3. CASE \E c \in 1..MaxCards : CardRuns(c) \/ Withdraw(c)
      BY <1>11, <3>3
    <3> QED
      BY <1>13, <2>1, <2>2, <3>1, <3>2, <3>3 DEF RunNext
<1> QED
  BY <1>14 DEF Kept

\* At most one run is active, and a run that was asked to stop is past its time.
OneRow == \A r, s \in ActiveRuns : r = s
StopsArePast == \A r \in DOMAIN runRows : StoppedIsPast(runRows[r])

AInv == TInv /\ OneRow /\ StopsArePast

LEMMA ActiveStep == ASSUME RunBounds, AInv, [RunNext]_runVars PROVE AInv'
<1>1. TInv'
  BY RunTypes DEF AInv
<1>2. CASE \E q \in Requests : ClaimSlot(q)
  <2>1. PICK q \in Requests : ClaimSlot(q)
    BY <1>2
  <2>2. CASE SlotFree(q)
    <3>1. runRows \in Seq(Row) /\ NewRow \in Row
      BY RunTyped DEF AInv, TInv, NewRow, Row, RunBounds
    <3>2. runRows' = Append(runRows, NewRow) /\ ActiveRuns = {}
      BY <2>1, <2>2 DEF ClaimSlot, SlotFree
    <3>3. /\ DOMAIN runRows' = DOMAIN runRows \cup {Len(runRows) + 1}
          /\ runRows'[Len(runRows) + 1] = NewRow
          /\ \A r \in DOMAIN runRows : runRows'[r] = runRows[r]
      <4> HIDE DEF NewRow
      <4> QED
        BY <3>1, <3>2, AppendToSeq
    <3>4. OneRow'
      BY <3>2, <3>3 DEF OneRow, ActiveRuns
    <3>5. StopsArePast'
      BY <3>3 DEF AInv, StopsArePast, StoppedIsPast, NewRow
    <3> QED
      BY <1>1, <3>4, <3>5 DEF AInv
  <2>3. CASE ~SlotFree(q)
    BY <1>1, <2>1, <2>3 DEF ClaimSlot, AInv, OneRow, ActiveRuns, StopsArePast
  <2> QED
    BY <2>2, <2>3
<1>3. CASE ~\E q \in Requests : ClaimSlot(q)
  <2>1. DOMAIN runRows' = DOMAIN runRows /\ \A r \in DOMAIN runRows : RowKept(r)
    BY <1>3, RowsKept DEF AInv
  <2>2. OneRow' /\ StopsArePast'
    BY <2>1 DEF AInv, OneRow, ActiveRuns, StopsArePast, RowKept
  <2> QED
    BY <1>1, <2>2 DEF AInv
<1> QED
  BY <1>2, <1>3

LEMMA ActiveInvariant == ASSUME RunBounds PROVE RunSpec => []AInv
<1>1. RunInit => AInv
  BY InitTypes DEF RunInit, AInv, OneRow, ActiveRuns, StopsArePast
<1>2. AInv /\ [RunNext]_runVars => AInv'
  BY ActiveStep
<1> QED
  BY <1>1, <1>2, PTL DEF RunSpec

\* A repository has one active run at most, however many requests overlap and
\* whatever becomes of the branch each of them cuts.
THEOREM OneRunAtATime == ASSUME RunBounds PROVE RunSpec => []OneActiveRun
<1>1. AInv => OneActiveRun
  <2> SUFFICES ASSUME AInv PROVE Cardinality(ActiveRuns) <= 1
    BY DEF OneActiveRun
  <2>1. CASE ActiveRuns = {}
    BY <2>1, FS_EmptySet
  <2>2. CASE ActiveRuns # {}
    <3>1. PICK r : ActiveRuns = {r}
      BY <2>2 DEF AInv, OneRow
    <3>2. Cardinality({r}) = 1
      BY FS_Singleton
    <3> QED
      BY <3>1, <3>2
  <2> QED
    BY <2>1, <2>2
<1> QED
  BY <1>1, ActiveInvariant, PTL

\* No card is created for a run its operator has asked to stop, even when the
\* Stop lands while a proposer is thinking: the budget is read again.
THEOREM StopsAreHeard == ASSUME RunBounds PROVE RunSpec => NoCardAfterStop
<1>1. ASSUME AInv, [RunNext]_runVars PROVE CreatesUnstopped
  <2>0. tasks \in Seq(Task)
    BY <1>1, RunTyped DEF AInv, TInv
  <2>1. CASE DOMAIN tasks' = DOMAIN tasks
    BY <2>1 DEF CreatesUnstopped
  <2>2. ASSUME NEW r \in DOMAIN runRows, NEW v, tasks' = Append(tasks, v), v.run = r, v \in Task,
               BudgetLeft(r)
        PROVE  CreatesUnstopped
    <3>1. /\ DOMAIN tasks' = DOMAIN tasks \cup {Len(tasks) + 1}
          /\ tasks'[Len(tasks) + 1] = v
      BY <2>0, <2>2, AppendToSeq
    <3>2. ~runRows[r].stop
      BY <1>1, <2>2, RowElements DEF BudgetLeft, AInv, TInv, StopsArePast, StoppedIsPast, Row
    <3> QED
      BY <2>2, <3>1, <3>2 DEF CreatesUnstopped
  <2>3. ASSUME NEW w \in Workers, NEW r \in Numbers, Propose(w, r) PROVE CreatesUnstopped
    <3>1. r \in DOMAIN runRows
      BY <1>1, <2>3 DEF Propose, AInv, TInv, RowsAreThere
    <3>2. CASE BudgetLeft(r)
      <4> DEFINE v == [NewTask(r) EXCEPT !.started = TRUE]
      <4>1. v \in Task /\ v.run = r
        BY DEF NewTask, Task, Terminal
      <4>2. tasks' = Append(tasks, v)
        BY <2>3, <3>2 DEF Propose
      <4> HIDE DEF v
      <4> QED
        BY <2>2, <3>1, <3>2, <4>1, <4>2
    <3>3. CASE ~BudgetLeft(r)
      BY <2>1, <2>3, <3>3 DEF Propose, Leave
    <3> QED
      BY <3>2, <3>3
  <2>4. ASSUME NEW w \in Workers, NEW r \in Numbers, CrashInserting(w, r) PROVE CreatesUnstopped
    <3>1. r \in DOMAIN runRows
      BY <1>1, <2>4 DEF CrashInserting, AInv, TInv, RowsAreThere
    <3>2. NewTask(r) \in Task /\ NewTask(r).run = r
      BY DEF NewTask, Task, Terminal
    <3>3. tasks' = Append(tasks, NewTask(r)) /\ BudgetLeft(r)
      BY <2>4 DEF CrashInserting
    <3> QED
      BY <2>2, <3>1, <3>2, <3>3
  <2>5. ASSUME NEW w \in Workers, NEW r \in Numbers,
               Resume(w, r) \/ DriverStep(w, r) \/ ProposeNothing(w, r)
        PROVE  DOMAIN tasks' = DOMAIN tasks
    BY <2>5, <2>0 DEF Resume, DriverStep, Turn, Settle, BackOff, ProposeNothing, Leave, Record, Count
  <2>6. ASSUME NEW q \in Requests, RequestStep(q) \/ \E p \in Workers \cup Web : Ask(q, p)
        PROVE  DOMAIN tasks' = DOMAIN tasks
    BY <2>6 DEF RequestStep, ClaimSlot, CutBranch, CutFails, Ask
  <2>7. CASE \E q \in Requests : RequestStep(q) \/ \E p \in Workers \cup Web : Ask(q, p)
    BY <2>1, <2>6, <2>7
  <2>8. CASE \E w \in Workers, r \in Numbers :
               Resume(w, r) \/ DriverStep(w, r) \/ Answered(w, r) \/ CrashInserting(w, r)
    BY <2>1, <2>3, <2>4, <2>5, <2>8 DEF Answered
  <2>9. CASE \/ \E r \in Numbers : StopRun(r) \/ Elapse(r)
             \/ \E w \in Workers : Crash(w) \/ Stall(w) \/ Wake(w) \/ Beat(w)
             \/ \E c \in 1..MaxCards : CardRuns(c) \/ Withdraw(c)
             \/ UNCHANGED runVars
    <3>1. DOMAIN tasks' = DOMAIN tasks
      BY <2>0, <2>9 DEF StopRun, Elapse, Crash, Stall, Wake, Beat, CardRuns, Withdraw, runVars
    <3> QED
      BY <2>1, <3>1
  <2> QED
    BY <1>1, <2>7, <2>8, <2>9 DEF RunNext
<1>2. AInv /\ [RunNext]_runVars => [CreatesUnstopped]_runVars
  BY <1>1
<1> QED
  BY <1>2, ActiveInvariant, PTL DEF RunSpec, NoCardAfterStop

-----------------------------------------------------------------------------
(* One driver of a run.                                                    *)

\* As long as no process has stalled, a worker that drives a run holds its
\* lease and beats, and whoever is up beats.
Holds ==
  stalls = 0 =>
    /\ \A w \in Workers : host[w] # "stalled" /\ (host[w] = "up" => w \in beating)
    /\ \A w \in Workers, r \in Numbers :
         drivers[w][r].pc # "off" => w \in beating /\ runRows[r].worker = w

\* A driver whose row keeps its worker moves to another place, or leaves.
LEMMA HoldsOn ==
  ASSUME RunBounds, TInv, Holds, NEW w \in Workers, NEW r \in DOMAIN runRows,
         drivers[w][r].pc # "off",
         NEW v, v \in {"off", "loop", "proposing", "backoff", "awaiting"},
         \A x \in Workers, s \in Numbers : <<x, s>> # <<w, r>> => drivers'[x][s] = drivers[x][s],
         drivers'[w][r].pc = v,
         \A s \in DOMAIN runRows : s # r => runRows'[s] = runRows[s],
         v # "off" => runRows'[r].worker = runRows[r].worker,
         UNCHANGED <<host, beating, stalls>>
  PROVE  Holds'
<1> SUFFICES ASSUME stalls = 0,
                    NEW x \in Workers, NEW s \in Numbers, drivers'[x][s].pc # "off"
             PROVE  x \in beating /\ runRows'[s].worker = x
  BY DEF Holds
<1>1. r \in Numbers
  BY RowElements DEF TInv
<1>2. CASE x = w /\ s = r
  BY <1>1, <1>2 DEF Holds
<1>3. CASE x # w /\ s = r
  BY <1>1, <1>3 DEF Holds
<1>4. CASE s # r
  BY <1>4 DEF Holds, TInv, RowsAreThere
<1> QED
  BY <1>2, <1>3, <1>4

\* A driver's own steps.
LEMMA DriverHolds ==
  ASSUME RunBounds, TInv, Holds, NEW w \in Workers, NEW r \in Numbers,
         DriverStep(w, r) \/ Answered(w, r)
  PROVE  Holds'
<1>1. r \in DOMAIN runRows /\ drivers[w][r].pc # "off"
  BY DEF TInv, RowsAreThere, DriverStep, Answered, Turn, Settle, BackOff, ProposeNothing, Propose
<1>2. /\ runRows[r] \in Row /\ runRows \in Seq(Row)
      /\ drivers \in [Workers -> [Numbers -> Driver]]
  BY <1>1, RowElements, RunTyped DEF TInv
<1>3. ASSUME Leave(w, r, runRows[r]) \/ Leave(w, r, EndRun(runRows[r])) PROVE Holds'
  <2>1. /\ drivers'[w][r].pc = "off"
        /\ \A x \in Workers, s \in Numbers : <<x, s>> # <<w, r>> => drivers'[x][s] = drivers[x][s]
    BY <1>2, <1>3 DEF Leave, Idle
  <2>2. \A s \in DOMAIN runRows : s # r => runRows'[s] = runRows[s]
    BY <1>2, <1>3 DEF Leave
  <2>3. UNCHANGED <<host, beating, stalls>>
    BY <1>3 DEF Leave
  <2> QED
    BY <1>1, <2>1, <2>2, <2>3, HoldsOn
<1>4. ASSUME NEW c, Record(w, r, c) PROVE Holds'
  <2>1. /\ drivers'[w][r].pc = "loop"
        /\ \A x \in Workers, s \in Numbers : <<x, s>> # <<w, r>> => drivers'[x][s] = drivers[x][s]
    BY <1>2, <1>4 DEF Record, Driver
  <2>2. /\ \A s \in DOMAIN runRows : s # r => runRows'[s] = runRows[s]
        /\ runRows'[r] = Recorded(runRows[r], tasks[c].status = "done")
    BY <1>1, <1>2, <1>4 DEF Record
  <2>3. runRows'[r].worker = runRows[r].worker
    <3> DEFINE success == tasks[c].status = "done"
    <3>1. success \in BOOLEAN /\ runRows'[r] = Recorded(runRows[r], success)
      BY <2>2
    <3> HIDE DEF success
    <3>2. \A s \in BOOLEAN : Recorded(runRows[r], s).worker = runRows[r].worker
      BY <1>2, RowFates
    <3> QED
      BY <3>1, <3>2
  <2>4. UNCHANGED <<host, beating, stalls>>
    BY <1>4 DEF Record
  <2> QED
    BY <1>1, <2>1, <2>2, <2>3, <2>4, HoldsOn
<1>5. ASSUME UNCHANGED <<runRows, host, beating, stalls>>,
             NEW v \in {"loop", "proposing", "backoff", "awaiting"}, drivers'[w][r].pc = v,
             \A x \in Workers, s \in Numbers : <<x, s>> # <<w, r>> => drivers'[x][s] = drivers[x][s]
      PROVE  Holds'
  BY <1>1, <1>5, HoldsOn
<1>6. CASE Turn(w, r)
  <2>1. CASE Leave(w, r, runRows[r]) \/ Leave(w, r, EndRun(runRows[r])) \/ Record(w, r, runRows[r].card)
    BY <1>3, <1>4, <2>1
  <2>2. CASE /\ \/ drivers' = [drivers EXCEPT ![w][r] = [@ EXCEPT !.pc = "awaiting", !.card = runRows[r].card]]
                \/ drivers' = [drivers EXCEPT ![w][r] = [@ EXCEPT !.pc = "proposing",
                                              !.created = runRows[r].created]]
             /\ UNCHANGED <<runRows, host, beating, stalls>>
    <3>0. drivers[w][r] \in Driver BY <1>2
    <3>1. PICK d : drivers' = [drivers EXCEPT ![w][r] = d] /\ d.pc \in {"awaiting", "proposing"}
      <4>1. [drivers[w][r] EXCEPT !.pc = "awaiting", !.card = runRows[r].card].pc = "awaiting"
        BY <3>0 DEF Driver
      <4>2. [drivers[w][r] EXCEPT !.pc = "proposing", !.created = runRows[r].created].pc = "proposing"
        BY <3>0 DEF Driver
      <4> QED
        BY <2>2, <4>1, <4>2
    <3>2. /\ drivers'[w][r].pc \in {"awaiting", "proposing"}
          /\ \A x \in Workers, s \in Numbers : <<x, s>> # <<w, r>> => drivers'[x][s] = drivers[x][s]
      BY <1>2, <3>1
    <3> QED
      BY <1>5, <2>2, <3>2
  <2> QED
    BY <1>6, <2>1, <2>2 DEF Turn
<1>7. CASE Settle(w, r)
  BY <1>4, <1>7 DEF Settle
<1>8. CASE BackOff(w, r) \/ ProposeNothing(w, r)
  <2>1. CASE Leave(w, r, EndRun(runRows[r]))
    BY <1>3, <2>1
  <2>2. CASE /\ \/ drivers' = [drivers EXCEPT ![w][r].pc = "loop"]
                \/ drivers' = [drivers EXCEPT ![w][r] = [@ EXCEPT !.pc = "backoff",
                                                          !.streak = drivers[w][r].streak + 1]]
             /\ UNCHANGED <<runRows, host, beating, stalls>>
    <3>0. drivers[w][r] \in Driver BY <1>2
    <3>1. PICK d : drivers' = [drivers EXCEPT ![w][r] = d] /\ d.pc \in {"loop", "backoff"}
      <4>1. [drivers[w][r] EXCEPT !.pc = "backoff", !.streak = drivers[w][r].streak + 1].pc = "backoff"
        BY <3>0 DEF Driver
      <4>2. [drivers[w][r] EXCEPT !.pc = "loop"].pc = "loop"
        BY <3>0 DEF Driver
      <4> QED
        BY <2>2, <4>1, <4>2
    <3>2. /\ drivers'[w][r].pc \in {"loop", "backoff"}
          /\ \A x \in Workers, s \in Numbers : <<x, s>> # <<w, r>> => drivers'[x][s] = drivers[x][s]
      BY <1>2, <3>1
    <3> QED
      BY <1>5, <2>2, <3>2
  <2> QED
    BY <1>8, <2>1, <2>2 DEF BackOff, ProposeNothing
<1>9. CASE Propose(w, r)
  <2>1. CASE Leave(w, r, EndRun(runRows[r]))
    BY <1>3, <2>1
  <2>2. CASE BudgetLeft(r)
    <3>1. /\ drivers'[w][r].pc = "awaiting"
          /\ \A x \in Workers, s \in Numbers : <<x, s>> # <<w, r>> => drivers'[x][s] = drivers[x][s]
      BY <1>2, <1>9, <2>2 DEF Propose
    <3>2. /\ \A s \in DOMAIN runRows : s # r => runRows'[s] = runRows[s]
          /\ runRows'[r].worker = runRows[r].worker
      BY <1>1, <1>2, <1>9, <2>2 DEF Propose, Row
    <3>3. UNCHANGED <<host, beating, stalls>>
      BY <1>9, <2>2 DEF Propose
    <3> QED
      BY <1>1, <3>1, <3>2, <3>3, HoldsOn
  <2> QED
    BY <1>9, <2>1, <2>2 DEF Propose
<1> QED
  BY <1>6, <1>7, <1>8, <1>9 DEF DriverStep, Answered

\* A claim: nobody drives a run whose lease somebody may take.
LEMMA ClaimHolds ==
  ASSUME RunBounds, TInv, Holds, NEW w \in Workers, NEW r \in DOMAIN runRows,
         Claimable(r, w), host[w] = "up",
         \A x \in Workers, s \in Numbers : <<x, s>> # <<w, r>> => drivers'[x][s] = drivers[x][s],
         \A s \in DOMAIN runRows : s # r => runRows'[s] = runRows[s],
         runRows'[r].worker = w,
         UNCHANGED <<host, beating, stalls>>
  PROVE  Holds'
<1> SUFFICES ASSUME stalls = 0,
                    NEW x \in Workers, NEW s \in Numbers, drivers'[x][s].pc # "off"
             PROVE  x \in beating /\ runRows'[s].worker = x
  BY DEF Holds
<1>1. \A y \in Workers : r \in Numbers /\ drivers[y][r].pc = "off"
  BY RowElements DEF TInv, Holds, Claimable, HolderLive, RunBounds
<1>2. CASE x = w /\ s = r
  BY <1>2 DEF Holds
<1>3. CASE x # w /\ s = r
  BY <1>1, <1>3
<1>4. CASE s # r
  BY <1>4 DEF Holds, TInv, RowsAreThere
<1> QED
  BY <1>2, <1>3, <1>4

\* Nobody's step but a claim and a driver's own touches who drives what.
LEMMA HoldsStep == ASSUME RunBounds, TInv, Holds, [RunNext]_runVars PROVE Holds'
<1>0. runRows \in Seq(Row) /\ drivers \in [Workers -> [Numbers -> Driver]]
  BY RunTyped DEF TInv
<1>1. ASSUME NEW w \in Workers, NEW r \in DOMAIN runRows, Claimable(r, w), Up(w), NEW row \in Row,
             runRows' = [runRows EXCEPT ![r] = [row EXCEPT !.worker = w]],
             drivers' = [drivers EXCEPT ![w][r] = [Idle EXCEPT !.pc = "loop"]],
             UNCHANGED <<host, beating, stalls>>
      PROVE  Holds'
  <2>1. host[w] = "up" /\ r \in Numbers
    BY <1>1, RowElements DEF Up, RunBounds, TInv
  <2>2. \A x \in Workers, s \in Numbers : <<x, s>> # <<w, r>> => drivers'[x][s] = drivers[x][s]
    BY <1>0, <1>1, <2>1
  <2>3. /\ \A s \in DOMAIN runRows : s # r => runRows'[s] = runRows[s]
        /\ runRows'[r].worker = w
    BY <1>0, <1>1 DEF Row
  <2> QED
    BY <1>1, <2>1, <2>2, <2>3, ClaimHolds
<1>2. ASSUME UNCHANGED <<drivers, host, beating, stalls>>,
             \A s \in DOMAIN runRows : runRows'[s].worker = runRows[s].worker
      PROVE  Holds'
  BY <1>2 DEF Holds, TInv, RowsAreThere
<1>3. ASSUME NEW w \in Workers, NEW r \in Numbers, Resume(w, r) PROVE Holds'
  <2>1. r \in DOMAIN runRows /\ Claimable(r, w) /\ Up(w) /\ runRows[r] \in Row
    BY <1>3, RowElements DEF Resume, Drive, TInv
  <2>2. /\ runRows' = [runRows EXCEPT ![r] = [runRows[r] EXCEPT !.worker = w]]
        /\ drivers' = [drivers EXCEPT ![w][r] = [Idle EXCEPT !.pc = "loop"]]
        /\ UNCHANGED <<host, beating, stalls>>
    BY <1>0, <1>3, <2>1 DEF Resume, Drive
  <2> QED
    BY <1>1, <2>1, <2>2
<1>4. ASSUME NEW q \in Requests, CutBranch(q) PROVE Holds'
  <2> DEFINE r == requests[q].run
             p == requests[q].by
             row == [runRows[r] EXCEPT !.cut = TRUE]
  <2>1. r \in DOMAIN runRows /\ Up(p)
    BY <1>4 DEF CutBranch, TInv, RowsAreThere
  <2>2. row \in Row /\ row.worker = runRows[r].worker
    BY <2>1, RowElements DEF TInv, Row
  <2>3. UNCHANGED <<host, beating, stalls>>
    BY <1>4 DEF CutBranch
  <2>4. CASE p \in Workers /\ drivers[p][r].pc = "off" /\ Claimable(r, p)
    <3>1. /\ runRows' = [runRows EXCEPT ![r] = [row EXCEPT !.worker = p]]
          /\ drivers' = [drivers EXCEPT ![p][r] = [Idle EXCEPT !.pc = "loop"]]
      BY <1>4, <2>4 DEF CutBranch
    <3> QED
      BY <1>1, <2>1, <2>2, <2>3, <2>4, <3>1
  <2>5. CASE ~(p \in Workers /\ drivers[p][r].pc = "off" /\ Claimable(r, p))
    <3>1. runRows' = [runRows EXCEPT ![r] = row] /\ drivers' = drivers
      BY <1>4, <2>5 DEF CutBranch
    <3>2. \A s \in DOMAIN runRows : runRows'[s].worker = runRows[s].worker
      <4> HIDE DEF row
      <4> QED
        BY <1>0, <2>1, <2>2, <3>1
    <3> QED
      BY <1>2, <2>3, <3>1, <3>2
  <2> QED
    BY <2>4, <2>5
<1>5. ASSUME NEW q \in Requests,
             ClaimSlot(q) \/ CutFails(q) \/ \E p \in Workers \cup Web : Ask(q, p)
      PROVE  Holds'
  <2>1. UNCHANGED <<drivers, host, beating, stalls>>
    BY <1>5 DEF ClaimSlot, CutFails, Ask
  <2>2. \A s \in DOMAIN runRows : runRows'[s].worker = runRows[s].worker
    <3>1. CASE runRows' = Append(runRows, NewRow)
      <4>1. NewRow \in Row
        BY DEF NewRow, Row, RunBounds
      <4> HIDE DEF NewRow
      <4> QED
        BY <1>0, <3>1, <4>1, AppendToSeq
    <3>2. CASE runRows' = [runRows EXCEPT ![requests[q].run].status = "deleted"]
      <4>1. \A s \in DOMAIN runRows : runRows[s] \in Row
        BY RowElements DEF TInv
      <4> QED
        BY <1>0, <3>2, <4>1 DEF Row
    <3> QED
      BY <1>5, <3>1, <3>2 DEF ClaimSlot, CutFails, Ask
  <2> QED
    BY <1>2, <2>1, <2>2
<1>6. ASSUME NEW r \in Numbers, StopRun(r) \/ Elapse(r) PROVE Holds'
  <2>1. \A s \in DOMAIN runRows : runRows[s] \in Row
    BY RowElements DEF TInv
  <2>2. \A s \in DOMAIN runRows : runRows'[s].worker = runRows[s].worker
    <3>1. CASE StopRun(r)
      BY <1>0, <2>1, <3>1 DEF StopRun, Row
    <3>2. CASE Elapse(r)
      BY <1>0, <2>1, <3>2 DEF Elapse, Row
    <3> QED
      BY <1>6, <3>1, <3>2
  <2> QED
    BY <1>2, <1>6, <2>2 DEF StopRun, Elapse
<1>7. ASSUME NEW w \in Workers, Gone(w), UNCHANGED <<runRows, stalls>> PROVE Holds'
  <2>1. /\ \A r \in Numbers : drivers'[w][r].pc = "off"
        /\ \A x \in Workers \ {w} : drivers'[x] = drivers[x]
        /\ host'[w] = "dead"
        /\ \A x \in Workers \ {w} : host'[x] = host[x]
        /\ beating' = beating \ {w}
    BY <1>0, <1>7 DEF Gone, Idle, TInv, RunTypeOK
  <2> QED
    BY <1>7, <2>1 DEF Holds
<1>8. ASSUME NEW w \in Workers, Stall(w) \/ Wake(w) \/ Beat(w) PROVE Holds'
  <2>1. CASE Stall(w)
    <3>1. stalls' # 0
      BY <2>1 DEF Stall, TInv, RunTypeOK, RunBounds
    <3> QED
      BY <3>1 DEF Holds
  <2>2. CASE Wake(w) \/ Beat(w)
    BY <2>2 DEF Wake, Beat, Holds, TInv, RunTypeOK
  <2> QED
    BY <1>8, <2>1, <2>2
<1>9. ASSUME NEW c \in 1..MaxCards, CardRuns(c) \/ Withdraw(c) PROVE Holds'
  BY <1>2, <1>9 DEF CardRuns, Withdraw
<1>10. CASE UNCHANGED runVars
  BY <1>2, <1>10 DEF runVars
<1>11. CASE \E q \in Requests : RequestStep(q) \/ \E p \in Workers \cup Web : Ask(q, p)
  BY <1>4, <1>5, <1>11 DEF RequestStep
<1>12. CASE \E w \in Workers, r \in Numbers :
              Resume(w, r) \/ DriverStep(w, r) \/ Answered(w, r) \/ CrashInserting(w, r)
  <2>1. ASSUME NEW w \in Workers, NEW r \in Numbers, CrashInserting(w, r) PROVE Holds'
    BY <1>7, <2>1 DEF CrashInserting
  <2> QED
    BY <1>3, <1>12, <2>1, DriverHolds
<1>13. CASE \E w \in Workers : Crash(w) \/ Stall(w) \/ Wake(w) \/ Beat(w)
  BY <1>7, <1>8, <1>13 DEF Crash
<1> QED
  BY <1>6, <1>9, <1>10, <1>11, <1>12, <1>13 DEF RunNext

LEMMA HoldsInvariant == ASSUME RunBounds PROVE RunSpec => [](TInv /\ Holds)
<1>1. RunInit => TInv /\ Holds
  BY InitTypes DEF RunInit, Holds, Idle
<1>2. TInv /\ Holds /\ [RunNext]_runVars => (TInv /\ Holds)'
  BY RunTypes, HoldsStep
<1> QED
  BY <1>1, <1>2, PTL DEF RunSpec

\* A run has one driver, across adoptions of dead workers' runs, as long as no
\* process has stalled past the stale window.
THEOREM OneDriverOfARun == ASSUME RunBounds PROVE RunSpec => []OneDriver
<1>1. ASSUME TInv PROVE DOMAIN runRows \subseteq Numbers
  BY <1>1, LenProperties DEF RunBounds, TInv, RunTypeOK, Numbers
<1>2. TInv /\ Holds => OneDriver
  BY <1>1 DEF Holds, OneDriver
<1> QED
  BY <1>2, HoldsInvariant, PTL

-----------------------------------------------------------------------------
(* The counters of a run.                                                  *)

\* A branch is cut for one request's row, which is neither gone nor cut yet,
\* and every card is some run's.
CutOnce ==
  /\ \A q \in Requests : requests[q].pc = "cutting" =>
       ~runRows[requests[q].run].cut /\ runRows[requests[q].run].status # "deleted"
  /\ \A p, q \in Requests : p # q /\ requests[p].pc = "cutting" /\ requests[q].pc = "cutting" =>
       requests[p].run # requests[q].run
  /\ \A c \in DOMAIN tasks : tasks[c].run \in DOMAIN runRows

\* A row's card is its own, is not counted yet, and belongs to a run under way.
CardIsOwn(r) ==
  runRows[r].card # 0 =>
    /\ runRows[r].card \in DOMAIN tasks
    /\ tasks[runRows[r].card].run = r /\ ~tasks[runRows[r].card].counted
    /\ runRows[r].cut /\ runRows[r].status = "running"

\* What a driver remembers across its await is what its row says: nobody else
\* writes it, except that a branch that could not be cut takes the row away.
DriverKnows(w, r) ==
  /\ drivers[w][r].pc = "awaiting" =>
       drivers[w][r].card = runRows[r].card /\ runRows[r].card # 0
  /\ drivers[w][r].pc = "proposing" =>
       /\ drivers[w][r].created = runRows[r].created /\ runRows[r].card = 0
       /\ runRows[r].status # "running" => ~runRows[r].cut /\ runRows[r].status = "deleted"

Linked ==
  stalls = 0 =>
    /\ \A r \in DOMAIN runRows : CardIsOwn(r)
    /\ \A w \in Workers, r \in DOMAIN runRows : DriverKnows(w, r)

Counted(r) == {c \in DOMAIN tasks : tasks[c].run = r /\ tasks[c].counted}
Of(r) == {c \in DOMAIN tasks : tasks[c].run = r}

Tallied ==
  stalls = 0 =>
    \A r \in DOMAIN runRows : /\ runRows[r].succeeded = Cardinality(Counted(r))
                              /\ runRows[r].created <= Cardinality(Of(r))

CInv == TInv /\ Holds /\ CutOnce /\ Linked /\ Tallied

\* The cards of a run are finitely many.
LEMMA CardsAreFinite ==
  ASSUME RunBounds, TInv, NEW r
  PROVE  IsFiniteSet(Counted(r)) /\ IsFiniteSet(Of(r))
<1>1. IsFiniteSet(1..Len(tasks)) /\ DOMAIN tasks = 1..Len(tasks)
  <2>1. tasks \in Seq(Task) /\ Len(tasks) \in Int
    BY RunTyped DEF TInv
  <2> QED
    BY <2>1, FS_Interval, LenProperties
<1>2. Counted(r) \subseteq 1..Len(tasks) /\ Of(r) \subseteq 1..Len(tasks)
  BY <1>1 DEF Counted, Of
<1> QED
  BY <1>1, <1>2, FS_Subset

\* Steps that leave cards, counters and the rows' standing alone: a driver only
\* goes somewhere else, taking with it what the row says.
LEMMA CountsKept ==
  ASSUME RunBounds, CInv, TInv', Holds', stalls' = 0 => stalls = 0,
         DOMAIN tasks' = DOMAIN tasks,
         \A c \in DOMAIN tasks : tasks'[c].run = tasks[c].run /\ tasks'[c].counted = tasks[c].counted,
         DOMAIN runRows' = DOMAIN runRows,
         \A r \in DOMAIN runRows :
           /\ runRows'[r].card = runRows[r].card /\ runRows'[r].cut = runRows[r].cut
           /\ runRows'[r].created = runRows[r].created /\ runRows'[r].succeeded = runRows[r].succeeded
           /\ runRows'[r].status = runRows[r].status,
         \A w \in Workers, r \in DOMAIN runRows :
           \/ drivers'[w][r] = drivers[w][r]
           \/ drivers'[w][r].pc \in {"off", "loop", "backoff"}
           \/ /\ drivers'[w][r].pc = "awaiting"
              /\ drivers'[w][r].card = runRows[r].card /\ runRows[r].card # 0
           \/ /\ drivers'[w][r].pc = "proposing" /\ drivers'[w][r].created = runRows[r].created
              /\ runRows[r].card = 0 /\ runRows[r].status = "running",
         \A q \in Requests : requests'[q].pc = "cutting" =>
           requests[q].pc = "cutting" /\ requests'[q].run = requests[q].run
  PROVE  CInv'
<1>1. CutOnce'
  BY DEF CInv, TInv, RowsAreThere, CutOnce
<1>2. Linked'
  <2> SUFFICES ASSUME stalls' = 0 PROVE Linked'
    BY DEF Linked
  <2>1. stalls = 0
    OBVIOUS
  <2>2. \A r \in DOMAIN runRows : CardIsOwn(r)'
    BY <2>1 DEF CInv, Linked, CardIsOwn
  <2>3. \A w \in Workers, r \in DOMAIN runRows : DriverKnows(w, r)'
    BY <2>1 DEF CInv, Linked, DriverKnows
  <2> QED
    BY <2>2, <2>3 DEF Linked
<1>3. Tallied'
  <2>1. \A r : Counted(r)' = Counted(r) /\ Of(r)' = Of(r)
    BY DEF Counted, Of
  <2> QED
    BY <2>1 DEF CInv, Tallied
<1> QED
  BY <1>1, <1>2, <1>3 DEF CInv

\* A driver that ends its run, which has no card then.
LEMMA CountsAtTheEnd ==
  ASSUME RunBounds, CInv, TInv', Holds', NEW w \in Workers, NEW r \in DOMAIN runRows,
         drivers[w][r].pc # "off", runRows[r].card = 0, Leave(w, r, EndRun(runRows[r]))
  PROVE  CInv'
<1>0. /\ runRows \in Seq(Row) /\ runRows[r] \in Row /\ r \in Numbers
      /\ drivers \in [Workers -> [Numbers -> Driver]]
  BY RowElements, RunTyped DEF CInv, TInv
<1>1. /\ runRows' = [runRows EXCEPT ![r] = Released(EndRun(runRows[r]), w)]
      /\ drivers' = [drivers EXCEPT ![w][r] = Idle]
      /\ UNCHANGED <<tasks, requests, stalls>>
  BY DEF Leave
<1>2. /\ DOMAIN runRows' = DOMAIN runRows
      /\ \A s \in DOMAIN runRows : s # r => runRows'[s] = runRows[s]
      /\ runRows'[r].card = 0 /\ runRows'[r].cut = runRows[r].cut
      /\ runRows'[r].created = runRows[r].created /\ runRows'[r].succeeded = runRows[r].succeeded
      /\ runRows'[r].status = "deleted" <=> runRows[r].status = "deleted"
  <2> DEFINE e == EndRun(runRows[r])
  <2>1. /\ e \in Row /\ e.card = 0 /\ e.cut = runRows[r].cut
        /\ e.created = runRows[r].created /\ e.succeeded = runRows[r].succeeded
        /\ e.status = "deleted" <=> runRows[r].status = "deleted"
    BY <1>0, RowTypes, RowFates
  <2> DEFINE v == Released(e, w)
  <2>2. /\ v.card = e.card /\ v.cut = e.cut /\ v.created = e.created /\ v.succeeded = e.succeeded
        /\ v.status = e.status
    BY <2>1, RowFates
  <2>3. runRows' = [runRows EXCEPT ![r] = v]
    BY <1>1
  <2> HIDE DEF e, v
  <2> QED
    BY <1>0, <2>1, <2>2, <2>3
<1>3. \A x \in Workers, s \in DOMAIN runRows :
        IF x = w /\ s = r THEN drivers'[x][s].pc = "off" ELSE drivers'[x][s] = drivers[x][s]
  BY <1>0, <1>1, RowElements DEF Idle, CInv, TInv
<1>4. CutOnce'
  BY <1>1, <1>2 DEF CInv, TInv, RowsAreThere, CutOnce
<1>5. Linked'
  <2> SUFFICES ASSUME stalls = 0 PROVE Linked'
    BY <1>1 DEF Linked
  <2>1. \A s \in DOMAIN runRows : CardIsOwn(s)'
    BY <1>1, <1>2 DEF CInv, Linked, CardIsOwn
  <2>2. \A x \in Workers : x # w => drivers[x][r].pc = "off"
    BY <1>0 DEF CInv, Holds
  <2>3. \A x \in Workers, s \in DOMAIN runRows : DriverKnows(x, s)'
    BY <1>2, <1>3, <2>2 DEF CInv, Linked, DriverKnows
  <2> QED
    BY <1>2, <2>1, <2>3 DEF Linked
<1>6. Tallied'
  <2>1. \A s : Counted(s)' = Counted(s) /\ Of(s)' = Of(s)
    BY <1>1 DEF Counted, Of
  <2> QED
    BY <1>1, <1>2, <2>1 DEF CInv, Tallied
<1> QED
  BY <1>4, <1>5, <1>6 DEF CInv

\* The outcome of the run's own card: a success is counted once, on the row and
\* on the card.
LEMMA CountsAnOutcome ==
  ASSUME RunBounds, CInv, TInv', Holds', NEW w \in Workers, NEW r \in DOMAIN runRows,
         drivers[w][r].pc # "off",
         NEW c, stalls = 0 => c = runRows[r].card /\ c # 0,
         Record(w, r, c)
  PROVE  CInv'
<1> DEFINE success == tasks[c].status = "done"
<1>0. /\ runRows \in Seq(Row) /\ runRows[r] \in Row /\ r \in Numbers
      /\ drivers \in [Workers -> [Numbers -> Driver]]
      /\ tasks \in Seq(Task) /\ \A k \in DOMAIN tasks : tasks[k] \in Task
      /\ success \in BOOLEAN
  BY RowElements, RunTyped DEF CInv, TInv
<1>1. /\ runRows' = [runRows EXCEPT ![r] = Recorded(runRows[r], success)]
      /\ tasks' = [tasks EXCEPT ![c].counted = success]
      /\ drivers' = [drivers EXCEPT ![w][r] = [@ EXCEPT !.pc = "loop", !.card = 0]]
      /\ UNCHANGED <<requests, stalls>>
  BY DEF Record, Count
<1>2. /\ DOMAIN runRows' = DOMAIN runRows
      /\ \A s \in DOMAIN runRows : s # r => runRows'[s] = runRows[s]
      /\ runRows'[r].card = 0 /\ runRows'[r].cut = runRows[r].cut
      /\ runRows'[r].created = runRows[r].created
      /\ runRows'[r].succeeded = runRows[r].succeeded + (IF success THEN 1 ELSE 0)
      /\ runRows'[r].status = "deleted" <=> runRows[r].status = "deleted"
  <2> DEFINE v == Recorded(runRows[r], success)
  <2>1. /\ v.card = 0 /\ v.cut = runRows[r].cut /\ v.created = runRows[r].created
        /\ v.succeeded = runRows[r].succeeded + (IF success THEN 1 ELSE 0)
        /\ v.status = "deleted" <=> runRows[r].status = "deleted"
    <3> HIDE DEF success
    <3>1. \A b \in BOOLEAN : LET e == Recorded(runRows[r], b) IN
            /\ e.card = 0 /\ e.cut = runRows[r].cut /\ e.created = runRows[r].created
            /\ e.succeeded = runRows[r].succeeded + (IF b THEN 1 ELSE 0)
            /\ e.status = "deleted" <=> runRows[r].status = "deleted"
      BY <1>0, RowFates
    <3> QED
      BY <1>0, <3>1
  <2>2. runRows' = [runRows EXCEPT ![r] = v]
    BY <1>1
  <2> HIDE DEF v, success
  <2> QED
    BY <1>0, <2>1, <2>2
<1>3. \A x \in Workers, s \in DOMAIN runRows :
        IF x = w /\ s = r THEN drivers'[x][s].pc = "loop" ELSE drivers'[x][s] = drivers[x][s]
  BY <1>0, <1>1, RowElements DEF CInv, TInv, Driver
<1>4. /\ DOMAIN tasks' = DOMAIN tasks
      /\ \A k \in DOMAIN tasks : tasks'[k].run = tasks[k].run
      /\ \A k \in DOMAIN tasks : k # c => tasks'[k].counted = tasks[k].counted
      /\ c \in DOMAIN tasks => tasks'[c].counted = success
  BY <1>0, <1>1 DEF Task
<1> HIDE DEF success
<1>5. CutOnce'
  BY <1>1, <1>2, <1>4 DEF CInv, TInv, RowsAreThere, CutOnce
<1> SUFFICES ASSUME stalls = 0 PROVE Linked' /\ Tallied'
  BY <1>1, <1>5 DEF CInv, Linked, Tallied
<1>6. /\ c \in DOMAIN tasks /\ tasks[c].run = r /\ ~tasks[c].counted
      /\ c # 0 /\ c = runRows[r].card
  BY DEF CInv, Linked, CardIsOwn
<1>7. Linked'
  <2>1. \A s \in DOMAIN runRows : CardIsOwn(s)'
    BY <1>2, <1>4, <1>6 DEF CInv, Linked, CardIsOwn
  <2>2. \A x \in Workers : x # w => drivers[x][r].pc = "off"
    BY <1>0 DEF CInv, Holds
  <2>3. \A x \in Workers, s \in DOMAIN runRows : DriverKnows(x, s)'
    BY <1>2, <1>3, <2>2 DEF CInv, Linked, DriverKnows
  <2> QED
    BY <1>2, <2>1, <2>3 DEF Linked
<1>8. Tallied'
  <2>1. \A s : Of(s)' = Of(s)
    BY <1>4 DEF Of
  <2>2. \A s : s # r => Counted(s)' = Counted(s)
    BY <1>4, <1>6 DEF Counted
  <2>3. Counted(r)' = IF success THEN Counted(r) \cup {c} ELSE Counted(r)
    BY <1>4, <1>6 DEF Counted
  <2>4. c \notin Counted(r) /\ IsFiniteSet(Counted(r))
    BY <1>6, CardsAreFinite DEF Counted, CInv
  <2>5. Cardinality(Counted(r)') = Cardinality(Counted(r)) + (IF success THEN 1 ELSE 0)
    <3>1. Cardinality(Counted(r) \cup {c}) = Cardinality(Counted(r)) + 1
      BY <2>4, FS_AddElement
    <3>2. Cardinality(Counted(r)) \in Nat
      BY <2>4, FS_CardinalityType
    <3> QED
      BY <2>3, <3>1, <3>2
  <2> QED
    BY <1>2, <2>1, <2>2, <2>5 DEF CInv, Tallied
<1> QED
  BY <1>7, <1>8

\* A new card of a run: it is nobody's success yet.
LEMMA NewCardCounts ==
  ASSUME RunBounds, CInv, NEW r \in DOMAIN runRows, NEW v \in Task, v.run = r, ~v.counted,
         tasks' = Append(tasks, v)
  PROVE  /\ DOMAIN tasks' = DOMAIN tasks \cup {Len(tasks) + 1}
         /\ Len(tasks) + 1 \notin DOMAIN tasks /\ Len(tasks) + 1 # 0
         /\ tasks'[Len(tasks) + 1] = v
         /\ \A c \in DOMAIN tasks : tasks'[c] = tasks[c]
         /\ \A s : Counted(s)' = Counted(s)
         /\ \A s : s # r => Of(s)' = Of(s)
         /\ Cardinality(Of(r)') = Cardinality(Of(r)) + 1
         /\ Cardinality(Of(r)) \in Nat
<1>0. tasks \in Seq(Task) /\ Len(tasks) \in Nat
  BY RunTyped, LenProperties DEF CInv, TInv
<1> DEFINE n == Len(tasks) + 1
<1>1. /\ DOMAIN tasks' = DOMAIN tasks \cup {n} /\ n \notin DOMAIN tasks
      /\ tasks'[n] = v /\ \A c \in DOMAIN tasks : tasks'[c] = tasks[c]
  BY <1>0, AppendToSeq
<1>2. n # 0
  BY <1>0
<1> HIDE DEF n
<1>3. \A s : Counted(s)' = Counted(s)
  BY <1>1 DEF Counted
<1>4. \A s : s # r => Of(s)' = Of(s)
  BY <1>1 DEF Of
<1>5. Of(r)' = Of(r) \cup {n} /\ n \notin Of(r)
  BY <1>1 DEF Of
<1>6. Cardinality(Of(r)') = Cardinality(Of(r)) + 1 /\ Cardinality(Of(r)) \in Nat
  <2>1. IsFiniteSet(Of(r))
    BY CardsAreFinite DEF CInv
  <2> QED
    BY <1>5, <2>1, FS_AddElement, FS_CardinalityType
<1> QED
  BY <1>1, <1>2, <1>3, <1>4, <1>6 DEF n

\* A proposed card, with or without the row that says so.
LEMMA CountsANewCard ==
  ASSUME RunBounds, CInv, TInv', Holds', NEW w \in Workers, NEW r \in Numbers,
         \/ Propose(w, r) /\ BudgetLeft(r)
         \/ CrashInserting(w, r)
  PROVE  CInv'
<1> DEFINE n == Len(tasks) + 1
           v == IF CrashInserting(w, r) THEN NewTask(r) ELSE [NewTask(r) EXCEPT !.started = TRUE]
<1>0. /\ runRows \in Seq(Row) /\ r \in DOMAIN runRows /\ runRows[r] \in Row
      /\ drivers \in [Workers -> [Numbers -> Driver]]
      /\ drivers[w][r].pc = "proposing" /\ runRows[r].cut
      /\ drivers[w][r].created \in Nat /\ \A s \in DOMAIN runRows : runRows[s].created \in Nat
  <2>1. r \in DOMAIN runRows /\ drivers[w][r].pc = "proposing" /\ runRows[r].cut
    BY DEF CInv, TInv, RowsAreThere, Propose, CrashInserting
  <2>2. /\ runRows \in Seq(Row) /\ \A s \in DOMAIN runRows : runRows[s] \in Row
        /\ drivers \in [Workers -> [Numbers -> Driver]]
    BY RowElements, RunTyped DEF CInv, TInv
  <2> QED
    BY <2>1, <2>2 DEF Driver, Row
<1>1. v \in Task /\ v.run = r /\ ~v.counted /\ tasks' = Append(tasks, v)
  <2>1. CASE CrashInserting(w, r)
    BY <2>1 DEF CrashInserting, NewTask, Task, Terminal
  <2>2. CASE ~CrashInserting(w, r) /\ Propose(w, r) /\ BudgetLeft(r)
    BY <2>2 DEF Propose, NewTask, Task, Terminal
  <2> QED
    BY <2>1, <2>2
<1> HIDE DEF v
<1>2. /\ DOMAIN tasks' = DOMAIN tasks \cup {n} /\ n \notin DOMAIN tasks /\ n # 0
      /\ tasks'[n] = v
      /\ \A c \in DOMAIN tasks : tasks'[c] = tasks[c]
      /\ \A s : Counted(s)' = Counted(s)
      /\ \A s : s # r => Of(s)' = Of(s)
      /\ Cardinality(Of(r)') = Cardinality(Of(r)) + 1 /\ Cardinality(Of(r)) \in Nat
  BY <1>0, <1>1, NewCardCounts
<1> HIDE DEF n
<1>3. CASE CrashInserting(w, r)
  <2>1. /\ UNCHANGED <<runRows, stalls>>
        /\ \A x \in Workers, s \in DOMAIN runRows :
              drivers'[x][s].pc = "off" \/ drivers'[x][s] = drivers[x][s]
        /\ \A q \in Requests : requests'[q].pc = "cutting" =>
              requests[q].pc = "cutting" /\ requests'[q].run = requests[q].run
    <3>1. UNCHANGED <<runRows, stalls>>
      BY <1>3 DEF CrashInserting
    <3>2. \A x \in Workers, s \in DOMAIN runRows :
            drivers'[x][s].pc = "off" \/ drivers'[x][s] = drivers[x][s]
      BY <1>0, <1>3, RowElements DEF CrashInserting, Gone, Idle, CInv, TInv
    <3>3. \A q \in Requests : requests'[q].pc = "cutting" =>
            requests[q].pc = "cutting" /\ requests'[q].run = requests[q].run
      BY <1>3 DEF CrashInserting, Gone, Quiet
    <3> QED
      BY <3>1, <3>2, <3>3
  <2>2. CutOnce'
    BY <1>0, <1>1, <1>2, <2>1 DEF CInv, CutOnce
  <2>3. Linked'
    <3> SUFFICES ASSUME stalls = 0 PROVE Linked'
      BY <2>1 DEF Linked
    <3>1. \A s \in DOMAIN runRows : CardIsOwn(s)'
      BY <1>2, <2>1 DEF CInv, Linked, CardIsOwn
    <3>2. \A x \in Workers, s \in DOMAIN runRows : DriverKnows(x, s)'
      BY <2>1 DEF CInv, Linked, DriverKnows
    <3> QED
      BY <2>1, <3>1, <3>2 DEF Linked
  <2>4. Tallied'
    BY <1>0, <1>2, <2>1 DEF CInv, Tallied
  <2> QED
    BY <2>2, <2>3, <2>4 DEF CInv
<1>4. CASE ~CrashInserting(w, r)
  <2>0. /\ runRows' = [runRows EXCEPT ![r] = [@ EXCEPT !.card = n, !.created = drivers[w][r].created + 1]]
        /\ drivers' = [drivers EXCEPT ![w][r] = [pc |-> "awaiting", streak |-> 0,
                                                  created |-> 0, card |-> n]]
        /\ UNCHANGED <<requests, stalls>>
    BY <1>4 DEF Propose, n
  <2>1. /\ DOMAIN runRows' = DOMAIN runRows
        /\ \A s \in DOMAIN runRows : s # r => runRows'[s] = runRows[s]
        /\ runRows'[r].card = n /\ runRows'[r].cut = runRows[r].cut
        /\ runRows'[r].created = drivers[w][r].created + 1
        /\ runRows'[r].succeeded = runRows[r].succeeded
        /\ runRows'[r].status = runRows[r].status
    BY <1>0, <2>0 DEF Row
  <2>2. \A x \in Workers, s \in DOMAIN runRows :
          IF x = w /\ s = r THEN drivers'[x][s].pc = "awaiting" /\ drivers'[x][s].card = n
          ELSE drivers'[x][s] = drivers[x][s]
    BY <1>0, <2>0, RowElements DEF CInv, TInv
  <2>3. CutOnce'
    BY <1>0, <1>1, <1>2, <2>0, <2>1 DEF CInv, TInv, RowsAreThere, CutOnce
  <2> SUFFICES ASSUME stalls = 0 PROVE Linked' /\ Tallied'
    BY <2>0, <2>3 DEF CInv, Linked, Tallied
  <2>4. runRows[r].status = "running" /\ drivers[w][r].created = runRows[r].created
    BY <1>0 DEF CInv, Linked, DriverKnows
  <2>5. Linked'
    <3>1. \A s \in DOMAIN runRows : CardIsOwn(s)'
      <4>1. CardIsOwn(r)'
        BY <1>0, <1>1, <1>2, <2>1, <2>4 DEF CardIsOwn
      <4>2. ASSUME NEW s \in DOMAIN runRows, s # r PROVE CardIsOwn(s)'
        <5>1. CardIsOwn(s)
          BY DEF CInv, Linked
        <5> QED
          BY <1>2, <2>1, <4>2, <5>1 DEF CardIsOwn
      <4> QED
        BY <4>1, <4>2
    <3>2. \A x \in Workers : x # w => drivers[x][r].pc = "off"
      BY <1>0 DEF CInv, Holds
    <3>3. \A x \in Workers, s \in DOMAIN runRows : DriverKnows(x, s)'
      BY <1>2, <2>1, <2>2, <3>2 DEF CInv, Linked, DriverKnows
    <3> QED
      BY <2>1, <3>1, <3>3 DEF Linked
  <2>6. Tallied'
    BY <1>0, <1>2, <2>0, <2>1, <2>4 DEF CInv, Tallied
  <2> QED
    BY <2>5, <2>6
<1> QED
  BY <1>3, <1>4

\* A request's row: inserted, its branch cut, or gone.
LEMMA CountsARequest ==
  ASSUME RunBounds, CInv, TInv', Holds', NEW q \in Requests, RequestStep(q)
  PROVE  CInv'
<1>0. /\ runRows \in Seq(Row) /\ Len(runRows) \in Nat
      /\ \A s \in DOMAIN runRows : runRows[s] \in Row /\ s \in Numbers
      /\ drivers \in [Workers -> [Numbers -> Driver]]
      /\ requests \in [Requests -> [pc : {"none", "checking", "cutting"},
                                     by : Workers \cup Web \cup {None}, run : 0..MaxRuns]]
  BY RowElements, LenProperties, RunTyped DEF CInv, TInv
<1>1. UNCHANGED <<tasks, stalls>> /\ \A s : Counted(s)' = Counted(s) /\ Of(s)' = Of(s)
  BY DEF RequestStep, ClaimSlot, CutBranch, CutFails, Counted, Of
<1>2. CASE ClaimSlot(q) /\ SlotFree(q)
  <2> DEFINE n == Len(runRows) + 1
  <2>1. /\ DOMAIN runRows' = DOMAIN runRows \cup {n} /\ n \notin DOMAIN runRows
        /\ runRows'[n] = NewRow
        /\ \A s \in DOMAIN runRows : runRows'[s] = runRows[s]
    <3>1. NewRow \in Row /\ runRows' = Append(runRows, NewRow)
      BY <1>2 DEF ClaimSlot, NewRow, Row, RunBounds
    <3> HIDE DEF NewRow
    <3> QED
      BY <1>0, <3>1, AppendToSeq
  <2>2. /\ drivers' = drivers
        /\ \A p \in Requests : p # q => requests'[p] = requests[p]
        /\ requests'[q].pc = "cutting" /\ requests'[q].run = n
    BY <1>0, <1>2 DEF ClaimSlot
  <2> HIDE DEF n
  <2>3. \A w \in Workers, s \in Numbers : s \notin DOMAIN runRows => drivers[w][s].pc = "off"
    BY DEF CInv, TInv, RowsAreThere
  <2>4. CutOnce'
    BY <1>1, <2>1, <2>2 DEF CInv, TInv, RowsAreThere, CutOnce, NewRow
  <2>5. Counted(n) = {} /\ Of(n) = {}
    BY <2>1 DEF CInv, CutOnce, Counted, Of
  <2>6. Linked'
    <3> SUFFICES ASSUME stalls = 0 PROVE Linked'
      BY <1>1 DEF Linked
    <3>1. \A s \in DOMAIN runRows' : CardIsOwn(s)'
      BY <1>1, <2>1 DEF CInv, Linked, CardIsOwn, NewRow
    <3>2. \A w \in Workers, s \in DOMAIN runRows' : DriverKnows(w, s)'
      <4>1. n \in Numbers
        BY <1>0, <1>2 DEF ClaimSlot, RunBounds, Numbers, n
      <4> QED
        BY <2>1, <2>2, <2>3, <4>1 DEF CInv, Linked, DriverKnows
    <3> QED
      BY <3>1, <3>2 DEF Linked
  <2>7. Tallied'
    <3>1. NewRow.succeeded = 0 /\ NewRow.created = 0 /\ Cardinality({}) = 0
      BY FS_EmptySet DEF NewRow
    <3>2. runRows'[n].succeeded = Cardinality(Counted(n)) /\ runRows'[n].created <= Cardinality(Of(n))
      BY <2>1, <2>5, <3>1
    <3>3. ASSUME stalls = 0, NEW r \in DOMAIN runRows
          PROVE  /\ runRows'[r].succeeded = Cardinality(Counted(r))
                 /\ runRows'[r].created <= Cardinality(Of(r))
      BY <2>1, <3>3 DEF CInv, Tallied
    <3> QED
      BY <1>1, <2>1, <3>2, <3>3 DEF Tallied
  <2> QED
    BY <2>4, <2>6, <2>7 DEF CInv
<1>3. CASE CutBranch(q) \/ CutFails(q)
  <2> DEFINE r == requests[q].run
  <2>1. r \in DOMAIN runRows /\ ~runRows[r].cut /\ runRows[r].status # "deleted"
        /\ \A p \in Requests : p # q /\ requests[p].pc = "cutting" => requests[p].run # r
    BY <1>3 DEF CInv, TInv, RowsAreThere, CutOnce, CutBranch, CutFails
  <2>2. /\ DOMAIN runRows' = DOMAIN runRows
        /\ \A s \in DOMAIN runRows : s # r => runRows'[s] = runRows[s]
        /\ runRows'[r].card = runRows[r].card
        /\ runRows'[r].created = runRows[r].created
        /\ runRows'[r].succeeded = runRows[r].succeeded
        /\ \/ runRows'[r].cut /\ runRows'[r].status = runRows[r].status
           \/ ~runRows'[r].cut /\ runRows'[r].status = "deleted"
    <3>1. CASE CutFails(q)
      <4>1. runRows' = [runRows EXCEPT ![r] = [runRows[r] EXCEPT !.status = "deleted"]]
        BY <1>0, <2>1, <3>1 DEF CutFails
      <4> QED
        BY <1>0, <2>1, <4>1 DEF Row
    <3>2. CASE CutBranch(q)
      <4> DEFINE v == runRows'[r]
                 row == [runRows[r] EXCEPT !.cut = TRUE]
      <4>1. \/ runRows' = [runRows EXCEPT ![r] = row]
            \/ \E p : runRows' = [runRows EXCEPT ![r] = [row EXCEPT !.worker = p]]
        BY <3>2 DEF CutBranch
      <4>2. /\ row.card = runRows[r].card /\ row.created = runRows[r].created
            /\ row.succeeded = runRows[r].succeeded /\ row.status = runRows[r].status
            /\ row.cut /\ row \in Row
        BY <1>0, <2>1 DEF Row
      <4> HIDE DEF row
      <4>3. /\ DOMAIN runRows' = DOMAIN runRows
            /\ \A s \in DOMAIN runRows : s # r => runRows'[s] = runRows[s]
            /\ \/ runRows'[r] = row
               \/ \E p : runRows'[r] = [row EXCEPT !.worker = p]
        BY <1>0, <2>1, <4>1
      <4>4. \A p : LET e == [row EXCEPT !.worker = p] IN
              /\ e.card = row.card /\ e.created = row.created /\ e.succeeded = row.succeeded
              /\ e.status = row.status /\ e.cut = row.cut
        BY <4>2 DEF Row
      <4>5. CASE runRows'[r] = row
        BY <4>2, <4>3, <4>5
      <4>6. ASSUME NEW p, runRows'[r] = [row EXCEPT !.worker = p]
            PROVE  /\ runRows'[r].card = row.card /\ runRows'[r].created = row.created
                   /\ runRows'[r].succeeded = row.succeeded
                   /\ runRows'[r].status = row.status /\ runRows'[r].cut = row.cut
        BY <4>4, <4>6
      <4> QED
        BY <4>2, <4>3, <4>5, <4>6
    <3> QED
      BY <1>3, <3>1, <3>2
  <2>3. /\ \A w \in Workers, s \in DOMAIN runRows :
              drivers'[w][s] = drivers[w][s] \/ drivers'[w][s].pc = "loop"
        /\ \A p \in Requests : p # q => requests'[p] = requests[p]
        /\ requests'[q].pc = "none"
    <3>1. \A w \in Workers, s \in DOMAIN runRows :
            drivers'[w][s] = drivers[w][s] \/ drivers'[w][s].pc = "loop"
      <4>1. CASE drivers' = drivers
        BY <4>1
      <4>2. CASE \E p \in Workers : drivers' = [drivers EXCEPT ![p][r] = [Idle EXCEPT !.pc = "loop"]]
        <5>1. PICK p \in Workers : drivers' = [drivers EXCEPT ![p][r] = [Idle EXCEPT !.pc = "loop"]]
          BY <4>2
        <5>2. [Idle EXCEPT !.pc = "loop"].pc = "loop"
          BY DEF Idle
        <5> HIDE DEF r
        <5> QED
          BY <1>0, <2>1, <5>1, <5>2
      <4> QED
        BY <1>3, <4>1, <4>2 DEF CutBranch, CutFails
    <3>2. requests' = [requests EXCEPT ![q] = Quiet]
      BY <1>3 DEF CutBranch, CutFails
    <3> QED
      BY <1>0, <3>1, <3>2 DEF Quiet
  <2> HIDE DEF r
  <2>4. CutOnce'
    BY <1>1, <2>1, <2>2, <2>3 DEF CInv, TInv, RowsAreThere, CutOnce
  <2>5. Linked'
    <3> SUFFICES ASSUME stalls = 0 PROVE Linked'
      BY <1>1 DEF Linked
    <3>1. \A s \in DOMAIN runRows : CardIsOwn(s)'
      BY <1>1, <2>1, <2>2 DEF CInv, Linked, CardIsOwn
    <3>2. \A w \in Workers, s \in DOMAIN runRows : DriverKnows(w, s)'
      BY <2>1, <2>2, <2>3 DEF CInv, Linked, DriverKnows, CardIsOwn
    <3> QED
      BY <2>2, <3>1, <3>2 DEF Linked
  <2>6. Tallied'
    BY <1>1, <2>2 DEF CInv, Tallied
  <2> QED
    BY <2>4, <2>5, <2>6 DEF CInv
<1>4. CASE ClaimSlot(q) /\ ~SlotFree(q)
  <2>1. /\ UNCHANGED <<runRows, drivers, stalls>>
        /\ \A p \in Requests : requests'[p].pc = "cutting" =>
              requests[p].pc = "cutting" /\ requests'[p].run = requests[p].run
    BY <1>0, <1>4 DEF ClaimSlot, Quiet
  <2> QED
    BY <1>1, <2>1, CountsKept
<1> QED
  BY <1>2, <1>3, <1>4 DEF RequestStep

\* A driver's step: it goes somewhere else, records an outcome, proposes a card
\* or ends its run.
LEMMA CountsADriver ==
  ASSUME RunBounds, CInv, TInv', Holds', NEW w \in Workers, NEW r \in Numbers,
         DriverStep(w, r) \/ Answered(w, r)
  PROVE  CInv'
<1>0. /\ r \in DOMAIN runRows /\ drivers[w][r].pc # "off" /\ runRows[r] \in Row
      /\ runRows \in Seq(Row) /\ drivers \in [Workers -> [Numbers -> Driver]]
      /\ tasks \in Seq(Task)
  <2>1. r \in DOMAIN runRows /\ drivers[w][r].pc # "off"
    BY DEF CInv, TInv, RowsAreThere, DriverStep, Answered, Turn, Settle, BackOff, ProposeNothing, Propose
  <2> QED
    BY <2>1, RowElements, RunTyped DEF CInv, TInv
<1>1. ASSUME UNCHANGED <<runRows, requests, stalls>>,
             tasks' = tasks \/ \E k : tasks' = [tasks EXCEPT ![k].started = TRUE],
             \A x \in Workers, s \in Numbers : <<x, s>> # <<w, r>> => drivers'[x][s] = drivers[x][s],
             \/ drivers'[w][r].pc \in {"loop", "backoff"}
             \/ /\ drivers'[w][r].pc = "awaiting"
                /\ drivers'[w][r].card = runRows[r].card /\ runRows[r].card # 0
             \/ /\ drivers'[w][r].pc = "proposing" /\ drivers'[w][r].created = runRows[r].created
                /\ runRows[r].card = 0 /\ runRows[r].status = "running"
      PROVE  CInv'
  <2>1. /\ DOMAIN tasks' = DOMAIN tasks
        /\ \A c \in DOMAIN tasks : tasks'[c].run = tasks[c].run /\ tasks'[c].counted = tasks[c].counted
    <3>1. \A c \in DOMAIN tasks : tasks[c] \in Task
      BY RowElements DEF CInv, TInv
    <3>2. CASE tasks' = tasks
      BY <3>2
    <3>3. ASSUME NEW k, tasks' = [tasks EXCEPT ![k].started = TRUE]
          PROVE  /\ DOMAIN tasks' = DOMAIN tasks
                 /\ \A c \in DOMAIN tasks : tasks'[c].run = tasks[c].run
                 /\ \A c \in DOMAIN tasks : tasks'[c].counted = tasks[c].counted
      BY <3>1, <3>3 DEF Task
    <3> QED
      BY <1>1, <3>2, <3>3
  <2>2. \A s \in DOMAIN runRows : s \in Numbers
    BY RowElements DEF CInv, TInv
  <2> QED
    BY <1>1, <2>1, <2>2, CountsKept
<1>2. CASE Turn(w, r)
  <2>1. CASE Leave(w, r, runRows[r])
    <3> DEFINE v == Released(runRows[r], w)
    <3>1. /\ v.status = runRows[r].status /\ v.cut = runRows[r].cut /\ v.created = runRows[r].created
          /\ v.succeeded = runRows[r].succeeded /\ v.card = runRows[r].card
      BY <1>0, RowFates
    <3>2. runRows' = [runRows EXCEPT ![r] = v]
      BY <2>1 DEF Leave
    <3> HIDE DEF v
    <3>3. /\ DOMAIN runRows' = DOMAIN runRows
          /\ \A s \in DOMAIN runRows :
               /\ runRows'[s].card = runRows[s].card /\ runRows'[s].cut = runRows[s].cut
               /\ runRows'[s].created = runRows[s].created /\ runRows'[s].succeeded = runRows[s].succeeded
               /\ runRows'[s].status = runRows[s].status
      BY <1>0, <3>1, <3>2
    <3>4. /\ UNCHANGED <<tasks, requests, stalls>>
          /\ \A x \in Workers, s \in DOMAIN runRows :
               drivers'[x][s] = drivers[x][s] \/ drivers'[x][s].pc = "off"
      BY <1>0, <2>1, RowElements DEF Leave, Idle, CInv, TInv
    <3> QED
      BY <3>3, <3>4, CountsKept
  <2>2. CASE runRows[r].card = 0 /\ Leave(w, r, EndRun(runRows[r]))
    BY <1>0, <2>2, CountsAtTheEnd
  <2>3. CASE runRows[r].card # 0 /\ Record(w, r, runRows[r].card)
    BY <1>0, <2>3, CountsAnOutcome
  <2>4. CASE /\ runRows[r].card # 0
             /\ drivers' = [drivers EXCEPT ![w][r] = [@ EXCEPT !.pc = "awaiting", !.card = runRows[r].card]]
             /\ tasks' = [tasks EXCEPT ![runRows[r].card].started = TRUE]
             /\ UNCHANGED <<runRows, requests, stalls>>
    <3>1. /\ drivers'[w][r].pc = "awaiting" /\ drivers'[w][r].card = runRows[r].card
          /\ \A x \in Workers, s \in Numbers : <<x, s>> # <<w, r>> => drivers'[x][s] = drivers[x][s]
      BY <1>0, <2>4 DEF Driver
    <3> QED
      BY <1>1, <2>4, <3>1
  <2>5. CASE /\ runRows[r].card = 0 /\ runRows[r].status = "running"
             /\ drivers' = [drivers EXCEPT ![w][r] = [@ EXCEPT !.pc = "proposing",
                                           !.created = runRows[r].created]]
             /\ UNCHANGED <<runRows, tasks, requests, stalls>>
    <3>1. /\ drivers'[w][r].pc = "proposing" /\ drivers'[w][r].created = runRows[r].created
          /\ \A x \in Workers, s \in Numbers : <<x, s>> # <<w, r>> => drivers'[x][s] = drivers[x][s]
      BY <1>0, <2>5 DEF Driver
    <3> QED
      BY <1>1, <2>5, <3>1
  <2> QED
    BY <1>2, <2>1, <2>2, <2>3, <2>4, <2>5 DEF Turn
<1>3. CASE Settle(w, r)
  <2>1. stalls = 0 => drivers[w][r].card = runRows[r].card /\ drivers[w][r].card # 0
    BY <1>0, <1>3 DEF Settle, CInv, Linked, DriverKnows
  <2> QED
    BY <1>0, <1>3, <2>1, CountsAnOutcome DEF Settle
<1>4. ASSUME drivers[w][r].pc = "proposing", Leave(w, r, EndRun(runRows[r])) PROVE CInv'
  <2>1. CASE stalls = 0
    <3>1. runRows[r].card = 0
      BY <1>0, <1>4, <2>1 DEF CInv, Linked, DriverKnows
    <3> QED
      BY <1>0, <1>4, <3>1, CountsAtTheEnd
  <2>2. CASE stalls # 0
    <3>1. /\ runRows' = [runRows EXCEPT ![r] = Released(EndRun(runRows[r]), w)]
          /\ UNCHANGED <<tasks, requests, stalls>>
      BY <1>4 DEF Leave
    <3>2. /\ DOMAIN runRows' = DOMAIN runRows
          /\ \A s \in DOMAIN runRows :
               /\ runRows'[s].cut = runRows[s].cut
               /\ runRows'[s].status = "deleted" <=> runRows[s].status = "deleted"
      <4> DEFINE e == EndRun(runRows[r])
                 v == Released(e, w)
      <4>1. /\ e \in Row /\ e.cut = runRows[r].cut
            /\ e.status = "deleted" <=> runRows[r].status = "deleted"
        BY <1>0, RowTypes, RowFates
      <4>2. v.cut = e.cut /\ v.status = e.status
        BY <4>1, RowFates
      <4>3. runRows' = [runRows EXCEPT ![r] = v]
        BY <3>1
      <4> HIDE DEF e, v
      <4> QED
        BY <1>0, <4>1, <4>2, <4>3
    <3>3. CutOnce'
      BY <3>1, <3>2 DEF CInv, TInv, RowsAreThere, CutOnce
    <3> QED
      BY <2>2, <3>1, <3>3 DEF CInv, Linked, Tallied
  <2> QED
    BY <2>1, <2>2
<1>5. CASE BackOff(w, r) \/ ProposeNothing(w, r)
  <2>1. CASE /\ \/ drivers' = [drivers EXCEPT ![w][r].pc = "loop"]
                \/ drivers' = [drivers EXCEPT ![w][r] = [@ EXCEPT !.pc = "backoff",
                                                          !.streak = drivers[w][r].streak + 1]]
             /\ UNCHANGED <<runRows, tasks, requests, stalls>>
    <3>0. drivers[w][r] \in Driver BY <1>0
    <3>1. PICK d : drivers' = [drivers EXCEPT ![w][r] = d] /\ d.pc \in {"loop", "backoff"}
      <4>1. [drivers[w][r] EXCEPT !.pc = "backoff", !.streak = drivers[w][r].streak + 1].pc = "backoff"
        BY <3>0 DEF Driver
      <4>2. [drivers[w][r] EXCEPT !.pc = "loop"].pc = "loop"
        BY <3>0 DEF Driver
      <4> QED
        BY <2>1, <4>1, <4>2
    <3>2. /\ drivers'[w][r].pc \in {"loop", "backoff"}
          /\ \A x \in Workers, s \in Numbers : <<x, s>> # <<w, r>> => drivers'[x][s] = drivers[x][s]
      BY <1>0, <3>1
    <3> QED
      BY <1>1, <2>1, <3>2
  <2> QED
    BY <1>4, <1>5, <2>1 DEF BackOff, ProposeNothing
<1>6. CASE Propose(w, r)
  BY <1>4, <1>6, CountsANewCard DEF Propose
<1> QED
  BY <1>2, <1>3, <1>5, <1>6 DEF DriverStep, Answered

LEMMA CountsStep == ASSUME RunBounds, CInv, [RunNext]_runVars PROVE CInv'
<1>0. TInv' /\ Holds'
  BY RunTypes, HoldsStep DEF CInv
<1>1. /\ runRows \in Seq(Row) /\ drivers \in [Workers -> [Numbers -> Driver]] /\ tasks \in Seq(Task)
      /\ \A s \in DOMAIN runRows : runRows[s] \in Row /\ s \in Numbers
      /\ \A c \in DOMAIN tasks : tasks[c] \in Task
      /\ requests \in [Requests -> [pc : {"none", "checking", "cutting"},
                                     by : Workers \cup Web \cup {None}, run : 0..MaxRuns]]
  BY RowElements, RunTyped DEF CInv, TInv
<1>2. ASSUME NEW w \in Workers, NEW r \in Numbers, Resume(w, r) PROVE CInv'
  <2>1. /\ runRows' = [runRows EXCEPT ![r] = [runRows[r] EXCEPT !.worker = w]]
        /\ drivers' = [drivers EXCEPT ![w][r] = [Idle EXCEPT !.pc = "loop"]]
        /\ UNCHANGED <<tasks, requests, stalls>>
    BY <1>1, <1>2 DEF Resume, Drive
  <2>2. /\ DOMAIN runRows' = DOMAIN runRows
        /\ \A s \in DOMAIN runRows :
             /\ runRows'[s].card = runRows[s].card /\ runRows'[s].cut = runRows[s].cut
             /\ runRows'[s].created = runRows[s].created /\ runRows'[s].succeeded = runRows[s].succeeded
             /\ runRows'[s].status = runRows[s].status
    BY <1>1, <2>1 DEF Row
  <2>3. \A x \in Workers, s \in DOMAIN runRows :
          drivers'[x][s] = drivers[x][s] \/ drivers'[x][s].pc = "loop"
    BY <1>1, <2>1 DEF Idle
  <2> QED
    BY <1>0, <2>1, <2>2, <2>3, CountsKept
<1>3. ASSUME UNCHANGED <<runRows, tasks>>, stalls' = 0 => stalls = 0,
             \A x \in Workers, s \in DOMAIN runRows :
               drivers'[x][s] = drivers[x][s] \/ drivers'[x][s].pc = "off",
             \A q \in Requests : requests'[q].pc = "cutting" =>
               requests[q].pc = "cutting" /\ requests'[q].run = requests[q].run
      PROVE  CInv'
  BY <1>0, <1>3, CountsKept
<1>4. ASSUME NEW r \in Numbers, StopRun(r) \/ Elapse(r) PROVE CInv'
  <2>1. /\ DOMAIN runRows' = DOMAIN runRows
        /\ \A s \in DOMAIN runRows :
             /\ runRows'[s].card = runRows[s].card /\ runRows'[s].cut = runRows[s].cut
             /\ runRows'[s].created = runRows[s].created /\ runRows'[s].succeeded = runRows[s].succeeded
             /\ runRows'[s].status = runRows[s].status
    <3>1. CASE StopRun(r)
      BY <1>1, <3>1 DEF StopRun, Row
    <3>2. CASE Elapse(r)
      BY <1>1, <3>2 DEF Elapse, Row
    <3> QED
      BY <1>4, <3>1, <3>2
  <2>2. UNCHANGED <<tasks, drivers, requests, stalls>>
    BY <1>4 DEF StopRun, Elapse
  <2> QED
    BY <1>0, <2>1, <2>2, CountsKept
<1>5. ASSUME NEW w \in Workers, Crash(w) \/ Stall(w) \/ Wake(w) \/ Beat(w) PROVE CInv'
  <2>1. CASE Crash(w)
    <3>1. /\ \A x \in Workers, s \in DOMAIN runRows :
               drivers'[x][s] = drivers[x][s] \/ drivers'[x][s].pc = "off"
          /\ \A q \in Requests : requests'[q].pc = "cutting" =>
               requests[q].pc = "cutting" /\ requests'[q].run = requests[q].run
      BY <1>1, <2>1 DEF Crash, Gone, Idle, Quiet
    <3> QED
      BY <1>3, <2>1, <3>1 DEF Crash
  <2>2. CASE Stall(w) \/ Wake(w) \/ Beat(w)
    <3>1. stalls' = 0 => stalls = 0
      BY <2>2 DEF Stall, Wake, Beat, CInv, TInv, RunTypeOK, RunBounds
    <3> QED
      BY <1>3, <2>2, <3>1 DEF Stall, Wake, Beat
  <2> QED
    BY <1>5, <2>1, <2>2
<1>6. ASSUME NEW c \in 1..MaxCards, CardRuns(c) \/ Withdraw(c) PROVE CInv'
  <2>1. PICK s : tasks' = [tasks EXCEPT ![c].status = s]
    BY <1>6 DEF CardRuns, Withdraw
  <2>2. /\ DOMAIN tasks' = DOMAIN tasks
        /\ \A k \in DOMAIN tasks : tasks'[k].run = tasks[k].run /\ tasks'[k].counted = tasks[k].counted
    BY <1>1, <2>1 DEF Task
  <2>3. UNCHANGED <<runRows, drivers, requests, stalls>>
    BY <1>6 DEF CardRuns, Withdraw
  <2> QED
    BY <1>0, <2>2, <2>3, CountsKept
<1>7. ASSUME NEW q \in Requests, NEW p \in Workers \cup Web, Ask(q, p) PROVE CInv'
  <2>1. \A k \in Requests : requests'[k].pc = "cutting" =>
          requests[k].pc = "cutting" /\ requests'[k].run = requests[k].run
    BY <1>1, <1>7 DEF Ask
  <2> QED
    BY <1>3, <1>7, <2>1 DEF Ask
<1>8. CASE UNCHANGED runVars
  BY <1>3, <1>8 DEF runVars
<1>9. CASE \E q \in Requests : RequestStep(q) \/ \E p \in Workers \cup Web : Ask(q, p)
  BY <1>0, <1>7, <1>9, CountsARequest
<1>10. CASE \E w \in Workers, r \in Numbers :
              Resume(w, r) \/ DriverStep(w, r) \/ Answered(w, r) \/ CrashInserting(w, r)
  BY <1>0, <1>2, <1>10, CountsADriver, CountsANewCard
<1> QED
  BY <1>4, <1>5, <1>6, <1>8, <1>9, <1>10 DEF RunNext

LEMMA CountsInvariant == ASSUME RunBounds PROVE RunSpec => []CInv
<1>1. RunInit => CInv
  BY InitTypes DEF RunInit, CInv, Holds, Idle, Quiet, CutOnce, Linked, Tallied
<1>2. CInv /\ [RunNext]_runVars => CInv'
  BY CountsStep
<1> QED
  BY <1>1, <1>2, PTL DEF RunSpec

\* The counters of a run tell what became of its cards, whichever drivers saw
\* it through and wherever they died: no success counted twice, no card counted
\* that was not inserted, no card left on a run that is over.
THEOREM CountersAreTrue == ASSUME RunBounds PROVE RunSpec => []CountersTellTheTruth
<1>1. CInv => CountersTellTheTruth
  <2> SUFFICES ASSUME CInv, stalls = 0, NEW r \in DOMAIN runRows
               PROVE  /\ runRows[r].succeeded = Cardinality(Counted(r))
                      /\ runRows[r].created <= Cardinality(Of(r))
                      /\ runRows[r].status # "running" => runRows[r].card = 0
    BY DEF CountersTellTheTruth, Counted, Of
  <2> QED
    BY DEF CInv, Tallied, Linked, CardIsOwn
<1> QED
  BY <1>1, CountsInvariant, PTL

(***************************************************************************)
(* Schedules: a schedule fires at most once for a minute, and never once   *)
(* it is suspended.                                                        *)
(***************************************************************************)

\* Clock and bounds are numbers, None is neither a time nor a schedule, and the
\* schedules there are at first have not fired.
SchedSane == /\ SubMinute \in Nat \ {0} /\ Horizon \in Nat /\ MaxEdits \in Nat
             /\ None \notin Int /\ None \notin ScheduleRow /\ None \notin Rows
             /\ Configured \in [Rows -> ScheduleRow \cup {None}]
             /\ \A s \in Rows : Configured[s] # None => Configured[s].last = None

Times == 0..Horizon \cup {None}
TickRecord == [at : Times, due : SUBSET [id : Rows, row : ScheduleRow], running : Rows \cup {None}]

Types ==
  /\ schedules \in [Rows -> ScheduleRow \cup {None}]
  /\ instant \in 0..Horizon
  /\ ticks \in [Tickers -> TickRecord]
  /\ fired \in [Rows -> [Minutes -> Nat]]
  /\ edits \in 0..MaxEdits

\* No schedule has fired in the future.
LastIsPast == \A s \in Rows : schedules[s] # None /\ schedules[s].last # None =>
                schedules[s].last <= instant

\* A schedule has fired for minutes up to that of its last fire, for each of
\* them once; a deleted one is not created again.
FiredUpToLast ==
  \A s \in Rows, m \in Minutes :
    /\ fired[s][m] <= 1
    /\ fired[s][m] > 0 =>
         IF schedules[s] = None THEN edits = MaxEdits
         ELSE schedules[s].last # None /\ m <= Minute(schedules[s].last)

\* A tick is not of the future, and what it has read as due had last fired in an
\* earlier minute than the tick's.
TicksAreLater ==
  \A k \in Tickers :
    /\ ticks[k].at = None => ticks[k].due = {}
    /\ ticks[k].at # None => ticks[k].at <= instant
    /\ \A read \in ticks[k].due : read.row.last # None => Minute(read.row.last) < Minute(ticks[k].at)

FInv == Types /\ LastIsPast /\ FiredUpToLast /\ TicksAreLater

-----------------------------------------------------------------------------
\* Minutes do not run backwards.
LEMMA MinutesGrow ==
  ASSUME SchedSane, NEW a \in Nat, NEW b \in Nat, a <= b
  PROVE  Minute(a) \in Nat /\ Minute(a) <= Minute(b)
<1> DEFINE k == SubMinute
           p == a \div k
           q == b \div k
<1>1. k \in Nat \ {0}
  BY DEF SchedSane
<1> HIDE DEF k
<1>2. /\ a = (k * (a \div k)) + (a % k) /\ b = (k * (b \div k)) + (b % k)
      /\ a % k \in 0..(k - 1) /\ b % k \in 0..(k - 1)
      /\ a \div k \in Nat /\ b \div k \in Nat
  BY <1>1
<1>3. ASSUME p >= q + 1 PROVE FALSE
  <2> HIDE DEF p, q
  <2>1. k * p >= k * (q + 1)
    BY <1>1, <1>2, <1>3 DEF p, q
  <2>2. k * (q + 1) = (k * q) + k
    BY <1>1, <1>2 DEF p, q
  <2> QED
    BY <1>1, <1>2, <2>1, <2>2 DEF p, q
<1>4. p \in Nat /\ p <= q
  BY <1>2, <1>3
<1> QED
  BY <1>4 DEF Minute, k

\* A time's minute is one of the minutes.
LEMMA MinuteOfTime == ASSUME SchedSane, NEW t \in 0..Horizon PROVE Minute(t) \in Minutes
<1>1. t \in Nat /\ Horizon \in Nat /\ t <= Horizon
  BY DEF SchedSane
<1>2. Minute(t) \in Nat /\ Minute(Horizon) \in Nat /\ Minute(t) <= Minute(Horizon)
  BY <1>1, MinutesGrow
<1> QED
  BY <1>2 DEF Minutes

LEMMA InitFires == ASSUME SchedSane, SchedInit PROVE FInv
<1>1. Types
  BY DEF SchedSane, SchedInit, Types, TickRecord, Times, NoTick
<1>2. LastIsPast /\ FiredUpToLast
  BY DEF SchedSane, SchedInit, LastIsPast, FiredUpToLast
<1>3. TicksAreLater
  BY DEF SchedInit, TicksAreLater, NoTick
<1> QED
  BY <1>1, <1>2, <1>3 DEF FInv

\* A tick goes on with less than it had.
LEMMA DoneKeeps ==
  ASSUME SchedSane, FInv, NEW k \in Tickers, NEW read, Done(k, read), instant' = instant
  PROVE  ticks' \in [Tickers -> TickRecord] /\ TicksAreLater'
<1> DEFINE left == ticks[k].due \ {read}
           t == IF left = {} THEN NoTick ELSE [ticks[k] EXCEPT !.due = left, !.running = None]
<1>1. ticks' = [ticks EXCEPT ![k] = t]
  BY DEF Done
<1>2. t \in TickRecord
  BY DEF FInv, Types, TickRecord, Times, NoTick
<1>3. /\ t.at = None => t.due = {}
      /\ t.at \in {None, ticks[k].at}
      /\ t.due \subseteq ticks[k].due
      /\ t.due # {} => t.at = ticks[k].at
  BY DEF FInv, Types, TickRecord, NoTick, TicksAreLater
<1> HIDE DEF t
<1>4. ticks' \in [Tickers -> TickRecord] /\ \A j \in Tickers : ticks'[j] = IF j = k THEN t ELSE ticks[j]
  BY <1>1, <1>2 DEF FInv, Types
<1>5. TicksAreLater'
  BY <1>3, <1>4 DEF FInv, TicksAreLater
<1> QED
  BY <1>4, <1>5

\* A fire: the row's last fire is the one the tick had read, which is of an
\* earlier minute, so the schedule has not fired for this one.
LEMMA FireKeeps ==
  ASSUME SchedSane, FInv, NEW k \in Tickers, NEW read \in ticks[k].due, Fires(k, read),
         UNCHANGED <<instant, edits>>
  PROVE  /\ schedules' \in [Rows -> ScheduleRow \cup {None}]
         /\ fired' \in [Rows -> [Minutes -> Nat]]
         /\ LastIsPast' /\ FiredUpToLast'
<1> DEFINE at == ticks[k].at
           s == read.id
           n == Minute(at)
<1>1. /\ read \in [id : Rows, row : ScheduleRow] /\ s \in Rows
      /\ at \in 0..Horizon /\ at <= instant
      /\ read.row.last # None => Minute(read.row.last) < n
  BY DEF FInv, Types, TickRecord, Times, TicksAreLater
<1>2. /\ schedules[s] # None /\ schedules[s] \in ScheduleRow
      /\ schedules[s].last = read.row.last
      /\ schedules' = [schedules EXCEPT ![s] = [schedules[s] EXCEPT !.last = at]]
      /\ fired' = [fired EXCEPT ![s] = [fired[s] EXCEPT ![n] = fired[s][n] + 1]]
  BY <1>1 DEF Fires, ClaimWins, FInv, Types
<1>3. n \in Minutes /\ n \in Nat
  <2>1. n \in Minutes
    BY <1>1, MinuteOfTime
  <2>2. at \in Nat
    BY <1>1 DEF SchedSane
  <2> QED
    BY <2>1, <2>2, MinutesGrow
<1>4. [schedules[s] EXCEPT !.last = at] \in ScheduleRow
  BY <1>1, <1>2 DEF ScheduleRow
<1> HIDE DEF at, s, n
<1>5. /\ schedules' \in [Rows -> ScheduleRow \cup {None}]
      /\ \A x \in Rows : x # s => schedules'[x] = schedules[x]
      /\ schedules'[s] # None /\ schedules'[s].last = at
  BY <1>1, <1>2, <1>4 DEF FInv, Types, SchedSane, ScheduleRow
<1>6. /\ fired' \in [Rows -> [Minutes -> Nat]]
      /\ \A x \in Rows, m \in Minutes :
           fired'[x][m] = IF x = s /\ m = n THEN fired[x][m] + 1 ELSE fired[x][m]
  BY <1>1, <1>2, <1>3 DEF FInv, Types
<1>7. LastIsPast'
  BY <1>1, <1>5 DEF FInv, LastIsPast
<1>8. \A m \in Minutes : m \in Int /\ (fired[s][m] > 0 => m < n)
  <2> SUFFICES ASSUME NEW m \in Minutes, fired[s][m] > 0 PROVE m < n
    BY <1>3 DEF Minutes
  <2>1. schedules[s].last # None /\ m <= Minute(schedules[s].last)
    BY <1>1, <1>2 DEF FInv, FiredUpToLast
  <2>2. Minute(schedules[s].last) < n
    BY <1>1, <1>2, <2>1
  <2>3. Minute(schedules[s].last) \in Nat
    <3>1. schedules[s].last \in 0..Horizon
      BY <1>2, <2>1 DEF ScheduleRow
    <3>2. schedules[s].last \in Nat
      BY <3>1 DEF SchedSane
    <3> QED
      BY <3>2, MinutesGrow
  <2>4. m \in Int
    BY DEF Minutes
  <2> QED
    BY <1>3, <2>1, <2>2, <2>3, <2>4
<1>9. FiredUpToLast'
  <2> SUFFICES ASSUME NEW x \in Rows, NEW m \in Minutes
               PROVE  /\ fired'[x][m] <= 1
                      /\ fired'[x][m] > 0 =>
                           IF schedules'[x] = None THEN edits' = MaxEdits
                           ELSE schedules'[x].last # None /\ m <= Minute(schedules'[x].last)
    BY DEF FiredUpToLast
  <2>1. fired[x][m] \in Nat /\ fired[x][m] <= 1
    BY DEF FInv, Types, FiredUpToLast
  <2>2. CASE x # s
    BY <1>5, <1>6, <2>1, <2>2 DEF FInv, FiredUpToLast
  <2>3. CASE x = s
    <3>1. schedules'[x] # None /\ schedules'[x].last # None /\ Minute(schedules'[x].last) = n
      BY <1>1, <1>5, <2>3 DEF n, SchedSane
    <3>2. CASE m = n
      BY <1>3, <1>6, <1>8, <2>1, <2>3, <3>1, <3>2
    <3>3. CASE m # n
      BY <1>3, <1>6, <1>8, <2>1, <2>3, <3>1, <3>3
    <3> QED
      BY <3>2, <3>3
  <2> QED
    BY <2>2, <2>3
<1> QED
  BY <1>5, <1>6, <1>7, <1>9

-----------------------------------------------------------------------------
\* An edit keeps the last fire, and makes a row only while rows are made.
LEMMA SaveKeeps ==
  ASSUME SchedSane, FInv, NEW s \in Rows, NEW kind \in Kinds, NEW expr \in Expressions,
         NEW on \in BOOLEAN, Save(s, kind, expr, on)
  PROVE  FInv'
<1> DEFINE row == IF schedules[s] = None
                  THEN [kind |-> kind, cron |-> expr, enabled |-> on, last |-> None]
                  ELSE [schedules[s] EXCEPT !.kind = kind, !.cron = expr, !.enabled = on]
<1>1. /\ schedules' = [schedules EXCEPT ![s] = row]
      /\ edits < MaxEdits /\ edits' = edits + 1
      /\ UNCHANGED <<instant, ticks, fired, queue>>
  BY DEF Save
<1>2. /\ row \in ScheduleRow
      /\ schedules[s] = None => row.last = None
      /\ schedules[s] # None => row.last = schedules[s].last
  BY DEF FInv, Types, ScheduleRow
<1> HIDE DEF row
<1>3. /\ schedules' \in [Rows -> ScheduleRow \cup {None}]
      /\ \A x \in Rows : schedules'[x] = IF x = s THEN row ELSE schedules[x]
  BY <1>1, <1>2 DEF FInv, Types
<1>4. edits' \in 0..MaxEdits /\ edits # MaxEdits
  BY <1>1 DEF FInv, Types, SchedSane
<1>5. row # None
  BY <1>2 DEF SchedSane
<1>6. Types'
  BY <1>1, <1>3, <1>4 DEF FInv, Types
<1>7. LastIsPast'
  BY <1>1, <1>2, <1>3 DEF FInv, LastIsPast
<1>8. FiredUpToLast'
  <2> SUFFICES ASSUME NEW x \in Rows, NEW m \in Minutes
               PROVE  /\ fired[x][m] <= 1
                      /\ fired[x][m] > 0 =>
                           IF schedules'[x] = None THEN edits' = MaxEdits
                           ELSE schedules'[x].last # None /\ m <= Minute(schedules'[x].last)
    BY <1>1 DEF FiredUpToLast
  <2>1. fired[x][m] > 0 => schedules[x] # None
    BY <1>4 DEF FInv, FiredUpToLast
  <2>2. fired[x][m] > 0 => schedules'[x] # None /\ schedules'[x].last = schedules[x].last
    BY <1>2, <1>3, <1>5, <2>1
  <2> QED
    BY <2>1, <2>2 DEF FInv, FiredUpToLast
<1>9. TicksAreLater'
  BY <1>1 DEF FInv, TicksAreLater
<1> QED
  BY <1>6, <1>7, <1>8, <1>9 DEF FInv

\* A row is deleted when no more are made.
LEMMA DeleteKeeps ==
  ASSUME SchedSane, FInv, NEW s \in Rows, Delete(s)
  PROVE  FInv'
<1>1. /\ schedules' \in [Rows -> ScheduleRow \cup {None}]
      /\ \A x \in Rows : schedules'[x] = IF x = s THEN None ELSE schedules[x]
      /\ edits = MaxEdits
      /\ UNCHANGED <<instant, ticks, fired, queue, edits>>
  BY DEF Delete, FInv, Types
<1>2. Types' /\ TicksAreLater'
  BY <1>1 DEF FInv, Types, TicksAreLater
<1>3. LastIsPast' /\ FiredUpToLast'
  BY <1>1 DEF FInv, LastIsPast, FiredUpToLast
<1> QED
  BY <1>2, <1>3 DEF FInv

LEMMA PassesKeeps == ASSUME SchedSane, FInv, Passes PROVE FInv'
<1>1. instant' \in 0..Horizon /\ instant' > instant /\ instant \in Int
  BY DEF SchedSane, FInv, Types, Passes
<1>2. Types' /\ FiredUpToLast'
  BY <1>1 DEF Passes, FInv, Types, FiredUpToLast
<1>3. LastIsPast'
  <2> SUFFICES ASSUME NEW s \in Rows, schedules[s] # None, schedules[s].last # None
               PROVE  schedules[s].last <= instant'
    BY DEF LastIsPast, Passes
  <2>1. schedules[s].last \in 0..Horizon /\ schedules[s].last <= instant
    BY DEF FInv, Types, ScheduleRow, LastIsPast
  <2> QED
    BY <1>1, <2>1 DEF SchedSane
<1>4. TicksAreLater'
  <2> SUFFICES ASSUME NEW k \in Tickers, ticks[k].at # None PROVE ticks[k].at <= instant'
    BY DEF FInv, TicksAreLater, Passes
  <2>1. ticks[k].at \in 0..Horizon /\ ticks[k].at <= instant
    BY DEF FInv, Types, TickRecord, Times, TicksAreLater
  <2> QED
    BY <1>1, <2>1 DEF SchedSane
<1> QED
  BY <1>2, <1>3, <1>4 DEF FInv

\* A row read as due has last fired in another minute than this one, and so in
\* an earlier one.
LEMMA TickKeeps == ASSUME SchedSane, FInv, NEW k \in Tickers, Tick(k) PROVE FInv'
<1> DEFINE due == {[id |-> s, row |-> schedules[s]] : s \in {x \in Rows : Due(x)}}
           t == [NoTick EXCEPT !.at = instant, !.due = due]
<1>1. ticks' = [ticks EXCEPT ![k] = t] /\ UNCHANGED <<schedules, instant, fired, queue, edits>>
  BY DEF Tick
<1>2. due \subseteq [id : Rows, row : ScheduleRow]
  BY DEF Due, FInv, Types
<1>3. t \in TickRecord /\ t.at = instant /\ t.due = due
  BY <1>2 DEF NoTick, TickRecord, Times, FInv, Types
<1>4. instant # None
  BY DEF FInv, Types, SchedSane
<1>5. ASSUME NEW read \in due, read.row.last # None PROVE Minute(read.row.last) < Minute(instant)
  <2>1. PICK s \in Rows : Due(s) /\ read = [id |-> s, row |-> schedules[s]]
    OBVIOUS
  <2>2. /\ schedules[s] # None /\ schedules[s] \in ScheduleRow /\ schedules[s].last # None
        /\ Minute(schedules[s].last) # Minute(instant) /\ read.row.last = schedules[s].last
    BY <1>5, <2>1 DEF Due, MinuteKey, FInv, Types
  <2>3. schedules[s].last \in Nat /\ instant \in Nat /\ schedules[s].last <= instant
    BY <2>2 DEF FInv, Types, LastIsPast, ScheduleRow, SchedSane
  <2>4. Minute(schedules[s].last) <= Minute(instant) /\ Minute(schedules[s].last) \in Nat
    BY <2>3, MinutesGrow
  <2>5. Minute(instant) \in Nat
    BY <2>3, MinutesGrow
  <2> QED
    BY <2>2, <2>4, <2>5
<1> HIDE DEF due, t
<1>6. ticks' \in [Tickers -> TickRecord] /\ \A j \in Tickers : ticks'[j] = IF j = k THEN t ELSE ticks[j]
  BY <1>1, <1>3 DEF FInv, Types
<1>7. TicksAreLater'
  <2> SUFFICES ASSUME NEW j \in Tickers
               PROVE  /\ ticks'[j].at = None => ticks'[j].due = {}
                      /\ ticks'[j].at # None => ticks'[j].at <= instant
                      /\ \A read \in ticks'[j].due :
                           read.row.last # None => Minute(read.row.last) < Minute(ticks'[j].at)
    BY <1>1 DEF TicksAreLater
  <2>1. CASE j = k
    <3>1. ticks'[j].at = instant /\ ticks'[j].due = due /\ instant <= instant
      BY <1>3, <1>6, <2>1 DEF FInv, Types
    <3> QED
      BY <1>4, <1>5, <3>1
  <2>2. CASE j # k
    BY <1>6, <2>2 DEF FInv, TicksAreLater
  <2> QED
    BY <2>1, <2>2
<1>8. Types' /\ LastIsPast' /\ FiredUpToLast'
  BY <1>1, <1>6 DEF FInv, Types, LastIsPast, FiredUpToLast
<1> QED
  BY <1>7, <1>8 DEF FInv

LEMMA TickLostKeeps == ASSUME SchedSane, FInv, NEW k \in Tickers, TickLost(k) PROVE FInv'
<1>1. /\ ticks' = [ticks EXCEPT ![k] = NoTick] /\ NoTick \in TickRecord
      /\ NoTick.at = None /\ NoTick.due = {}
      /\ UNCHANGED <<schedules, instant, fired, queue, edits>>
  BY DEF TickLost, NoTick, TickRecord, Times
<1>2. ticks' \in [Tickers -> TickRecord] /\ \A j \in Tickers : ticks'[j] = IF j = k THEN NoTick ELSE ticks[j]
  BY <1>1 DEF FInv, Types
<1>3. TicksAreLater'
  BY <1>1, <1>2 DEF FInv, TicksAreLater
<1> QED
  BY <1>1, <1>2, <1>3 DEF FInv, Types, LastIsPast, FiredUpToLast

\* The loop of a tick, over one of the rows it read.
LEMMA LoopKeeps ==
  ASSUME SchedSane, FInv, NEW k \in Tickers, NEW read \in ticks[k].due,
         Lose(k, read) \/ FireDrain(k, read) \/ FireRun(k, read) \/ RunAnswers(k, read)
  PROVE  FInv'
<1>1. CASE Lose(k, read) \/ RunAnswers(k, read)
  <2>1. Done(k, read) /\ UNCHANGED <<schedules, instant, fired, queue, edits>>
    BY <1>1 DEF Lose, RunAnswers
  <2>2. ticks' \in [Tickers -> TickRecord] /\ TicksAreLater'
    BY <2>1, DoneKeeps
  <2> QED
    BY <2>1, <2>2 DEF FInv, Types, LastIsPast, FiredUpToLast
<1>2. CASE FireDrain(k, read)
  <2>1. Fires(k, read) /\ Done(k, read) /\ UNCHANGED <<instant, edits>>
    BY <1>2 DEF FireDrain
  <2>2. ticks' \in [Tickers -> TickRecord] /\ TicksAreLater'
    BY <2>1, DoneKeeps
  <2>3. /\ schedules' \in [Rows -> ScheduleRow \cup {None}]
        /\ fired' \in [Rows -> [Minutes -> Nat]]
        /\ LastIsPast' /\ FiredUpToLast'
    BY <2>1, FireKeeps
  <2> QED
    BY <2>1, <2>2, <2>3 DEF FInv, Types
<1>3. CASE FireRun(k, read)
  <2>1. /\ Fires(k, read) /\ UNCHANGED <<instant, edits>>
        /\ ticks' = [ticks EXCEPT ![k] = [ticks[k] EXCEPT !.running = read.id]]
    BY <1>3 DEF FireRun
  <2>2. [ticks[k] EXCEPT !.running = read.id] \in TickRecord
    BY DEF FInv, Types, TickRecord
  <2>3. ticks' \in [Tickers -> TickRecord]
    BY <2>1, <2>2 DEF FInv, Types
  <2>4. \A j \in Tickers : ticks'[j].at = ticks[j].at /\ ticks'[j].due = ticks[j].due
    BY <2>1 DEF FInv, Types, TickRecord
  <2>5. TicksAreLater'
    BY <2>1, <2>4 DEF FInv, TicksAreLater
  <2>6. /\ schedules' \in [Rows -> ScheduleRow \cup {None}]
        /\ fired' \in [Rows -> [Minutes -> Nat]]
        /\ LastIsPast' /\ FiredUpToLast'
    BY <2>1, FireKeeps
  <2> QED
    BY <2>1, <2>3, <2>5, <2>6 DEF FInv, Types
<1> QED
  BY <1>1, <1>2, <1>3

LEMMA StepKeeps == ASSUME SchedSane, FInv, [SchedNext]_schedVars PROVE FInv'
<1>1. CASE UNCHANGED schedVars
  BY <1>1 DEF schedVars, FInv, Types, LastIsPast, FiredUpToLast, TicksAreLater
<1>2. ASSUME NEW s \in Rows, NEW kind \in Kinds, NEW expr \in Expressions, NEW on \in BOOLEAN,
             Save(s, kind, expr, on)
      PROVE  FInv'
  BY <1>2, SaveKeeps
<1>3. ASSUME NEW s \in Rows, Delete(s) PROVE FInv'
  BY <1>3, DeleteKeeps
<1>4. CASE Passes
  BY <1>4, PassesKeeps
<1>5. ASSUME NEW k \in Tickers, Tick(k) \/ TickLost(k) PROVE FInv'
  BY <1>5, TickKeeps, TickLostKeeps
<1>6. ASSUME NEW k \in Tickers, NEW read \in ticks[k].due,
             Lose(k, read) \/ FireDrain(k, read) \/ FireRun(k, read) \/ RunAnswers(k, read)
      PROVE  FInv'
  BY <1>6, LoopKeeps
<1> QED
  BY <1>1, <1>2, <1>3, <1>4, <1>5, <1>6 DEF SchedNext

Queued == queue \subseteq QueuedCards

\* Every state of the schedules is well-typed; a drain only takes cards that
\* were in the queue, and nothing puts one back.
THEOREM SchedulesAreTyped == ASSUME SchedSane PROVE SchedSpec => []SchedTypeOK
<1>1. SchedInit => FInv /\ Queued
  BY InitFires DEF SchedInit, Queued
<1>2. FInv /\ Queued /\ [SchedNext]_schedVars => FInv' /\ Queued'
  <2> SUFFICES ASSUME FInv, Queued, [SchedNext]_schedVars
               PROVE  FInv' /\ Queued'
    OBVIOUS
  <2>1. queue' \subseteq queue
    BY DEF SchedNext, schedVars, Save, Delete, Passes, Tick, TickLost, Lose, FireDrain, FireRun,
           RunAnswers
  <2> QED
    BY <2>1, StepKeeps DEF Queued
<1>3. ASSUME FInv, Queued PROVE SchedTypeOK
  <2>1. /\ schedules \in [Rows -> ScheduleRow \cup {None}] /\ instant \in 0..Horizon
        /\ fired \in [Rows -> [Minutes -> Nat]] /\ edits \in 0..MaxEdits
        /\ ticks \in [Tickers -> TickRecord]
    BY <1>3 DEF FInv, Types
  <2>2. \A k \in Tickers : ticks[k] \in TickRecord
    BY <2>1
  <2> HIDE DEF ScheduleRow
  <2>3. \A k \in Tickers : /\ ticks[k].at \in Times /\ ticks[k].running \in Rows \cup {None}
                           /\ ticks[k].due \subseteq [id : Rows, row : ScheduleRow]
    BY <2>2 DEF TickRecord
  <2> QED
    BY <1>3, <2>1, <2>3 DEF Times, Queued, SchedTypeOK
<1> QED
  BY <1>1, <1>2, <1>3, PTL DEF SchedSpec

\* A schedule fires at most once for a minute, whatever the number of workers
\* that tick, the time a tick takes and the edits in between (fireDueSchedules
\* and the compare-and-set of claimScheduleFire).
THEOREM OneFireForAMinute == ASSUME SchedSane PROVE SchedSpec => []OneFirePerMinute
<1>1. SchedInit => FInv
  BY InitFires
<1>2. FInv /\ [SchedNext]_schedVars => FInv'
  BY StepKeeps
<1>3. FInv => OneFirePerMinute
  BY DEF FInv, FiredUpToLast, OneFirePerMinute
<1> QED
  BY <1>1, <1>2, <1>3, PTL DEF SchedSpec

\* No schedule fires once it is suspended or deleted: claimScheduleFire looks
\* at the row again (a tick's copy of it may be of before the edit).
THEOREM SuspendedIsQuiet == ASSUME SchedSane PROVE SchedSpec => SuspendedStaysQuiet
<1>1. SchedInit => FInv
  BY InitFires
<1>2. FInv /\ [SchedNext]_schedVars => FInv'
  BY StepKeeps
<1>3. FInv /\ [SchedNext]_schedVars => [FiresEnabled]_schedVars
  <2> SUFFICES ASSUME FInv, SchedNext, NEW s \in Rows, fired'[s] # fired[s]
               PROVE  schedules[s] # None /\ schedules[s].enabled
    BY DEF FiresEnabled
  <2>1. PICK k \in Tickers : \E read \in ticks[k].due : Fires(k, read)
    BY DEF SchedNext, Save, Delete, Passes, Tick, TickLost, Lose, RunAnswers, FireDrain, FireRun
  <2>2. PICK read \in ticks[k].due : Fires(k, read)
    BY <2>1
  <2>3. read.id \in Rows /\ fired \in [Rows -> [Minutes -> Nat]]
    BY DEF FInv, Types, TickRecord
  <2>4. s = read.id
    BY <2>2, <2>3 DEF Fires
  <2> QED
    BY <2>2, <2>4 DEF Fires, ClaimWins
<1> QED
  BY <1>1, <1>2, <1>3, PTL DEF SchedSpec, SuspendedStaysQuiet

(***************************************************************************)
(* Clean-up: the workers' timers prune once a day between them, for any    *)
(* number of cards, runs, jobs and days.                                   *)
(***************************************************************************)

\* The bounds are numbers.
CleanBounds == RunsPerCard \in Nat /\ Days \in Nat

\* The day's sweep is claimed once: the marker is a day that has come, and the
\* days after it have had no sweep.
SweepsAreClaimed ==
  /\ sweptOn <= day
  /\ \A d \in 0..Days : sweeps[d] <= 1 /\ (d > sweptOn => sweeps[d] = 0)

CleanInv == CleanTypeOK /\ SweepsAreClaimed

-----------------------------------------------------------------------------

CardStates == Finished \cup {"waiting", "running", "backlog", "deleted"}
RunFlags == [row : BOOLEAN, used : BOOLEAN, aged : BOOLEAN]
TreeRecord == [dir : BOOLEAN, row : {"none", "open", "removed"}, owner : 0..RunsPerCard]
JobRecord == [kind : JobKinds \cup {"none"}, card : {{}} \cup {{c} : c \in Cards},
              pc : {"idle", "tree", "rows", "dirs"}, runs : SUBSET RunNumbers]

\* What the verbs and the jobs change, by its types.
TidyTypes == /\ status \in [Cards -> CardStates] /\ runs \in [Cards -> [RunNumbers -> RunFlags]]
             /\ baseline \in [Cards -> SUBSET RunNumbers] /\ tree \in [Cards -> TreeRecord]
             /\ jobs \in [Jobs -> JobRecord]
SweepTypes == day \in 0..Days /\ sweptOn \in -1..Days /\ sweeps \in [0..Days -> Nat]

LEMMA CleanTyped == CleanTypeOK <=> TidyTypes /\ SweepTypes
  BY DEF CleanTypeOK, TidyTypes, SweepTypes, CardStates, RunFlags, TreeRecord, JobRecord
LEMMA CleanTypedNext == CleanTypeOK' <=> TidyTypes' /\ SweepTypes'
  BY DEF CleanTypeOK, TidyTypes, SweepTypes, CardStates, RunFlags, TreeRecord, JobRecord

\* A card with a row has a latest one.
LEMMA LatestIs ==
  ASSUME CleanBounds, NEW c \in Cards, RowsOf(c) # {}
  PROVE  Latest(c) \in RowsOf(c)
<1> DEFINE n == RunsPerCard
<1> DEFINE S == RowsOf(c)
<1> DEFINE R == {ss \in Nat \X Nat : ss[1] < ss[2]}
<1> DEFINE T == {n - s : s \in S}
<1>0. n \in Nat /\ S \subseteq 1..n
  BY DEF CleanBounds, RowsOf, RunNumbers
<1>1. IsWellFoundedOn(R, Nat)
  BY NatLessThanWellFounded, Zenon DEF OpToRel
<1>2. T \subseteq Nat /\ T # {}
  <2> HIDE DEF S, n
  <2>1. \A s \in S : n - s \in Nat
    BY <1>0
  <2>2. PICK s \in S : TRUE
    BY DEF S
  <2>3. n - s \in T
    OBVIOUS
  <2> QED BY <2>1, <2>3
<1>3. PICK x \in T : \A y \in T : ~(<<y, x>> \in R)
  <2> HIDE DEF R, T
  <2> QED BY <1>1, <1>2, WFMin
<1> HIDE DEF S, n
<1>4. \A y \in T : y >= x
  <2> TAKE y \in T
  <2>1. y \in Nat /\ x \in Nat /\ <<y, x>> \notin R
    <3> HIDE DEF R, T
    <3> QED BY <1>2, <1>3
  <2>2. ~(y < x)
    <3>1. SUFFICES ASSUME y < x PROVE FALSE
      OBVIOUS
    <3>2. <<y, x>> \in Nat \X Nat /\ <<y, x>>[1] < <<y, x>>[2]
      <4> HIDE DEF R, T
      <4> QED BY <2>1, <3>1
    <3>3. <<y, x>> \in R
      BY <3>2
    <3> QED BY <3>3, <2>1
  <2> QED BY <2>1, <2>2
<1>5. PICK m \in S : x = n - m
  OBVIOUS
<1>6. \A s \in S : s <= m
  <2> TAKE s \in S
  <2>1. n - s >= x
    BY <1>4
  <2>2. s \in Int /\ m \in Int /\ n \in Int
    BY <1>0
  <2> QED BY <2>1, <2>2, <1>5
<1>7. \E k \in RowsOf(c) : \A j \in RowsOf(c) : j <= k
  BY <1>6 DEF S
<1> QED BY <1>7, Zenon DEF Latest

LEMMA RowsAreNumbers == \A c : RowsOf(c) \subseteq RunNumbers
  BY DEF RowsOf

\* What a job is given when it begins, and how it goes on and ends.
LEMMA BeginKeeps ==
  ASSUME TidyTypes, NEW j \in Jobs, NEW kind \in JobKinds, NEW c \in Cards,
         NEW S \in SUBSET RunNumbers, Begin(j, kind, c, S)
  PROVE  jobs' \in [Jobs -> JobRecord]
<1>1. [kind |-> kind, card |-> {c}, pc |-> "tree", runs |-> S] \in JobRecord
  BY DEF JobRecord
<1> QED BY <1>1 DEF Begin, TidyTypes

LEMMA GotoKeeps ==
  ASSUME TidyTypes, NEW j \in Jobs, NEW pc \in {"idle", "tree", "rows", "dirs"}, Goto(j, pc)
  PROVE  jobs' \in [Jobs -> JobRecord]
<1>1. jobs[j] \in JobRecord
  BY DEF TidyTypes
<1>2. [jobs[j] EXCEPT !.pc = pc] \in JobRecord
  BY <1>1 DEF JobRecord
<1> QED BY <1>2 DEF Goto, TidyTypes

LEMMA EndKeeps ==
  ASSUME TidyTypes, NEW j \in Jobs, End(j)
  PROVE  jobs' \in [Jobs -> JobRecord]
<1>1. NoJob \in JobRecord
  BY DEF NoJob, JobRecord
<1> QED BY <1>1 DEF End, TidyTypes

LEMMA OrphanedKeeps ==
  ASSUME CleanBounds, NEW t \in TreeRecord, NEW S
  PROVE  Orphaned(t, S) \in TreeRecord
<1>1. [t EXCEPT !.owner = 0] \in TreeRecord
  BY DEF TreeRecord, CleanBounds
<1> QED BY <1>1 DEF Orphaned

LEMMA RemovedKeeps ==
  ASSUME NEW t \in TreeRecord
  PROVE  RemovedTree(t) \in TreeRecord
<1> DEFINE gone == FALSE
<1> DEFINE row == IF t.row = "open" THEN "removed" ELSE t.row
<1>1. gone \in BOOLEAN /\ row \in {"none", "open", "removed"}
  BY DEF TreeRecord
<1>2. RemovedTree(t) = [t EXCEPT !.dir = gone, !.row = row]
  BY DEF RemovedTree
<1> HIDE DEF gone, row
<1> QED BY <1>1, <1>2 DEF TreeRecord

LEMMA WithoutRowsKeeps ==
  ASSUME TidyTypes, NEW c \in Cards, NEW S
  PROVE  WithoutRows(c, S) \in [Cards -> [RunNumbers -> RunFlags]]
<1> DEFINE left == [n \in RunNumbers |-> [runs[c][n] EXCEPT !.row = runs[c][n].row /\ n \notin S]]
<1>1. ASSUME NEW n \in RunNumbers
      PROVE  [runs[c][n] EXCEPT !.row = runs[c][n].row /\ n \notin S] \in RunFlags
  <2> DEFINE row == runs[c][n].row /\ n \notin S
  <2>1. runs[c][n] \in RunFlags
    BY DEF TidyTypes
  <2>2. row \in BOOLEAN
    OBVIOUS
  <2> HIDE DEF row
  <2>3. [runs[c][n] EXCEPT !.row = row] \in RunFlags
    BY <2>1, <2>2 DEF RunFlags
  <2> QED BY <2>3 DEF row
<1>2. left \in [RunNumbers -> RunFlags]
  BY <1>1
<1>3. WithoutRows(c, S) = [runs EXCEPT ![c] = left]
  BY DEF WithoutRows
<1> HIDE DEF left
<1> QED BY <1>2, <1>3 DEF TidyTypes

LEMMA CleanStarts == CleanBounds /\ CleanInit => CleanInv
<1> SUFFICES ASSUME CleanBounds, CleanInit PROVE CleanInv
  OBVIOUS
<1>1. NoJob \in JobRecord /\ NoTree \in TreeRecord
  BY DEF NoJob, JobRecord, NoTree, TreeRecord, CleanBounds
<1>2. [row |-> FALSE, used |-> FALSE, aged |-> FALSE] \in RunFlags /\ "backlog" \in CardStates
  BY DEF RunFlags, CardStates
<1>3. TidyTypes
  BY <1>1, <1>2 DEF TidyTypes, CleanInit
<1>4. SweepTypes /\ SweepsAreClaimed
  BY DEF SweepTypes, SweepsAreClaimed, CleanInit, CleanBounds
<1> QED BY <1>3, <1>4, CleanTyped DEF CleanInv

\* A run begins or ends.
LEMMA RunsKeep ==
  ASSUME CleanBounds, TidyTypes, NEW c \in Cards, StartRun(c) \/ RunEnds(c)
  PROVE  TidyTypes'
<1>1. "running" \in CardStates /\ "waiting" \in CardStates
  BY DEF CardStates
<1>2. CASE RunEnds(c)
  BY <1>1, <1>2 DEF RunEnds, TidyTypes
<1>3. CASE StartRun(c)
  <2>1. PICK n \in RunNumbers :
          /\ runs' = [runs EXCEPT ![c] = [@ EXCEPT ![n] = [row |-> TRUE, used |-> TRUE, aged |-> FALSE]]]
          /\ baseline' = [baseline EXCEPT ![c] = @ \cup {n}]
          /\ tree' = [tree EXCEPT ![c] = IF HasTree(c) THEN @
                                         ELSE [dir |-> TRUE, row |-> "open", owner |-> n]]
    BY <1>3 DEF StartRun
  <2> DEFINE fresh == [row |-> TRUE, used |-> TRUE, aged |-> FALSE]
  <2> DEFINE made == [dir |-> TRUE, row |-> "open", owner |-> n]
  <2>2. fresh \in RunFlags /\ made \in TreeRecord
    BY DEF RunFlags, TreeRecord, RunNumbers, CleanBounds
  <2> HIDE DEF fresh, made
  <2>3. runs' = [runs EXCEPT ![c] = [runs[c] EXCEPT ![n] = fresh]]
    BY <2>1 DEF fresh
  <2>4. runs[c] \in [RunNumbers -> RunFlags] /\ tree[c] \in TreeRecord
    BY DEF TidyTypes
  <2>5. [runs[c] EXCEPT ![n] = fresh] \in [RunNumbers -> RunFlags]
    BY <2>2, <2>4
  <2>6. runs' \in [Cards -> [RunNumbers -> RunFlags]]
    BY <2>3, <2>5 DEF TidyTypes
  <2>7. tree' \in [Cards -> TreeRecord]
    BY <2>1, <2>2, <2>4 DEF TidyTypes, made
  <2>8. baseline' \in [Cards -> SUBSET RunNumbers]
    BY <2>1 DEF TidyTypes
  <2>9. status' \in [Cards -> CardStates] /\ jobs' = jobs
    BY <1>1, <1>3 DEF StartRun, TidyTypes
  <2> QED BY <2>6, <2>7, <2>8, <2>9 DEF TidyTypes
<1> QED BY <1>2, <1>3

\* The operators' verbs and the workers' sweeps begin a job.
LEMMA VerbKeeps ==
  ASSUME CleanBounds, TidyTypes, NEW j \in Jobs, NEW c \in Cards,
         Verb(j, c) \/ Reclaim(j, c) \/ Prune(j, c)
  PROVE  TidyTypes'
<1>1. "done" \in CardStates /\ "abandoned" \in CardStates
  BY DEF CardStates, Finished
<1>2. JobKinds = {"approve", "abandon", "reset", "delete", "reclaim", "prune"}
  BY DEF JobKinds
<1>3. RowsOf(c) \in SUBSET RunNumbers
  BY RowsAreNumbers
<1>4. CASE Approve(j, c)
  <2>1. {Latest(c)} \in SUBSET RunNumbers
    BY <1>3, <1>4, LatestIs DEF Approve
  <2>2. jobs' \in [Jobs -> JobRecord]
    BY <1>2, <1>4, <2>1, BeginKeeps DEF Approve
  <2> QED BY <1>1, <1>4, <2>2 DEF Approve, TidyTypes
<1>5. CASE Reset(j, c)
  <2>1. jobs' \in [Jobs -> JobRecord]
    BY <1>2, <1>3, <1>5, BeginKeeps DEF Reset
  <2> QED BY <1>5, <2>1 DEF Reset, TidyTypes
<1>6. CASE DeleteCard(j, c)
  <2>1. jobs' \in [Jobs -> JobRecord]
    BY <1>2, <1>3, <1>6, BeginKeeps DEF DeleteCard
  <2> QED BY <1>6, <2>1 DEF DeleteCard, TidyTypes
<1>7. ASSUME NEW passive \in BOOLEAN, Abandon(j, c, passive) PROVE TidyTypes'
  <2>1. jobs' \in [Jobs -> JobRecord]
    <3>1. CASE passive \/ ~HasTree(c)
      BY <1>7, <3>1 DEF Abandon, TidyTypes
    <3>2. CASE ~(passive \/ ~HasTree(c))
      <4>1. Begin(j, "abandon", c, {})
        BY <1>7, <3>2 DEF Abandon
      <4>2. "abandon" \in JobKinds /\ {} \in SUBSET RunNumbers
        BY <1>2
      <4> QED BY <4>1, <4>2, BeginKeeps
    <3> QED BY <3>1, <3>2
  <2> QED BY <1>1, <1>7, <2>1 DEF Abandon, TidyTypes
<1>8. CASE Reclaim(j, c)
  <2>1. {tree[c].owner} \in SUBSET RunNumbers
    BY <1>3, <1>8 DEF Reclaim, Reclaimable
  <2>2. jobs' \in [Jobs -> JobRecord]
    BY <1>2, <1>8, <2>1, BeginKeeps DEF Reclaim
  <2> QED BY <1>8, <2>2 DEF Reclaim, TidyTypes
<1>9. CASE Prune(j, c)
  <2> DEFINE old == {n \in RowsOf(c) : runs[c][n].aged}
  <2>1. old \in SUBSET RunNumbers /\ Begin(j, "prune", c, old)
    BY <1>3, <1>9 DEF Prune
  <2> HIDE DEF old
  <2>2. jobs' \in [Jobs -> JobRecord]
    BY <1>2, <2>1, BeginKeeps
  <2>3. UNCHANGED <<status, runs, baseline, tree>>
    BY <1>9 DEF Prune
  <2> QED BY <2>2, <2>3 DEF TidyTypes
<1> QED BY <1>4, <1>5, <1>6, <1>7, <1>8, <1>9 DEF Verb

\* Removing a worktree, dropping baselines and deleting rows keep the types.
LEMMA JobKeeps ==
  ASSUME CleanBounds, TidyTypes, NEW j \in Jobs, NEW c \in Cards, Goes(j, c)
  PROVE  TidyTypes'
<1>1. tree[c] \in TreeRecord /\ jobs[j] \in JobRecord
  BY DEF TidyTypes
<1>2. "backlog" \in CardStates /\ "deleted" \in CardStates
  BY DEF CardStates
<1>3. RemovedTree(tree[c]) \in TreeRecord /\ \A S : Orphaned(tree[c], S) \in TreeRecord
  BY <1>1, RemovedKeeps, OrphanedKeeps
<1>4. ASSUME DropBaselines(j, c) PROVE TidyTypes'
  <2>1. [jobs[j] EXCEPT !.runs = {}] \in JobRecord
    BY <1>1 DEF JobRecord
  <2>2. jobs' \in [Jobs -> JobRecord]
    BY <1>4, <2>1 DEF DropBaselines, TidyTypes
  <2>3. baseline' \in [Cards -> SUBSET RunNumbers] /\ UNCHANGED <<status, runs, tree>>
    BY <1>4 DEF DropBaselines, TidyTypes
  <2> QED BY <2>2, <2>3 DEF TidyTypes
<1>5. ASSUME DropTree(j, c) PROVE TidyTypes'
  <2>1. jobs' \in [Jobs -> JobRecord]
    BY <1>5, EndKeeps DEF DropTree
  <2>2. tree' \in [Cards -> TreeRecord] /\ UNCHANGED <<status, runs, baseline>>
    BY <1>3, <1>5 DEF DropTree, TidyTypes
  <2> QED BY <2>1, <2>2 DEF TidyTypes
<1>6. CASE ResetTree(j, c)
  <2>1. jobs' \in [Jobs -> JobRecord]
    BY <1>6, GotoKeeps DEF ResetTree
  <2>2. tree' \in [Cards -> TreeRecord]
    BY <1>3, <1>6 DEF ResetTree, TidyTypes
  <2>3. baseline' \in [Cards -> SUBSET RunNumbers] /\ UNCHANGED <<status, runs>>
    BY <1>6 DEF ResetTree, TidyTypes
  <2> QED BY <2>1, <2>2, <2>3 DEF TidyTypes
<1>7. CASE ResetRows(j, c)
  <2>1. jobs' \in [Jobs -> JobRecord]
    BY <1>7, EndKeeps DEF ResetRows
  <2>2. runs' \in [Cards -> [RunNumbers -> RunFlags]]
    BY <1>7, WithoutRowsKeeps DEF ResetRows
  <2>3. tree' \in [Cards -> TreeRecord] /\ baseline' = baseline
    BY <1>3, <1>7 DEF ResetRows, TidyTypes
  <2>4. status' \in [Cards -> CardStates]
    BY <1>2, <1>7 DEF ResetRows, TidyTypes
  <2> QED BY <2>1, <2>2, <2>3, <2>4 DEF TidyTypes
<1>8. CASE DeleteTree(j, c)
  <2>1. jobs' \in [Jobs -> JobRecord]
    BY <1>8, GotoKeeps DEF DeleteTree
  <2>2. tree' \in [Cards -> TreeRecord] /\ UNCHANGED <<status, runs, baseline>>
    BY <1>1, <1>3, <1>8 DEF DeleteTree, TidyTypes
  <2> QED BY <2>1, <2>2 DEF TidyTypes
<1>9. CASE DeleteRows(j, c)
  <2>1. jobs' \in [Jobs -> JobRecord]
    BY <1>9, EndKeeps DEF DeleteRows
  <2>2. runs' \in [Cards -> [RunNumbers -> RunFlags]]
    BY <1>9, WithoutRowsKeeps DEF DeleteRows
  <2>3. tree' \in [Cards -> TreeRecord] /\ baseline' = baseline
    BY <1>3, <1>9 DEF DeleteRows, TidyTypes
  <2>4. status' \in [Cards -> CardStates]
    BY <1>2, <1>9 DEF DeleteRows, TidyTypes
  <2> QED BY <2>1, <2>2, <2>3, <2>4 DEF TidyTypes
<1>10. CASE PruneRows(j, c)
  <2>1. jobs' \in [Jobs -> JobRecord]
    BY <1>10, EndKeeps, GotoKeeps DEF PruneRows
  <2>2. runs' \in [Cards -> [RunNumbers -> RunFlags]]
    BY <1>10, WithoutRowsKeeps DEF PruneRows
  <2>3. tree' \in [Cards -> TreeRecord] /\ UNCHANGED <<status, baseline>>
    BY <1>3, <1>10 DEF PruneRows, TidyTypes
  <2> QED BY <2>1, <2>2, <2>3 DEF TidyTypes
<1>11. CASE PruneDirs(j, c)
  <2>1. jobs' \in [Jobs -> JobRecord]
    BY <1>11, EndKeeps DEF PruneDirs
  <2>2. tree' \in [Cards -> TreeRecord] /\ UNCHANGED <<status, runs, baseline>>
    BY <1>1, <1>3, <1>11 DEF PruneDirs, TidyTypes
  <2> QED BY <2>1, <2>2 DEF TidyTypes
<1> QED BY <1>4, <1>5, <1>6, <1>7, <1>8, <1>9, <1>10, <1>11
        DEF Goes, TidyBaseline, TidyTree, AbandonTree

LEMMA DieKeeps ==
  ASSUME TidyTypes, NEW j \in Jobs, Die(j)
  PROVE  TidyTypes'
<1>1. jobs' \in [Jobs -> JobRecord]
  BY EndKeeps DEF Die
<1> QED BY <1>1 DEF Die, TidyTypes

\* A day goes by; a run that has ended ages.
LEMMA DayKeeps ==
  ASSUME TidyTypes, NextDay
  PROVE  TidyTypes'
<1>1. ASSUME NEW c \in Cards, NEW n \in RunNumbers
      PROVE  [runs[c][n] EXCEPT !.aged = @ \/ (runs[c][n].row
                /\ ~(status[c] = "running" /\ n = Latest(c)))] \in RunFlags
  <2> DEFINE aged == runs[c][n].aged \/ (runs[c][n].row
                       /\ ~(status[c] = "running" /\ n = Latest(c)))
  <2>1. runs[c][n] \in RunFlags
    BY DEF TidyTypes
  <2>2. aged \in BOOLEAN
    OBVIOUS
  <2> HIDE DEF aged
  <2>3. [runs[c][n] EXCEPT !.aged = aged] \in RunFlags
    BY <2>1, <2>2 DEF RunFlags
  <2> QED BY <2>3 DEF aged
<1>2. runs' \in [Cards -> [RunNumbers -> RunFlags]]
  BY <1>1 DEF NextDay
<1> QED BY <1>2 DEF NextDay, TidyTypes

\* The sweep of a day is claimed by the first that finds the marker at another.
LEMMA SweepsKeep ==
  ASSUME CleanBounds, CleanInv, [CleanNext]_cleanVars
  PROVE  SweepTypes' /\ SweepsAreClaimed'
<1> USE DEF CleanInv
<1>1. /\ day \in 0..Days /\ sweptOn \in -1..Days /\ sweeps \in [0..Days -> Nat]
      /\ sweptOn <= day /\ Days \in Nat
      /\ \A d \in 0..Days : sweeps[d] <= 1 /\ (d > sweptOn => sweeps[d] = 0)
  BY CleanTyped DEF SweepTypes, SweepsAreClaimed, CleanBounds
<1>2. CASE UNCHANGED <<day, sweptOn, sweeps>>
  BY <1>1, <1>2 DEF SweepTypes, SweepsAreClaimed
<1>3. CASE NextDay
  <2>1. day' = day + 1 /\ day' \in 0..Days /\ sweptOn' = sweptOn /\ sweeps' = sweeps
    BY <1>1, <1>3 DEF NextDay
  <2> QED BY <1>1, <2>1 DEF SweepTypes, SweepsAreClaimed
<1>4. ASSUME NEW j \in Jobs, NEW c \in Cards, Prune(j, c)
      PROVE  SweepTypes' /\ SweepsAreClaimed'
  <2>1. /\ day' = day /\ sweptOn' = day /\ sweptOn # day
        /\ sweeps' = [sweeps EXCEPT ![day] = sweeps[day] + 1]
    BY <1>4 DEF Prune, Unswept
  <2>2. sweeps[day] = 0
    BY <1>1, <2>1
  <2>3. /\ sweeps' \in [0..Days -> Nat] /\ sweeps'[day] = 1
        /\ \A d \in 0..Days : d # day => sweeps'[d] = sweeps[d]
    BY <1>1, <2>1, <2>2
  <2>4. \A d \in 0..Days : sweeps'[d] <= 1 /\ (d > sweptOn' => sweeps'[d] = 0)
    BY <1>1, <2>1, <2>3
  <2> QED BY <1>1, <2>1, <2>3, <2>4 DEF SweepTypes, SweepsAreClaimed
<1>5. ASSUME NEW j \in Jobs, NEW c \in Cards,
             StartRun(c) \/ RunEnds(c) \/ Die(j) \/ Verb(j, c) \/ Goes(j, c) \/ Reclaim(j, c)
      PROVE  UNCHANGED <<day, sweptOn, sweeps>>
  BY <1>5 DEF StartRun, RunEnds, Die, Verb, Approve, Reset, DeleteCard, Abandon, Goes,
    TidyBaseline, TidyTree, AbandonTree, DropBaselines, DropTree, ResetTree, ResetRows,
    DeleteTree, DeleteRows, PruneRows, PruneDirs, Reclaim
<1>6. ASSUME NEW c \in Cards, StartRun(c) \/ RunEnds(c)
      PROVE  UNCHANGED <<day, sweptOn, sweeps>>
  BY <1>6 DEF StartRun, RunEnds
<1>7. ASSUME NEW j \in Jobs, Die(j) PROVE UNCHANGED <<day, sweptOn, sweeps>>
  BY <1>7 DEF Die
<1>8. CASE UNCHANGED cleanVars
  BY <1>2, <1>8 DEF cleanVars
<1> QED BY <1>2, <1>3, <1>4, <1>5, <1>6, <1>7, <1>8 DEF CleanNext

LEMMA CleanStays == CleanBounds /\ CleanInv /\ [CleanNext]_cleanVars => CleanInv'
<1> SUFFICES ASSUME CleanBounds, CleanInv, [CleanNext]_cleanVars PROVE CleanInv'
  OBVIOUS
<1>1. TidyTypes
  BY CleanTyped DEF CleanInv
<1>2. SweepTypes' /\ SweepsAreClaimed'
  BY SweepsKeep
<1>3. TidyTypes'
  <2>1. CASE NextDay
    BY <1>1, <2>1, DayKeeps
  <2>2. ASSUME NEW c \in Cards, StartRun(c) \/ RunEnds(c) PROVE TidyTypes'
    BY <1>1, <2>2, RunsKeep
  <2>3. ASSUME NEW j \in Jobs, Die(j) PROVE TidyTypes'
    BY <1>1, <2>3, DieKeeps
  <2>4. ASSUME NEW j \in Jobs, NEW c \in Cards,
               Verb(j, c) \/ Goes(j, c) \/ Reclaim(j, c) \/ Prune(j, c)
        PROVE  TidyTypes'
    BY <1>1, <2>4, VerbKeeps, JobKeeps
  <2>5. CASE UNCHANGED cleanVars
    BY <1>1, <2>5 DEF cleanVars, TidyTypes
  <2> QED BY <2>1, <2>2, <2>3, <2>4, <2>5 DEF CleanNext
<1> QED BY <1>2, <1>3, CleanTypedNext DEF CleanInv

\* removeWorktree, pruneRuntimeHistory and the deletions keep the types of the
\* cards, the run rows, the worktrees and the handlers that tidy them.
THEOREM CleanUpIsTyped == ASSUME CleanBounds PROVE CleanSpec => []CleanTypeOK
<1>1. CleanInv => CleanTypeOK
  BY DEF CleanInv
<1> QED BY <1>1, CleanStarts, CleanStays, PTL DEF CleanSpec

\* claimDailySweep: however many workers' timers go off, and whoever dies of it,
\* no day has more than one sweep.
THEOREM DaysAreSweptOnce == ASSUME CleanBounds PROVE CleanSpec => []OneSweepADay
<1>1. CleanInv => OneSweepADay
  BY DEF CleanInv, SweepsAreClaimed, OneSweepADay
<1> QED BY <1>1, CleanStarts, CleanStays, PTL DEF CleanSpec
=============================================================================
