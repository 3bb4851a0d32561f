--------------------------- MODULE ImprovementRun ---------------------------
(***************************************************************************)
(* Improvement runs of one repository (improvementRuns.ts) and the lease   *)
(* that names the worker driving one (improvementRunLeases.ts).            *)
(*                                                                         *)
(* A request inserts the run's row and cuts its branch; a driver proposes  *)
(* one card at a time, waits for it to settle and records its outcome,     *)
(* until the budget, an operator, a dry proposer or failures in a row end  *)
(* the run.  What a handler does between two awaits is one action; a crash *)
(* may fall between the insert of a card and the update that records it.   *)
(* Runs and cards are numbered in the order they are created.              *)
(***************************************************************************)
EXTENDS Integers, Sequences, FiniteSetsExt, Absent

CONSTANTS Workers,       \* processes with the worker role
          Web,           \* processes without it
          Requests,      \* create requests under way
          MaxRuns,       \* rows ever inserted
          MaxCards,      \* cards ever proposed
          FailureLimit,  \* failures in a row that end a run (3 in the code)
          EmptyLimit,    \* empty proposals in a row that end it (3)
          MaxStalls,     \* times a process may stall past the stale window
          RunFaults      \* subset of {"crash"}

VARIABLES runRows,    \* sequence of improvement_runs rows
          tasks,      \* sequence of the cards the runs created
          drivers,    \* [Workers -> [run number -> driver]], the driver guard
          requests,   \* [Requests -> [pc, by, run]]
          host,       \* [Workers -> {"up", "stalled", "dead"}]
          beating,    \* workers whose heartbeats are inside the stale window
          stalls      \* stalls so far

runVars == <<runRows, tasks, drivers, requests, host, beating, stalls>>

Ended == {"completed", "stopped", "failed"}
\* What a card comes to: "failed" is needs_attention, abandoned, backlog (a
\* cancelled card) or deleted, which are all the same to the driver.
Terminal == {"done", "failed"}
Numbers == 1..MaxRuns
Idle == [pc |-> "off", streak |-> 0, created |-> 0, card |-> 0]
Quiet == [pc |-> "none", by |-> None, run |-> 0]
NewRow == [status |-> "running", worker |-> None, cut |-> FALSE, budget |-> "open",
           stop |-> FALSE, card |-> 0, created |-> 0, succeeded |-> 0, failures |-> 0]

RunTypeOK ==
  /\ runRows \in Seq([status : Ended \cup {"running", "deleted"},
                      worker : Workers \cup {None}, cut : BOOLEAN,
                      budget : {"open", "short", "past"}, stop : BOOLEAN,
                      card : 0..MaxCards, created : Nat, succeeded : Nat, failures : Nat])
  /\ Len(runRows) \in 0..MaxRuns
  /\ tasks \in Seq([run : Numbers, status : Terminal \cup {"open"},
                    started : BOOLEAN, counted : BOOLEAN])
  /\ Len(tasks) \in 0..MaxCards
  /\ drivers \in [Workers -> [Numbers ->
       [pc : {"off", "loop", "proposing", "backoff", "awaiting"},
        streak : Nat, created : Nat, card : 0..MaxCards]]]
  /\ requests \in [Requests -> [pc : {"none", "checking", "cutting"},
                                by : Workers \cup Web \cup {None}, run : 0..MaxRuns]]
  /\ host \in [Workers -> {"up", "stalled", "dead"}]
  /\ beating \subseteq Workers
  /\ stalls \in 0..MaxStalls

RunInit ==
  /\ runRows = <<>> /\ tasks = <<>>
  /\ drivers = [w \in Workers |-> [r \in Numbers |-> Idle]]
  /\ requests = [q \in Requests |-> Quiet]
  /\ host = [w \in Workers |-> "up"]
  /\ beating = Workers
  /\ stalls = 0

Up(p) == p \in Web \/ (p \in Workers /\ host[p] = "up")
ActiveRuns == {r \in DOMAIN runRows : runRows[r].status = "running"}
Settled(c) == tasks[c].status \in Terminal

-----------------------------------------------------------------------------
(* The lease: claimImprovementRun, heartbeatImprovementRun, release.       *)

\* Both the worker's row and the run's lease are beaten by the holder's timers.
HolderLive(r) == runRows[r].worker \in beating

\* Mutants of Claimable: a live holder is not respected; a dead one is.
ClaimableFromAnyone(r, w) == runRows[r].status = "running" /\ runRows[r].worker # w
ClaimableUnheld(r, w) == runRows[r].status = "running" /\ runRows[r].worker = None

Claimable(r, w) ==
  /\ runRows[r].status = "running"
  /\ runRows[r].worker # w
  /\ runRows[r].worker = None \/ ~HolderLive(r)

\* driveRun: the guard set of the process first, then the lease.
Drive(w, r) ==
  /\ drivers[w][r].pc = "off" /\ Claimable(r, w)
  /\ runRows' = [runRows EXCEPT ![r].worker = w]
  /\ drivers' = [drivers EXCEPT ![w][r] = [Idle EXCEPT !.pc = "loop"]]

\* resumeImprovementRuns: every pump tick, and once at boot.
Resume(w, r) ==
  /\ Up(w) /\ r \in DOMAIN runRows /\ Drive(w, r)
  /\ UNCHANGED <<tasks, requests, host, beating, stalls>>

-----------------------------------------------------------------------------
(* Creating and stopping.                                                  *)

\* createImprovementRun up to its first await, the branch-existence check.
Ask(q, p) ==
  /\ requests[q].pc = "none" /\ Up(p)
  /\ requests' = [requests EXCEPT ![q] = [pc |-> "checking", by |-> p, run |-> 0]]
  /\ UNCHANGED <<runRows, tasks, drivers, host, beating, stalls>>

\* Mutant of SlotFree: only the check before the await.
SlotChecked(q) == TRUE

\* The slot of the repository is free: looked at where the row is inserted.
SlotFree(q) == ActiveRuns = {}

\* The check and the insert are one transaction; a refused request ends.
ClaimSlot(q) ==
  /\ requests[q].pc = "checking" /\ Up(requests[q].by)
  /\ IF SlotFree(q)
     THEN /\ Len(runRows) < MaxRuns
          /\ runRows' = Append(runRows, NewRow)
          /\ requests' = [requests EXCEPT ![q] = [@ EXCEPT !.pc = "cutting", !.run = Len(runRows) + 1]]
     ELSE /\ requests' = [requests EXCEPT ![q] = Quiet]
          /\ UNCHANGED runRows
  /\ UNCHANGED <<tasks, drivers, host, beating, stalls>>

\* git branch made the branch; a worker then drives the run itself, unless a
\* pump tick, here or on a peer, has adopted the row in the meantime.
CutBranch(q) ==
  LET r == requests[q].run
      p == requests[q].by IN
  /\ requests[q].pc = "cutting" /\ Up(p)
  /\ LET row == [runRows[r] EXCEPT !.cut = TRUE]
         drive == p \in Workers /\ drivers[p][r].pc = "off" /\ Claimable(r, p) IN
     /\ runRows' = [runRows EXCEPT ![r] = IF drive THEN [row EXCEPT !.worker = p] ELSE row]
     /\ drivers' = IF drive THEN [drivers EXCEPT ![p][r] = [Idle EXCEPT !.pc = "loop"]]
                   ELSE drivers
  /\ requests' = [requests EXCEPT ![q] = Quiet]
  /\ UNCHANGED <<tasks, host, beating, stalls>>

\* git branch failed: the row is deleted and the slot is free again.
CutFails(q) ==
  /\ requests[q].pc = "cutting" /\ Up(requests[q].by)
  /\ runRows' = [runRows EXCEPT ![requests[q].run].status = "deleted"]
  /\ requests' = [requests EXCEPT ![q] = Quiet]
  /\ UNCHANGED <<tasks, drivers, host, beating, stalls>>

\* stopImprovementRun: the deadline becomes now; the task in flight goes on.
StopRun(r) ==
  /\ r \in ActiveRuns /\ ~runRows[r].stop
  /\ runRows' = [runRows EXCEPT ![r] = [@ EXCEPT !.stop = TRUE, !.budget = "past"]]
  /\ UNCHANGED <<tasks, drivers, requests, host, beating, stalls>>

\* The clock: less than a minute of the budget is left, then none.
Elapse(r) ==
  /\ r \in ActiveRuns /\ runRows[r].budget # "past"
  /\ runRows' = [runRows EXCEPT ![r].budget = IF @ = "open" THEN "short" ELSE "past"]
  /\ UNCHANGED <<tasks, drivers, requests, host, beating, stalls>>

-----------------------------------------------------------------------------
(* The driver.                                                             *)

\* endRun and finishRun: nothing happens to a run that is over already.
Finish(row, status) ==
  IF row.status = "running" THEN [row EXCEPT !.status = status, !.card = 0] ELSE row
EndRun(row) == Finish(row, IF row.stop THEN "stopped" ELSE "completed")

\* The finally of driveRun: only the holder gives the lease back.
Released(row, w) == IF row.worker = w THEN [row EXCEPT !.worker = None] ELSE row

\* Mutant of Recorded: the card stays the run's current one.
RecordedCurrent(row, success) ==
  LET counted == [row EXCEPT !.succeeded = @ + (IF success THEN 1 ELSE 0),
                             !.failures = IF success THEN 0 ELSE @ + 1] IN
  IF ~success /\ counted.failures >= FailureLimit THEN Finish(counted, "failed") ELSE counted

\* recordCardOutcome: read and written in one go, whatever the run's status.
Recorded(row, success) ==
  LET counted == [row EXCEPT !.succeeded = @ + (IF success THEN 1 ELSE 0),
                             !.failures = IF success THEN 0 ELSE @ + 1,
                             !.card = 0] IN
  IF ~success /\ counted.failures >= FailureLimit THEN Finish(counted, "failed") ELSE counted

\* A success is counted once for each card: `counted` remembers it.
Count(c) == [tasks EXCEPT ![c].counted = tasks[c].status = "done"]

Leave(w, r, row) ==
  /\ runRows' = [runRows EXCEPT ![r] = Released(row, w)]
  /\ drivers' = [drivers EXCEPT ![w][r] = Idle]
  /\ UNCHANGED <<tasks, requests, host, beating, stalls>>

Record(w, r, c) ==
  /\ runRows' = [runRows EXCEPT ![r] = Recorded(@, tasks[c].status = "done")]
  /\ tasks' = Count(c)
  /\ drivers' = [drivers EXCEPT ![w][r] = [@ EXCEPT !.pc = "loop", !.card = 0]]
  /\ UNCHANGED <<requests, host, beating, stalls>>

\* One turn at the top of runDriverLoop.
Turn(w, r) ==
  LET row == runRows[r] IN
  /\ Up(w) /\ drivers[w][r].pc = "loop"
  /\ \/ /\ row.status # "running" \/ row.worker # w
        /\ Leave(w, r, row)
     \/ /\ row.status = "running" /\ row.worker = w /\ row.card # 0
        /\ IF Settled(row.card)
           THEN Record(w, r, row.card)
           ELSE /\ drivers' = [drivers EXCEPT ![w][r] = [@ EXCEPT !.pc = "awaiting", !.card = row.card]]
                /\ tasks' = [tasks EXCEPT ![row.card].started = TRUE]
                /\ UNCHANGED <<runRows, requests, host, beating, stalls>>
     \/ /\ row.status = "running" /\ row.worker = w /\ row.card = 0
        /\ IF row.budget = "past"
           THEN Leave(w, r, EndRun(row))
           ELSE /\ drivers' = [drivers EXCEPT ![w][r] = [@ EXCEPT !.pc = "proposing",
                                                               !.created = row.created]]
                /\ UNCHANGED <<runRows, tasks, requests, host, beating, stalls>>

\* awaitCardTerminal resolved: the outcome is recorded, the lease not re-read.
Settle(w, r) ==
  /\ Up(w) /\ drivers[w][r].pc = "awaiting" /\ Settled(drivers[w][r].card)
  /\ Record(w, r, drivers[w][r].card)

\* The proposer found nothing, failed, timed out or had no branch to look at.
ProposeNothing(w, r) ==
  /\ Up(w) /\ drivers[w][r].pc = "proposing"
  /\ IF drivers[w][r].streak + 1 >= EmptyLimit
     THEN Leave(w, r, EndRun(runRows[r]))
     ELSE /\ drivers' = [drivers EXCEPT ![w][r] = [@ EXCEPT !.pc = "backoff",
                                                                 !.streak = drivers[w][r].streak + 1]]
          /\ UNCHANGED <<runRows, tasks, requests, host, beating, stalls>>

BackOff(w, r) ==
  /\ Up(w) /\ drivers[w][r].pc = "backoff"
  /\ drivers' = [drivers EXCEPT ![w][r].pc = "loop"]
  /\ UNCHANGED <<runRows, tasks, requests, host, beating, stalls>>

\* Mutant of BudgetLeft: what the turn's first read said.
BudgetWasLeft(r) == TRUE

\* The row as it is now: a Stop that came during the proposer counts.
BudgetLeft(r) == runRows[r].budget = "open"

NewTask(r) == [run |-> r, status |-> "open", started |-> FALSE, counted |-> FALSE]

\* A card is proposed: the row is read again, the card inserted, recorded on
\* the row with the count of the turn's first read, and started.
Propose(w, r) ==
  /\ Up(w) /\ drivers[w][r].pc = "proposing" /\ runRows[r].cut
  /\ IF ~BudgetLeft(r)
     THEN Leave(w, r, EndRun(runRows[r]))
     ELSE /\ Len(tasks) < MaxCards
          /\ tasks' = Append(tasks, [NewTask(r) EXCEPT !.started = TRUE])
          /\ runRows' = [runRows EXCEPT ![r] = [@ EXCEPT !.card = Len(tasks) + 1,
                                                              !.created = drivers[w][r].created + 1]]
          /\ drivers' = [drivers EXCEPT ![w][r] = [pc |-> "awaiting", streak |-> 0,
                                                   created |-> 0, card |-> Len(tasks) + 1]]
          /\ UNCHANGED <<requests, host, beating, stalls>>

-----------------------------------------------------------------------------
(* Faults, heartbeats and the cards' own life.                             *)

Gone(w) ==
  /\ host' = [host EXCEPT ![w] = "dead"]
  /\ beating' = beating \ {w}
  /\ drivers' = [drivers EXCEPT ![w] = [r \in Numbers |-> Idle]]
  /\ requests' = [q \in Requests |-> IF requests[q].by = w THEN Quiet ELSE requests[q]]

Survivor(w) == \E v \in Workers \ {w} : host[v] # "dead"

\* A worker dies; its heartbeat leaves the stale window.
Crash(w) ==
  /\ "crash" \in RunFaults /\ host[w] # "dead" /\ Survivor(w)
  /\ Gone(w)
  /\ UNCHANGED <<runRows, tasks, stalls>>

\* It dies between the insert of a card and the update of the run's row.
CrashInserting(w, r) ==
  /\ "crash" \in RunFaults /\ Up(w) /\ Survivor(w)
  /\ drivers[w][r].pc = "proposing" /\ runRows[r].cut /\ BudgetLeft(r)
  /\ Len(tasks) < MaxCards
  /\ tasks' = Append(tasks, NewTask(r))
  /\ Gone(w)
  /\ UNCHANGED <<runRows, stalls>>

Stall(w) ==
  /\ host[w] = "up" /\ stalls < MaxStalls
  /\ host' = [host EXCEPT ![w] = "stalled"] /\ beating' = beating \ {w}
  /\ stalls' = stalls + 1
  /\ UNCHANGED <<runRows, tasks, drivers, requests>>

Wake(w) ==
  /\ host[w] = "stalled"
  /\ host' = [host EXCEPT ![w] = "up"]
  /\ UNCHANGED <<runRows, tasks, drivers, requests, beating, stalls>>

Beat(w) ==
  /\ host[w] = "up" /\ w \notin beating
  /\ beating' = beating \cup {w}
  /\ UNCHANGED <<runRows, tasks, drivers, requests, host, stalls>>

\* The pipeline takes a started card and brings it to rest.
CardRuns(c) ==
  /\ c \in DOMAIN tasks
  /\ tasks[c].status = "open" /\ tasks[c].started
  /\ \E s \in Terminal : tasks' = [tasks EXCEPT ![c].status = s]
  /\ UNCHANGED <<runRows, drivers, requests, host, beating, stalls>>

\* An operator cancels the card to the backlog, abandons it or deletes it.
Withdraw(c) ==
  /\ c \in DOMAIN tasks /\ tasks[c].status = "open"
  /\ tasks' = [tasks EXCEPT ![c].status = "failed"]
  /\ UNCHANGED <<runRows, drivers, requests, host, beating, stalls>>

-----------------------------------------------------------------------------
DriverStep(w, r) == Turn(w, r) \/ Settle(w, r) \/ BackOff(w, r)
Answered(w, r) == ProposeNothing(w, r) \/ Propose(w, r)
RequestStep(q) == ClaimSlot(q) \/ CutBranch(q) \/ CutFails(q)

RunNext ==
  \/ \E q \in Requests : RequestStep(q) \/ \E p \in Workers \cup Web : Ask(q, p)
  \/ \E w \in Workers, r \in Numbers :
       Resume(w, r) \/ DriverStep(w, r) \/ Answered(w, r) \/ CrashInserting(w, r)
  \/ \E r \in Numbers : StopRun(r) \/ Elapse(r)
  \/ \E w \in Workers : Crash(w) \/ Stall(w) \/ Wake(w) \/ Beat(w)
  \/ \E c \in 1..MaxCards : CardRuns(c) \/ Withdraw(c)

RunSpec == RunInit /\ [][RunNext]_runVars

-----------------------------------------------------------------------------
(* Properties.                                                             *)

\* Decision 6: a repository has at most one run under way, however its
\* requests overlap and whatever happens to the branch each of them cuts.
OneActiveRun == Cardinality(ActiveRuns) <= 1

\* Decision 7: a run is driven by one worker at a time, across adoptions of
\* dead workers' runs, as long as no process stalled past the stale window.
OneDriver ==
  stalls = 0 => \A r \in DOMAIN runRows : \A v, w \in Workers :
                  drivers[v][r].pc # "off" /\ drivers[w][r].pc # "off" => v = w

\* A run's counters say what happened to its cards: each success is counted
\* once, by whichever driver saw it, no card is counted that was not inserted,
\* and a run that ended is done with its last card (while nobody stalled).
CountersTellTheTruth ==
  stalls = 0 => \A r \in DOMAIN runRows :
    /\ runRows[r].succeeded = Cardinality({c \in DOMAIN tasks : tasks[c].run = r /\ tasks[c].counted})
    /\ runRows[r].created <= Cardinality({c \in DOMAIN tasks : tasks[c].run = r})
    /\ runRows[r].status # "running" => runRows[r].card = 0

\* A Stop that landed while the proposer was thinking is seen: no card is
\* created for a run whose operator has asked it to stop.
CreatesUnstopped == \A c \in DOMAIN tasks' \ DOMAIN tasks : ~runRows[tasks'[c].run].stop
NoCardAfterStop == [][CreatesUnstopped]_runVars
=============================================================================
