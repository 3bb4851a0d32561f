----------------------------- MODULE MCRecovery -----------------------------
(***************************************************************************)
(* What comes right by itself: the liveness of six independent parts of    *)
(* the server, each with the faults its code handles and under the         *)
(* fairness that its timers and awaits justify.                            *)
(*                                                                         *)
(* The parts share no state, so a behaviour is one of one part: the        *)
(* initial state picks it, and the variables of the others stay Off, or,   *)
(* for the pipeline, in its initial state.                                 *)
(***************************************************************************)
EXTENDS Pipeline

CONSTANTS c1, c2, w1, w2, p1, r1, r2, r3, Off

VARIABLES
  part,
  runRows, tasks, drivers, requests, host, beating, stalls,
  cardStatus, runs, baseline, tree, jobs, day, sweptOn, sweeps,
  breaker, reading, calls, strikes,
  sessions, flows, tabs,
  place, plans, history, files, stage, verbs

\* The configuration makes Pipeline itself one worker that crashes or stalls
\* past workerStaleSeconds and one that joins late.  Q is compose.yaml's
\* deployment, the operators only queueing cards.
Q == INSTANCE Pipeline WITH
  Cards <- {c1, c2}, Workers <- {w1, w2}, Web <- {p1}, UiWorkers <- {}, Later <- {},
  Runs <- {r1, r2, r3}, Limit <- 1, MaxPrep <- 1, Verbs <- {"queue"}, Faults <- {},
  CriticOn <- TRUE, ReviewPlan <- FALSE

\* An improvement run of two cards, whose driver may die.
R == INSTANCE ImprovementRun WITH
  Workers <- {w1, w2}, Web <- {}, Requests <- {r1},
  MaxRuns <- 1, MaxCards <- 2, FailureLimit <- 2, EmptyLimit <- 2, MaxStalls <- 0,
  RunFaults <- {"crash"}

\* A card whose finisher may die, and a sweep on each of two days.
C == INSTANCE Cleanup WITH
  status <- cardStatus, Cards <- {c1}, Jobs <- {r1, r2}, RunsPerCard <- 2, Days <- 1,
  Offered <- {"approve", "abandon", "reclaim", "delete"}, Fragile <- {"approve", "abandon"}

\* Two calls in two processes, and resets sooner than the cooldown.
B == INSTANCE CircuitBreaker WITH
  Calls <- {c1, c2}, ProcessOf <- [c \in {c1, c2} |-> c], Threshold <- 2,
  Cooldown <- 1, LimitCooldown <- 2, Resets <- {1}

\* Two logins, one after the other, in one tab.
L == INSTANCE ProviderLogin WITH
  Sessions <- {1, 2}, Tabs <- {p1}, Questions <- 2, Ttl <- 1, Notices <- 0

\* A card whose agents may send it back as often as they like.
W == INSTANCE Rounds WITH
  status <- place, runs <- history, CriticOn <- TRUE, ReviewPlan <- FALSE,
  RoundVerbs <- {}, MaxVerbs <- 0, MaxRuns <- 24

runVars == <<runRows, tasks, drivers, requests, host, beating, stalls>>
cleanVars == <<cardStatus, runs, baseline, tree, jobs, day, sweptOn, sweeps>>
breakerVars == <<breaker, reading, calls, strikes>>
loginVars == <<sessions, flows, tabs>>
roundVars == <<place, plans, history, files, stage, verbs>>
allVars == <<part, vars, runVars, cleanVars, breakerVars, loginVars, roundVars>>

NoRun == /\ runRows = Off /\ tasks = Off /\ drivers = Off /\ requests = Off /\ host = Off
         /\ beating = Off /\ stalls = Off
NoClean == /\ cardStatus = Off /\ runs = Off /\ baseline = Off /\ tree = Off /\ jobs = Off
           /\ day = Off /\ sweptOn = Off /\ sweeps = Off
NoBreaker == breaker = Off /\ reading = Off /\ calls = Off /\ strikes = Off
NoLogin == sessions = Off /\ flows = Off /\ tabs = Off
NoRounds == /\ place = Off /\ plans = Off /\ history = Off /\ files = Off /\ stage = Off /\ verbs = Off

RecoveryInit ==
  /\ \/ part = "quiet" /\ Q!Init
     \/ part \in {"crashing", "run", "clean", "breaker", "login", "rounds"} /\ Init
  /\ IF part = "run" THEN R!RunInit ELSE NoRun
  /\ IF part = "clean" THEN C!CleanInit ELSE NoClean
  /\ IF part = "breaker" THEN B!BreakerInit ELSE NoBreaker
  /\ IF part = "login" THEN L!LoginInit ELSE NoLogin
  /\ IF part = "rounds" THEN W!RoundInit ELSE NoRounds

RecoveryNext ==
  /\ UNCHANGED part
  /\ \/ part = "quiet" /\ Q!Next /\ UNCHANGED <<runVars, cleanVars, breakerVars, loginVars, roundVars>>
     \/ part = "crashing" /\ Next /\ UNCHANGED <<runVars, cleanVars, breakerVars, loginVars, roundVars>>
     \/ part = "run" /\ R!RunNext /\ UNCHANGED <<vars, cleanVars, breakerVars, loginVars, roundVars>>
     \/ part = "clean" /\ C!CleanNext /\ UNCHANGED <<vars, runVars, breakerVars, loginVars, roundVars>>
     \/ part = "breaker" /\ B!BreakerNext /\ UNCHANGED <<vars, runVars, cleanVars, loginVars, roundVars>>
     \/ part = "login" /\ L!LoginNext /\ UNCHANGED <<vars, runVars, cleanVars, breakerVars, roundVars>>
     \/ part = "rounds" /\ W!RoundNext /\ UNCHANGED <<vars, runVars, cleanVars, breakerVars, loginVars>>

-----------------------------------------------------------------------------
(* Fairness.                                                               *)

\* A process keeps taking the steps it has, dead workers age, a reap that is
\* possible again and again happens; revisions are bounded (RoundsEnd), so the
\* planner, the critic and the evaluator do not ask for another plan for ever.
PipelineFairness ==
  /\ \A p \in {w1, w2} : WF_vars(\/ part = "crashing" /\ ProcessStep(p)
                                 \/ part = "quiet" /\ Q!ProcessStep(p))
  /\ WF_vars(part = "quiet" /\ Q!ProcessStep(p1))
  /\ \A w \in {w1, w2} : WF_vars(part = "crashing" /\ worker[w] = "gone" /\ Ages(w))
  /\ SF_vars(part = "crashing" /\ \E w \in {w1, w2}, r \in {r1, r2} : Reap(w, r))
  /\ SF_vars(\/ part = "crashing" /\ \E r \in {r1, r2} : PlanAccepted(r)
             \/ part = "quiet" /\ \E r \in {r1, r2, r3} : Q!PlanAccepted(r))
  /\ SF_vars(part = "quiet" /\ \E r \in {r1, r2, r3} : Q!CriticConcludes(r))
  /\ SF_vars(\/ part = "crashing" /\ \E r \in {r1, r2} : EvaluatorPasses(r)
             \/ part = "quiet" /\ \E r \in {r1, r2, r3} : Q!EvaluatorPasses(r))

\* The timers of a process that is up go off, the proposer answers (it is
\* killed after 15 minutes), the clock runs and a started card comes to rest.
RunFairness ==
  /\ \A w \in {w1, w2} :
       /\ WF_runVars(part = "run" /\ R!Resume(w, 1))
       /\ WF_runVars(part = "run" /\ R!DriverStep(w, 1))
       /\ WF_runVars(part = "run" /\ R!Answered(w, 1))
       /\ WF_runVars(part = "run" /\ R!Beat(w))
  /\ WF_runVars(part = "run" /\ R!Elapse(1))
  /\ \A c \in 1..2 : WF_runVars(part = "run" /\ R!CardRuns(c))

\* A job that is not killed goes on, and every pump tick sweeps.
CleanFairness ==
  /\ \A j \in {r1, r2} : WF_cleanVars(part = "clean" /\ C!Goes(j, c1))
  /\ WF_cleanVars(part = "clean" /\ \E j \in {r1, r2} : C!Reclaim(j, c1))

\* Time passes, and a call that failed writes what it has read.
BreakerFairness ==
  /\ WF_breakerVars(part = "breaker" /\ B!Tick)
  /\ \A c \in {c1, c2} : WF_breakerVars(part = "breaker" /\ B!Record(c))

\* Time passes, and the page polls a login it shows; pi owes nothing.
LoginFairness ==
  /\ WF_loginVars(part = "login" /\ L!Passes)
  /\ \A s \in 1..2 : WF_loginVars(part = "login" /\ L!IsLive(s) /\ L!Poll(p1, s))

\* A stage that has begun goes on: every agent has its watchdogs (AgentCall).
RoundFairness == WF_roundVars(part = "rounds" /\ W!Automatic)

RecoverySpec ==
  /\ RecoveryInit /\ [][RecoveryNext]_allVars
  /\ PipelineFairness /\ RunFairness /\ CleanFairness /\ BreakerFairness /\ LoginFairness
  /\ RoundFairness

-----------------------------------------------------------------------------
(* Properties.                                                             *)

\* pump: a queued card is carried, through whatever stages it needs and past
\* the other cards of its repository, to a point where a human decides (c1
\* stands for both cards, which are interchangeable, and r1 for both runs).
Settled == {"plan_review", "review", "needs_attention"}
QueuedCardsSettle ==
  (part = "quiet" /\ status[c1] = "todo") ~> (part = "quiet" /\ status[c1] \in Settled)

\* reapStaleRuns: the running row of a dead worker is closed by any other
\* worker that is up, so its card and its slot come back.
OfTheDead(r) == row[r].st = "running" /\ worker[row[r].owner] = "gone"
DeadRunsReaped ==
  (part = "crashing" /\ OfTheDead(r1))
    ~> (part = "crashing" /\ (~OfTheDead(r1) \/ \A w \in {w1, w2} : worker[w] \in {"new", "gone"}))

\* No card is left to itself.
CardsAreCarried == QueuedCardsSettle /\ DeadRunsReaped

\* driveRun: an improvement run comes to its end though its driver dies:
\* another worker adopts it, and no outcome keeps a driver waiting for ever.
RunsEnd == (part = "run" /\ 1 \in R!ActiveRuns) ~> (part = "run" /\ 1 \notin R!ActiveRuns)

\* removeFinishedWorktrees: whoever finished a card, and if it died over it,
\* the card's worktree goes.
FinishedIsReclaimed ==
  (part = "clean" /\ cardStatus[c1] \in C!Finished)
    ~> (part = "clean" /\ (~tree[c1].dir \/ cardStatus[c1] = "deleted"))

\* checkBreaker: an open breaker lets the provider be tried again, however
\* many calls that were under way still fail and open it anew.
ProviderComesBack ==
  (part = "breaker" /\ B!BreakerOpen) ~> (part = "breaker" /\ ~B!BreakerOpen)

\* providerLogin.ts: no login stays live for ever, though pi may hang and the
\* operator may walk away.
Open == \E s \in 1..2 : L!IsLive(s)
LoginsSettle == (part = "login" /\ Open) ~> (part = "login" /\ ~Open)

\* Whatever keeps an operator from a provider passes.
ProvidersComeBack == ProviderComesBack /\ LoginsSettle

\* MAX_CRITIC_REVISIONS, MAX_EVALUATOR_REVISIONS: a card that is started comes
\* to where a human decides, whatever its critic and its evaluator ask for.
RoundsEnd ==
  (part = "rounds") ~> (part = "rounds" /\ stage = W!NoStage /\ place \in Settled)
=============================================================================
