----------------------------- MODULE MCServices -----------------------------
(***************************************************************************)
(* Safety of what surrounds the pipeline: schedules, improvement runs,     *)
(* clean-up, the inside of a loop run, epics, the circuit breaker,         *)
(* provider logins, the event feed, live transcripts, the agent calls, the *)
(* sandbox, the rounds of a card, the integrity checks, the install gate   *)
(* and the settings.                                                       *)
(*                                                                         *)
(* As in MCRecovery, a behaviour is one of one part.  The configuration     *)
(* makes four of the modules themselves parts: two schedules, two ticks at  *)
(* a time, three minutes and one edit, under a calendar of two months of    *)
(* two and three days with two hours of two minutes; two overlapping        *)
(* requests for an improvement run, whose driver may die; two calls of one  *)
(* run beside a call of another, under two sandbox policies; and one card   *)
(* through three loop runs and their install gates.  In the other parts     *)
(* these four rest in their initial state, and all else is Off.             *)
(***************************************************************************)
EXTENDS ImprovementRun, Schedules, Sandbox, InstallGate, TLC

CONSTANTS w1, w2, q1, q2, p1, c1, c2, s1, s2, Off, Mask

VARIABLES
  part,
  cardStatus, runs, baseline, tree, finishers, day, sweptOn, sweeps,
  list, worktree, loop, card,
  breaker, reading, calls, strikes,
  sessions, flows, tabs,
  version, rows, unsent, tail, stream, board, gets,
  live, file, news, watcher, pushes, tab, fetch, used,
  pieces, epic, turns, checking, presses,
  phase, aborted, tripped, error, timers, repeats, reply, code, service,
  place, plans, history, files, stage, verbs,
  repo, writes, lease, run, made, crashes,
  stored, secret, procs, forms, typings, boots, rotations, meant

-----------------------------------------------------------------------------
(* The calendar and the schedules of the configuration.                    *)

Year == [hour |-> 2, day |-> 2, week |-> 2, months |-> <<2, 3>>]
Star == {[star |-> TRUE, from |-> None, to |-> None, step |-> None]}
At(value) == {[star |-> FALSE, from |-> value, to |-> None, step |-> None]}
FromTo(from, to) == {[star |-> FALSE, from |-> from, to |-> to, step |-> None]}
\* At minute 1 of every hour; and any minute of the first two hours of the
\* second day of a month and of the second day of the week.
Hourly == [minute |-> At(1), hour |-> Star, dom |-> Star, month |-> Star,
           dow |-> Star]
TwoDays == [minute |-> Star, hour |-> FromTo(0, 1), dom |-> At(2), month |-> Star,
            dow |-> At(2)]
Crons == {Hourly, TwoDays}
Standing == [s \in {s1, s2} |->
  [kind |-> IF s = s1 THEN "improvement-run" ELSE "queue-drain",
   cron |-> IF s = s1 THEN Hourly ELSE TwoDays, enabled |-> TRUE, last |-> None]]

\* The other constants of the four modules that are no sets.
Owner == [j \in {q1, q2, p1} |-> IF j = p1 THEN "B" ELSE "A"]
Supervision == [r \in {"A", "B"} |-> IF r = "A" THEN {"none"} ELSE {"namespace"}]
Package == [s \in {"v1", "v2"} |-> "p"]

-----------------------------------------------------------------------------
(* The parts.                                                              *)

\* A run of two cards whose driver stalls and comes back beside its successor.
Stalling == INSTANCE ImprovementRun WITH
  Workers <- {w1, w2}, Web <- {p1}, Requests <- {q1},
  MaxRuns <- 1, MaxCards <- 2, FailureLimit <- 2, EmptyLimit <- 2, MaxStalls <- 1,
  RunFaults <- {"crash"}

\* Every way a card is finished, reset or deleted, and the daily sweep.
Clean == INSTANCE Cleanup WITH
  status <- cardStatus, Cards <- {c1}, Jobs <- {q1, q2}, jobs <- finishers, RunsPerCard <- 2, Days <- 1,
  Offered <- {"approve", "abandon", "reset", "delete", "reclaim", "prune"},
  Fragile <- {"approve", "abandon", "reset", "delete", "reclaim", "prune"}

\* One long run of one task; one that is handed back again and again; two
\* short runs with everything that goes wrong.
Long == INSTANCE LoopRun WITH
  tasks <- list, tree <- worktree, run <- loop,
  MaxIterations <- 15, PlanSizes <- {1}, MaxRuns <- 1,
  Outcomes <- {"ok", "error", "timeout"}, LoopFaults <- {}
Repaired == INSTANCE LoopRun WITH
  tasks <- list, tree <- worktree, run <- loop,
  MaxIterations <- 6, PlanSizes <- {1}, MaxRuns <- 1,
  Outcomes <- {"ok"}, LoopFaults <- {"gate", "probe", "conflict", "cancel"}
Faulty == INSTANCE LoopRun WITH
  tasks <- list, tree <- worktree, run <- loop,
  MaxIterations <- 3, PlanSizes <- {1, 3}, MaxRuns <- 2,
  Outcomes <- {"ok", "error", "fatal"},
  LoopFaults <- {"unclean", "gate", "probe", "conflict", "cancel", "crash"}

\* Two calls of one process.
Breaker == INSTANCE CircuitBreaker WITH
  Calls <- {q1, q2}, ProcessOf <- [c \in {q1, q2} |-> p1], Threshold <- 2,
  Cooldown <- 1, LimitCooldown <- 2, Resets <- {1, 3}

\* A login in two tabs.
Login == INSTANCE ProviderLogin WITH
  Sessions <- {1}, Tabs <- {1, 2}, Questions <- 2, Ttl <- 1, Notices <- 1

Feed == INSTANCE EventFeed WITH
  tab <- board, fetch <- gets,
  Procs <- {"web", "worker"}, Web <- "web", MaxEvents <- 2, Buffer <- 1,
  Fetches <- {1, 2}, MaxDrops <- 1

\* A transcript of three lines through a dropped stream; two iterations of one
\* line, of which the operator picks one.
Dropped == INSTANCE LiveTranscript WITH
  run <- live, Iterations <- 1, Lines <- 3, Chunk <- 1, MaxPicks <- 0, MaxDrops <- 1
Picked == INSTANCE LiveTranscript WITH
  run <- live, Iterations <- 2, Lines <- 1, Chunk <- 1, MaxPicks <- 1, MaxDrops <- 0

\* Two pieces in one process, broken down twice, with every verb.
Whole == INSTANCE Epics WITH
  cards <- pieces,
  Pieces <- {1, 2}, Web <- "web", Worker <- "web", Cap <- 2, AutoMode <- TRUE,
  ReviewPlan <- FALSE, AuthorsPlan <- FALSE, Modes <- {"parallel", "ordered", "graph"},
  Verbs <- {"breakdown", "queue", "start", "start_all", "pause_all", "reorder", "cancel",
            "reset", "abandon", "delete", "park"},
  MaxBreakdowns <- 2, MaxVerbs <- 2

\* Two pieces that depend on each other, in two processes, none started alone.
Graph == INSTANCE Epics WITH
  cards <- pieces,
  Pieces <- {1, 2}, Web <- "web", Worker <- "worker", Cap <- 2, AutoMode <- TRUE,
  ReviewPlan <- FALSE, AuthorsPlan <- FALSE, Modes <- {"graph"},
  Verbs <- {"breakdown", "queue", "start_all", "pause_all", "reorder", "cancel",
            "reset", "abandon", "delete", "park"},
  MaxBreakdowns <- 1, MaxVerbs <- 3

\* A piece and its epic that scoping turns write plans for.
Scoped == INSTANCE Epics WITH
  cards <- pieces,
  Pieces <- {1}, Web <- "web", Worker <- "web", Cap <- 1, AutoMode <- TRUE,
  ReviewPlan <- TRUE, AuthorsPlan <- TRUE, Modes <- {"parallel"},
  Verbs <- {"breakdown", "scope", "cancel", "start", "delete"},
  MaxBreakdowns <- 1, MaxVerbs <- 3

Invocation == INSTANCE AgentCall WITH
  Keys <- {"a", "b"}, Threshold <- 2, MaxReply <- 1, HardLimit <- 5, StallLimit <- 3

\* A card with a critic, through one verb of an operator and many rounds;
\* through two verbs; and one whose plans are reviewed by hand.
AllVerbs == {"queue", "restart", "approve_plan", "cancel", "reject", "approve",
             "retry", "retry_merge", "crash"}
Critiqued == INSTANCE Rounds WITH
  status <- place, runs <- history,
  CriticOn <- TRUE, ReviewPlan <- FALSE, RoundVerbs <- AllVerbs, MaxVerbs <- 1, MaxRuns <- 14
Meddled == INSTANCE Rounds WITH
  status <- place, runs <- history,
  CriticOn <- TRUE, ReviewPlan <- FALSE, RoundVerbs <- AllVerbs, MaxVerbs <- 2, MaxRuns <- 10
ByHand == INSTANCE Rounds WITH
  status <- place, runs <- history,
  CriticOn <- FALSE, ReviewPlan <- TRUE, RoundVerbs <- AllVerbs, MaxVerbs <- 3, MaxRuns <- 12

\* A loop run and a delivery beside two changes from outside; two deliveries,
\* one of whose workers dies.
Edited == INSTANCE Integrity WITH
  Judged <- {p1}, Reviewed <- {q1}, MaxEdits <- 2, MaxCrashes <- 0
Crowded == INSTANCE Integrity WITH
  Judged <- {p1}, Reviewed <- {q1, q2}, MaxEdits <- 0, MaxCrashes <- 1

\* Two cards of a repository, approved from two pages.  The two scripts are two
\* versions of one package.
Gates == INSTANCE InstallGate WITH
  Tasks <- {c1, c2}, Scripts <- {"v1", "v2"}, NameOf <- Package, Pages <- {q1, q2},
  MaxInstalls <- 2, MaxLoops <- 1

\* Two processes that boot at a time; one settings page over two boots.
Boots == INSTANCE Settings WITH
  rows <- stored, file <- secret, tabs <- forms, edits <- typings,
  Procs <- {"web", "worker"}, Web <- "web", Tabs <- {}, MaxEdits <- 0, MaxBoots <- 4,
  MaxRotations <- 2
Forms == INSTANCE Settings WITH
  rows <- stored, file <- secret, tabs <- forms, edits <- typings,
  Procs <- {"web"}, Web <- "web", Tabs <- {1}, MaxEdits <- 2, MaxBoots <- 2,
  MaxRotations <- 1

cleanVars == <<cardStatus, runs, baseline, tree, finishers, day, sweptOn, sweeps>>
loopVars == <<list, worktree, loop, card>>
breakerVars == <<breaker, reading, calls, strikes>>
loginVars == <<sessions, flows, tabs>>
feedVars == <<version, rows, unsent, tail, stream, board, gets>>
liveVars == <<live, file, news, watcher, pushes, tab, fetch, used>>
epicVars == <<pieces, epic, turns, checking, presses>>
callVars == <<phase, aborted, tripped, error, timers, repeats, reply, code, service>>
roundVars == <<place, plans, history, files, stage, verbs>>
checkVars == <<repo, writes, lease, run, made, crashes>>
settingVars == <<stored, secret, procs, forms, typings, boots, rotations, meant>>
allVars == <<part, schedVars, runVars, cleanVars, loopVars, breakerVars, loginVars,
             feedVars, liveVars, epicVars, callVars, sandboxVars, roundVars, checkVars, gateVars,
             settingVars>>

NoClean == /\ cardStatus = Off /\ runs = Off /\ baseline = Off /\ tree = Off /\ finishers = Off
           /\ day = Off /\ sweptOn = Off /\ sweeps = Off
NoLoop == list = Off /\ worktree = Off /\ loop = Off /\ card = Off
NoBreaker == breaker = Off /\ reading = Off /\ calls = Off /\ strikes = Off
NoLogin == sessions = Off /\ flows = Off /\ tabs = Off
NoFeed == /\ version = Off /\ rows = Off /\ unsent = Off /\ tail = Off /\ stream = Off
          /\ board = Off /\ gets = Off
NoLive == /\ live = Off /\ file = Off /\ news = Off /\ watcher = Off /\ pushes = Off
          /\ tab = Off /\ fetch = Off /\ used = Off
NoCall == /\ phase = Off /\ aborted = Off /\ tripped = Off /\ error = Off /\ timers = Off
          /\ repeats = Off /\ reply = Off /\ code = Off /\ service = Off
NoRounds == /\ place = Off /\ plans = Off /\ history = Off /\ files = Off /\ stage = Off
            /\ verbs = Off
NoCheck == /\ repo = Off /\ writes = Off /\ lease = Off /\ run = Off /\ made = Off
           /\ crashes = Off
NoSettings == /\ stored = Off /\ secret = Off /\ procs = Off /\ forms = Off /\ typings = Off
              /\ boots = Off /\ rotations = Off /\ meant = Off
NoEpic == pieces = Off /\ epic = Off /\ turns = Off /\ checking = Off /\ presses = Off

Parts == {"schedules", "overlapping", "stalling", "clean", "long", "repaired", "faulty", "breaker",
          "login", "feed", "dropped", "picked", "whole", "graph", "scoped", "call", "boxed",
          "critiqued", "meddled", "by_hand", "edited", "crowded", "gates", "gated", "boots", "forms"}

Init ==
  /\ part \in Parts
  /\ SchedInit
  /\ IF part = "stalling" THEN Stalling!RunInit ELSE RunInit
  /\ SandboxInit /\ (part # "boxed" => setting = "x")
  /\ IF part = "gates" THEN Gates!GateInit ELSE GateInit
  /\ \/ part = "clean" /\ Clean!CleanInit
     \/ part # "clean" /\ NoClean
  /\ \/ part = "long" /\ Long!LoopInit
     \/ part = "repaired" /\ Repaired!LoopInit
     \/ part = "faulty" /\ Faulty!LoopInit
     \/ part \notin {"long", "repaired", "faulty"} /\ NoLoop
  /\ \/ part = "breaker" /\ Breaker!BreakerInit
     \/ part # "breaker" /\ NoBreaker
  /\ \/ part = "login" /\ Login!LoginInit
     \/ part # "login" /\ NoLogin
  /\ \/ part = "feed" /\ Feed!FeedInit
     \/ part # "feed" /\ NoFeed
  /\ \/ part = "dropped" /\ Dropped!LiveInit
     \/ part = "picked" /\ Picked!LiveInit
     \/ part \notin {"dropped", "picked"} /\ NoLive
  /\ \/ part = "whole" /\ Whole!EpicsInit
     \/ part = "graph" /\ Graph!EpicsInit
     \/ part = "scoped" /\ Scoped!EpicsInit
     \/ part \notin {"whole", "graph", "scoped"} /\ NoEpic
  /\ \/ part = "call" /\ Invocation!CallInit
     \/ part # "call" /\ NoCall
  /\ \/ part = "critiqued" /\ Critiqued!RoundInit
     \/ part = "meddled" /\ Meddled!RoundInit
     \/ part = "by_hand" /\ ByHand!RoundInit
     \/ part \notin {"critiqued", "meddled", "by_hand"} /\ NoRounds
  /\ \/ part = "edited" /\ Edited!IntegrityInit
     \/ part = "crowded" /\ Crowded!IntegrityInit
     \/ part \notin {"edited", "crowded"} /\ NoCheck
  /\ \/ part = "boots" /\ Boots!SettingsInit
     \/ part = "forms" /\ Forms!SettingsInit
     \/ part \notin {"boots", "forms"} /\ NoSettings

Next ==
  /\ UNCHANGED part
  /\ \/ /\ part = "schedules" /\ SchedNext
        /\ UNCHANGED <<runVars, cleanVars, loopVars, breakerVars, loginVars, feedVars,
                       liveVars, epicVars, callVars, sandboxVars, roundVars, checkVars,
                       gateVars, settingVars>>
     \/ /\ \/ part = "overlapping" /\ RunNext
           \/ part = "stalling" /\ Stalling!RunNext
        /\ UNCHANGED <<schedVars, cleanVars, loopVars, breakerVars, loginVars, feedVars,
                       liveVars, epicVars, callVars, sandboxVars, roundVars, checkVars,
                       gateVars, settingVars>>
     \/ /\ part = "clean" /\ Clean!CleanNext
        /\ UNCHANGED <<schedVars, runVars, loopVars, breakerVars, loginVars, feedVars,
                       liveVars, epicVars, callVars, sandboxVars, roundVars, checkVars,
                       gateVars, settingVars>>
     \/ /\ \/ part = "long" /\ Long!LoopNext
           \/ part = "repaired" /\ Repaired!LoopNext
           \/ part = "faulty" /\ Faulty!LoopNext
        /\ UNCHANGED <<schedVars, runVars, cleanVars, breakerVars, loginVars, feedVars,
                       liveVars, epicVars, callVars, sandboxVars, roundVars, checkVars,
                       gateVars, settingVars>>
     \/ /\ part = "breaker" /\ Breaker!BreakerNext
        /\ UNCHANGED <<schedVars, runVars, cleanVars, loopVars, loginVars, feedVars,
                       liveVars, epicVars, callVars, sandboxVars, roundVars, checkVars,
                       gateVars, settingVars>>
     \/ /\ part = "login" /\ Login!LoginNext
        /\ UNCHANGED <<schedVars, runVars, cleanVars, loopVars, breakerVars, feedVars,
                       liveVars, epicVars, callVars, sandboxVars, roundVars, checkVars,
                       gateVars, settingVars>>
     \/ /\ part = "feed" /\ Feed!FeedNext
        /\ UNCHANGED <<schedVars, runVars, cleanVars, loopVars, breakerVars, loginVars,
                       liveVars, epicVars, callVars, sandboxVars, roundVars, checkVars,
                       gateVars, settingVars>>
     \/ /\ \/ part = "dropped" /\ Dropped!LiveNext
           \/ part = "picked" /\ Picked!LiveNext
        /\ UNCHANGED <<schedVars, runVars, cleanVars, loopVars, breakerVars, loginVars,
                       feedVars, epicVars, callVars, sandboxVars, roundVars, checkVars,
                       gateVars, settingVars>>
     \/ /\ \/ part = "whole" /\ Whole!EpicsNext
           \/ part = "graph" /\ Graph!EpicsNext
           \/ part = "scoped" /\ Scoped!EpicsNext
        /\ UNCHANGED <<schedVars, runVars, cleanVars, loopVars, breakerVars, loginVars,
                       feedVars, liveVars, callVars, sandboxVars, roundVars, checkVars,
                       gateVars, settingVars>>
     \/ /\ part = "call" /\ Invocation!CallNext
        /\ UNCHANGED <<schedVars, runVars, cleanVars, loopVars, breakerVars, loginVars,
                       feedVars, liveVars, epicVars, sandboxVars, roundVars, checkVars,
                       gateVars, settingVars>>
     \/ /\ part = "boxed" /\ SandboxNext
        /\ UNCHANGED <<schedVars, runVars, cleanVars, loopVars, breakerVars, loginVars,
                       feedVars, liveVars, epicVars, callVars, roundVars, checkVars,
                       gateVars, settingVars>>
     \/ /\ \/ part = "critiqued" /\ Critiqued!RoundNext
           \/ part = "meddled" /\ Meddled!RoundNext
           \/ part = "by_hand" /\ ByHand!RoundNext
        /\ UNCHANGED <<schedVars, runVars, cleanVars, loopVars, breakerVars, loginVars,
                       feedVars, liveVars, epicVars, callVars, sandboxVars, checkVars,
                       gateVars, settingVars>>
     \/ /\ \/ part = "edited" /\ Edited!IntegrityNext
           \/ part = "crowded" /\ Crowded!IntegrityNext
        /\ UNCHANGED <<schedVars, runVars, cleanVars, loopVars, breakerVars, loginVars,
                       feedVars, liveVars, epicVars, callVars, sandboxVars, roundVars,
                       gateVars, settingVars>>
     \/ /\ \/ part = "gates" /\ Gates!GateNext
           \/ part = "gated" /\ GateNext
        /\ UNCHANGED <<schedVars, runVars, cleanVars, loopVars, breakerVars, loginVars,
                       feedVars, liveVars, epicVars, callVars, sandboxVars, roundVars,
                       checkVars, settingVars>>
     \/ /\ \/ part = "boots" /\ Boots!SettingsNext
           \/ part = "forms" /\ Forms!SettingsNext
        /\ UNCHANGED <<schedVars, runVars, cleanVars, loopVars, breakerVars, loginVars,
                       feedVars, liveVars, epicVars, callVars, sandboxVars, roundVars,
                       checkVars, gateVars>>

Spec == Init /\ [][Next]_allVars

\* Workers and tickers, requests, jobs and calls are interchangeable.
Symmetry == Permutations({w1, w2}) \cup Permutations({q1, q2})

-----------------------------------------------------------------------------
(* Properties of the components, each in the parts it is about, beside the *)
(* properties of the four modules above.                                   *)

\* Every variable keeps its type.
TypeOK ==
  /\ part = "schedules" => SchedTypeOK
  /\ part = "overlapping" => RunTypeOK
  /\ part = "stalling" => Stalling!RunTypeOK
  /\ part = "boxed" => SandboxTypeOK
  /\ part = "gates" => Gates!GateTypeOK
  /\ part = "gated" => GateTypeOK
  /\ part = "clean" => Clean!CleanTypeOK
  /\ part = "long" => Long!LoopTypeOK
  /\ part = "repaired" => Repaired!LoopTypeOK
  /\ part = "faulty" => Faulty!LoopTypeOK
  /\ part = "breaker" => Breaker!BreakerTypeOK
  /\ part = "login" => Login!LoginTypeOK
  /\ part = "feed" => Feed!FeedTypeOK
  /\ part = "dropped" => Dropped!LiveTypeOK
  /\ part = "picked" => Picked!LiveTypeOK
  /\ part = "whole" => Whole!EpicsTypeOK
  /\ part = "graph" => Graph!EpicsTypeOK
  /\ part = "scoped" => Scoped!EpicsTypeOK
  /\ part = "call" => Invocation!CallTypeOK
  /\ part = "critiqued" => Critiqued!RoundTypeOK
  /\ part = "meddled" => Meddled!RoundTypeOK
  /\ part = "by_hand" => ByHand!RoundTypeOK
  /\ part = "edited" => Edited!IntegrityTypeOK
  /\ part = "crowded" => Crowded!IntegrityTypeOK
  /\ part = "boots" => Boots!SettingsTypeOK
  /\ part = "forms" => Forms!SettingsTypeOK

\* upcomingFires, sweepRetention: what a listing shows is when the ticker fires,
\* and the workers' timers sweep once a day between them.
TimersAreSound ==
  /\ part = "schedules" => ListedIsFired
  /\ part = "clean" => Clean!OneSweepADay

\* runLoop: a run ticks no more tasks than it has had iterations, and what is
\* handed to the evaluator has no open task and no merge; one repair and two
\* sync or gate rounds are handed back at most, and a run that gets nowhere
\* stops.
LoopsAreSound ==
  /\ part = "long" => /\ Long!OneTickPerIteration /\ Long!EvaluatedIsWhole
                      /\ Long!UnproductiveRunsStop
  /\ part = "repaired" => /\ Repaired!OneTickPerIteration /\ Repaired!EvaluatedIsWhole
                          /\ Repaired!RepairsAreBounded
  /\ part = "faulty" => Faulty!OneTickPerIteration /\ Faulty!EvaluatedIsWhole

\* runAgentCall, serializeSandboxWrap, guardedTools, recordFailure: a call has
\* failed exactly if something has made it fail, and its one stall timer ends a
\* silence at its limit; a command's TMPDIR is that of its run, and a trusted
\* tool touches no path beside what the agent started; and in one process a
\* provider's breaker opens on what its calls have met since the last success.
CallsAreSound ==
  /\ part = "call" => Invocation!VerdictIsTheCalls /\ Invocation!SilenceIsBounded
  /\ part = "boxed" => TmpdirIsTheRuns /\ FileToolsRunAlone
  /\ part = "breaker" => Breaker!OpensOnEvidence

\* answerProviderLogin: an answer resolves the question it was given for.
AnswersReachTheirQuestion == [][part = "login" => Login!AnswersItsQuestion]_allVars

\* tailEventsOnce, startTranscriptPush, transcriptPushDecision: a process hears
\* each event once, a watcher pushes what its cursor has passed, and the page
\* skips no line.
NothingIsSkipped ==
  /\ part = "feed" => Feed!BusDeliversOnce
  /\ part = "dropped" => Dropped!PushesAreGapless /\ Dropped!NoLineSkipped
  /\ part = "picked" => Picked!PushesAreGapless

\* completeEpicIfFinished, heldByEpicOrder: Done is the epic whose pieces are
\* all finished, and a piece that runs has nothing left to wait for.
EpicsAreWhole ==
  /\ part = "whole" => Whole!EpicDoneIsWhole
  /\ part = "graph" => Graph!DependenciesFirst

\* The critic and the evaluator are shown what is of their round, their verdict
\* is the one that they have written, a version of the plan answers the newest
\* feedback on the last, and what sends a card back does so a bounded number of
\* times.
RoundsAreSound ==
  /\ [](/\ part = "critiqued" => /\ Critiqued!EvidenceIsOfThisCycle
                                 /\ Critiqued!FeedbackIsAnswered
                                 /\ Critiqued!RevisionsAreBounded
        /\ part = "meddled" => Meddled!EvidenceIsOfThisCycle /\ Meddled!FeedbackIsAnswered
        /\ part = "by_hand" => ByHand!EvidenceIsOfThisCycle /\ ByHand!FeedbackIsAnswered)
  /\ [][/\ part = "critiqued" => Critiqued!OwnVerdict
        /\ part = "meddled" => Meddled!OwnVerdict
        /\ part = "by_hand" => ByHand!OwnVerdict]_allVars

\* inspectRepoIntegrity, compareRefs: an alarm has a cause outside Radulf, or a
\* delivery's that was not written down; and what is merged has the hooks and the
\* config that its run has started with, or that the operator has agreed to.
ChecksAreExact ==
  [][/\ part = "edited" => Edited!ExplainedAlarm /\ Edited!Vetted
     /\ part = "crowded" => Crowded!ExplainedAlarm /\ Crowded!Vetted]_allVars

\* ensureAuthSecret, getSettings, useSettingsData: processes that boot at a
\* time share one secret, every process reads what was last saved, and what is
\* typed while a save is under way is kept.
SettingsAreKept ==
  /\ part = "boots" => Boots!OneSecret
  /\ part = "forms" => Forms!SavedIsRead /\ Forms!EditsAreKept
=============================================================================
