# TLA+ models of Radulf

Radulf is a board that turns a card into reviewed code: a planner writes a plan
and a checklist, an optional critic revises it, a loop runs a coding agent on
one task per iteration, an evaluator judges the result, and an operator approves
it, whereupon it is merged or offered as a pull request. Everything lives in one
SQLite database that one process (both roles) or several (`web` and `worker`,
`compose.yaml`) share; workers hold heartbeats, and peers reap what a dead one
left behind.

The models here are about that shared state: who may move a card, when, and what
is left when a process stops between two statements; and about the services
around it, each with what is hard in it. They are written from the source, and
every definition that stands for code names its lines in `PROJECT.json` (`map`).

Contents:
[inventory](#inventory) ·
[modules](#modules-and-how-they-correspond-to-the-code) ·
[runs](#runs) ·
[fairness](#fairness) ·
[proofs](#proofs) ·
[findings](#where-the-code-and-its-comments-disagree) ·
[what is left out](#what-is-not-modelled) ·
[plan](#plan)

## Inventory

Paths are relative to the repository. "Hard" names what a test hardly reaches.

| Component | State it keeps | Operations | Correct when |
|---|---|---|---|
| Card lifecycle (`src/server/orchestrator.ts`, `src/app/api/cards/[id]/*`) | `cards.status`, `evaluation_pending`, `startedAt`; `runs` rows; in memory a controller and control signals per run | verbs (queue, start, cancel, pause, resume, approve plan, reject, retry, restart, approve install), `pump`, `claimStage`, `claimLoopRun`, `moveCard`, `finishRun` | a card has one loop at a time, is never stuck in a stage, stays where an operator put it, and never exceeds its repository's cap |
| Stages (`planningService.ts`, `planCriticService.ts`, `evaluationService.ts`) | a run row each, plan versions, criteria results | claim, prepare, run the agent, route on its answer, re-plan | every ending closes the row and moves the card on exactly once |
| Loop run (`Orchestrator.runLoop`, `bookkeeping.ts`, `gate.ts`, `baseSync.ts`) | iteration counters, checklist, signals | iterate, gate, sync with base, complete, stop for an install script, time out | it ends within its bounds, and only its own row's closer moves the card |
| Worker registry and reaping (`workers.ts`, `boot.ts`, `Orchestrator.recover`, `reapStaleRuns`) | `workers.heartbeat_at` | register, beat, reap runs, deliveries and leases, sweep orphans at boot | what a dead worker held comes back; what a live one holds is left alone |
| Graceful shutdown (`shutdown.ts`, `releaseOwnedWork`) | draining flag, waiting window | drain, wait, give up, release, exit | nothing owned survives the process |
| Deliveries (`reviewService.ts`) | `reviews`, `review_deliveries` | approve, reject, Retry merge, claim, merge or open a PR, hand back a conflict, record, finish | an approved diff lands once, a rejected one never, and nobody waits for ever |
| Repository leases (`repoLeases.ts`) | `repo_leases` | acquire, release, take over when stale | one delivery moves a checkout at a time |
| Git (`git.ts`, `worktreeDeps.ts`, `repoClone.ts`, `repoInit.ts`) | base branch, `MERGE_HEAD`, worktrees | merge in two steps, merge base into a worktree, adopt or abort half merges | a crash between the two steps is recovered, a foreign merge is respected |
| Integrity (`integrity.ts`) | baseline hashes, ref-write log | compare hooks, config, refs at the end of a run; vet them again before a merge | an agent's tampering is seen, Radulf's own writes are not taken for it |
| Improvement runs (`improvementRuns.ts`, `improvementRunLeases.ts`) | run row, lease heartbeat, counters | drive, spawn children, stop, take over | one driver, each child counted once, limits kept |
| Schedules (`schedules.ts`, `cron.ts`) | `lastFiredAt` | minute tick, claim by compare-and-set, fire, edit | each due fire happens once, and none after a suspension |
| Clean-up (`retention.ts`, `boot.ts`, `resetCard`, the delete route) | worktrees, run rows, sweep claim | finish, reset, delete, reclaim, prune | what a finished card left goes, what a live one needs stays |
| Events (`events.ts`, `eventsTail.ts`, `api/events/stream`, `useWorkData.ts`) | `events` table, cursor, local-emit set, the board's cards | publish, tail, stream, fetch | each subscriber sees each event once, the board catches up |
| Transcripts (`transcript.ts`, `transcriptWatchers.ts`, `TranscriptView`) | a file per iteration, watcher cursors, the page's lines | append, watch, push, fetch and join | no line is skipped, no watcher stays for ever |
| Circuit breaker (`circuitBreaker.ts`, `providerRateLimit.ts`) | per-provider state in settings | record outcome, check, cool down | it opens on evidence and closes again |
| Provider login (`providerLogin.ts`) | sessions in memory | start, answer, cancel, expire | an answer reaches the question it was given to; none lives for ever |
| Epics (`epics.ts`, `scoping.ts`) | parent/child cards, order, dependencies | break down, release the next piece, complete | pieces start in order, the epic completes with its last piece |
| Agent call (`harness/index.ts`, `stuckDetector.ts`, `streamLiveness.ts`) | session, timers, reply | prompt, stream, time out, abort | the verdict is what happened, silence is bounded |
| Sandbox (`sandbox/srt.ts`, `context.ts`, `serialQueue.ts`, `guardedTools.ts`) | process-wide policy and TMPDIR, queues, process groups | queue, switch policy, run, reap | a command runs under its own run's policy |
| Install gate (`installGate.ts`) | approved package set | scan, halt, approve, rebuild | scripts run only after approval |
| Settings (`settings.ts`, `settingsCrypto.ts`, `authSecret.ts`, `useSettingsData.ts`) | settings rows, `data/auth-secret`, forms | boot, rotate, read, save | one secret, what is saved is read, no edit is lost |
| Sessions, tracker and forge clients, analytics, docs | external processes, configuration | – | not about shared control; see [below](#what-is-not-modelled) |

How they meet. The board's routes call the orchestrator of *their* process,
which writes the card row; workers learn of it by polling (`pump`) because
memory is not shared. A cancel or a pause of a run owned by another process is a
`control` column on its row, which the owner reads. A stage calls back into the
orchestrator to finish its row and to claim the next stage. An approval in a
`web` process only inserts a delivery; a worker's pump claims it together with
the repository's lease. The reaper joins the run table, the delivery table and
the lease table with the worker registry.

What is hard, everywhere: a function that awaited resumes on a row that was
closed and a card that was moved meanwhile; two processes interleave between
two statements of one synchronous function; a process dies or stalls between
two writes that belong together. `PROJECT.json` lists the hazards with the line
where each bites and the properties that cover it.

## Modules and how they correspond to the code

| Module | What it is |
|---|---|
| `Pipeline` | a card from Backlog to In Review: verbs, pump, stages, loop, reaping, shutdown |
| `Rounds` | what a card's rounds send back and forth: artifacts, verdicts, feedback, revision counters |
| `LoopRun` | the iterations of one loop run |
| `Approval`, `Delivery` | what a delivery promises; the review service, lease and git that implement it |
| `Integrity` | baselines, the ref-write log, checks at the end of a run and before a merge |
| `InstallGate` | lifecycle scripts from scan to approval |
| `Cleanup` | worktrees and rows of finished, reset and deleted cards |
| `Epics` | break-down, dependencies, order, completion |
| `ImprovementRun` | improvement runs and their drivers |
| `Schedules` | cron and the workers' tickers |
| `CircuitBreaker`, `ProviderLogin` | a provider's breaker and limits; its login from the browser |
| `AgentCall`, `Sandbox` | one agent invocation; the commands of one process's runs |
| `EventFeed`, `LiveTranscript` | a change on its way to the board; a transcript on its way to the page |
| `Settings` | settings, their forms, the secret they are stored under |
| `Absent` | the NULL that composed modules share |
| `PipelineProofs`, `DeliveryProofs` | theorems of `Pipeline`, of `Delivery`; see [proofs](#proofs) |
| `LoopProofs` | theorems of `LoopRun` and `Settings` |
| `CallProofs` | theorems of `AgentCall`, `Sandbox`, `InstallGate` and `LiveTranscript` |
| `StageProofs` | theorems of `Rounds`, `CircuitBreaker`, `ProviderLogin` and `EventFeed` |
| `ChangeProofs` | theorems of `Integrity` and `Epics` |
| `UnattendedProofs` | theorems of `ImprovementRun`, `Schedules` and `Cleanup` |
| `ServicesProofs` | theorems of the composition `MCServices` |
| `MCPipeline`, `MCDelivery` | constants, symmetry and the composition of `Delivery` with its late heartbeats |
| `MCRecovery`, `MCArrival`, `MCServices` | independent parts side by side: a behaviour is one of one part, the others rest |

### Pipeline

*State.* `status` and `evaluationPending` are columns of `cards`; `row` is the
`runs` table (a slot is freed once a row is closed and no function reads it);
`session[r]` is the async function that works for row `r`, in the memory of the
row's owner (`setup` before its controller is registered, `live` while the
harness may run, `written` for a planner past `writePlanRow`, `aborted` once the
controller fired and until the function notices); `prep[w][c][k]` counts stage
functions that were started and have no row yet; `worker`, `heartbeat` are the
processes and `workers.heartbeat_at` against `workerStaleSeconds`. `plan` keeps
of the plan row and the checklist what routing asks of them, `retryable` what
`retryableFailedStep()` answers.

*Grain.* better-sqlite3 is synchronous, so in its own process a function runs
alone between two awaits; but another process's statement may fall between two
of its statements. An action is therefore one statement or one `BEGIN IMMEDIATE`
transaction; what its synchronous function still has to write is kept in
`seg[p]`, and process `p` does nothing else before it is written. That is why
`CancelCard` closes a row in one step and moves the card in another, as
`cancelCard` does.

*Actions.* Verbs (`QueueCard`, `StartCard`, `CancelCard`, ...) are the
route plus the orchestrator method it calls; `PumpReady`, `PumpTodo` and the
pump's evaluation and re-plan passes are one claim each, with `pump`'s
priorities as guards; `StageInserts` ... `StageFails`, `Plan*`, `Critic*` and
`Evaluator*` are the services' segments; `Loop*`, `WatchdogTrips`, `Ticked` those
of `runLoop`; `Reap`, `SweepOrphan`, `ParkSegment` are `reapStaleRuns` and
`interruptRun`; `Drains`, `GivesUp`, `Releases`, `Exits` the shutdown.

*Abstractions.* One repository, as repositories share no slots; `autoMode` is
on. What an agent answers is a choice. A pump in the code reads its card lists
once per pass; here every claim sees current lists, while the claims
themselves are the code's compare-and-sets. `endActiveRun` closes any running
row of the card (the code picks the first it finds). The stage's row insert and
the status check before it are one step. A worktree's existence is not
modelled. Revision counters (`MAX_CRITIC_REVISIONS`, `MAX_EVALUATOR_REVISIONS`,
one re-plan before the check) are replaced by fairness of the outcome that ends
the revisions, which `Rounds` justifies with the counters themselves
(`RoundsEnd`). The orphan sweep's idle time is not modelled: it may fire at
any row-less card in a stage. A reaper looks at the live ids in the step of its write,
where the code reads them, then the running rows, and then writes; a dead worker's
registry row is only stale here, where the code also deletes it. `resetCard` is in `Cleanup`, scoping and epics in
`Epics`; the ready card without a plan is unreachable through the modelled verbs.

*Faults* are values of `Faults`: `crash`, `stall` (a live worker's heartbeat goes
stale), `drain`, `install` (the loop finds an unapproved lifecycle script),
`late_throw` (an error after the row was closed).

### Delivery and Approval

`Approval` is what an operator is promised: a diff lands only while its card is
being delivered, it is the diff of the card's current run, and a card is Done
only once its diff has landed. `Delivery` maps onto it with
`stage <- Stage(c)` (`reviewing` is "requested", `done` is "done", anything else
is open) and `landed <- merged \cup opened`.

*State.* `status` is `cards.status`, with `pipeline` for everything module
`Pipeline` owns; `run`, `mergeable` the latest loop run and whether it may be
approved; `review` the `reviews` table; `delivery` the `review_deliveries` table
with `fromStatus` and owner; `lease` the repository's `repo_leases` row; `merged`,
`opened` and `mergeHead` are git and the forge; `asking` holds a decision
between `claimReviewRun` and its next write; `exec[d]` is `executeDelivery` in its
owner's memory; `parking[w]` is a reaper between a delivery's row and its card.

*Actions.* `Approve`, `RetryMerge`, `Reject` end in `claimReviewRun`'s
compare-and-set; `RequestDelivery` inserts the row; `ClaimDelivery` is the claim
transaction, which takes the lease and the row together; `MergeBegins` and
`MergeCommits` are the two halves of `mergeBranch`, which checks `MERGE_HEAD`
first (abort one of this card's present tip, refuse any other, adopt a branch already
in the base); `Pushes`, `OpensPullRequest` the pull request path; `Reloops`
the hand-back of a conflict; `RecordApproval`, `FinishCard`, `Announced`,
`CloseDelivery`, `ReleasesLease` the way out; `ReapDelivery`, `Parks`, `ReapLease`,
`SweepOrphan` a peer's recovery.

*Abstractions.* A card returning to the pipeline is one step (its interleavings
are `Pipeline`'s); one that comes to Needs Attention with a new loop run may count as
cleared, as `retryMerge` reads the card's latest evaluation, which may be none or an
earlier round's (`Rounds` has the evaluations themselves). Merge or pull request is a choice at each delivery, because
the card's flag and the setting may change in between. Git's commands up to the
uncommitted merge are one step. The delivery's verdict is not kept. `abandon`
is in `Cleanup`, the check of hooks and config before the merge in `Integrity`.

*Faults:* `crash`, `drain`, `stall`, `late_throw` (an error after the commit, before
the review is recorded) and `torn` (a crash between an outcome's card move and
the close of the delivery row). Without `stall` no synchronous segment, and no
decision, lasts for a whole stale window. `late_throw` and `torn` are
apart because properties do not survive them, which is noted at the hazards: an
error after the commit returns the card to In Review with its work landed, where
it can be rejected; and a delivery row left open over a moved card lets a reaper
park a later attempt of the same card. `stall` breaks all but `TypeOK` and
`NoLeakedLease`: the lease has no fencing token, so a worker that comes back from a
stall goes on with its merge beside whoever took the lease over.

### Rounds, LoopRun and InstallGate

The three look into what `Pipeline` sees from the outside, in one process.
`Rounds` keeps a card's `plans`, its run `history`, the `files` of the worktree
(what each says and which run wrote it) and the counters of `planningService`,
`planCriticService` and `evaluationService`; a stage is one action from its
preparation to its routing, and a stage of a card is over before the next one
starts. `LoopRun` has `runLoop`'s iterations with all their counters: failures,
stalls, timeouts, unsignalled iterations, the one acceptance repair, rounds of
sync and gate. `InstallGate` has the scan at each iteration and the forced one
at the end, the checks that follow it, the halt, the page with its ticks, the approval
with its rebuild, and the resumption; a free slot is always there. After the forced scan
the acceptance commands and the gate command run, which may install (`CheckInstalls`),
and they or the sync with the base may send the loop back to work (`SentBack`, whose
rounds `LoopRun` counts); `late` keeps what they installed since that scan.

### Integrity

`repo` is the shared repository (hooks, config, base branch and another ref,
each a version), `writes` the `ref_writes` rows, `run[r]` a run from its baseline
through its check, its decision and its merge, `lease` the row of
`repo_leases`, `made` the number of versions handed out so far. `ChecksRepository` reads hooks, config and refs; an unexplained ref
makes the check wait until the lease is free or stale and compare again
(`Settle`). A delivery takes the lease, vets hooks and config (`Vets`), commits and
only then records its write; a worker may die in between. Anybody may change
hooks, config and refs from outside, which is the action `Outside`.

### ImprovementRun, Schedules, Cleanup, Epics

Each is the state of its tables and one action per stretch between two awaits:
`ImprovementRun` the driver's loop in its owner's memory against its lease's
heartbeat; `Schedules` a ticker per worker that reads due rows, then claims each by
compare-and-set, with cron's fields, matching and next fire as functions over a
calendar with short hours, days and months; `Cleanup` a job of two or three steps
per handler that checks a card, awaits git and goes on; `Epics` the pieces, with
"running" for all their stages, and scoping turns that may write a plan.

### AgentCall, Sandbox, CircuitBreaker, ProviderLogin

In-memory services. `AgentCall` counts time in ticks, and a timer that is due
fires before the clock goes on. `Sandbox` has the process-wide policy and TMPDIR,
a queue per run and the reap before trusted writes; sandboxing is on, and what a
supervisor can kill is external. `CircuitBreaker` keeps instants as ticks left;
another process may write between a count's read and its write. `ProviderLogin`
takes pi's flow as external: it asks, withdraws, settles or hangs as it likes.

### EventFeed, LiveTranscript, Settings

From the server's memory to a page. Cards are a version number, an event its
row's id, a transcript a count of lines. The network, the browser's reconnects,
`fs.watch` and the operator's clicks are external. `Settings` has four settings
for their kinds (ordinary, renamed, key, template), the boot race for
`data/auth-secret`, and forms that save whole objects.

How they are combined. Parts that share no state are not multiplied: `MCRecovery`,
`MCArrival` and `MCServices` pick a part in the initial state and leave the
variables of the others at rest. What parts do share is either in one module
(`Delivery` has the worker registry and the lease that `Pipeline`'s cards meet),
or the neighbour is reduced to its contract (`status = "pipeline"` in `Delivery`,
"running" in `Epics`, a driver's child card in `ImprovementRun`).

## Runs

| Run | Instance | What it shows |
|---|---|---|
| `single` | the default deployment: one process with both roles, 1 card, 3 run slots, all nine verbs, critic and plan review on, no faults | types; nothing is stranded (`NothingIsStranded`: a card in a stage has somebody to take it out, a running row of a live worker has a function); a late continuation neither parks another run's card (`OnlyTheOwnRunParks`) nor overwrites the first ending (`FirstEndingWins`) |
| `split` | `compose.yaml`: 1 web and 2 workers, 2 cards, cap 1, 3 slots, critic on, five verbs | claims respect the cap (`ClaimsWithinCap`) |
| `shutdown` | 1 web, a worker and one that joins late, 1 card; `crash`, `drain`, `install`, `late_throw`, `stall` | a pulled-back card stays in Backlog (`PulledBackStays`) whatever dies, drains or wakes up late; a function that goes on working loses its row only to somebody who asks it to stop, to its own worker's exit, or to a peer once it has gone silent (`LiveRunsNotReaped`), while the runs of crashed workers are reaped beside it |
| `delivery` | 2 cards of one repository, a web process, a worker and one that joins late, crashes and drains; beside it, 1 card and two workers whose heartbeats go stale | one delivery at a time, no leaked lease, rejected work never lands, `Delivery` implements `Approval`; late heartbeats leak no lease (`LateHeartbeats`) |
| `recovery` | seven parts under fairness | queued cards settle and dead runs are reaped (`CardsAreCarried`), improvement runs end (`RunsEnd`), finished worktrees go (`FinishedIsReclaimed`), breakers close and logins settle (`ProvidersComeBack`), a started card's revisions end (`RoundsEnd`); with crashes and stalls a card has one loop (`OneLoopRun`) |
| `arrival` | four parts under fairness | requested deliveries finish as long as a worker is up, an epic finishes with its pieces, the board and its watchers catch up |
| `services` | 26 parts, safety | see below |
| `two_starts`, `delivery_retry`, `uncleared_merge`, `own_merges`, `unapproved_scripts` | small instances | a comment or message that the code does not keep; see [below](#where-the-code-and-its-comments-disagree) |

`services`, by module: `Schedules` (two schedules, two tickers, three minutes, one
edit; a year of two months of two and three days, two hours of two minutes):
`OneFirePerMinute`, `SuspendedStaysQuiet`, `TimersAreSound` (a listed next fire is a
fire, one sweep a day). `ImprovementRun` (two overlapping requests; and one driver
that stalls and comes back): `OneActiveRun`, `OneDriver`, `CountersTellTheTruth`,
`NoCardAfterStop`. `LoopRun` (a run of 15 iterations, one of 6 that is handed back
again and again, two of 3 with every fault): `LoopsAreSound` (one tick per
iteration, only whole checklists are evaluated, unproductive runs stop, repairs are
bounded). `AgentCall`, `Sandbox` (two runs, three calls, two policies) and
`CircuitBreaker` (two calls of one process): `CallsAreSound`,
`FilteredByItsOwnPolicy`. `ProviderLogin` (a session in two tabs):
`AnswersReachTheirQuestion`. `EventFeed` (two processes, two events, a dropped
stream) and `LiveTranscript` (three lines and a drop; two iterations and a pick):
`NothingIsSkipped`. `Epics` (two pieces in one process; two that depend on each other in two
processes): `EpicsAreWhole`; a third instance, with scoping turns, has its types here. `Rounds`
(14 runs with one verb, 10 with two; 12 without a critic, with three): `RoundsAreSound`.
`Integrity` (one judged run beside one delivery and two outside edits; beside two
deliveries and a death): `ChecksAreExact`. `InstallGate` (one card, three installs,
three loops; two cards in two pages): `OnlyVettedScripts`. `Settings` (two processes,
four boots, two rotations; one tab with two edits): `SettingsAreKept`. `Cleanup`
(one card, every way it is finished, reset or deleted) shares `TimersAreSound` and has
its liveness in `recovery`.

Bounds and why they are enough.

- *Cards.* One card shows every race on one card, two every race for the cap,
  the lease and the checkout. Cards are interchangeable; a third only
  repeats the pair.
- *Processes.* A second worker gives a peer that claims, reaps and takes over; a
  web-only process gives the requester that cannot do the work. A restarted
  process is another worker, as it registers a fresh id; `Later` is the worker
  that has not started yet.
- *Run slots* (`Runs`). Two rows of one card exist together only when an old
  function still reads its closed row; three slots leave room for two cards' rows
  and such a remnant. `shutdown` has one, which keeps it within minutes with five
  faults; a remnant beside a new row is in `single`.
- `MaxPrep` = 1: a second stage function of the same kind, worker and card past
  its first await is not counted apart. *Delivery* `Slots` = 2: rows that
  something still reads, for two cards. `MaxRuns` = 1: every card is delivered for
  its only run.
- *Retries and counters.* Every counter's limit is passed at least once: the loop's
  failure, stall and timeout limits within 15 iterations, the improvement run's
  limits (2) within its cards, two revisions and the one after within 24 rows of runs
  (`MaxRuns` of `Rounds` is above the rows any card can make; `RoundsEnd` would fail
  if it were the bound that ends them).
- *Time.* A cool-down of one tick, a longer one for limits, resets on both sides
  of the latter; a time to live of one tick; a stall, liveness and iteration timer of
  different lengths.
- *Symmetry* is used for safety only, in `single`, `split`, `shutdown` and
  `services`. A liveness property that names a card or a slot stands for the
  others, which are interchangeable.

`CHECK_DEADLOCK FALSE` throughout: workers may be gone, cards done, a bound
reached or an operator idle, and the system may then stop. That nobody waits for
ever is said by `NothingIsStranded` and the liveness properties.

Not claimed, as TLC refutes it: `StartsWithinCap` of starts other than claims
(`two_starts`); `NothingIsStranded` of two processes (one may pull a card back or
reap a row between two statements of the other) and with the faults `install` and
`late_throw`; `OpensOnEvidence` of two processes, which write a count that either
has read; `EpicDoneIsWhole` of two processes, where a piece is added between the
check and the write, and of a scoped epic; `FinishedIsReclaimed` with pruning, which
removes an aged run that the worktree's row hangs on while a younger one keeps the
directory.

## Fairness

Operators and faults owe nothing, anywhere.

- *Pipeline.* Weak fairness of each process's own steps: the event loop resumes
  what was awaited, harness calls end or time out, the pump and the heartbeat are
  timers. Weak fairness of a dead worker's heartbeat going stale: time passes. Strong
  fairness of reaping, as every tick looks again, and of the outcomes that end a
  revision (`PlanAccepted`, `CriticConcludes`, `EvaluatorPasses`): the code counts
  revisions and stops at a maximum, which `RoundsEnd` checks with the counters.
- *Rounds.* Weak fairness of the stage that has begun: an agent has its watchdogs
  (`AgentCall`). No fairness between outcomes.
- *Deliveries.* Weak fairness of a decision past its claim, of each execution's
  steps, of boot, parking and exit, and of a dead worker's heartbeat going stale. Strong
  fairness of claiming a delivery, which is enabled again and again while the lease
  changes hands (the pump takes the oldest first), and of reaping one.
- *Improvement runs.* Weak fairness of each worker's timers and driver, of the
  proposer's answer (it is killed after 15 minutes), of the clock, and of a started
  card coming to rest.
- *Clean-up.* A job that is not killed goes on; every pump tick sweeps.
- *Providers.* Time passes; a failed call writes what it has read; the page polls a
  login it shows. pi owes nothing: a login that hangs must expire.
- *Epics, feed, transcripts.* A process goes on, the pump fills a free slot, a run
  ends and a review is answered; timers go off, a browser reconnects and is answered,
  file reads come back.

## Proofs

Each theorem holds for every value of the module's constants: any number of
cards, workers, web processes, slots, runs, schedules, calls, scripts and pages, any
cap. The bounds (`Later`, `Runs`, `Slots`, `MaxRuns`, `MaxPrep`, `Horizon`, `MaxEdits`, ...)
are constants of the theorems too. Where the table names no fault, it holds under
all of them. `Spec =>` is left out of the statements.

| Theorem | States | Argument |
|---|---|---|
| `PipelineProofs!TypeCorrect` | `[]TypeOK` | with `HeldRows`: what a function or a segment holds is a row of its process; one lemma per group of actions |
| `PipelineProofs!LoopIsAlone` | `[]OneLoopRun` | only a claim inserts a loop row, and `claimLoopRun` refuses a card with any running row in the transaction of its insert |
| `PipelineProofs!FirstEnding` | `FirstEndingWins` of every step | every action that sets `retryable` closes a running row of that card and kind in the same step |
| `PipelineProofs!PulledBack` | `PulledBackStays` of every step | every move is a compare-and-set from another status; the segments that still hold a move were queued with a source status that is not Backlog (`PendingMoves`) |
| `PipelineProofs!ClaimsWithinTheCap` | `ClaimsWithinCap` of every step | the claim counts the load in its own transaction; the card it adds is one |
| `PipelineProofs!OnlyTheDeadAreReaped` | `LiveRunsNotReaped` of every step | see *Reaping* |
| `PipelineProofs!NothingStranded` | `[]NothingIsStranded`, one process that at most stalls | see *One process* |
| `PipelineProofs!OwnRunParks` | `OnlyTheOwnRunParks` of every step, likewise | see *One process* |
| `DeliveryProofs!TypeCorrect` | `[]TypeOK` | with `Claims`: whatever executes has a claimed row with an owner that has started |
| `DeliveryProofs!LeaseComesBack` | `[]NoLeakedLease` | a claim takes the lease and starts the function in one transaction, and every way out of the function ends in the release |
| `DeliveryProofs!DeliveriesExclude` | `[]OneDeliveryAtATime`, without `stall` | see *Deliveries* |
| `DeliveryProofs!DeliveriesImplementApproval` | `ImplementsApproval`, without `stall` and `torn` | see *Deliveries* |
| `DeliveryProofs!RejectionHolds` | `[]RejectedNeverLands`, without `stall`, `torn` and `late_throw` | see *Deliveries* |
| `ChangeProofs!AlarmsExplained` | `ExplainedAlarm` of every step | see *Integrity* |
| `ChangeProofs!MergesVetted` | `Vetted` of every step | see *Integrity* |
| `UnattendedProofs!OneRunAtATime` | `[]OneActiveRun` | at most one active row (`AInv`): the insert looks for an active run in its own transaction |
| `UnattendedProofs!StopsAreHeard` | `NoCardAfterStop` of every step | a stop moves the run's deadline to now and nothing moves it back (`StopsArePast`); the driver looks at the deadline in the segment that inserts the card |
| `UnattendedProofs!OneDriverOfARun` | `[]OneDriver`, which speaks of states before the first stall | whoever drives a run is its row's worker and beats (`Holds`), so an adopter finds no stale lease |
| `UnattendedProofs!CountersAreTrue` | `[]CountersTellTheTruth`, likewise | the row's card is the run's own and uncounted, and what its driver remembers is what the row says (`Linked`); a card is counted in the segment that takes it off the row, so an adopter finds it there or not at all |
| `CallProofs!ScriptsAreVetted` | `[]OnlyVettedScripts` | see *Install gate* |
| `CallProofs!NothingIsUnapproved` | approved scripts stay approved | approvals merge into the stored list in one transaction |
| `UnattendedProofs!OneFireForAMinute` | `[]OneFirePerMinute` | no minute is fired after a row's `lastFiredAt`, which is in the past, and a row read as due was last fired before the minute of its tick (`FInv`); the claim compares what was read |
| `UnattendedProofs!SuspendedIsQuiet` | `SuspendedStaysQuiet` of every step | the claim asks for the row as enabled |
| `CallProofs!OwnPolicy` | `[]FilteredByItsOwnPolicy` | the count of commands is exact, the claimed policy is that of each of them, and it is applied once a command is past its wrapping (`PInv`); another policy is claimed only when the count is zero |
| `CallProofs!FileToolsAreAlone` | `[]FileToolsRunAlone` | see *Sandbox* |
| `CallProofs!TmpdirIsBorrowed` | `[]TmpdirIsTheRuns` | see *Sandbox* |
| `CallProofs!SandboxTypes`, `UnattendedProofs!SchedulesAreTyped`, `UnattendedProofs!RunsAreTyped`, `CallProofs!GateIsTyped` | `[]SandboxTypeOK`, `[]SchedTypeOK`, `[]RunTypeOK`, `[]GateTypeOK` | parts of the inductive invariants; the count of commands is bounded because it is that of the calls which hold the policy |
| `ChangeProofs!GraphIsFollowed` | `[]DependenciesFirst`, run mode `graph` only | see *Epics* |
| `ChangeProofs!DoneIsWhole` | `[]EpicDoneIsWhole`, one process, no plan written by scoping turns | see *Epics* |
| `UnattendedProofs!DaysAreSweptOnce` | `[]OneSweepADay` | see *Clean-up* |
| `LoopProofs!TicksAreWorkedFor`, `HandedOverWhole`, `RepairsAreFew`, `IdlersAreStopped` | `[]OneTickPerIteration`, `[]EvaluatedIsWhole`, `[]RepairsAreBounded`, `[]UnproductiveRunsStop` | see *Loop run* |
| `LoopProofs!SecretIsShared`, `SavedIsWhatIsRead`, `EditsStay` | `[]OneSecret`, `[]SavedIsRead`, `[]EditsAreKept` | see *Settings* |
| `CallProofs!VerdictsAreTheCalls`, `SilenceEnds` | `[]VerdictIsTheCalls`, `[]SilenceIsBounded` | see *Agent call* |
| `CallProofs!PushesHaveNoGaps`, `NoLineIsSkipped` | `[]PushesAreGapless`, `[]NoLineSkipped`, which speaks of a page whose operator has picked no iteration | see *Live transcript* |
| `StageProofs!VerdictsAreOwn` | `OwnVerdict` of every step | see *Rounds* |
| `StageProofs!EvidenceIsFresh`, `RevisionsBounded`, `FeedbackAnswered` | `[]EvidenceIsOfThisCycle`, `[]RevisionsAreBounded`, `[]FeedbackIsAnswered` | see *Rounds* |
| `StageProofs!BreakerHasEvidence` | `[]OpensOnEvidence`, calls of one process | see *Breaker* |
| `StageProofs!AnswersAreForTheirQuestion` | `AnswersItsQuestion` of every step | see *Login* |
| `StageProofs!EventsAreHeardOnce` | `[]BusDeliversOnce` | see *Event feed* |
| `LoopProofs!LoopsAreTyped`, `LoopProofs!SettingsAreTyped`, `CallProofs!CallsAreTyped`, `CallProofs!TranscriptsAreTyped`, `StageProofs!RoundsAreTyped`, `StageProofs!LoginsAreTyped`, `StageProofs!FeedsAreTyped`, `UnattendedProofs!CleanUpIsTyped` | the type invariants of the components of these names | parts of the inductive invariants |
| `ServicesProofs!LoopsSound`, `CallsSound`, `NothingSkipped`, `AnswersReach`, `EpicsWhole`, `SettingsKept`, `ChecksExact`, `RoundsSound` | `[]LoopsAreSound`, `[]CallsAreSound`, `[]NothingIsSkipped`, `AnswersReachTheirQuestion`, `[]EpicsAreWhole`, `[]SettingsAreKept`, `ChecksAreExact`, `RoundsAreSound`, of every behaviour of the composition that the run `services` checks | see *Composition* |

*Assumptions.* `Pipeline` and `Delivery` state theirs as `PipelineAssumption` and
`DeliveryAssumption`, which TLC evaluates. The other theorems name theirs in the
statement. Most say what kind of value each constant is: `RunBounds`, `SchedSane`,
`CleanBounds` (`UnattendedProofs`), `Budgets`, `SettingsSane` (`LoopProofs`),
`CallLimits`, `BoxBounds`, `GateBounds`, `TranscriptBounds` (`CallProofs`),
`RoundBounds`, `LoginSpans`, `FeedBounds` (`StageProofs`), `Numbered`, `ChecksSound`
(`ChangeProofs`). Two limit the system: `PipelineProofs!OneProcess(w)` says that `w` is
the only process and `Faults` has at most `stall`; `StageProofs!OneProcess` says that all
calls of a provider are one process's. In `ServicesProofs` all constants have the
values of the run, except the model values: `Absences` says that NULL and the mask
are no numbers, records or functions, and `Supervised` that every call is of a run,
there are finitely many, and a run is supervised in one of the three ways.

*One process.* Neither property is inductive. `AInv(w)` adds: the worker is up; what
was aborted has a closed row (`AbortedIsClosed`); a card whose row of kind loop runs is
looping, and the other way round (`LoopingRunsLoops`), with no other running row
beside it; what is left of the segment is about the card's state now
(`SegmentFollows`); a card in a stage has a stage function on its way, a row, or the
rest of a segment that moves it (`StagesAreAttended`); and a running row is held by a
function. With them a late continuation of an earlier loop finds its own row
closed, so its `finishRun` answers false and it leaves the card alone. The install
gate is the one place that ignores that answer, which is why `install` is excluded
(and so is an error after a row was closed, `late_throw`): TLC refutes both
properties with them. Processes that die or drain leave work to their peers, and
two processes interleave inside a segment, where the properties do not hold either.

*Deliveries.* Nothing in `OneDeliveryAtATime` says why the lease of an executing
worker cannot be taken. `Exclusive` adds that a process which is alive has a fresh
heartbeat, and that whatever executes holds the lease. A take-over needs a stale
holder, so it meets no executing function. For the refinement, `CardInv` says who may
move a card that is being delivered: one decision past its claim, one open delivery,
or one reaper that closed a row and has yet to park the card; never two of them, and
meanwhile the card is `reviewing` and its latest run is the one decided. Exclusion is
needed for the checkout: `MERGE_HEAD` belongs to the delivery that merges, because no
other one executes (`Checkout`). With both, each commit, push and pull request lands
the diff of a card in the abstract state "requested", and each outcome is the abstract
`Return` or `Complete`. For rejection, `Verdicts` adds that a run in the charge of a
delivery is not rejected, that a run which may be rejected has not landed, and that no
outcome returns a card to In Review after something landed. The last part is what an
error after the commit breaks (`late_throw`), and only that one.

*Integrity.* A check raises an alarm only for hooks, config or a ref that somebody
outside changed since the run's baseline, or where Radulf's own record is known
to be short: two merges moved the branch meanwhile (the finding `own_merges`), or a
worker died between its commit and its record. Why: when the check compares again, the
lease is free or its holder dead, so nobody is between commit and record (`Calm`);
every merge whose worker lived has then its row, there are no more rows than merges
(`RowsAreMerges`), and the branch follows the merges except where it was changed
from outside (`RefsFollow`). So a single merge since the baseline is found in the
rows with the sha the branch has. `Versioned` says that a version is never handed out twice, so
hooks or config that were changed differ from the baseline; `Shape` ties a run's phase to what it has read.
`MergesVetted` needs `Versioned` and that a merge follows a check that found nothing
but what was agreed to.
`IInv`, their conjunction with the types, was model-checked before it was proved.
`ServicesProofs!ChecksExact` carries both actions to the two repositories of `services`.

*Reaping.* Only a reaper and a worker that lets go close a row without asking its
function to stop (`WhoCuts`, one lemma per group of actions); a reaper is never the
owner, because it counts its own id as live, so the owner's segment is untouched. That a
reaper needs the owner's stall follows from `HeldByTheLiving`, which holds where nobody
stalls: a live process has a fresh heartbeat, and a row whose function exists has a live
owner. So without `stall` a reaper takes only the runs of the dead.

*Install gate.* `GateInv`: a page belongs to a card; what a page asked to approve was
ticked by the operator, and so was what it has found of that in the tree; the
approved set a scan goes by may be old but was never more than what is approved now
(`ScansAreCurrentOrOlder`, as nothing is taken off the list); everything approved was
ticked (`ApprovedWereChecked`); and a card at its last checks, or handed over by its
loop, has only approved scripts in its tree but for what those checks installed
(`LoopIsGated`).

*Sandbox.* `FileToolsRunAlone` needs to know why two calls of a run are never both at
work. `QInv`: nobody is twice in a run's line, every call is in the line of its run and at
its head once it is at work (`Lined`); the gate, which stands in no line, has beside it
only calls of sessions that are over, none of which touches a path (`GateAlone`). So a
spawn, the only step that adds a process, is never beside another call that touches a
path (`OneAtATime`): both would be at the head of one line, or one of them the gate.
`RecordsFollow` says that what a run has left running is recorded as started,
which is what `reap` goes by. For TMPDIR, `TInv`: the line of the wrapping holds exactly
the calls that wait for it or are at it, once each; who is at it is at the head, and
remembers that nobody had TMPDIR before. Without the last part, what it restores would
be another run's.

*Epics.* Both theorems start from what a step may do to the status of any one card
(`Goes`): a row never comes to be again, a finished one stays finished or is deleted, and
the pump is the only way off the queue. `DependenciesFirst` then follows from a state
that says it of every piece beyond the queue, `ready` included, and from `DepsAreThere`:
what a piece depends on was created with it, so a later breakdown adds nothing that an
older piece waits for. A second breakdown under another mode would inherit pieces that
ran in another order, so the theorem has `graph` as the only mode. `EpicDoneIsWhole`
adds that an epic with pieces rests in Backlog or a final status, and that between
reading the pieces and moving the epic its process does nothing else; with two processes
TLC refutes it.

*Loop run.* `LInv` is about the one run there can be. Its card is at it, or was
cancelled (`CardIsAtIt`). The iteration under way has ticked nothing yet, so there is
one tick fewer than iterations while it works (`TicksAreEarned`). It has an open task,
and past the last iteration nothing is open and nothing half merged (`TaskIsOpen`): a
conflict that the sync leaves behind goes back to the top with a task of its own.
Every task that was added is the repair or one of a round (`AddedTasks`). That idle
runs stop needs a count over three counters with different resets: `IdleIsCounted`
says that the idle iterations since the last progress are at most the failures, the one
time-out and three for every stall; or one more edit was never signalled, for up to
nine iterations more, and then it is still in the tree.

*Settings.* `SecretInv`: nobody is of a later epoch than there were rotations; the
file that is there is that of everybody who booted since the last one, its creator
included before it has written it. `RowsInv`: the table holds what was last saved.
`TabsInv`: what was typed since a save began is in the form and is not what was sent,
and an answer overwrites only what still is what was sent.

*Agent call.* What is left of the stall timer and what was silent never exceed the
limit (`TimerIsDue`), although the timer is only set again when it goes off. Until
something trips the call its error is that of its last request, and after an abort
the error kept from before it is (`ErrorIsTheRequests`, `OutcomeIsTheRequests`).

*Live transcript.* A watcher has one read at a time, which starts at its cursor, and
has pushed as far as its cursor (`OneReadAtATime`). The page's lines follow each
other by one at most, and neither its cursor nor what it is about to append starts
past the last line it shows (`ViewFollows`).

*Event feed.* A change has its row or a process about to insert it
(`RowsAreOfChanges`). A tailer's place is between its boot and the last row, and what it
noted as its own process's lies past that place (`PlacesAreOfRows`). Hence what was
heard is exactly what the tailer has passed since it booted and what the process has
emitted itself, once each (`HeardIsPassed`).

*Rounds.* `RInv` ties the files of the worktree to the runs. A stage works for the
newest row, one of its kind (`StageHasRow`); the gate's result, the notes and the
draft are of the code there is or missing (`FilesAreOfCode`, `StageIsOfCode`); what is
there of an artifact its own agent has written, as every stage deletes the old one
before its session (`ArtifactsAreOwn`). The bounds on revisions are counted from the
history, so the invariant adds that a planner told to revise may still do so
(`RevisionsLeft`), that rows and loops are about the newest version (`RowsAreOfPlan`,
`LoopIsOfPlan`), and that every version has a run which wrote it (`VersionsHaveRuns`).

*Breaker.* In one process the function that records an outcome is not interrupted
(`OneWriter`), so what it writes it has read from the row as it is
(`WritesWhatItRead`), and the row's count is never more than the failures met since the
last success. Two processes read the same count and lose one.

*Login.* The question a session holds is the last its flow has asked, and the flow
waits for it (`PendingIsAsked`); a token on a screen was a session's
(`TokenHasSession`). An answer carries the token of its question.

*Clean-up.* The marker is a day that has come, and the days after it have had no sweep
(`SweepsAreClaimed`): the marker is moved in the statement that compares it.

*Composition.* A behaviour of `MCServices` is one of one part (`PartStays`). For each part
`<Part>IsProved` unfolds the two instances, that of the composition and that of the
module of theorems, into each other, and `<Part>Runs` concludes that a behaviour of the
part is one of the component. What the component's theorems say then holds of the
part, and the theorem joins them.

*Layout.* A step of an invariant is one lemma per action or group of actions; a
lemma names the actions that cannot disturb it and dispatches them by what they
leave unchanged. Functions are updated one index at a time
(`![r] = [@ EXCEPT !.a = x, !.b = y]`), and a sequence is recognised by its function
space (`FunctionIsSeq`): the forms that the solver's encoding gets right.

Only model-checked:

- all liveness, because fairness and `ENABLED` are beyond the prover;
- `LateHeartbeats`: `TypeCorrect` and `LeaseComesBack` say the same of `Delivery` for
  every set of faults, but nothing is proved of its composition with late heartbeats;
- `MCServices!TypeOK`: the type invariants of its components are proved one by one,
  except those of `Epics`, `Integrity` and `CircuitBreaker`, whose invariants keep only
  the types they need;
- of `TimersAreSound` that a listing shows what fires: it folds over the next fire
  times, which needs induction over data (`OneSweepADay` is proved);
- the violations, which are about counterexamples.

## Where the code and its comments disagree

Each of the five has a run that TLC finds violated.

1. **Two starts of one slot** (`two_starts`, `orchestrator.ts:1416`). `claimStage`'s
   comment promises that two workers cannot pass the load check together;
   `retryFailedStep` sends a finished loop to evaluation through `pipelineBusy()` and
   plain `moveCard()`. Two workers that both serve the UI exceed the cap by one.
2. **Retry merge after a stall** (`delivery_retry`, `reviewService.ts:355`).
   `failDelivery` tells the operator that Retry merge records a merge that already
   landed. If the stalled worker records its approved review after its delivery was
   failed, `approveClaimedRun` answers ok and changes nothing: the card rests in Needs
   Attention with its work in the base branch.
3. **A merge under an earlier round's verdict** (`uncleared_merge`,
   `reviewService.ts:168`). A loop run is said to be merge-eligible only under a
   verdict that cleared it; `retryMerge` asks for the card's latest evaluate row, which
   is an earlier round's when the later evaluator never got a row.
4. **Alarms over Radulf's own merges** (`own_merges`, `integrity.ts:235`). An
   unexplained ref is compared again with the snapshot it was found in and only with
   the latest recorded sha; two deliveries around one check raise an alarm that the
   comments exclude.
5. **An unapproved script before the evaluator** (`unapproved_scripts`,
   `orchestrator.ts:1416`, `2700`). The gate's comment says nothing unapproved may reach
   the evaluator; retrying a loop that failed on its integrity check, which comes
   before the gate, and approving only some of the scripts both lead there.

Met while modelling, with no run of their own:

- `cancelCard` (1371) leaves `evaluation_pending` set; `moveCard`'s comment (789) says
  leaving Needs Attention by any route clears it.
- `checkInstallGate` (2613) parks the card whatever `finishRun` answered; `fail()`'s
  comment (1958) says a stale continuation must not.
- An abort during `createSession` is lost (`harness/index.ts:335` against 222-227).
- `resetCard` awaits git between its check (2752) and the deletion of the rows (2773).
- A form that was loaded before a key was stored sends "" and erases it (against
  `settings.ts:293-294`); a stale tab's save overwrites another tab's; after a rotation
  an undecryptable key shows as unset, and a save overwrites it; a process that dies
  between creating and writing `auth-secret` leaves an empty file on which every boot
  fails (`authSecret.ts:49`).
- "Exactly one probe run is let through" (`circuitBreaker.ts:221-222`) is not enforced.
- A pushed transcript line may be shown twice (against `transcriptPushDecision.ts:11`).
- An `ITERATION_DONE` left by a failed iteration is credited to the next
  (`specs/11-loop-performance.md:286`, `docs/ARCHITECTURE.md:179`,
  `bookkeeping.ts:355-372`).
- Deleting the last unfinished piece never completes its epic, nor does a crash
  between a piece's move to Done and `completeEpicIfFinished`; `adoptScopingPlan`
  (1150-1164) and `startEpic` (1287-1313) act on a card that moved on meanwhile.
- Feedback on a plan is dropped when its second version is sent back by the critic or
  the pre-check (`docs/HOW_IT_WORKS.md:130`); a stale `GATE.md` is read within one loop
  run (`evaluationService.ts:172-176`); the critic has no abort check after its session.
- `git.ts`'s path for a branch already merged (404-423) records no ref write, and the
  record after a commit reads HEAD.
- What the acceptance commands or the gate command install after the forced scan
  (`orchestrator.ts:2244-2393`) goes to the evaluator unscanned, against the comment of
  `unapproved_scripts`; `LoopIsGated` excepts exactly that.
- `reapStaleRuns` reads the live ids (589) before the running rows: a worker that beats
  again, or registers and claims a run, in between is reaped while it works (against
  "Safe to run from any worker at any time", 563).
- `npm rebuild <name>` runs the scripts of every version of that name
  (`installGate.ts:266-278`).

## What is not modelled

Per component, in `PROJECT.json` ("components"). In short: what an agent writes is a
choice; what git, npm, gh, pi, the file system and the network do is a choice of
outcome; rendering, wording, logging, prompts and diagnoses are left out. Not
modelled at all are analytics, benchmarks and docs, which read or validate only;
sessions and the login rate limiter; Jira import and webhooks; model discovery and
usage accounting; building the sandbox's configuration; the evaluator's own integrity
baseline (the same operation again) and the purge of `ref_writes`; cloning and
dependency install; `sweepStaleAttention`'s announcements; scoping turns with
`reply: false`; the migration lock.

## Plan

Done: the modules above, and the theorems of the table.

Next, in order of weight:

1. The types of `Epics`, `Integrity` and `CircuitBreaker` as theorems, and with them
   `MCServices!TypeOK`.
2. `LateHeartbeats` of the composition, from `DeliveryProofs`.
3. Two processes' breakers: how many failures a lost update may cost.
