----------------------------- MODULE MCArrival ------------------------------
(***************************************************************************)
(* What is under way arrives: the liveness of deliveries, epics, the event *)
(* feed and live transcripts, each with the faults its code handles and    *)
(* under the fairness that its timers and awaits justify.                  *)
(*                                                                         *)
(* As in MCRecovery, a behaviour is one of one part.                       *)
(***************************************************************************)
EXTENDS Integers

CONSTANTS c1, c2, w1, w2, d1, d2, None, Off

VARIABLES
  part,
  status, run, mergeable, review, merged, opened, mergeHead, asking, delivery, exec, lease,
  worker, heartbeat, parking,
  cards, epic, turns, checking, presses,
  version, rows, unsent, tail, stream, board, gets,
  live, file, news, watcher, pushes, tab, fetch, used

\* Deliveries of two cards of one repository; the worker may crash or drain,
\* and another one boots meanwhile.
D == INSTANCE Delivery WITH
  Cards <- {c1, c2}, Workers <- {w1, w2}, Web <- {}, UiWorkers <- {w1}, Later <- {w2},
  Slots <- {d1, d2}, MaxRuns <- 1, Faults <- {"crash", "drain"}

\* Three pieces, ordered or with any acyclic dependencies, in two processes.
E == INSTANCE Epics WITH
  Pieces <- 1..3, Web <- "web", Worker <- "worker", Cap <- 2, AutoMode <- TRUE,
  ReviewPlan <- FALSE, AuthorsPlan <- FALSE, Modes <- {"ordered", "graph"},
  Verbs <- {"breakdown", "start_all", "cancel", "abandon", "park"},
  MaxBreakdowns <- 1, MaxVerbs <- 1

\* Two changes, of the web process or a worker; one drop or restart.
F == INSTANCE EventFeed WITH
  tab <- board, fetch <- gets,
  Procs <- {"web", "worker"}, Web <- "web", MaxEvents <- 2, Buffer <- 1,
  Fetches <- {1}, MaxDrops <- 1

\* A run of one iteration that writes two lines.
T == INSTANCE LiveTranscript WITH
  run <- live,
  Iterations <- 1, Lines <- 2, Chunk <- 1, MaxPicks <- 0, MaxDrops <- 0

epicVars == <<cards, epic, turns, checking, presses>>
feedVars == <<version, rows, unsent, tail, stream, board, gets>>
liveVars == <<live, file, news, watcher, pushes, tab, fetch, used>>
deliveryVars == <<status, run, mergeable, review, merged, opened, mergeHead, asking,
                  delivery, exec, lease, worker, heartbeat, parking>>
allVars == <<part, deliveryVars, epicVars, feedVars, liveVars>>

NoDelivery == /\ status = Off /\ run = Off /\ mergeable = Off /\ review = Off /\ merged = Off
              /\ opened = Off /\ mergeHead = Off /\ asking = Off /\ delivery = Off /\ exec = Off
              /\ lease = Off /\ worker = Off /\ heartbeat = Off /\ parking = Off
NoEpic == cards = Off /\ epic = Off /\ turns = Off /\ checking = Off /\ presses = Off
NoFeed == /\ version = Off /\ rows = Off /\ unsent = Off /\ tail = Off /\ stream = Off
          /\ board = Off /\ gets = Off
NoLive == /\ live = Off /\ file = Off /\ news = Off /\ watcher = Off /\ pushes = Off
          /\ tab = Off /\ fetch = Off /\ used = Off

ArrivalInit ==
  /\ part \in {"delivery", "epic", "feed", "live"}
  /\ IF part = "delivery" THEN D!Init ELSE NoDelivery
  /\ IF part = "epic" THEN E!EpicsInit ELSE NoEpic
  /\ IF part = "feed" THEN F!FeedInit ELSE NoFeed
  /\ IF part = "live" THEN T!LiveInit ELSE NoLive

ArrivalNext ==
  /\ UNCHANGED part
  /\ \/ /\ part = "delivery" /\ D!Next
        /\ UNCHANGED <<epicVars, feedVars, liveVars>>
     \/ /\ part = "epic" /\ E!EpicsNext
        /\ UNCHANGED <<deliveryVars, feedVars, liveVars>>
     \/ /\ part = "feed" /\ F!FeedNext
        /\ UNCHANGED <<deliveryVars, epicVars, liveVars>>
     \/ /\ part = "live" /\ T!LiveNext
        /\ UNCHANGED <<deliveryVars, epicVars, feedVars>>

-----------------------------------------------------------------------------
(* Fairness.                                                               *)

\* Awaits end (git, gh and the database answer or time out), timers fire, dead
\* workers age; a pending delivery that is claimable again and again is
\* claimed, because a pump takes the oldest one first.  Operators, the
\* pipeline and the faults owe nothing.
DeliveryFairness ==
  /\ WF_deliveryVars(part = "delivery" /\ \E a \in asking : D!Deciding(a))
  /\ \A d \in {d1, d2} :
       /\ WF_deliveryVars(part = "delivery" /\ D!Execution(d))
       /\ SF_deliveryVars(part = "delivery" /\ \E w \in {w1, w2} : D!ClaimDelivery(w, d))
       /\ SF_deliveryVars(part = "delivery" /\ \E w \in {w1, w2} : D!ReapDelivery(w, d))
  /\ \A w \in {w1, w2} :
       /\ WF_deliveryVars(part = "delivery" /\ worker[w] = "gone" /\ D!Ages(w))
       /\ WF_deliveryVars(/\ part = "delivery"
                          /\ \/ D!BootEnds(w) \/ D!Parks(w) \/ D!Exits(w)
                             \/ \E d \in {d1, d2} : D!Releases(w, d))

\* A process goes on; the pump fills a free slot; a run ends, and a review is
\* answered.
EpicFairness ==
  /\ \A w \in {"web", "worker"} : /\ WF_epicVars(part = "epic" /\ E!ReadPieces(w))
                                  /\ WF_epicVars(part = "epic" /\ E!CompleteEpic(w))
  /\ \A c \in 0..3 : /\ WF_epicVars(part = "epic" /\ E!LoopReady(c))
                     /\ WF_epicVars(part = "epic" /\ E!PlanNext(c))
                     /\ WF_epicVars(part = "epic" /\ (E!Pass(c) \/ E!Park(c)))
                     /\ WF_epicVars(part = "epic" /\ E!Deliver(c))

\* A handler returns, timers go off, a browser reconnects and is answered.
FeedFairness ==
  /\ \A p \in {"web", "worker"} : /\ WF_feedVars(part = "feed" /\ F!EmitEvent(p))
                                  /\ WF_feedVars(part = "feed" /\ F!TailEventsOnce(p))
  /\ WF_feedVars(part = "feed" /\ F!Serve(1))
  /\ WF_feedVars(part = "feed" /\ F!HandleCards(1))
  /\ WF_feedVars(part = "feed" /\ F!Connect)
  /\ WF_feedVars(part = "feed" /\ F!Opened)
  /\ WF_feedVars(part = "feed" /\ F!Lost)
  /\ WF_feedVars(part = "feed" /\ F!Receive)
  /\ WF_feedVars(part = "feed" /\ F!Refetch)

\* The tailer and the scan are timers, and file reads come back.
LiveFairness ==
  /\ WF_liveVars(part = "live" /\ T!HearNews)
  /\ WF_liveVars(part = "live" /\ T!Scan)
  /\ WF_liveVars(part = "live" /\ T!Pump)
  /\ WF_liveVars(part = "live" /\ \E r \in watcher.reads : T!PumpReads(r) \/ T!PumpEmits(r))

ArrivalSpec ==
  /\ ArrivalInit /\ [][ArrivalNext]_allVars
  /\ DeliveryFairness /\ EpicFairness /\ FeedFairness /\ LiveFairness

-----------------------------------------------------------------------------
(* Properties.                                                             *)

\* claimPendingDeliveries: a delivery that was asked for is finished, as long
\* as some worker is up: its worker may crash, drain or lose the lease
\* meanwhile (d1 stands for both slots, which are interchangeable).
Open(d) == part = "delivery" /\ delivery[d].st \in {"pending", "running"}
DeliveriesFinish ==
  Open(d1) ~> (~Open(d1) \/ \A w \in {w1, w2} : worker[w] \notin {"booting", "up"})

\* heldByEpicOrder, completeEpicIfFinished: as long as no piece is parked,
\* pulled back or paused, all get their turn, whatever waits for whatever, and
\* the epic finishes with the last of them, unless all were abandoned.
EpicFinishes ==
  (part = "epic" /\ E!Moving)
    ~> (part = "epic" /\ (~E!Moving \/ \A p \in E!Children : E!Status(p) = "abandoned"))

\* useWorkData.ts: no change made after the page's stream first opened goes
\* unnoticed: the page shows the cards as of that change, or of a later one,
\* at least once.
Unseen == version > board.since /\ board.best < version
ChangesReachTheBoard == (part = "feed" /\ Unseen) ~> (part = "feed" /\ ~Unseen)

\* transcriptWatchers.ts: a transcript is not watched for ever once its run is
\* over, though a run's events may be heard long after its rows have changed.
WatchersEnd == (part = "live" /\ ~live.live) ~> (part = "live" /\ watcher.iteration = 0)

\* A page ends up with what there is to see, and its watcher ends.
PagesCatchUp == ChangesReachTheBoard /\ WatchersEnd
=============================================================================
