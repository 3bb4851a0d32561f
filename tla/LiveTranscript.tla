--------------------------- MODULE LiveTranscript ---------------------------
(***************************************************************************)
(* The live transcript of a loop run: the worker appends lines to one file *)
(* per iteration, the web process watches the file of the latest one       *)
(* (transcriptWatchers.ts, transcript.ts) and pushes what it reads over    *)
(* the event stream; the card page (TranscriptView) fetches what is there  *)
(* and appends the pushes to it.                                           *)
(*                                                                         *)
(* A cursor counts lines, for bytes.  The writer, fs.watch, the network    *)
(* and the clicks of the operator are external.                            *)
(***************************************************************************)
EXTENDS Integers, Sequences

CONSTANTS Iterations, \* iterations of the run
          Lines,      \* lines of a transcript file
          Chunk,      \* lines a read returns at most (TRANSCRIPT_CHUNK_BYTES)
          MaxPicks,   \* iterations the operator clicks on
          MaxDrops    \* times the stream drops

VARIABLES run,     \* the rows: [live, iteration]
          file,    \* [iteration -> [lines, half]]: half a line may be there
          news,    \* events of the run the web process has not heard of yet
          watcher, \* [iteration, cursor, event, reads, again]: the registry's entry
          pushes,  \* on the stream to the tab, in order
          tab,     \* TranscriptView's refs and lines
          fetch,   \* its GET in flight
          used     \* picks and drops so far

liveVars == <<run, file, news, watcher, pushes, tab, fetch, used>>

Files == 1..Iterations
NoWatcher == [iteration |-> 0, cursor |-> 0, event |-> FALSE, reads |-> {}, again |-> FALSE, pushed |-> 0]
NoFetch == [pc |-> "none", of |-> 0, from |-> 0, upto |-> 0, more |-> FALSE, reset |-> FALSE,
            replace |-> FALSE]

LiveTypeOK ==
  /\ run \in [live : BOOLEAN, iteration : 0..Iterations]
  /\ file \in [Files -> [lines : 0..Lines, half : BOOLEAN]]
  /\ watcher.iteration \in 0..Iterations /\ watcher.cursor \in 0..Lines
  /\ \A i \in DOMAIN pushes : pushes[i].of \in Files
  /\ tab.of \in Files /\ tab.cursor \in 0..Lines
  /\ fetch.pc \in {"none", "sent", "back"} /\ fetch.of \in 0..Iterations

\* The page shows the run's first iteration; its first load is under way.
LiveInit ==
  /\ run = [live |-> TRUE, iteration |-> 1]
  /\ file = [f \in Files |-> [lines |-> 0, half |-> FALSE]]
  /\ news = <<"iteration.started">>
  /\ watcher = NoWatcher
  /\ pushes = <<>>
  /\ tab = [of |-> 1, live |-> TRUE, cursor |-> 0, first |-> TRUE, resync |-> TRUE,
            timer |-> 0, shown |-> <<>>, open |-> TRUE]
  /\ fetch = [NoFetch EXCEPT !.pc = "sent", !.of = 1, !.replace = TRUE]
  /\ used = [picks |-> 0, drops |-> 0]

-----------------------------------------------------------------------------
(* The worker.                                                             *)

\* fs.watch reports a change of the file it is attached to.
Noticed(f) == IF watcher.iteration = f THEN [watcher EXCEPT !.event = TRUE] ELSE watcher

Write ==
  LET f == run.iteration IN
  /\ run.live /\ file[f].lines < Lines
  /\ file' = [file EXCEPT ![f] = IF @.half THEN [lines |-> @.lines + 1, half |-> FALSE]
                                 ELSE [@ EXCEPT !.half = TRUE]]
  /\ watcher' = Noticed(f)
  /\ UNCHANGED <<run, news, pushes, tab, fetch, used>>

StartIteration ==
  /\ run.live /\ run.iteration < Iterations /\ ~file[run.iteration].half
  /\ run' = [run EXCEPT !.iteration = @ + 1]
  /\ news' = Append(news, "iteration.started")
  /\ UNCHANGED <<file, watcher, pushes, tab, fetch, used>>

FinishRun ==
  /\ run.live /\ ~file[run.iteration].half
  /\ run' = [run EXCEPT !.live = FALSE]
  /\ news' = Append(news, "run.finished")
  /\ UNCHANGED <<file, watcher, pushes, tab, fetch, used>>

-----------------------------------------------------------------------------
(* The registry of watchers.                                               *)

\* stopRunWatcher; the read under way still makes its delivery, the last.
Orphans == {[r EXCEPT !.own = FALSE] : r \in watcher.reads}
StopRunWatcher == watcher' = [NoWatcher EXCEPT !.reads = Orphans]

\* syncRunWatcher: whatever the event said, the latest iteration of the row.
\* A watcher that attaches catches up at once.
SyncRunWatcher ==
  watcher' = IF watcher.iteration = run.iteration THEN watcher
             ELSE [NoWatcher EXCEPT !.iteration = run.iteration, !.event = TRUE, !.reads = Orphans]

HearNews ==
  /\ news # <<>> /\ news' = Tail(news)
  /\ IF Head(news) = "run.finished" THEN StopRunWatcher ELSE SyncRunWatcher
  /\ UNCHANGED <<run, file, pushes, tab, fetch, used>>

\* syncTranscriptWatchers, every five seconds.
Scan ==
  /\ IF run.live THEN SyncRunWatcher ELSE StopRunWatcher
  /\ UNCHANGED <<run, file, news, pushes, tab, fetch, used>>

-----------------------------------------------------------------------------
(* startTranscriptPush.                                                    *)

\* readTranscriptChunk from a cursor: only whole lines are consumed, and
\* there is more if any were and something is left.
ChunkEnd(f, from) == IF file[f].lines < from + Chunk THEN file[f].lines ELSE from + Chunk
HasMore(f, from) == /\ ChunkEnd(f, from) > from
                    /\ ChunkEnd(f, from) < file[f].lines \/ file[f].half

\* pumpInFlight: one read of a watcher at a time.
PumpFree == \A r \in watcher.reads : ~r.own

Pump ==
  /\ watcher.iteration # 0 /\ watcher.event
  /\ watcher' = IF PumpFree
                THEN [watcher EXCEPT !.event = FALSE,
                        !.reads = @ \cup {[own |-> TRUE, of |-> watcher.iteration, from |-> watcher.cursor,
                                           got |-> FALSE, upto |-> 0, more |-> FALSE]}]
                ELSE [watcher EXCEPT !.event = FALSE, !.again = TRUE]
  /\ UNCHANGED <<run, file, news, pushes, tab, fetch, used>>

PumpReads(r) ==
  /\ r \in watcher.reads /\ ~r.got
  /\ watcher' = [watcher EXCEPT !.reads = (@ \ {r}) \cup
                  {[r EXCEPT !.got = TRUE, !.upto = ChunkEnd(r.of, r.from), !.more = HasMore(r.of, r.from)]}]
  /\ UNCHANGED <<run, file, news, pushes, tab, fetch, used>>

\* The push goes out, then the recheck that was asked for meanwhile.
PumpEmits(r) ==
  LET some == r.upto > r.from IN
  /\ r \in watcher.reads /\ r.got
  /\ watcher' = [watcher EXCEPT !.reads = @ \ {r},
                   !.cursor = IF r.own /\ some THEN r.upto ELSE @,
                   !.event = @ \/ (r.own /\ (watcher.again \/ r.more)),
                   !.again = IF r.own THEN FALSE ELSE @,
                   !.pushed = IF r.own /\ some THEN @ + (r.upto - r.from) ELSE @]
  /\ pushes' = IF some /\ tab.open THEN Append(pushes, [of |-> r.of, from |-> r.from, upto |-> r.upto])
               ELSE pushes
  /\ UNCHANGED <<run, file, news, tab, fetch, used>>

-----------------------------------------------------------------------------
(* The page.                                                               *)

\* load(target): nothing while a fetch is in flight, whoever started it.
Loads(view, f) ==
  IF fetch.pc # "none" THEN fetch
  ELSE [NoFetch EXCEPT !.pc = "sent", !.of = f, !.replace = view.first,
                       !.from = IF view.live \/ ~view.first THEN view.cursor ELSE -1]

\* The effect of a new target, or of `live` turning: refs reset, a load.
Mounted(f, live) ==
  LET view == [tab EXCEPT !.of = f, !.live = live, !.cursor = 0, !.first = TRUE,
                          !.resync = TRUE, !.timer = 0] IN
  /\ tab' = view /\ fetch' = Loads(view, f)

Pick(f) ==
  /\ f # tab.of /\ f <= run.iteration /\ used.picks < MaxPicks
  /\ Mounted(f, tab.live)
  /\ used' = [used EXCEPT !.picks = @ + 1]
  /\ UNCHANGED <<run, file, news, watcher, pushes>>

\* The card's detail is fetched again when run.finished arrives.
Settled ==
  /\ tab.live /\ ~run.live
  /\ Mounted(tab.of, FALSE)
  /\ UNCHANGED <<run, file, news, watcher, pushes, used>>

\* GET /api/runs/:id: with no cursor the file's tail; a cursor past the end
\* starts over.
Serve ==
  /\ fetch.pc = "sent"
  /\ LET lines == file[fetch.of].lines
         reset == fetch.from > lines
         from == IF reset THEN 0
                 ELSE IF fetch.from < 0 THEN (IF lines > Chunk THEN lines - Chunk ELSE 0)
                 ELSE fetch.from IN
     fetch' = [fetch EXCEPT !.pc = "back", !.from = from, !.upto = ChunkEnd(fetch.of, from),
                            !.more = HasMore(fetch.of, from), !.reset = reset]
  /\ UNCHANGED <<run, file, news, watcher, pushes, tab, used>>

LinesOf(f, from, upto) == [k \in 1..(upto - from) |-> [of |-> f, line |-> from + k]]

\* applyChunk, then the next chunk or the end of the chain.
Response ==
  /\ fetch.pc = "back" /\ fetch' = NoFetch
  /\ LET lines == LinesOf(fetch.of, fetch.from, fetch.upto) IN
     tab' = [tab EXCEPT !.cursor = fetch.upto, !.first = FALSE,
                        !.shown = IF fetch.replace \/ fetch.reset THEN lines ELSE @ \o lines,
                        !.timer = IF fetch.more THEN fetch.of ELSE @,
                        !.resync = fetch.more /\ @]
  /\ UNCHANGED <<run, file, news, watcher, pushes, used>>

CatchUp ==
  /\ tab.timer # 0
  /\ fetch' = Loads(tab, tab.timer) /\ tab' = [tab EXCEPT !.timer = 0]
  /\ UNCHANGED <<run, file, news, watcher, pushes, used>>

\* Mutant of Decision: whatever ends past the cursor is appended.
DecisionWithoutFrom(push) ==
  IF push.upto <= tab.cursor THEN "ignore" ELSE IF tab.resync THEN "resync" ELSE "apply"

\* transcriptPushDecision.
Decision(push) ==
  IF push.upto <= tab.cursor THEN "ignore"
  ELSE IF tab.resync \/ push.from # tab.cursor THEN "resync" ELSE "apply"

Receive ==
  LET push == Head(pushes)
      decision == IF tab.live /\ push.of = tab.of THEN Decision(push) ELSE "ignore" IN
  /\ pushes # <<>> /\ pushes' = Tail(pushes)
  /\ fetch' = IF decision = "resync" THEN Loads(tab, tab.of) ELSE fetch
  /\ tab' = IF decision = "apply"
            THEN [tab EXCEPT !.cursor = push.upto, !.shown = @ \o LinesOf(push.of, push.from, push.upto)]
            ELSE tab
  /\ UNCHANGED <<run, file, news, watcher, used>>

Drop ==
  /\ tab.open /\ used.drops < MaxDrops
  /\ tab' = [tab EXCEPT !.open = FALSE] /\ pushes' = <<>>
  /\ used' = [used EXCEPT !.drops = @ + 1]
  /\ UNCHANGED <<run, file, news, watcher, fetch>>

Reconnect ==
  /\ ~tab.open
  /\ LET view == [tab EXCEPT !.open = TRUE, !.resync = TRUE] IN
     tab' = view /\ fetch' = Loads(view, view.of)
  /\ UNCHANGED <<run, file, news, watcher, pushes, used>>

LiveNext ==
  \/ Write \/ StartIteration \/ FinishRun \/ HearNews \/ Scan
  \/ Pump \/ \E r \in watcher.reads : PumpReads(r) \/ PumpEmits(r)
  \/ \E f \in Files : Pick(f)
  \/ Settled \/ Serve \/ Response \/ CatchUp \/ Receive \/ Drop \/ Reconnect

LiveSpec == LiveInit /\ [][LiveNext]_liveVars

-----------------------------------------------------------------------------
(* Properties.                                                             *)

\* A watcher's pushes are gapless and do not overlap (transcript.ts:257):
\* what it has pushed is as much as its cursor says.
PushesAreGapless == watcher.pushed = watcher.cursor

\* Until another iteration is picked, no line of the transcript is skipped
\* between two that are shown, across fetches, pushes, drops and resyncs.
NoLineSkipped ==
  used.picks = 0 =>
    \A i \in DOMAIN tab.shown : i > 1 => tab.shown[i].line <= tab.shown[i - 1].line + 1
=============================================================================
