----------------------------- MODULE EventFeed -----------------------------
(***************************************************************************)
(* How a change made in one process reaches a board open in a browser:     *)
(* the events table and each process's bus (events.ts), the tailer that    *)
(* carries rows from one process to another (eventsTail.ts), the event     *)
(* stream (api/events/stream) and the board behind it (useEventStream,     *)
(* useWorkData, useCardDetail).                                            *)
(*                                                                         *)
(* Cards are abstracted to a version number, which every change raises; an *)
(* event is its row's id.  The network and the browser's reconnects are    *)
(* external.                                                               *)
(***************************************************************************)
EXTENDS Integers, FiniteSets

CONSTANTS Procs,      \* processes that share the database
          Web,        \* the one the tab is connected to
          MaxEvents,  \* changes
          Buffer,     \* frames the stream holds for a reader that is behind
          Fetches,    \* slots for GET /api/cards in flight
          MaxDrops    \* network drops and restarts of the web process

VARIABLES version,  \* of the cards
          rows,     \* length of the events table: ids are 1..rows
          unsent,   \* [Procs -> changes whose event is not inserted yet]
          tail,     \* [Procs -> [last, boot, local, heard]]
          stream,   \* the server's end: [open, frames, drops]
          tab,      \* [link, missed, timer, since, shown, best]
          fetch     \* [Fetches -> NotAsked, Requested, or the version read]

feedVars == <<version, rows, unsent, tail, stream, tab, fetch>>

Ids == 1..MaxEvents
NotAsked == -2
Requested == -1

FeedTypeOK ==
  /\ version \in 0..MaxEvents /\ rows \in 0..MaxEvents
  /\ unsent \in [Procs -> 0..1]
  /\ tail \in [Procs -> [last : 0..MaxEvents, boot : 0..MaxEvents,
                         local : SUBSET Ids, heard : [Ids -> 0..2]]]
  /\ stream \in [open : BOOLEAN, frames : 0..Buffer, drops : 0..MaxDrops]
  /\ tab \in [link : {"connecting", "open"}, missed : BOOLEAN, timer : BOOLEAN,
              since : 0..MaxEvents, shown : 0..MaxEvents, best : 0..MaxEvents]
  /\ fetch \in [Fetches -> NotAsked..MaxEvents]

Booted == [last |-> rows, boot |-> rows, local |-> {}, heard |-> [i \in Ids |-> 0]]

\* The page has just mounted: its first load is under way, its stream opening.
FeedInit ==
  /\ version = 0 /\ rows = 0
  /\ unsent = [p \in Procs |-> 0]
  /\ tail = [p \in Procs |-> Booted]
  /\ stream = [open |-> FALSE, frames |-> 0, drops |-> 0]
  /\ tab = [link |-> "connecting", missed |-> FALSE, timer |-> FALSE,
            since |-> MaxEvents, shown |-> 0, best |-> 0]
  /\ \E first \in Fetches : fetch = [f \in Fetches |-> IF f = first THEN Requested ELSE NotAsked]

-----------------------------------------------------------------------------
(* The processes.                                                          *)

\* A handler writes the card, then emits the event.
Change(p) ==
  /\ version < MaxEvents /\ unsent[p] = 0
  /\ version' = version + 1
  /\ unsent' = [unsent EXCEPT ![p] = 1]
  /\ UNCHANGED <<rows, tail, stream, tab, fetch>>

\* `write` of the stream route: a reader with no room left for the frames is
\* dropped, with what it has been given still to read.
Written(s, n) ==
  IF ~s.open THEN s
  ELSE IF s.frames + n <= Buffer THEN [s EXCEPT !.frames = @ + n]
  ELSE [s EXCEPT !.frames = Buffer, !.open = FALSE]

\* bus.emit, whose listeners in the web process are the streams.
Heard(t, ids) == [t EXCEPT !.heard = [i \in Ids |-> @[i] + (IF i \in ids THEN 1 ELSE 0)]]
Bus(p, t, ids) ==
  /\ tail' = [tail EXCEPT ![p] = Heard(t, ids)]
  /\ stream' = IF p = Web THEN Written(stream, Cardinality(ids)) ELSE stream

\* emitEvent: the row, its id noted as local, the process's own bus.
EmitEvent(p) ==
  /\ unsent[p] = 1
  /\ rows' = rows + 1
  /\ unsent' = [unsent EXCEPT ![p] = 0]
  /\ Bus(p, [tail[p] EXCEPT !.local = @ \cup {rows + 1}], {rows + 1})
  /\ UNCHANGED <<version, tab, fetch>>

\* Of the rows past the last one seen, those this process did not emit.
Foreign(p) == ((tail[p].last + 1)..rows) \ tail[p].local
Forgotten(p) == {i \in tail[p].local : i > rows}

\* tailEventsOnce.
TailEventsOnce(p) ==
  /\ tail[p].last < rows
  /\ Bus(p, [tail[p] EXCEPT !.last = rows, !.local = Forgotten(p)], Foreign(p))
  /\ UNCHANGED <<version, rows, unsent, tab, fetch>>

\* What is on its way is lost; an attempt to connect ends in an onerror.
Cut ==
  /\ stream' = [open |-> FALSE, frames |-> 0, drops |-> stream.drops + 1]
  /\ tab' = [tab EXCEPT !.missed = @ \/ (tab.link = "connecting" /\ stream.open)]

\* The web process restarts: its bus, its tailer's place, its streams go. A
\* handler that dies between the two writes of a change is left out: the
\* change is then told by the next event of any card.
RestartWeb ==
  /\ stream.drops < MaxDrops /\ unsent[Web] = 0
  /\ tail' = [tail EXCEPT ![Web] = Booted]
  /\ Cut
  /\ UNCHANGED <<version, rows, unsent, fetch>>

-----------------------------------------------------------------------------
(* The stream and the tab.                                                 *)

\* The network drops it, with what was on its way.
Disconnect ==
  /\ stream.open /\ stream.drops < MaxDrops
  /\ Cut
  /\ UNCHANGED <<version, rows, unsent, tail, fetch>>

\* EventSource reconnects by itself; the route listens to the bus at once.
Connect ==
  /\ tab.link = "connecting" /\ ~stream.open /\ stream.frames = 0
  /\ stream' = [stream EXCEPT !.open = TRUE]
  /\ UNCHANGED <<version, rows, unsent, tail, tab, fetch>>

Idle == {f \in Fetches : fetch[f] = NotAsked}
SendFetch == \E f \in Idle : fetch' = [fetch EXCEPT ![f] = Requested]

\* onopen: only a reconnect refetches, the first open has the initial load.
Opened ==
  /\ tab.link = "connecting" /\ (stream.open \/ stream.frames > 0)
  /\ tab' = [tab EXCEPT !.link = "open", !.missed = FALSE,
                        !.since = IF @ = MaxEvents THEN version ELSE @]
  /\ IF tab.missed THEN SendFetch ELSE UNCHANGED fetch
  /\ UNCHANGED <<version, rows, unsent, tail, stream>>

\* Mutant of Lost: the page does not remember that it was cut off.
LostUnnoticed ==
  /\ tab.link = "open" /\ ~stream.open /\ stream.frames = 0
  /\ tab' = [tab EXCEPT !.link = "connecting"]
  /\ UNCHANGED <<version, rows, unsent, tail, stream, fetch>>

\* onerror, after the frames that were still delivered.
Lost ==
  /\ tab.link = "open" /\ ~stream.open /\ stream.frames = 0
  /\ tab' = [tab EXCEPT !.link = "connecting", !.missed = TRUE]
  /\ UNCHANGED <<version, rows, unsent, tail, stream, fetch>>

\* onmessage: a card event arms the 150 ms timer, anew if it was armed.
Receive ==
  /\ tab.link = "open" /\ stream.frames > 0
  /\ stream' = [stream EXCEPT !.frames = @ - 1]
  /\ tab' = [tab EXCEPT !.timer = TRUE]
  /\ UNCHANGED <<version, rows, unsent, tail, fetch>>

Refetch ==
  /\ tab.timer /\ SendFetch
  /\ tab' = [tab EXCEPT !.timer = FALSE]
  /\ UNCHANGED <<version, rows, unsent, tail, stream>>

\* GET /api/cards reads the table; responses may overtake one another.
Serve(f) ==
  /\ fetch[f] = Requested /\ fetch' = [fetch EXCEPT ![f] = version]
  /\ UNCHANGED <<version, rows, unsent, tail, stream, tab>>

\* setCards: what has come last is shown.
HandleCards(f) ==
  /\ fetch[f] >= 0 /\ fetch' = [fetch EXCEPT ![f] = NotAsked]
  /\ tab' = [tab EXCEPT !.shown = fetch[f], !.best = IF fetch[f] > @ THEN fetch[f] ELSE @]
  /\ UNCHANGED <<version, rows, unsent, tail, stream>>

FeedNext ==
  \/ \E p \in Procs : Change(p) \/ EmitEvent(p) \/ TailEventsOnce(p)
  \/ RestartWeb \/ Disconnect \/ Connect \/ Opened \/ Lost \/ Receive \/ Refetch
  \/ \E f \in Fetches : Serve(f) \/ HandleCards(f)

FeedSpec == FeedInit /\ [][FeedNext]_feedVars

-----------------------------------------------------------------------------
(* Properties.                                                             *)

\* Every process's listeners get each event since it booted exactly once,
\* whether it is its own or a peer's, and none the tailer has passed is missed.
BusDeliversOnce ==
  \A p \in Procs, i \in Ids :
    /\ tail[p].heard[i] <= (IF i > tail[p].boot THEN 1 ELSE 0)
    /\ i > tail[p].boot /\ i <= tail[p].last => tail[p].heard[i] = 1
=============================================================================
