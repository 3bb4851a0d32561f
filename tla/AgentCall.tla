----------------------------- MODULE AgentCall -----------------------------
(***************************************************************************)
(* One agent invocation, runHarness: a session is created, prompted, and   *)
(* its event stream folded into a verdict, while the caller's signal and   *)
(* four watchdogs may abort it (harness/index.ts, stuckDetector.ts,        *)
(* streamLiveness.ts and piNormalize of harness/pi.ts).                    *)
(*                                                                         *)
(* A reply is counted in units of MaxReply, time in ticks.  A timer that   *)
(* is due fires before the clock goes on.                                  *)
(***************************************************************************)
EXTENDS Integers

CONSTANTS Keys,        \* identities of tool calls, stuckKey
          Threshold,   \* repeats in a row that make a call stuck
          MaxReply,    \* MAX_REPLY_CHARS
          HardLimit,   \* timeoutMs
          StallLimit   \* stallTimeoutMs

VARIABLES phase,     \* of runHarness
          aborted,   \* the caller's signal
          tripped,   \* the cause that ended it
          error,     \* totals.error, and what it was when the abort came
          timers,    \* [elapsed, idle, due]: due is when the stall timer fires next
          repeats,   \* the stuck detector: [key, streak]
          reply,     \* characters of the reply under way
          code,      \* the result
          service    \* how the provider has served the last request

callVars == <<phase, aborted, tripped, error, timers, repeats, reply, code, service>>

Speaking == {"stalled", "stuck", "oversized"}    \* TRIP_ERRORS
Causes == Speaking \cup {"timeout", "aborted"}
Errors == {"none", "failed", "note", "thrown", "creation"} \cup Speaking
NoKey == "no tool call yet"

CallTypeOK ==
  /\ phase \in {"creating", "prompting", "settled", "done"}
  /\ aborted \in BOOLEAN
  /\ tripped \in Causes \cup {"none"}
  /\ error \in [total : Errors, before : Errors, thrown : BOOLEAN]
  /\ timers \in [elapsed : 0..HardLimit, idle : Nat, due : 0..StallLimit]
  /\ repeats \in [key : Keys \cup {NoKey}, streak : 0..(Threshold + 1)]
  /\ reply \in 0..(MaxReply + 1)
  /\ code \in {"none", "ok", "failed"}
  /\ service \in {"fine", "failing", "failed"}

CallInit ==
  /\ phase = "creating" /\ aborted = FALSE /\ tripped = "none"
  /\ error = [total |-> "none", before |-> "none", thrown |-> FALSE]
  /\ timers = [elapsed |-> 0, idle |-> 0, due |-> StallLimit]
  /\ repeats = [key |-> NoKey, streak |-> 0]
  /\ reply = 0 /\ code = "none" /\ service = "fine"

-----------------------------------------------------------------------------
(* Ending it early.                                                        *)

\* trip: the first cause counts, and an abort remembers what had gone wrong.
Trip(cause) ==
  IF tripped # "none" THEN UNCHANGED <<tripped, error>>
  ELSE /\ tripped' = cause
       /\ error' = IF cause = "aborted" THEN [error EXCEPT !.before = error.total] ELSE error

\* The abort of the caller is heard by who listens when it comes.
CallerAborts ==
  /\ ~aborted /\ phase # "done"
  /\ aborted' = TRUE
  /\ IF phase = "prompting" THEN Trip("aborted") ELSE UNCHANGED <<tripped, error>>
  /\ UNCHANGED <<phase, timers, repeats, reply, code, service>>

\* createSession, which resolves the model over the network; then the timers
\* are armed, the listeners added and the session prompted.
CreateSession ==
  /\ phase = "creating"
  /\ phase' = "prompting"
  /\ UNCHANGED <<aborted, tripped, error, timers, repeats, reply, code, service>>

CreateFails ==
  /\ phase = "creating"
  /\ phase' = "done" /\ code' = "failed" /\ error' = [error EXCEPT !.total = "creation"]
  /\ UNCHANGED <<aborted, tripped, timers, repeats, reply, service>>

Tick ==
  /\ phase = "prompting" /\ timers.elapsed < HardLimit /\ timers.due > 0
  /\ timers' = [elapsed |-> timers.elapsed + 1, idle |-> timers.idle + 1, due |-> timers.due - 1]
  /\ UNCHANGED <<phase, aborted, tripped, error, repeats, reply, code, service>>

HardTimer ==
  /\ phase = "prompting" /\ timers.elapsed = HardLimit /\ tripped = "none"
  /\ Trip("timeout")
  /\ UNCHANGED <<phase, aborted, timers, repeats, reply, code, service>>

\* Mutant of Rearm: it waits for the whole limit again.
RearmInFull(idle) == StallLimit

\* armStallTimer: for what is left of the silence allowed.
Rearm(idle) == StallLimit - idle

StallTimer ==
  /\ phase = "prompting" /\ timers.due = 0
  /\ IF timers.idle >= StallLimit
     THEN tripped = "none" /\ Trip("stalled") /\ UNCHANGED timers
     ELSE timers' = [timers EXCEPT !.due = Rearm(timers.idle)] /\ UNCHANGED <<tripped, error>>
  /\ UNCHANGED <<phase, aborted, repeats, reply, code, service>>

-----------------------------------------------------------------------------
(* The stream.  Whatever arrives is a sign of life.                        *)

Alive == phase = "prompting" /\ timers' = [timers EXCEPT !.idle = 0]

\* Bytes that are no event, and events that are dropped or kept raw.
Byte ==
  /\ Alive
  /\ UNCHANGED <<phase, aborted, tripped, error, repeats, reply, code, service>>

\* A message starts or ends.
Message ==
  /\ Alive /\ reply' = 0
  /\ UNCHANGED <<phase, aborted, tripped, error, repeats, code, service>>

Delta ==
  /\ Alive /\ reply <= MaxReply
  /\ reply' = reply + 1
  /\ IF reply' > MaxReply THEN Trip("oversized") ELSE UNCHANGED <<tripped, error>>
  /\ UNCHANGED <<phase, aborted, repeats, code, service>>

Streak(key) == IF key = repeats.key THEN repeats.streak + 1 ELSE 1

\* StuckDetector.record, for a tool call of a message that has ended.
ToolCall ==
  /\ Alive /\ reply' = 0 /\ repeats.streak <= Threshold
  /\ \E key \in Keys :
       /\ repeats' = [key |-> key, streak |-> Streak(key)]
       /\ IF Streak(key) >= Threshold THEN Trip("stuck") ELSE UNCHANGED <<tripped, error>>
  /\ UNCHANGED <<phase, aborted, code, service>>

Folded(detail) == error' = [error EXCEPT !.total = detail]

\* A request fails and is retried, or its retries are over.
RequestFails ==
  /\ Alive /\ reply' = 0 /\ tripped = "none"
  /\ service' \in {"failing", "failed"} /\ service # "failed"
  /\ Folded("failed")
  /\ UNCHANGED <<phase, aborted, tripped, repeats, code>>

\* auto_retry_end: a completed result takes the failed one back.
RetrySucceeds ==
  /\ Alive /\ service = "failing" /\ tripped = "none"
  /\ service' = "fine" /\ Folded("none")
  /\ UNCHANGED <<phase, aborted, tripped, repeats, reply, code>>

\* The turn an abort has ended says so itself.
TurnAborted ==
  /\ Alive /\ tripped # "none"
  /\ reply' = 0 /\ Folded("note")
  /\ UNCHANGED <<phase, aborted, tripped, repeats, code, service>>

-----------------------------------------------------------------------------
(* The end.                                                                *)

\* The prompt settles, or throws.
PromptEnds ==
  /\ phase = "prompting" /\ (service = "failing" => tripped # "none")
  /\ phase' = "settled"
  /\ \E thrown \in BOOLEAN :
       /\ error' = [error EXCEPT !.thrown = thrown]
       /\ service' = IF thrown /\ tripped = "none" THEN "failed" ELSE service
  /\ UNCHANGED <<aborted, tripped, timers, repeats, reply, code>>

\* The race is left as soon as a watchdog is released.
WatchdogWins ==
  /\ phase = "prompting" /\ tripped # "none"
  /\ phase' = "settled"
  /\ UNCHANGED <<aborted, tripped, error, timers, repeats, reply, code, service>>

\* A cause with a message of its own, what there was before the abort, or what
\* the stream and the prompt have left.
Outcome ==
  IF tripped \in Speaking THEN tripped
  ELSE IF tripped = "aborted" THEN error.before
  ELSE IF error.total = "none" /\ error.thrown THEN "thrown"
  ELSE error.total

\* The timers and the listeners go, the session is disposed of, and the
\* result returned.
Return ==
  /\ phase = "settled"
  /\ phase' = "done"
  /\ error' = [error EXCEPT !.total = Outcome]
  /\ code' = IF Outcome # "none" \/ tripped \notin {"none", "aborted"} THEN "failed" ELSE "ok"
  /\ UNCHANGED <<aborted, tripped, timers, repeats, reply, service>>

Stream == \/ Byte \/ Message \/ Delta \/ ToolCall
          \/ RequestFails \/ RetrySucceeds \/ TurnAborted
CallNext ==
  \/ CallerAborts \/ CreateSession \/ CreateFails \/ Tick \/ HardTimer \/ StallTimer
  \/ Stream \/ PromptEnds \/ WatchdogWins \/ Return

CallSpec == CallInit /\ [][CallNext]_callVars

-----------------------------------------------------------------------------
(* Properties.                                                             *)

\* The verdict: an invocation has failed exactly if a watchdog ended it, or
\* its session could not be made, or its last request was never served.  An
\* abort is no failure, and a request that went through on a retry is none.
VerdictIsTheCalls ==
  phase = "done" =>
    (code = "failed") = \/ tripped \in Causes \ {"aborted"}
                        \/ error.total = "creation"
                        \/ service # "fine"

\* The one timer, re-armed only when it fires, ends a silence at its limit.
SilenceIsBounded == timers.idle <= StallLimit

=============================================================================
