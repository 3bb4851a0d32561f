--------------------------- MODULE CircuitBreaker ---------------------------
(***************************************************************************)
(* One provider's circuit breaker and rate-limit reading, both rows of the *)
(* settings table: circuitBreaker.ts, providerRateLimit.ts,                *)
(* harness/rateLimit.ts and the stages that consult and feed them.         *)
(*                                                                         *)
(* Instants are kept as the ticks left until them.  Inside a process a     *)
(* count is read and written with nothing in between; another process may  *)
(* write its own outcome between the two.                                  *)
(***************************************************************************)
EXTENDS Integers, FiniteSets, FiniteSetsExt

CONSTANTS Calls,           \* slots for provider calls: iterations and stages
          ProcessOf,       \* [Calls -> process that makes the call]
          Threshold,       \* failureThreshold
          Cooldown,        \* cooldownMs, in ticks
          LimitCooldown,   \* limitCooldownMs
          Resets           \* ticks to a reset a response or an error names; 0: none

VARIABLES breaker,  \* [state, count, reason, left]
          reading,  \* the last rate-limit reading: [status, left]
          calls,    \* [Calls -> [pc, kind, seen, probe]]
          strikes   \* failures reported since the last success, and whether one was a limit

breakerVars == <<breaker, reading, calls, strikes>>

Closed == [state |-> "closed", count |-> 0, reason |-> "none", left |-> 0]
Free == [pc |-> "idle", kind |-> "none", seen |-> 0, wasOpen |-> FALSE, named |-> 0, probe |-> FALSE]
Kinds == {"conn", "limit"}
Longest == Max({Cooldown, LimitCooldown} \cup Resets)

BreakerTypeOK ==
  /\ breaker \in [state : {"closed", "open"}, count : Nat,
                  reason : Kinds \cup {"none"}, left : 0..Longest]
  /\ reading \in [status : {"ok", "exhausted"}, left : 0..Longest]
  /\ calls \in [Calls -> [pc : {"idle", "called", "writing"}, kind : Kinds \cup {"none"},
                          seen : Nat, wasOpen : BOOLEAN, named : Resets \cup {0}, probe : BOOLEAN]]

BreakerInit ==
  /\ breaker = Closed
  /\ reading = [status |-> "ok", left |-> 0]
  /\ calls = [c \in Calls |-> Free]
  /\ strikes = [failed |-> 0, limited |-> FALSE]

\* Mutant of BreakerOpen: it stays open until a call succeeds.
BreakerOpenForGood == breaker.state = "open"

\* circuitOpenReason: open, and not yet cooled down.
BreakerOpen == breaker.state = "open" /\ breaker.left > 0
CooledDown == breaker.state = "open" /\ breaker.left = 0

\* A stage or a run starts its call only past a breaker that is not open.
Call(c) ==
  /\ calls[c] = Free /\ ~BreakerOpen
  /\ calls' = [calls EXCEPT ![c] = [@ EXCEPT !.pc = "called", !.probe = CooledDown]]
  /\ UNCHANGED <<breaker, reading, strikes>>

\* observeRateLimitHeaders, on any response of the call: the last one wins.
Observe(c) ==
  /\ calls[c].pc = "called"
  /\ \E status \in {"ok", "exhausted"}, left \in Resets : reading' = [status |-> status, left |-> left]
  /\ UNCHANGED <<breaker, calls, strikes>>

Succeed(c) ==
  /\ calls[c].pc = "called"
  /\ breaker' = Closed
  /\ calls' = [calls EXCEPT ![c] = Free]
  /\ strikes' = [failed |-> 0, limited |-> FALSE]
  /\ UNCHANGED reading

\* A rejected request, or an error that says nothing about the provider.
Neutral(c) ==
  /\ calls[c].pc = "called"
  /\ calls' = [calls EXCEPT ![c] = Free]
  /\ UNCHANGED <<breaker, reading, strikes>>

\* recordProviderFailure: classified, and the row read.
Fails(c) ==
  /\ calls[c].pc = "called"
  /\ \A d \in Calls \ {c} : calls[d].pc = "writing" => ProcessOf[d] # ProcessOf[c]
  /\ \E kind \in Kinds, named \in Resets \cup {0} :
       /\ calls' = [calls EXCEPT ![c] = [pc |-> "writing", kind |-> kind, seen |-> breaker.count,
                                         wasOpen |-> breaker.state = "open",
                                         named |-> named, probe |-> @.probe]]
       /\ strikes' = [failed |-> strikes.failed + 1, limited |-> strikes.limited \/ kind = "limit"]
  /\ UNCHANGED <<breaker, reading>>

\* limitCooldownMs: the account's own reset, else what the error names, else
\* the provider's static cooldown.
LimitWait(named) ==
  IF reading.status = "exhausted" /\ reading.left > 0 THEN reading.left
  ELSE IF named > 0 THEN named ELSE LimitCooldown
WaitFor(call) == IF call.kind = "limit" THEN LimitWait(call.named) ELSE Cooldown
Opens(call) == call.kind = "limit" \/ call.wasOpen \/ call.seen + 1 >= Threshold

\* writeState with what was read: an outcome written in between is lost.
Record(c) ==
  LET call == calls[c] IN
  /\ call.pc = "writing"
  /\ breaker' = IF Opens(call)
                THEN [state |-> "open", count |-> call.seen + 1, reason |-> call.kind, left |-> WaitFor(call)]
                ELSE [state |-> "closed", count |-> call.seen + 1, reason |-> "none", left |-> 0]
  /\ calls' = [calls EXCEPT ![c] = Free]
  /\ UNCHANGED <<reading, strikes>>

\* Inside one process nothing runs between the read and the write.
Mid(p) == \E c \in Calls : ProcessOf[c] = p /\ calls[c].pc = "writing"
Undisturbed(c) == ~Mid(ProcessOf[c])

\* A bound on the count: a breaker that stays open adds to it for ever.
StrikeBound == Threshold + 1

Tick ==
  /\ breaker' = [breaker EXCEPT !.left = IF @ > 0 THEN @ - 1 ELSE @]
  /\ reading' = [reading EXCEPT !.left = IF @ > 0 THEN @ - 1 ELSE @]
  /\ UNCHANGED <<calls, strikes>>

BreakerStep(c) ==
  \/ Undisturbed(c) /\ (Call(c) \/ Observe(c) \/ Succeed(c) \/ Neutral(c))
  \/ breaker.count < StrikeBound /\ strikes.failed < StrikeBound /\ Fails(c)
  \/ Record(c)
BreakerNext == Tick \/ \E c \in Calls : BreakerStep(c)

BreakerSpec == BreakerInit /\ [][BreakerNext]_breakerVars

-----------------------------------------------------------------------------
(* Properties.                                                             *)

\* In one process the breaker opens on what happened since the last success
\* and on nothing older: a limit, or as many failures as the threshold.
OpensOnEvidence ==
  breaker.state = "open" => strikes.limited \/ strikes.failed >= Threshold
=============================================================================
