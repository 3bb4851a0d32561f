--------------------------- MODULE ProviderLogin ---------------------------
(***************************************************************************)
(* Logging a provider in from the browser: providerLogin.ts, its routes    *)
(* and the settings page that polls them.                                  *)
(*                                                                         *)
(* pi's login() is one flow per session that asks questions and waits; the *)
(* module holds the question until some tab answers it.  The flow itself   *)
(* (pi) is external: it asks, withdraws, settles or hangs as it likes, and *)
(* asks nothing once it has been told to stop.                             *)
(***************************************************************************)
EXTENDS Integers

CONSTANTS Sessions,   \* logins started to one provider, one after the other
          Tabs,       \* browser tabs on the settings page
          Questions,  \* questions a flow asks at most, numbered
          Ttl,        \* SESSION_TTL_MS, in ticks
          Notices     \* events a flow notifies at most

VARIABLES sessions, \* [Sessions -> [status, pending, left]]
          flows,    \* [Sessions -> [pc, asked, got, aborted, notices]]: pi's side
          tabs      \* [Tabs -> the question on the screen: [session, token]]

loginVars == <<sessions, flows, tabs>>

Live == {"waiting", "prompting"}
Blank == [session |-> 0, token |-> 0]
\* A finished view is kept for a minute so a returning poll is told.
Brief == 1

LoginTypeOK ==
  /\ sessions \in [Sessions -> [status : Live \cup {"none", "done", "failed", "expired", "deleted"},
                                pending : 0..Questions, left : 0..Ttl]]
  /\ flows \in [Sessions -> [pc : {"none", "working", "asking", "ended"}, asked : 0..Questions,
                             got : 0..Questions, aborted : BOOLEAN, notices : 0..Notices]]
  /\ tabs \in [Tabs -> [session : Sessions \cup {0}, token : 0..Questions]]

LoginInit ==
  /\ sessions = [s \in Sessions |-> [status |-> "none", pending |-> 0, left |-> 0]]
  /\ flows = [s \in Sessions |-> [pc |-> "none", asked |-> 0, got |-> 0, aborted |-> FALSE, notices |-> 0]]
  /\ tabs = [b \in Tabs |-> Blank]

IsLive(s) == sessions[s].status \in Live

Due(s) == sessions[s].left = 0 /\ sessions[s].status \notin {"none", "deleted"}

\* sweep(), which every handler but the cancel runs first: what nobody came
\* back for expires and its question is rejected, what has finished goes.
Swept == [s \in Sessions |->
  IF ~Due(s) THEN sessions[s]
  ELSE IF IsLive(s) THEN [status |-> "expired", pending |-> 0, left |-> Brief]
  ELSE [sessions[s] EXCEPT !.status = "deleted"]]
\* Rejecting the question lets the flow's await throw.
Stopped(s) == [flows[s] EXCEPT !.aborted = TRUE, !.pc = IF @ = "asking" THEN "working" ELSE @]
SweptFlows == [s \in Sessions |-> IF Due(s) /\ IsLive(s) THEN Stopped(s) ELSE flows[s]]

-----------------------------------------------------------------------------
(* The routes.                                                             *)

StartLogin(s) ==
  /\ sessions[s].status = "none" /\ \A r \in Sessions : r < s => sessions[r].status # "none"
  /\ \A r \in Sessions : Swept[r].status \notin Live
  /\ sessions' = [Swept EXCEPT ![s] = [status |-> "waiting", pending |-> 0, left |-> Ttl]]
  /\ flows' = [SweptFlows EXCEPT ![s].pc = "working"]
  /\ UNCHANGED tabs

Poll(b, s) ==
  /\ sessions[s].status \notin {"none", "deleted"}
  /\ sessions' = Swept /\ flows' = SweptFlows
  /\ tabs' = [tabs EXCEPT ![b] = [session |-> s, token |-> Swept[s].pending]]

\* Mutant of AnswerLogin: the answer carries no token.
AnswerAnyQuestion(b) ==
  LET s == tabs[b].session IN
  /\ tabs[b].token # 0
  /\ Swept[s].status # "deleted" /\ Swept[s].pending # 0
  /\ sessions' = [Swept EXCEPT ![s] = [status |-> "waiting", pending |-> 0, left |-> Ttl]]
  /\ flows' = [SweptFlows EXCEPT ![s] = [@ EXCEPT !.pc = "working", !.got = tabs[b].token]]
  /\ tabs' = [tabs EXCEPT ![b] = Blank]

\* The answer of a tab whose page may be older than the question it lands on.
AnswerLogin(b) ==
  LET s == tabs[b].session IN
  /\ tabs[b].token # 0
  /\ Swept[s].status # "deleted" /\ Swept[s].pending # 0
  /\ Swept[s].pending = tabs[b].token
  /\ sessions' = [Swept EXCEPT ![s] = [status |-> "waiting", pending |-> 0, left |-> Ttl]]
  /\ flows' = [SweptFlows EXCEPT ![s] = [@ EXCEPT !.pc = "working", !.got = tabs[b].token]]
  /\ tabs' = [tabs EXCEPT ![b] = Blank]

\* Anything else is refused with a 404 or a 409, after the sweep.
AnswerRefused(b) ==
  LET s == tabs[b].session IN
  /\ tabs[b].token # 0
  /\ Swept[s].status = "deleted" \/ Swept[s].pending # tabs[b].token
  /\ sessions' = Swept /\ flows' = SweptFlows
  /\ tabs' = [tabs EXCEPT ![b] = Blank]

CancelLogin(s) ==
  /\ sessions[s].status \notin {"none", "deleted"}
  /\ sessions' = [sessions EXCEPT ![s] = [status |-> "deleted", pending |-> 0, left |-> 0]]
  /\ flows' = [flows EXCEPT ![s] = Stopped(s)]
  /\ UNCHANGED tabs

-----------------------------------------------------------------------------
(* The flow's callbacks.                                                   *)

Notify(s) ==
  /\ flows[s].pc = "working" /\ ~flows[s].aborted /\ flows[s].notices < Notices
  /\ flows' = [flows EXCEPT ![s].notices = @ + 1]
  /\ sessions' = [sessions EXCEPT ![s].left = Ttl]
  /\ UNCHANGED tabs

\* ask(): a fresh token for each question.
Ask(s) ==
  /\ flows[s].pc = "working" /\ ~flows[s].aborted /\ flows[s].asked < Questions
  /\ flows' = [flows EXCEPT ![s] = [@ EXCEPT !.pc = "asking", !.asked = flows[s].asked + 1]]
  /\ sessions' = [sessions EXCEPT ![s] = [status |-> "prompting", pending |-> flows[s].asked + 1, left |-> Ttl]]
  /\ UNCHANGED tabs

\* The loopback callback won the race: the prompt's own signal is aborted.
Withdraw(s) ==
  /\ flows[s].pc = "asking" /\ sessions[s].pending = flows[s].asked
  /\ flows' = [flows EXCEPT ![s].pc = "working"]
  /\ sessions' = [sessions EXCEPT ![s] = [@ EXCEPT !.pending = 0, !.status = "waiting"]]
  /\ UNCHANGED tabs

\* login() resolves: done, even when the session had expired meanwhile.
LoginResolves(s) ==
  /\ flows[s].pc = "working" /\ flows' = [flows EXCEPT ![s].pc = "ended"]
  /\ sessions' = [sessions EXCEPT ![s] =
       IF @.status = "deleted" THEN @ ELSE [status |-> "done", pending |-> 0, left |-> Brief]]
  /\ UNCHANGED tabs

LoginRejects(s) ==
  /\ flows[s].pc = "working" /\ flows' = [flows EXCEPT ![s].pc = "ended"]
  /\ sessions' = [sessions EXCEPT ![s] =
       IF @.status \in {"deleted", "expired"} THEN @ ELSE [status |-> "failed", pending |-> 0, left |-> Brief]]
  /\ UNCHANGED tabs

Passes ==
  /\ \E s \in Sessions : sessions[s].left > 0
  /\ sessions' = [s \in Sessions |-> [sessions[s] EXCEPT !.left = IF @ > 0 THEN @ - 1 ELSE @]]
  /\ UNCHANGED <<flows, tabs>>

LoginNext ==
  \/ Passes
  \/ \E s \in Sessions : \/ StartLogin(s) \/ CancelLogin(s) \/ Notify(s) \/ Ask(s) \/ Withdraw(s)
                         \/ LoginResolves(s) \/ LoginRejects(s)
                         \/ \E b \in Tabs : Poll(b, s)
  \/ \E b \in Tabs : AnswerLogin(b) \/ AnswerRefused(b)

LoginSpec == LoginInit /\ [][LoginNext]_loginVars

-----------------------------------------------------------------------------
(* Properties.                                                             *)

\* The answer of a stale page never resolves the question that replaced the
\* one it was given for.
AnswersItsQuestion ==
  \A s \in Sessions : flows'[s].got # flows[s].got =>
    flows[s].pc = "asking" /\ flows'[s].got = flows[s].asked
AnswersReachTheirQuestion == [][AnswersItsQuestion]_loginVars
=============================================================================
