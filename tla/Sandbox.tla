------------------------------ MODULE Sandbox ------------------------------
(***************************************************************************)
(* The commands and file tools of the runs of one process: one sandbox     *)
(* runtime whose network policy and TMPDIR are process-wide, a queue per   *)
(* run, and process groups that are reaped before anything trusted touches *)
(* the worktree (sandbox/srt.ts, context.ts, serialQueue.ts,               *)
(* harness/guardedTools.ts, gate.ts).                                      *)
(*                                                                         *)
(* Sandboxing is on.  What a supervisor is able to kill is external: a     *)
(* cgroup everything, a PID namespace everything once its shell has gone,  *)
(* no supervisor only the groups that were recorded.                       *)
(***************************************************************************)
EXTENDS Integers, Sequences, FiniteSets, Absent

CONSTANTS Runs, Jobs, RunOf,   \* slots for tool calls, each of one run
          Policies,            \* network policies an operator may set
          Supervisors          \* [Runs -> sets of what may supervise it]

VARIABLES setting,   \* sandboxNetworkAllowlist
          context,   \* [Runs -> a RunSandboxContext]
          line,      \* [Runs -> Seq(Jobs)]: runExclusive
          wraps,     \* Seq(Jobs): serializeSandboxWrap
          session,   \* of the sandbox runtime: policy claimed and applied, TMPDIR
          jobs       \* [Jobs -> a tool call]

sandboxVars == <<setting, context, line, wraps, session, jobs>>

NoJob == [pc |-> "idle", kind |-> "none", dead |-> FALSE, before |-> None, tmpdir |-> None]
NoContext == [pc |-> "off", policy |-> None, supervisor |-> "none", started |-> FALSE,
              groups |-> {}, strays |-> FALSE]
JobsOf(r) == {j \in Jobs : RunOf[j] = r}

SandboxTypeOK ==
  /\ setting \in Policies
  /\ context \in [Runs -> [pc : {"off", "on"}, policy : Policies \cup {None},
                           supervisor : {"cgroup", "namespace", "none"},
                           started : BOOLEAN, groups : SUBSET Jobs, strays : BOOLEAN]]
  /\ line \in [Runs -> Seq(Jobs)] /\ wraps \in Seq(Jobs)
  /\ session \in [claimed : Policies \cup {None}, commands : 0..Cardinality(Jobs),
                  applied : Policies \cup {None}, tmpdir : Runs \cup {None}]
  /\ jobs \in [Jobs -> [pc : {"idle", "queued", "waiting", "wrapping", "running",
                              "reaping", "touching"},
                        kind : {"none", "bash", "file", "gate"}, dead : BOOLEAN,
                        before : Runs \cup {None}, tmpdir : Runs \cup {None}]]

SandboxInit ==
  /\ setting \in Policies
  /\ context = [r \in Runs |-> NoContext]
  /\ line = [r \in Runs |-> <<>>] /\ wraps = <<>>
  /\ session = [claimed |-> None, commands |-> 0, applied |-> None, tmpdir |-> None]
  /\ jobs = [j \in Jobs |-> NoJob]

EditAllowlist ==
  /\ setting' \in Policies
  /\ UNCHANGED <<context, line, wraps, session, jobs>>

\* createRunSandbox: the policy is that of the settings the run starts with.
StartRun(r) ==
  /\ context[r].pc = "off" /\ \A j \in JobsOf(r) : jobs[j] = NoJob
  /\ \E supervisor \in Supervisors[r] :
       context' = [context EXCEPT ![r] = [NoContext EXCEPT !.pc = "on", !.policy = setting,
                                                       !.supervisor = supervisor]]
  /\ UNCHANGED <<setting, line, wraps, session, jobs>>

\* The agent calls a tool; its run's calls take their turns.
Call(j) ==
  /\ context[RunOf[j]].pc = "on" /\ jobs[j] = NoJob
  /\ \A i \in JobsOf(RunOf[j]) : jobs[i].kind # "gate"
  /\ \E kind \in {"bash", "file"} : jobs' = [jobs EXCEPT ![j] = [@ EXCEPT !.pc = "queued", !.kind = kind]]
  /\ line' = [line EXCEPT ![RunOf[j]] = Append(@, j)]
  /\ UNCHANGED <<setting, context, wraps, session>>

\* Between two sessions the orchestrator runs the gate, in no line.  A file
\* operation that a session has left is over by then: git calls come first.
CallGate(j) ==
  /\ context[RunOf[j]].pc = "on"
  /\ jobs[j] = NoJob
  /\ \A i \in JobsOf(RunOf[j]) :
       jobs[i] = NoJob \/ (jobs[i].dead /\ jobs[i].pc # "touching")
  /\ jobs' = [jobs EXCEPT ![j] = [@ EXCEPT !.pc = "queued", !.kind = "gate"]]
  /\ UNCHANGED <<setting, context, line, wraps, session>>

MyTurn(j) == jobs[j].kind # "gate" => Head(line[RunOf[j]]) = j
LineAfter(j) == IF jobs[j].kind = "gate" THEN line
                ELSE [line EXCEPT ![RunOf[j]] = Tail(@)]
Leaves(j) == jobs' = [jobs EXCEPT ![j] = NoJob] /\ line' = LineAfter(j)
\* Whatever has become of the gate, what it left is reaped and GATE.md written.
Over(j) == IF jobs[j].kind = "gate" THEN jobs' = [jobs EXCEPT ![j].pc = "reaping"] /\ UNCHANGED line
           ELSE Leaves(j)

FileToolTurn(j) == MyTurn(j)

-----------------------------------------------------------------------------
(* A command: claimed, wrapped, spawned, over.                             *)

Clashes(policy) == session.commands > 0 /\ session.claimed # policy

\* A command under another policy than the one in force is refused.
Refuse(j) ==
  /\ jobs[j].pc = "queued" /\ jobs[j].kind # "file" /\ MyTurn(j)
  /\ Clashes(context[RunOf[j]].policy)
  /\ Over(j)
  /\ UNCHANGED <<setting, context, wraps, session>>

Claim(j) ==
  LET policy == context[RunOf[j]].policy IN
  /\ jobs[j].pc = "queued" /\ jobs[j].kind # "file" /\ MyTurn(j)
  /\ ~Clashes(policy)
  /\ session' = [session EXCEPT !.claimed = policy, !.commands = @ + 1]
  /\ jobs' = [jobs EXCEPT ![j].pc = "waiting"]
  /\ wraps' = Append(wraps, j)
  /\ UNCHANGED <<setting, context, line>>

WrapTurn(j) == Head(wraps) = j

\* wrapUnderPolicy, up to its await.
Wrap(j) ==
  /\ jobs[j].pc = "waiting" /\ WrapTurn(j)
  /\ session' = [session EXCEPT !.tmpdir = RunOf[j], !.applied = context[RunOf[j]].policy]
  /\ jobs' = [jobs EXCEPT ![j] = [@ EXCEPT !.pc = "wrapping", !.before = session.tmpdir]]
  /\ UNCHANGED <<setting, context, line, wraps>>

Unwrapped(j) ==
  LET place == CHOOSE k \in DOMAIN wraps : wraps[k] = j
  IN  [i \in 1..(Len(wraps) - 1) |-> IF i < place THEN wraps[i] ELSE wraps[i + 1]]
\* Mutant of ClaimAfterWrap: the claim ends where the wrapping does.
ReleasedAfterWrap(n) == n - 1

\* While the command runs its policy stays claimed.
ClaimAfterWrap(n) == n

\* The wrapped command is spawned at once, unless its session was aborted.
Spawn(j) ==
  LET r == RunOf[j] IN
  /\ jobs[j].pc = "wrapping" /\ ~jobs[j].dead
  /\ jobs' = [jobs EXCEPT ![j] = [@ EXCEPT !.pc = "running", !.tmpdir = session.tmpdir]]
  /\ session' = [session EXCEPT !.tmpdir = jobs[j].before, !.commands = ClaimAfterWrap(@)]
  /\ wraps' = Unwrapped(j)
  /\ context' = [context EXCEPT ![r] = [@ EXCEPT !.started = TRUE, !.groups = context[r].groups \cup {j}]]
  /\ UNCHANGED <<setting, line>>

\* It is not: the wrapping failed, or the session was aborted meanwhile.
NotSpawned(j) ==
  /\ jobs[j].pc = "wrapping"
  /\ session' = [session EXCEPT !.tmpdir = jobs[j].before, !.commands = @ - 1]
  /\ wraps' = Unwrapped(j)
  /\ Over(j)
  /\ UNCHANGED <<setting, context>>

\* The shell exits, and may leave processes in its group or out of it.
Exit(j) ==
  LET r == RunOf[j] IN
  /\ jobs[j].pc = "running"
  /\ \E left, strays \in IF context[r].supervisor = "namespace" \/ j \notin context[r].groups
                       THEN {FALSE} ELSE BOOLEAN :
       context' = [context EXCEPT ![r] = [@ EXCEPT
         !.groups = IF left THEN context[r].groups ELSE context[r].groups \ {j},
         !.strays = context[r].strays \/ strays]]
  /\ session' = [session EXCEPT !.commands = IF @ > 0 THEN @ - 1 ELSE 0]
  /\ Over(j)
  /\ UNCHANGED <<setting, wraps>>

-----------------------------------------------------------------------------
(* File tools, and what the host writes after the gate.                    *)

\* The guard of a file tool starts.
BeginFile(j) ==
  /\ jobs[j].pc = "queued" /\ jobs[j].kind = "file" /\ FileToolTurn(j)
  /\ jobs' = [jobs EXCEPT ![j].pc = "reaping"]
  /\ UNCHANGED <<setting, context, line, wraps, session>>

\* reap proves that nothing of the run is left, or throws.
Still(c, survivors) ==
  survivors = {} /\ (c.started => c.supervisor # "none")

\* The tool itself looks at its session's signal, like a command.  What
\* reaping leaves: a group may outlive its SIGKILL for a while.
Reaped(c, survivors) ==
  [c EXCEPT !.groups = survivors, !.strays = @ /\ c.supervisor # "cgroup"]

Touch(j) ==
  LET r == RunOf[j] IN
  /\ jobs[j].pc = "reaping"
  /\ \E survivors \in SUBSET context[r].groups :
       /\ context' = [context EXCEPT ![r] = Reaped(@, survivors)]
       /\ IF Still(context[r], survivors) /\ ~jobs[j].dead
          THEN jobs' = [jobs EXCEPT ![j].pc = "touching"] /\ UNCHANGED line
          ELSE Leaves(j)
  /\ UNCHANGED <<setting, wraps, session>>

Touched(j) ==
  /\ jobs[j].pc = "touching"
  /\ Leaves(j)
  /\ UNCHANGED <<setting, context, wraps, session>>

-----------------------------------------------------------------------------
(* The ends of sessions and runs.                                          *)

\* An abort kills the commands that run; the calls it finds queued or being
\* wrapped go on to where they notice.
AbortSession(r) ==
  LET mine == {j \in JobsOf(r) : jobs[j] # NoJob /\ jobs[j].kind # "gate"} IN
  /\ \E j \in mine : ~jobs[j].dead
  /\ jobs' = [j \in Jobs |-> IF j \in mine THEN [jobs[j] EXCEPT !.dead = TRUE] ELSE jobs[j]]
  /\ UNCHANGED <<setting, context, line, wraps, session>>

\* cleanup, once no session of the run is left.
CloseRun(r) ==
  /\ context[r].pc = "on" /\ \A j \in JobsOf(r) : jobs[j] = NoJob \/ jobs[j].dead
  /\ context' = [context EXCEPT ![r] = [Reaped(@, {}) EXCEPT !.pc = "off"]]
  /\ UNCHANGED <<setting, line, wraps, session, jobs>>

SandboxStep(j) ==
  \/ Call(j) \/ CallGate(j) \/ Refuse(j) \/ Claim(j) \/ Wrap(j) \/ Spawn(j)
  \/ NotSpawned(j) \/ Exit(j) \/ BeginFile(j) \/ Touch(j) \/ Touched(j)
SandboxNext ==
  \/ EditAllowlist
  \/ \E r \in Runs : StartRun(r) \/ AbortSession(r) \/ CloseRun(r)
  \/ \E j \in Jobs : SandboxStep(j)

SandboxSpec == SandboxInit /\ [][SandboxNext]_sandboxVars

-----------------------------------------------------------------------------
(* Properties.                                                             *)

\* While a command runs, the proxy applies the policy of its own run.
FilteredByItsOwnPolicy ==
  \A j \in Jobs : jobs[j].pc = "running" => session.applied = context[RunOf[j]].policy

\* A command is wrapped with its run's TMPDIR, and the process gets its own back.
TmpdirIsTheRuns ==
  /\ \A j \in Jobs : jobs[j].pc = "running" => jobs[j].tmpdir = RunOf[j]
  /\ wraps = <<>> => session.tmpdir = None

\* Nothing the agent has started runs while a trusted tool touches a path.
FileToolsRunAlone ==
  \A j \in Jobs : jobs[j].pc = "touching" =>
    /\ context[RunOf[j]].groups = {} /\ ~context[RunOf[j]].strays
    /\ \A i \in JobsOf(RunOf[j]) \ {j} : jobs[i].pc # "touching"
=============================================================================
