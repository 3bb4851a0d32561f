---------------------------- MODULE CallProofs ------------------------------
(***************************************************************************)
(* What the calls to an agent, the commands that agents run, the gate      *)
(* before their install scripts and the transcript that the calls leave    *)
(* keep, for any limits, runs, tool calls, network policies, cards,        *)
(* scripts and pages, and any number of lines.                             *)
(***************************************************************************)
EXTENDS Sandbox, AgentCall, InstallGate, LiveTranscript, FiniteSetTheorems, SequenceTheorems, TLAPS

(***************************************************************************)
(* The shared sandbox: a command runs under its own run's policy and with  *)
(* its TMPDIR, though the proxy and TMPDIR are one for the whole process,  *)
(* and a trusted tool works on a path only where nothing of the agent is   *)
(* left running.                                                           *)
(***************************************************************************)

\* Every call is of a run, there are finitely many at a time, and what may
\* supervise a run is one of the three.
BoxBounds == /\ IsFiniteSet(Jobs) /\ RunOf \in [Jobs -> Runs]
             /\ Supervisors \in [Runs -> SUBSET {"cgroup", "namespace", "none"}]

Calls == [pc : {"idle", "queued", "waiting", "wrapping", "running", "reaping", "touching"},
          kind : {"none", "bash", "file", "gate"}, dead : BOOLEAN,
          before : Runs \cup {None}, tmpdir : Runs \cup {None}]
Contexts == [pc : {"off", "on"}, policy : Policies \cup {None},
             supervisor : {"cgroup", "namespace", "none"},
             started : BOOLEAN, groups : SUBSET Jobs, strays : BOOLEAN]
SessionRecord == [claimed : Policies \cup {None}, commands : Nat,
                  applied : Policies \cup {None}, tmpdir : Runs \cup {None}]

Types == /\ jobs \in [Jobs -> Calls]
         /\ context \in [Runs -> Contexts]
         /\ session \in SessionRecord
         /\ setting \in Policies

\* The calls that hold the policy in force.
Holding == {"waiting", "wrapping", "running"}
Holders == {j \in Jobs : jobs[j].pc \in Holding}
PolicyOf(j) == context[RunOf[j]].policy

\* The count is that of the holders, each holds its own run's policy, and the
\* proxy has it from the wrapping on.
Counted == session.commands = Cardinality(Holders)
HoldsItsOwn == \A j \in Holders : PolicyOf(j) = session.claimed
AppliesIt == \A j \in Jobs : jobs[j].pc \in {"wrapping", "running"} => session.applied = PolicyOf(j)

PInv == Types /\ Counted /\ HoldsItsOwn /\ AppliesIt

-----------------------------------------------------------------------------
\* A step of one call, and what it does to the holders of the policy.
LEMMA JobStep ==
  ASSUME Types, NEW j \in Jobs, NEW x \in Calls, jobs' = [jobs EXCEPT ![j] = x]
  PROVE  /\ jobs' \in [Jobs -> Calls]
         /\ \A i \in Jobs : jobs'[i] = IF i = j THEN x ELSE jobs[i]
         /\ Holders' = IF x.pc \in Holding THEN Holders \cup {j} ELSE Holders \ {j}
<1>1. /\ jobs' \in [Jobs -> Calls]
      /\ \A i \in Jobs : jobs'[i] = IF i = j THEN x ELSE jobs[i]
  BY DEF Types
<1> QED
  BY <1>1 DEF Holders

LEMMA HoldersAreFinite ==
  ASSUME BoxBounds
  PROVE  IsFiniteSet(Holders) /\ Cardinality(Holders) \in Nat
<1>1. IsFiniteSet(Holders)
  BY FS_Subset DEF BoxBounds, Holders
<1> QED
  BY <1>1, FS_CardinalityType

\* Reaping leaves a run its policy.
LEMMA ReapedIsContext ==
  ASSUME NEW c \in Contexts, NEW survivors \in SUBSET Jobs
  PROVE  Reaped(c, survivors) \in Contexts /\ Reaped(c, survivors).policy = c.policy
<1> DEFINE b == c.strays /\ c.supervisor # "cgroup"
<1>1. b \in BOOLEAN
  OBVIOUS
<1>2. Reaped(c, survivors) = [c EXCEPT !.groups = survivors, !.strays = b]
  BY DEF Reaped
<1> HIDE DEF b
<1> QED
  BY <1>1, <1>2 DEF Contexts

LEMMA InitPolicy == ASSUME BoxBounds, SandboxInit PROVE PInv
<1>1. Types
  BY DEF SandboxInit, Types, NoJob, NoContext, Calls, Contexts, SessionRecord
<1>2. Holders = {}
  BY DEF SandboxInit, Holders, Holding, NoJob
<1>3. Counted
  BY <1>2, FS_EmptySet DEF SandboxInit, Counted
<1> QED
  BY <1>1, <1>2, <1>3 DEF SandboxInit, PInv, HoldsItsOwn, AppliesIt, NoJob, Holders

-----------------------------------------------------------------------------
\* A step of a call that holds no policy, before it or after it.
LEMMA Unheld ==
  ASSUME PInv, NEW j \in Jobs, jobs[j].pc \notin Holding,
         NEW x \in Calls, x.pc \notin Holding, jobs' = [jobs EXCEPT ![j] = x],
         BoxBounds, UNCHANGED <<session, setting>>, context' \in [Runs -> Contexts],
         \A r \in Runs : context'[r].policy = context[r].policy
  PROVE  PInv'
<1>1. /\ jobs' \in [Jobs -> Calls]
      /\ \A i \in Jobs : jobs'[i] = IF i = j THEN x ELSE jobs[i]
      /\ Holders' = Holders
  BY JobStep DEF PInv, Holders
<1>2. \A i \in Jobs : PolicyOf(i)' = PolicyOf(i)
  BY DEF PolicyOf, BoxBounds
<1>3. Types' /\ Counted'
  BY <1>1 DEF PInv, Types, Counted
<1>4. HoldsItsOwn'
  BY <1>1, <1>2 DEF PInv, HoldsItsOwn, Holders
<1>5. AppliesIt'
  BY <1>1, <1>2 DEF PInv, AppliesIt, Holding
<1> QED
  BY <1>3, <1>4, <1>5 DEF PInv

\* A call that held the policy and does so no more: one holder less.
LEMMA Releases ==
  ASSUME PInv, NEW j \in Jobs, jobs[j].pc \in Holding,
         NEW x \in Calls, x.pc \notin Holding, jobs' = [jobs EXCEPT ![j] = x],
         BoxBounds, setting' = setting, session' \in SessionRecord,
         session'.claimed = session.claimed, session'.applied = session.applied,
         session'.commands = session.commands - 1,
         context' \in [Runs -> Contexts], \A r \in Runs : context'[r].policy = context[r].policy
  PROVE  PInv'
<1>1. /\ jobs' \in [Jobs -> Calls]
      /\ \A i \in Jobs : jobs'[i] = IF i = j THEN x ELSE jobs[i]
      /\ Holders' = Holders \ {j}
  BY JobStep DEF PInv
<1>2. \A i \in Jobs : PolicyOf(i)' = PolicyOf(i)
  BY DEF PolicyOf, BoxBounds
<1>3. j \in Holders /\ Cardinality(Holders \ {j}) = Cardinality(Holders) - 1
  BY HoldersAreFinite, FS_RemoveElement DEF Holders
<1>4. Types' /\ Counted'
  BY <1>1, <1>3 DEF PInv, Types, Counted
<1>5. HoldsItsOwn'
  <2>1. \A i \in Holders : i \in Jobs
    BY DEF Holders
  <2> QED
    BY <1>1, <1>2, <2>1 DEF PInv, HoldsItsOwn
<1>6. AppliesIt'
  BY <1>1, <1>2 DEF PInv, AppliesIt, Holding
<1> QED
  BY <1>4, <1>5, <1>6 DEF PInv

\* Whatever follows a command, it holds nothing.
LEMMA OverHoldsNothing ==
  ASSUME Types, NEW j \in Jobs, Over(j)
  PROVE  \E x \in Calls : x.pc \notin Holding /\ jobs' = [jobs EXCEPT ![j] = x]
<1>1. CASE jobs[j].kind = "gate"
  <2>1. jobs' = [jobs EXCEPT ![j] = [jobs[j] EXCEPT !.pc = "reaping"]]
    BY <1>1 DEF Over
  <2>2. /\ [jobs[j] EXCEPT !.pc = "reaping"] \in Calls
        /\ [jobs[j] EXCEPT !.pc = "reaping"].pc \notin Holding
    BY DEF Types, Calls, Holding
  <2> QED
    BY <2>1, <2>2
<1>2. CASE jobs[j].kind # "gate"
  <2>1. jobs' = [jobs EXCEPT ![j] = NoJob]
    BY <1>2 DEF Over, Leaves
  <2>2. NoJob \in Calls /\ NoJob.pc \notin Holding
    BY DEF NoJob, Calls, Holding
  <2> QED
    BY <2>1, <2>2
<1> QED
  BY <1>1, <1>2

-----------------------------------------------------------------------------
\* A run starts, with the settings of that moment, when none of its calls is
\* under way; a run ends with the policy it had.
LEMMA RunSteps ==
  ASSUME BoxBounds, PInv, NEW r \in Runs, StartRun(r) \/ AbortSession(r) \/ CloseRun(r)
  PROVE  PInv'
<1>1. CASE StartRun(r)
  <2>1. PICK supervisor \in Supervisors[r] :
          context' = [context EXCEPT ![r] = [NoContext EXCEPT !.pc = "on", !.policy = setting,
                                                          !.supervisor = supervisor]]
    BY <1>1 DEF StartRun
  <2>2. UNCHANGED <<setting, session, jobs>> /\ \A j \in JobsOf(r) : jobs[j] = NoJob
    BY <1>1 DEF StartRun
  <2>3. /\ context' \in [Runs -> Contexts]
        /\ \A q \in Runs : q # r => context'[q] = context[q]
    BY <2>1 DEF PInv, Types, NoContext, Contexts, BoxBounds
  <2>4. \A j \in Jobs : jobs[j].pc # "idle" => RunOf[j] \in Runs /\ RunOf[j] # r
    BY <2>2 DEF BoxBounds, JobsOf, NoJob
  <2>5. \A j \in Jobs : jobs[j].pc # "idle" => PolicyOf(j)' = PolicyOf(j)
    BY <2>3, <2>4 DEF PolicyOf
  <2>6. Holders' = Holders /\ \A j \in Holders : jobs[j].pc # "idle" /\ j \in Jobs
    BY <2>2 DEF Holders, Holding
  <2> QED
    BY <2>2, <2>3, <2>5, <2>6 DEF PInv, Types, Counted, HoldsItsOwn, AppliesIt
<1>2. CASE AbortSession(r)
  <2>1. /\ jobs' \in [Jobs -> Calls] /\ \A j \in Jobs : jobs'[j].pc = jobs[j].pc
        /\ UNCHANGED <<setting, context, session>>
    BY <1>2 DEF AbortSession, PInv, Types, Calls
  <2>2. Holders' = Holders
    BY <2>1 DEF Holders
  <2> QED
    BY <2>1, <2>2 DEF PInv, Types, Counted, HoldsItsOwn, AppliesIt, PolicyOf
<1>3. CASE CloseRun(r)
  <2>1. /\ UNCHANGED <<setting, session, jobs>>
        /\ context' = [context EXCEPT ![r] = [Reaped(context[r], {}) EXCEPT !.pc = "off"]]
    BY <1>3 DEF CloseRun
  <2>2. /\ context' \in [Runs -> Contexts]
        /\ \A q \in Runs : context'[q].policy = context[q].policy
    BY <2>1 DEF PInv, Types, Reaped, Contexts
  <2>3. Holders' = Holders /\ \A j \in Jobs : PolicyOf(j)' = PolicyOf(j)
    BY <2>1, <2>2 DEF Holders, PolicyOf, BoxBounds
  <2> QED
    BY <2>1, <2>2, <2>3 DEF PInv, Types, Counted, HoldsItsOwn, AppliesIt, Holders
<1> QED
  BY <1>1, <1>2, <1>3

\* The steps of a call that hold no policy: it is queued, refused, or a file
\* tool's, or what follows the gate.
LEMMA UnheldSteps ==
  ASSUME BoxBounds, PInv, NEW j \in Jobs,
         Call(j) \/ CallGate(j) \/ Refuse(j) \/ BeginFile(j) \/ Touch(j) \/ Touched(j)
  PROVE  PInv'
<1>1. CASE Call(j) \/ CallGate(j)
  <2>1. PICK kind \in {"bash", "file", "gate"} :
          jobs' = [jobs EXCEPT ![j] = [jobs[j] EXCEPT !.pc = "queued", !.kind = kind]]
    BY <1>1 DEF Call, CallGate
  <2>2. /\ jobs[j].pc \notin Holding /\ UNCHANGED <<session, setting, context>>
        /\ [jobs[j] EXCEPT !.pc = "queued", !.kind = kind] \in Calls
        /\ [jobs[j] EXCEPT !.pc = "queued", !.kind = kind].pc \notin Holding
    <3>1. jobs[j].pc \notin Holding /\ UNCHANGED <<session, setting, context>>
      BY <1>1 DEF Call, CallGate, NoJob, Holding
    <3>2. jobs[j] \in Calls
      BY DEF PInv, Types
    <3> QED
      BY <3>1, <3>2 DEF Calls, Holding
  <2> QED
    BY <2>1, <2>2, Unheld DEF PInv, Types
<1>2. CASE Refuse(j)
  <2>1. jobs[j].pc \notin Holding /\ UNCHANGED <<session, setting, context>> /\ Over(j)
    BY <1>2 DEF Refuse, Holding
  <2>2. PICK x \in Calls : x.pc \notin Holding /\ jobs' = [jobs EXCEPT ![j] = x]
    BY <2>1, OverHoldsNothing DEF PInv
  <2> QED
    BY <2>1, <2>2, Unheld DEF PInv, Types
<1>3. CASE BeginFile(j)
  <2>1. jobs' = [jobs EXCEPT ![j] = [jobs[j] EXCEPT !.pc = "reaping"]]
    BY <1>3 DEF BeginFile
  <2>2. /\ jobs[j].pc \notin Holding /\ UNCHANGED <<session, setting, context>>
        /\ [jobs[j] EXCEPT !.pc = "reaping"] \in Calls
        /\ [jobs[j] EXCEPT !.pc = "reaping"].pc \notin Holding
    BY <1>3 DEF BeginFile, Holding, PInv, Types, Calls
  <2> QED
    BY <2>1, <2>2, Unheld DEF PInv, Types
<1>4. CASE Touch(j)
  <2>1. /\ jobs[j].pc \notin Holding /\ UNCHANGED <<session, setting>>
        /\ \E x \in {NoJob, [jobs[j] EXCEPT !.pc = "touching"]} : jobs' = [jobs EXCEPT ![j] = x]
    BY <1>4 DEF Touch, Leaves, Holding
  <2>2. PICK survivors \in SUBSET context[RunOf[j]].groups :
          context' = [context EXCEPT ![RunOf[j]] = Reaped(context[RunOf[j]], survivors)]
    BY <1>4 DEF Touch
  <2>3. /\ context' \in [Runs -> Contexts]
        /\ \A r \in Runs : context'[r].policy = context[r].policy
    <3>1. RunOf[j] \in Runs /\ context[RunOf[j]] \in Contexts
      BY DEF BoxBounds, PInv, Types
    <3>2. survivors \subseteq Jobs
      BY <3>1 DEF Contexts
    <3>3. /\ Reaped(context[RunOf[j]], survivors) \in Contexts
          /\ Reaped(context[RunOf[j]], survivors).policy = context[RunOf[j]].policy
      BY <3>1, <3>2, ReapedIsContext
    <3> QED
      BY <2>2, <3>1, <3>3 DEF PInv, Types
  <2>4. \A x \in {NoJob, [jobs[j] EXCEPT !.pc = "touching"]} : x \in Calls /\ x.pc \notin Holding
    <3>1. NoJob \in Calls /\ NoJob.pc \notin Holding
      BY DEF NoJob, Calls, Holding
    <3>2. jobs[j] \in Calls
      BY DEF PInv, Types
    <3>3. [jobs[j] EXCEPT !.pc = "touching"] \in Calls /\ [jobs[j] EXCEPT !.pc = "touching"].pc = "touching"
      BY <3>2 DEF Calls
    <3> QED
      BY <3>1, <3>3 DEF Holding
  <2> QED
    BY <2>1, <2>3, <2>4, Unheld
<1>5. CASE Touched(j)
  <2>1. /\ jobs[j].pc \notin Holding /\ UNCHANGED <<session, setting, context>>
        /\ jobs' = [jobs EXCEPT ![j] = NoJob]
    BY <1>5 DEF Touched, Leaves, Holding
  <2>2. NoJob \in Calls /\ NoJob.pc \notin Holding
    BY DEF NoJob, Calls, Holding
  <2> QED
    BY <2>1, <2>2, Unheld DEF PInv, Types
<1> QED
  BY <1>1, <1>2, <1>3, <1>4, <1>5

\* A command claims the policy when nobody holds another one.
LEMMA ClaimKeeps == ASSUME BoxBounds, PInv, NEW j \in Jobs, Claim(j) PROVE PInv'
<1> DEFINE x == [jobs[j] EXCEPT !.pc = "waiting"]
<1>1. /\ jobs[j].pc = "queued" /\ ~Clashes(PolicyOf(j))
      /\ session' = [session EXCEPT !.claimed = PolicyOf(j), !.commands = session.commands + 1]
      /\ jobs' = [jobs EXCEPT ![j] = x] /\ UNCHANGED <<setting, context>>
  BY DEF Claim, PolicyOf
<1>2. x \in Calls /\ x.pc = "waiting"
  BY DEF PInv, Types, Calls
<1> HIDE DEF x
<1>3. /\ jobs' \in [Jobs -> Calls]
      /\ \A i \in Jobs : jobs'[i] = IF i = j THEN x ELSE jobs[i]
      /\ Holders' = Holders \cup {j}
  BY <1>1, <1>2, JobStep DEF PInv, Holding
<1>4. j \notin Holders /\ Cardinality(Holders \cup {j}) = Cardinality(Holders) + 1
  BY <1>1, HoldersAreFinite, FS_AddElement DEF Holders, Holding
<1>5. PolicyOf(j) \in Policies \cup {None}
  BY DEF PolicyOf, PInv, Types, Contexts, BoxBounds
<1>6. /\ session' \in SessionRecord /\ session'.claimed = PolicyOf(j)
      /\ session'.commands = session.commands + 1 /\ session'.applied = session.applied
  <2>1. session \in SessionRecord /\ session.commands + 1 \in Nat
    BY DEF PInv, Types, SessionRecord
  <2> QED
    BY <1>1, <1>5, <2>1 DEF SessionRecord
<1>7. \A i \in Holders : PolicyOf(i) = PolicyOf(j)
  <2>1. CASE session.commands = 0
    BY <2>1, HoldersAreFinite, FS_EmptySet DEF PInv, Counted
  <2>2. CASE session.commands > 0
    BY <1>1, <2>2 DEF Clashes, PInv, HoldsItsOwn
  <2> QED
    BY <2>1, <2>2 DEF PInv, Types, SessionRecord
<1>8. \A i : PolicyOf(i)' = PolicyOf(i)
  BY <1>1 DEF PolicyOf
<1>9. Types' /\ Counted'
  BY <1>1, <1>3, <1>4, <1>6 DEF PInv, Types, Counted
<1>10. HoldsItsOwn'
  BY <1>3, <1>6, <1>7, <1>8 DEF HoldsItsOwn
<1>11. AppliesIt'
  BY <1>2, <1>3, <1>6, <1>8 DEF PInv, AppliesIt
<1> QED
  BY <1>9, <1>10, <1>11 DEF PInv

\* The proxy is given the policy of a call that holds it: the others' as well.
LEMMA WrapKeeps == ASSUME BoxBounds, PInv, NEW j \in Jobs, Wrap(j) PROVE PInv'
<1> DEFINE x == [jobs[j] EXCEPT !.pc = "wrapping", !.before = session.tmpdir]
<1>1. /\ jobs[j].pc = "waiting"
      /\ session' = [session EXCEPT !.tmpdir = RunOf[j], !.applied = PolicyOf(j)]
      /\ jobs' = [jobs EXCEPT ![j] = x] /\ UNCHANGED <<setting, context>>
  BY DEF Wrap, PolicyOf
<1>2. x \in Calls /\ x.pc = "wrapping"
  BY DEF PInv, Types, Calls, SessionRecord
<1> HIDE DEF x
<1>3. /\ jobs' \in [Jobs -> Calls]
      /\ \A i \in Jobs : jobs'[i] = IF i = j THEN x ELSE jobs[i]
      /\ Holders' = Holders /\ j \in Holders
  BY <1>1, <1>2, JobStep DEF PInv, Holding, Holders
<1>4. PolicyOf(j) \in Policies \cup {None} /\ RunOf[j] \in Runs
  BY DEF PolicyOf, PInv, Types, Contexts, BoxBounds
<1>5. /\ session' \in SessionRecord /\ session'.claimed = session.claimed
      /\ session'.commands = session.commands /\ session'.applied = PolicyOf(j)
  BY <1>1, <1>4 DEF PInv, Types, SessionRecord
<1>6. \A i : PolicyOf(i)' = PolicyOf(i)
  BY <1>1 DEF PolicyOf
<1>7. Types' /\ Counted' /\ HoldsItsOwn'
  BY <1>1, <1>3, <1>5, <1>6 DEF PInv, Types, Counted, HoldsItsOwn
<1>8. \A i \in Holders : PolicyOf(i) = PolicyOf(j)
  BY <1>3 DEF PInv, HoldsItsOwn
<1>9. \A i \in Jobs : jobs'[i].pc \in {"wrapping", "running"} => i \in Holders
  BY <1>3 DEF Holders, Holding
<1>10. AppliesIt'
  BY <1>5, <1>6, <1>8, <1>9 DEF AppliesIt
<1> QED
  BY <1>7, <1>10 DEF PInv

\* The command keeps what it holds while it runs.
LEMMA SpawnKeeps == ASSUME BoxBounds, PInv, NEW j \in Jobs, Spawn(j) PROVE PInv'
<1> DEFINE x == [jobs[j] EXCEPT !.pc = "running", !.tmpdir = session.tmpdir]
           r == RunOf[j]
<1>1. /\ jobs[j].pc = "wrapping"
      /\ session' = [session EXCEPT !.tmpdir = jobs[j].before, !.commands = session.commands]
      /\ context' = [context EXCEPT ![r] = [context[r] EXCEPT !.started = TRUE,
                                                              !.groups = context[r].groups \cup {j}]]
      /\ jobs' = [jobs EXCEPT ![j] = x] /\ UNCHANGED setting
  BY DEF Spawn, ClaimAfterWrap, PInv, Types, BoxBounds
<1>2. x \in Calls /\ x.pc = "running"
  BY DEF PInv, Types, Calls, SessionRecord
<1> HIDE DEF x
<1>3. /\ jobs' \in [Jobs -> Calls]
      /\ \A i \in Jobs : jobs'[i] = IF i = j THEN x ELSE jobs[i]
      /\ Holders' = Holders
  BY <1>1, <1>2, JobStep DEF PInv, Holding, Holders
<1>4. /\ session' \in SessionRecord /\ session'.claimed = session.claimed
      /\ session'.commands = session.commands /\ session'.applied = session.applied
  BY <1>1 DEF PInv, Types, SessionRecord, Calls
<1>5. /\ context' \in [Runs -> Contexts] /\ \A q \in Runs : context'[q].policy = context[q].policy
  <2> DEFINE y == [context[r] EXCEPT !.started = TRUE, !.groups = context[r].groups \cup {j}]
  <2>1. context \in [Runs -> Contexts] /\ r \in Runs
    BY DEF PInv, Types, BoxBounds
  <2>2. y \in Contexts /\ y.policy = context[r].policy
    BY <2>1 DEF Contexts
  <2>3. context' = [context EXCEPT ![r] = y]
    BY <1>1
  <2> HIDE DEF y, r
  <2> QED
    BY <2>1, <2>2, <2>3
<1>6. \A i \in Jobs : PolicyOf(i)' = PolicyOf(i)
  BY <1>5 DEF PolicyOf, BoxBounds
<1>7. Types' /\ Counted' /\ HoldsItsOwn'
  BY <1>1, <1>3, <1>4, <1>5, <1>6 DEF PInv, Types, Counted, HoldsItsOwn, Holders
<1>8. AppliesIt'
  BY <1>1, <1>3, <1>4, <1>6 DEF PInv, AppliesIt
<1> QED
  BY <1>7, <1>8 DEF PInv

\* The command is not spawned, or it is over.
LEMMA EndKeeps == ASSUME BoxBounds, PInv, NEW j \in Jobs, NotSpawned(j) \/ Exit(j) PROVE PInv'
<1>1. jobs[j].pc \in Holding /\ setting' = setting /\ Over(j)
  BY DEF NotSpawned, Exit, Holding
<1>2. PICK x \in Calls : x.pc \notin Holding /\ jobs' = [jobs EXCEPT ![j] = x]
  BY <1>1, OverHoldsNothing DEF PInv
<1>3. session.commands \in Nat /\ session.commands > 0
  BY <1>1, HoldersAreFinite, FS_EmptySet DEF PInv, Counted, Holders, Types, SessionRecord
<1>4. /\ session' \in SessionRecord
      /\ session'.claimed = session.claimed /\ session'.applied = session.applied
      /\ session'.commands = session.commands - 1
  <2>1. session \in SessionRecord /\ jobs[j].before \in Runs \cup {None} /\ session.commands - 1 \in Nat
    BY <1>3 DEF PInv, Types, Calls
  <2>2. CASE NotSpawned(j)
    <3>1. session' = [session EXCEPT !.tmpdir = jobs[j].before, !.commands = session.commands - 1]
      BY <2>2 DEF NotSpawned
    <3> QED
      BY <2>1, <3>1 DEF SessionRecord
  <2>3. CASE Exit(j)
    <3>1. session' = [session EXCEPT !.commands = session.commands - 1]
      BY <1>3, <2>3 DEF Exit
    <3> QED
      BY <2>1, <3>1 DEF SessionRecord
  <2> QED
    BY <2>2, <2>3
<1>5. context' \in [Runs -> Contexts] /\ \A r \in Runs : context'[r].policy = context[r].policy
  <2>1. CASE NotSpawned(j)
    BY <2>1 DEF NotSpawned, PInv, Types
  <2>2. CASE Exit(j)
    <3>1. PICK left \in BOOLEAN, strays \in BOOLEAN :
            context' = [context EXCEPT
              ![RunOf[j]] = [context[RunOf[j]] EXCEPT
                 !.groups = IF left THEN context[RunOf[j]].groups
                                    ELSE context[RunOf[j]].groups \ {j},
                 !.strays = context[RunOf[j]].strays \/ strays]]
      BY <2>2 DEF Exit, PInv, Types, BoxBounds
    <3> QED
      <4>1. /\ RunOf[j] \in Runs /\ context[RunOf[j]] \in Contexts
            /\ context[RunOf[j]].groups \subseteq Jobs /\ context[RunOf[j]].strays \in BOOLEAN
        BY DEF BoxBounds, PInv, Types, Contexts
      <4>2. (context[RunOf[j]].strays \/ strays) \in BOOLEAN
        OBVIOUS
      <4> DEFINE g == IF left THEN context[RunOf[j]].groups ELSE context[RunOf[j]].groups \ {j}
                 b == context[RunOf[j]].strays \/ strays
                 c == [context[RunOf[j]] EXCEPT !.groups = g, !.strays = b]
      <4>3. g \subseteq Jobs /\ b \in BOOLEAN
        BY <4>1
      <4>4. context' = [context EXCEPT ![RunOf[j]] = c]
        BY <3>1
      <4> HIDE DEF g, b
      <4>5. c \in Contexts /\ c.policy = context[RunOf[j]].policy
        BY <4>1, <4>3 DEF Contexts
      <4> HIDE DEF c
      <4> QED
        BY <4>1, <4>4, <4>5 DEF PInv, Types
  <2> QED
    BY <2>1, <2>2
<1> QED
  BY <1>1, <1>2, <1>4, <1>5, Releases

LEMMA StepKeeps == ASSUME BoxBounds, PInv, [SandboxNext]_sandboxVars PROVE PInv'
<1>1. CASE UNCHANGED sandboxVars
  BY <1>1 DEF sandboxVars, PInv, Types, Counted, Holders, HoldsItsOwn, AppliesIt, PolicyOf
<1>2. CASE EditAllowlist
  BY <1>2 DEF EditAllowlist, PInv, Types, Counted, Holders, HoldsItsOwn, AppliesIt, PolicyOf
<1>3. ASSUME NEW r \in Runs, StartRun(r) \/ AbortSession(r) \/ CloseRun(r) PROVE PInv'
  BY <1>3, RunSteps
<1>4. ASSUME NEW j \in Jobs, SandboxStep(j) PROVE PInv'
  BY <1>4, UnheldSteps, ClaimKeeps, WrapKeeps, SpawnKeeps, EndKeeps DEF SandboxStep
<1> QED
  BY <1>1, <1>2, <1>3, <1>4 DEF SandboxNext

\* While a command runs, the process-wide proxy applies the policy of its own
\* run, whatever other runs start and end and whatever the setting becomes
\* (srt.ts: a command claims the policy before it is wrapped, keeps it until it
\* exits, and one of another policy is refused meanwhile).
THEOREM OwnPolicy == ASSUME BoxBounds PROVE SandboxSpec => []FilteredByItsOwnPolicy
<1>1. SandboxInit => PInv
  BY InitPolicy
<1>2. PInv /\ [SandboxNext]_sandboxVars => PInv'
  BY StepKeeps
<1>3. PInv => FilteredByItsOwnPolicy
  BY DEF PInv, AppliesIt, PolicyOf, FilteredByItsOwnPolicy
<1> QED
  BY <1>1, <1>2, <1>3, PTL DEF SandboxSpec

-----------------------------------------------------------------------------
(* The calls in the lines of their runs, and the gate beside them.         *)

IsCall(j) == jobs[j].kind \in {"bash", "file"}

\* Nobody is in a line twice, and who is in one is a call of its run.
LineHolds(r) ==
  /\ \A k, l \in 1..Len(line[r]) : line[r][k] = line[r][l] => k = l
  /\ \A k \in 1..Len(line[r]) : RunOf[line[r][k]] = r /\ IsCall(line[r][k])

\* A call is in its run's line, and at its head once it is at work.
LineKnows(j) ==
  IsCall(j) => /\ \E k \in 1..Len(line[RunOf[j]]) : line[RunOf[j]][k] = j
               /\ jobs[j].pc # "queued" => line[RunOf[j]][1] = j
Lined ==
  /\ line \in [Runs -> Seq(Jobs)]
  /\ \A r \in Runs : LineHolds(r)
  /\ \A j \in Jobs : LineKnows(j)

\* What a call of each kind may be at.
Fits(t) ==
  /\ t.pc = "idle" <=> t.kind = "none"
  /\ t.kind = "none" => t = NoJob
  /\ t.pc \in {"waiting", "wrapping", "running"} => t.kind # "file"
  /\ t.pc \in {"reaping", "touching"} => t.kind # "bash"
  /\ t.kind = "gate" => ~t.dead
KindsFit == \A j \in Jobs : Fits(jobs[j])

\* Beside a run's gate there are only calls of sessions that are over.
GateAlone ==
  \A g, j \in Jobs :
    jobs[g].kind = "gate" /\ g # j /\ RunOf[g] = RunOf[j] =>
      jobs[j].kind = "none" \/ (IsCall(j) /\ jobs[j].dead /\ jobs[j].pc # "touching")

QInv == PInv /\ Lined /\ KindsFit /\ GateAlone

\* What a step of one call may make of it, x, and of the lines.
Enters(j, x) ==
  /\ jobs[j] = NoJob /\ x.pc = "queued" /\ ~x.dead
  /\ \/ /\ x.kind \in {"bash", "file"}
        /\ \A i \in JobsOf(RunOf[j]) : jobs[i].kind # "gate"
        /\ line' = [line EXCEPT ![RunOf[j]] = Append(line[RunOf[j]], j)]
     \/ /\ x.kind = "gate" /\ line' = line
        /\ \A i \in JobsOf(RunOf[j]) :
             jobs[i] = NoJob \/ (jobs[i].dead /\ jobs[i].pc # "touching")
HasTurn(j) == MyTurn(j) \/ jobs[j].pc # "queued"
GoesOn(j, x) ==
  /\ jobs[j].pc # "idle" /\ x.pc \notin {"idle", "queued"} /\ HasTurn(j)
  /\ x.kind = jobs[j].kind /\ x.dead = jobs[j].dead
  /\ x.pc \in {"waiting", "wrapping", "running"} => x.kind # "file"
  /\ x.pc \in {"reaping", "touching"} => x.kind # "bash"
  /\ x.pc = "touching" => ~x.dead
  /\ line' = line
Ends(j, x) ==
  /\ jobs[j].pc # "idle" /\ x = NoJob /\ HasTurn(j)
  /\ line' = LineAfter(j)

LEMMA OverEndsOrReaps ==
  ASSUME Types, NEW j \in Jobs, jobs[j].pc # "idle", HasTurn(j), Over(j)
  PROVE  \E x \in Calls : jobs' = [jobs EXCEPT ![j] = x] /\ (GoesOn(j, x) \/ Ends(j, x))
<1>1. CASE jobs[j].kind = "gate"
  <2> DEFINE x == [jobs[j] EXCEPT !.pc = "reaping"]
  <2>1. jobs' = [jobs EXCEPT ![j] = x] /\ line' = line
    BY <1>1 DEF Over
  <2>2. x \in Calls /\ x.pc = "reaping" /\ x.kind = "gate" /\ x.dead = jobs[j].dead
    BY <1>1 DEF Types, Calls
  <2> HIDE DEF x
  <2> QED
    BY <1>1, <2>1, <2>2 DEF GoesOn
<1>2. CASE jobs[j].kind # "gate"
  <2>1. jobs' = [jobs EXCEPT ![j] = NoJob] /\ line' = LineAfter(j)
    BY <1>2 DEF Over, Leaves
  <2>2. NoJob \in Calls
    BY DEF NoJob, Calls
  <2> QED
    BY <2>1, <2>2 DEF Ends
<1> QED
  BY <1>1, <1>2

\* Every step of a call is one of the three.
LEMMA CallMoves ==
  ASSUME Types, KindsFit, NEW j \in Jobs, SandboxStep(j)
  PROVE  \E x \in Calls : /\ jobs' = [jobs EXCEPT ![j] = x]
                          /\ Enters(j, x) \/ GoesOn(j, x) \/ Ends(j, x)
<1>1. jobs[j] \in Calls /\ Fits(jobs[j])
  BY DEF Types, KindsFit
<1>2. NoJob \in Calls /\ NoJob.dead = FALSE
  BY DEF NoJob, Calls
<1>3. CASE Call(j)
  <2>1. PICK kind \in {"bash", "file"} :
          jobs' = [jobs EXCEPT ![j] = [jobs[j] EXCEPT !.pc = "queued", !.kind = kind]]
    BY <1>3 DEF Call
  <2> DEFINE x == [jobs[j] EXCEPT !.pc = "queued", !.kind = kind]
  <2>2. x \in Calls /\ x.pc = "queued" /\ x.kind = kind /\ x.dead = jobs[j].dead
    BY <1>1 DEF Calls
  <2> HIDE DEF x
  <2>3. Enters(j, x)
    BY <1>2, <1>3, <2>2 DEF Call, Enters
  <2> QED
    BY <2>1, <2>2, <2>3 DEF x
<1>4. CASE CallGate(j)
  <2> DEFINE x == [jobs[j] EXCEPT !.pc = "queued", !.kind = "gate"]
  <2>1. x \in Calls /\ x.pc = "queued" /\ x.kind = "gate" /\ x.dead = jobs[j].dead
    BY <1>1 DEF Calls
  <2>2. jobs' = [jobs EXCEPT ![j] = x]
    BY <1>4 DEF CallGate
  <2> HIDE DEF x
  <2>3. Enters(j, x)
    BY <1>2, <1>4, <2>1 DEF CallGate, Enters
  <2> QED
    BY <2>1, <2>2, <2>3
<1>5. CASE Refuse(j) \/ NotSpawned(j) \/ Exit(j)
  <2>1. jobs[j].pc # "idle" /\ HasTurn(j) /\ Over(j)
    BY <1>5 DEF Refuse, NotSpawned, Exit, HasTurn
  <2> QED
    BY <2>1, OverEndsOrReaps
<1>6. CASE Claim(j)
  <2> DEFINE x == [jobs[j] EXCEPT !.pc = "waiting"]
  <2>1. x \in Calls /\ x.pc = "waiting" /\ x.kind = jobs[j].kind /\ x.dead = jobs[j].dead
    BY <1>1 DEF Calls
  <2>2. jobs' = [jobs EXCEPT ![j] = x]
    BY <1>6 DEF Claim
  <2> HIDE DEF x
  <2>3. GoesOn(j, x)
    BY <1>6, <2>1 DEF Claim, GoesOn, HasTurn
  <2> QED
    BY <2>1, <2>2, <2>3
<1>7. CASE Wrap(j)
  <2> DEFINE x == [jobs[j] EXCEPT !.pc = "wrapping", !.before = session.tmpdir]
  <2>1. x \in Calls /\ x.pc = "wrapping" /\ x.kind = jobs[j].kind /\ x.dead = jobs[j].dead
    BY <1>1 DEF Calls, Types, SessionRecord
  <2>2. jobs' = [jobs EXCEPT ![j] = x]
    BY <1>7 DEF Wrap
  <2> HIDE DEF x
  <2>3. GoesOn(j, x)
    BY <1>1, <1>7, <2>1 DEF Wrap, GoesOn, HasTurn, Fits
  <2> QED
    BY <2>1, <2>2, <2>3
<1>8. CASE Spawn(j)
  <2> DEFINE x == [jobs[j] EXCEPT !.pc = "running", !.tmpdir = session.tmpdir]
  <2>1. x \in Calls /\ x.pc = "running" /\ x.kind = jobs[j].kind /\ x.dead = jobs[j].dead
    BY <1>1 DEF Calls, Types, SessionRecord
  <2>2. jobs' = [jobs EXCEPT ![j] = x]
    BY <1>8 DEF Spawn
  <2> HIDE DEF x
  <2>3. GoesOn(j, x)
    BY <1>1, <1>8, <2>1 DEF Spawn, GoesOn, HasTurn, Fits
  <2> QED
    BY <2>1, <2>2, <2>3
<1>9. CASE BeginFile(j)
  <2> DEFINE x == [jobs[j] EXCEPT !.pc = "reaping"]
  <2>1. x \in Calls /\ x.pc = "reaping" /\ x.kind = jobs[j].kind /\ x.dead = jobs[j].dead
    BY <1>1 DEF Calls
  <2>2. jobs' = [jobs EXCEPT ![j] = x]
    BY <1>9 DEF BeginFile
  <2> HIDE DEF x
  <2>3. GoesOn(j, x)
    BY <1>9, <2>1 DEF BeginFile, FileToolTurn, GoesOn, HasTurn
  <2> QED
    BY <2>1, <2>2, <2>3
<1>10. CASE Touch(j)
  <2>1. CASE Leaves(j)
    BY <1>2, <1>10, <2>1 DEF Touch, Leaves, Ends, HasTurn
  <2>2. CASE ~jobs[j].dead /\ line' = line /\ jobs' = [jobs EXCEPT ![j] = [jobs[j] EXCEPT !.pc = "touching"]]
    <3> DEFINE x == [jobs[j] EXCEPT !.pc = "touching"]
    <3>1. x \in Calls /\ x.pc = "touching" /\ x.kind = jobs[j].kind /\ x.dead = jobs[j].dead
      BY <1>1 DEF Calls
    <3>2. jobs' = [jobs EXCEPT ![j] = x]
      BY <2>2
    <3> HIDE DEF x
    <3>3. GoesOn(j, x)
      BY <1>1, <1>10, <2>2, <3>1 DEF Touch, GoesOn, HasTurn, Fits
    <3> QED
      BY <3>1, <3>2, <3>3
  <2> QED
    BY <1>10, <2>1, <2>2 DEF Touch
<1>11. CASE Touched(j)
  BY <1>2, <1>11 DEF Touched, Leaves, Ends, HasTurn
<1> QED
  BY <1>3, <1>4, <1>5, <1>6, <1>7, <1>8, <1>9, <1>10, <1>11 DEF SandboxStep

-----------------------------------------------------------------------------
(* A step of one call keeps the lines, the kinds and the gate's solitude.  *)

\* A call joins the end of its run's line.
LEMMA LineJoins ==
  ASSUME BoxBounds, Types, Lined, NEW j \in Jobs, NEW x \in Calls, jobs' = [jobs EXCEPT ![j] = x],
         ~IsCall(j), x.kind \in {"bash", "file"}, x.pc = "queued",
         line' = [line EXCEPT ![RunOf[j]] = Append(line[RunOf[j]], j)]
  PROVE  Lined'
<1> DEFINE r == RunOf[j]
           n == Len(line[r])
<1>1. r \in Runs /\ line[r] \in Seq(Jobs) /\ n \in Nat
  BY LenProperties DEF BoxBounds, Lined
<1>2. \A i \in Jobs : jobs'[i] = IF i = j THEN x ELSE jobs[i]
  BY JobStep
<1>3. /\ line' \in [Runs -> Seq(Jobs)]
      /\ \A q \in Runs : q # r => line'[q] = line[q]
      /\ Len(line'[r]) = n + 1 /\ line'[r][n + 1] = j
      /\ \A k \in 1..n : line'[r][k] = line[r][k]
  BY <1>1, AppendProperties DEF Lined
<1>4. \A q \in Runs : \A k \in 1..Len(line[q]) : line[q][k] \in Jobs /\ line[q][k] # j
  <2>1. \A q \in Runs : line[q] \in Seq(Jobs)
    BY DEF Lined
  <2> QED
    BY <2>1, ElementOfSeq DEF Lined, LineHolds
<1> HIDE DEF n
<1>5. ASSUME NEW q \in Runs PROVE LineHolds(q)'
  <2>1. CASE q # r
    BY <1>2, <1>3, <1>4, <2>1 DEF Lined, LineHolds, IsCall
  <2>2. CASE q = r
    <3>1. ASSUME NEW k \in 1..Len(line'[q]) PROVE RunOf[line'[q][k]] = q /\ jobs'[line'[q][k]].kind \in {"bash", "file"}
      <4>1. CASE k = n + 1
        BY <1>2, <1>3, <2>2, <4>1 DEF IsCall
      <4>2. CASE k \in 1..n
        BY <1>1, <1>2, <1>3, <1>4, <2>2, <4>2 DEF Lined, LineHolds, IsCall, n
      <4> QED
        BY <1>1, <1>3, <2>2, <3>1, <4>1, <4>2
    <3>2. ASSUME NEW k \in 1..Len(line'[q]), NEW l \in 1..Len(line'[q]),
                 line'[q][k] = line'[q][l]
          PROVE k = l
      <4>1. (k \in 1..n \/ k = n + 1) /\ (l \in 1..n \/ l = n + 1)
        BY <1>1, <1>3, <2>2
      <4> QED
        BY <1>1, <1>3, <1>4, <2>2, <3>2, <4>1 DEF Lined, LineHolds, n
    <3> QED
      BY <3>1, <3>2 DEF LineHolds, IsCall
  <2> QED
    BY <2>1, <2>2
<1>6. ASSUME NEW i \in Jobs, IsCall(i)'
      PROVE  /\ \E k \in 1..Len(line'[RunOf[i]]) : line'[RunOf[i]][k] = i
             /\ jobs'[i].pc # "queued" => line'[RunOf[i]][1] = i
  <2>1. CASE i = j
    BY <1>1, <1>2, <1>3, <2>1
  <2>2. CASE i # j
    <3>1. LineKnows(i) /\ IsCall(i) /\ jobs'[i] = jobs[i]
      BY <1>2, <1>6, <2>2 DEF Lined, IsCall
    <3>2. CASE RunOf[i] # r
      BY <1>3, <3>1, <3>2 DEF LineKnows, BoxBounds
    <3>3. CASE RunOf[i] = r
      <4>1. PICK k \in 1..n : line[r][k] = i
        BY <3>1, <3>3 DEF LineKnows, n
      <4>2. k \in 1..(n + 1) /\ 1 \in 1..n
        BY <1>1, <4>1
      <4> QED
        BY <1>3, <3>1, <3>3, <4>1, <4>2 DEF LineKnows
    <3> QED
      BY <3>2, <3>3
  <2> QED
    BY <2>1, <2>2
<1> QED
  BY <1>3, <1>5, <1>6 DEF Lined, LineKnows, IsCall

\* The head of a line leaves it.
LEMMA LineLeaves ==
  ASSUME BoxBounds, Types, Lined, NEW j \in Jobs, NEW x \in Calls, jobs' = [jobs EXCEPT ![j] = x],
         IsCall(j), x.kind = "none", line[RunOf[j]][1] = j,
         line' = [line EXCEPT ![RunOf[j]] = Tail(line[RunOf[j]])]
  PROVE  Lined'
<1> DEFINE r == RunOf[j]
           n == Len(line[r])
<1>1. r \in Runs /\ line[r] \in Seq(Jobs) /\ n \in Nat /\ line[r] # <<>> /\ n >= 1
  <2>1. r \in Runs /\ line[r] \in Seq(Jobs) /\ n \in Nat
    BY LenProperties DEF BoxBounds, Lined
  <2>2. \E k \in 1..n : line[r][k] = j
    BY DEF Lined, LineKnows
  <2> QED
    BY <2>1, <2>2, EmptySeq
<1>2. \A i \in Jobs : jobs'[i] = IF i = j THEN x ELSE jobs[i]
  BY JobStep
<1>3. /\ line' \in [Runs -> Seq(Jobs)]
      /\ \A q \in Runs : q # r => line'[q] = line[q]
      /\ Len(line'[r]) = n - 1
      /\ \A k \in 1..(n - 1) : line'[r][k] = line[r][k + 1]
  BY <1>1, HeadTailProperties DEF Lined
<1>4. \A q \in Runs : \A k \in 1..Len(line[q]) : line[q][k] \in Jobs
  <2>1. \A q \in Runs : line[q] \in Seq(Jobs)
    BY DEF Lined
  <2> QED
    BY <2>1, ElementOfSeq
<1>5. \A k \in 1..(n - 1) : k + 1 \in 1..n /\ k + 1 # 1
  BY <1>1
<1>6. \A q \in Runs : \A k \in 1..Len(line'[q]) : line'[q][k] \in Jobs /\ line'[q][k] # j
  <2>1. ASSUME NEW q \in Runs, NEW k \in 1..Len(line'[q]), q # r
        PROVE line'[q][k] \in Jobs /\ line'[q][k] # j
    BY <1>3, <1>4, <2>1 DEF Lined, LineHolds
  <2>2. ASSUME NEW k \in 1..(n - 1) PROVE line'[r][k] \in Jobs /\ line'[r][k] # j
    BY <1>1, <1>3, <1>4, <1>5, <2>2 DEF Lined, LineHolds
  <2> QED
    BY <1>3, <2>1, <2>2
<1>7. ASSUME NEW q \in Runs PROVE LineHolds(q)'
  <2>1. CASE q # r
    BY <1>2, <1>3, <1>6, <2>1 DEF Lined, LineHolds, IsCall
  <2>2. CASE q = r
    <3>1. \A k \in 1..(n - 1) : RunOf[line'[r][k]] = r /\ jobs'[line'[r][k]].kind \in {"bash", "file"}
      BY <1>1, <1>2, <1>3, <1>5, <1>6 DEF Lined, LineHolds, IsCall
    <3>2. ASSUME NEW k \in 1..(n - 1), NEW l \in 1..(n - 1), line'[r][k] = line'[r][l]
          PROVE k = l
      <4>1. k + 1 = l + 1
        BY <1>1, <1>3, <1>5, <3>2 DEF Lined, LineHolds
      <4> QED
        BY <1>1, <4>1
    <3> QED
      BY <1>3, <2>2, <3>1, <3>2 DEF LineHolds, IsCall
  <2> QED
    BY <2>1, <2>2
<1>8. ASSUME NEW i \in Jobs, IsCall(i)'
      PROVE  /\ \E k \in 1..Len(line'[RunOf[i]]) : line'[RunOf[i]][k] = i
             /\ jobs'[i].pc # "queued" => line'[RunOf[i]][1] = i
  <2>1. i # j /\ jobs'[i] = jobs[i] /\ IsCall(i) /\ LineKnows(i)
    BY <1>2, <1>8 DEF IsCall, Lined
  <2>2. CASE RunOf[i] # r
    BY <1>3, <2>1, <2>2 DEF LineKnows, BoxBounds
  <2>3. CASE RunOf[i] = r
    <3>1. jobs[i].pc = "queued"
      BY <2>1, <2>3 DEF LineKnows
    <3>2. PICK k \in 1..n : line[r][k] = i
      BY <2>1, <2>3 DEF LineKnows
    <3>3. k # 1 /\ k - 1 \in 1..(n - 1) /\ (k - 1) + 1 = k
      BY <1>1, <2>1, <3>2
    <3>4. line'[r][k - 1] = i
      BY <1>3, <3>2, <3>3
    <3> QED
      BY <1>3, <2>1, <2>3, <3>1, <3>3, <3>4
  <2> QED
    BY <2>2, <2>3
<1> QED
  BY <1>3, <1>7, <1>8 DEF Lined, LineKnows, IsCall

\* A call that goes on has come to the head of its line.
LEMMA AtTheHead ==
  ASSUME BoxBounds, Lined, NEW j \in Jobs, IsCall(j), HasTurn(j)
  PROVE  line[RunOf[j]][1] = j
<1>1. CASE jobs[j].pc # "queued"
  BY <1>1 DEF Lined, LineKnows
<1>2. CASE MyTurn(j)
  BY <1>2 DEF MyTurn, IsCall
<1> QED
  BY <1>1, <1>2 DEF HasTurn

LEMMA LinesKept ==
  ASSUME BoxBounds, Types, Lined, KindsFit, NEW j \in Jobs, SandboxStep(j)
  PROVE  Lined'
<1>1. PICK x \in Calls : /\ jobs' = [jobs EXCEPT ![j] = x]
                         /\ Enters(j, x) \/ GoesOn(j, x) \/ Ends(j, x)
  BY CallMoves
<1>2. \A i \in Jobs : jobs'[i] = IF i = j THEN x ELSE jobs[i]
  BY <1>1, JobStep
<1>3. NoJob.kind = "none" /\ NoJob.pc = "idle"
  BY DEF NoJob
<1>4. \A q \in Runs : \A k \in 1..Len(line[q]) : line[q][k] \in Jobs
  <2>1. \A q \in Runs : line[q] \in Seq(Jobs)
    BY DEF Lined
  <2> QED
    BY <2>1, ElementOfSeq
<1>5. ASSUME line' = line, x.kind = jobs[j].kind \/ (~IsCall(j) /\ x.kind \notin {"bash", "file"}),
             IsCall(j) /\ x.pc # "queued" => line[RunOf[j]][1] = j
      PROVE Lined'
  <2>1. \A i \in Jobs : IsCall(i)' <=> IsCall(i)
    BY <1>2, <1>5 DEF IsCall
  <2>2. \A i \in Jobs : i # j => jobs'[i] = jobs[i]
    BY <1>2
  <2>3. ASSUME NEW q \in Runs PROVE LineHolds(q)'
    <3>1. LineHolds(q)
      BY DEF Lined
    <3>2. \A k \in 1..Len(line[q]) : jobs'[line[q][k]].kind \in {"bash", "file"}
      BY <1>4, <2>1, <3>1 DEF LineHolds, IsCall
    <3> QED
      BY <1>5, <3>1, <3>2 DEF LineHolds, IsCall
  <2>4. ASSUME NEW i \in Jobs PROVE LineKnows(i)'
    <3>1. LineKnows(i)
      BY DEF Lined
    <3>2. CASE i = j
      BY <1>2, <1>5, <2>1, <3>1, <3>2 DEF LineKnows
    <3>3. CASE i # j
      BY <1>5, <2>1, <2>2, <3>1, <3>3 DEF LineKnows
    <3> QED
      BY <3>2, <3>3
  <2> QED
    BY <1>5, <2>3, <2>4 DEF Lined
<1>6. CASE Enters(j, x)
  <2>1. ~IsCall(j)
    BY <1>3, <1>6 DEF Enters, IsCall
  <2>2. CASE x.kind \in {"bash", "file"}
    BY <1>1, <1>6, <2>1, <2>2, LineJoins DEF Enters
  <2>3. CASE x.kind = "gate"
    BY <1>5, <1>6, <2>1, <2>3 DEF Enters
  <2> QED
    BY <1>6, <2>2, <2>3 DEF Enters
<1>7. CASE GoesOn(j, x)
  <2>1. HasTurn(j) /\ line' = line /\ x.kind = jobs[j].kind
    BY <1>7 DEF GoesOn
  <2>2. IsCall(j) => line[RunOf[j]][1] = j
    BY <2>1, AtTheHead
  <2> QED
    BY <1>5, <2>1, <2>2
<1>8. CASE Ends(j, x)
  <2>1. CASE IsCall(j)
    BY <1>1, <1>3, <1>8, <2>1, AtTheHead, LineLeaves DEF Ends, LineAfter, IsCall
  <2>2. CASE ~IsCall(j)
    <3>1. jobs[j].kind = "gate"
      BY <1>8, <2>2 DEF Types, Calls, IsCall, Ends, KindsFit, Fits
    <3> QED
      BY <1>3, <1>5, <1>8, <2>2, <3>1 DEF Ends, LineAfter
  <2> QED
    BY <2>1, <2>2
<1> QED
  BY <1>1, <1>6, <1>7, <1>8

LEMMA KindsKept ==
  ASSUME BoxBounds, Types, KindsFit, GateAlone, NEW j \in Jobs, SandboxStep(j)
  PROVE  KindsFit' /\ GateAlone'
<1>1. PICK x \in Calls : /\ jobs' = [jobs EXCEPT ![j] = x]
                         /\ Enters(j, x) \/ GoesOn(j, x) \/ Ends(j, x)
  BY CallMoves
<1>2. \A i \in Jobs : jobs'[i] = IF i = j THEN x ELSE jobs[i]
  BY <1>1, JobStep
<1>3. NoJob.kind = "none" /\ NoJob.pc = "idle" /\ NoJob.dead = FALSE
  BY DEF NoJob
<1>4. Fits(x)
  <2>1. CASE Enters(j, x)
    BY <2>1 DEF Enters, Fits
  <2>2. CASE GoesOn(j, x)
    BY <2>2 DEF GoesOn, Fits, KindsFit, Calls
  <2>3. CASE Ends(j, x)
    BY <1>3, <2>3 DEF Ends, Fits
  <2> QED
    BY <1>1, <2>1, <2>2, <2>3
<1>5. KindsFit'
  BY <1>2, <1>4 DEF KindsFit
<1>6. \A i \in Jobs : jobs[i].kind \in {"none", "gate"} \/ IsCall(i)
  BY DEF Types, Calls, IsCall
<1>7. ASSUME NEW g \in Jobs, NEW i \in Jobs, jobs'[g].kind = "gate", g # i, RunOf[g] = RunOf[i]
      PROVE jobs'[i].kind = "none" \/ (IsCall(i)' /\ jobs'[i].dead /\ jobs'[i].pc # "touching")
  <2>1. CASE g # j /\ i # j
    BY <1>2, <1>7, <2>1 DEF GateAlone, IsCall
  <2>2. CASE g = j
    <3>1. CASE Enters(j, x)
      <4>1. jobs[i] = NoJob \/ (jobs[i].dead /\ jobs[i].pc # "touching")
        BY <1>2, <1>7, <2>2, <3>1 DEF Enters, JobsOf
      <4> QED
        BY <1>2, <1>3, <1>6, <1>7, <2>2, <4>1 DEF KindsFit, Fits, IsCall
    <3>2. CASE GoesOn(j, x)
      BY <1>2, <1>7, <2>2, <3>2 DEF GoesOn, GateAlone, IsCall
    <3>3. CASE Ends(j, x)
      BY <1>2, <1>3, <1>7, <2>2, <3>3 DEF Ends
    <3> QED
      BY <1>1, <3>1, <3>2, <3>3
  <2>3. CASE i = j
    <3>1. jobs[g].kind = "gate"
      BY <1>2, <1>7, <2>3
    <3>2. CASE Enters(j, x)
      <4>1. jobs[g] # NoJob /\ ~jobs[g].dead /\ g \in JobsOf(RunOf[j])
        BY <1>3, <1>7, <2>3, <3>1 DEF KindsFit, Fits, JobsOf
      <4> QED
        BY <3>1, <3>2, <4>1 DEF Enters
    <3>3. CASE GoesOn(j, x)
      <4>1. jobs[j].kind # "none"
        BY <3>3 DEF GoesOn, KindsFit, Fits
      <4>2. IsCall(j) /\ jobs[j].dead
        BY <1>7, <2>3, <3>1, <4>1 DEF GateAlone
      <4> QED
        BY <1>2, <2>3, <3>3, <4>2 DEF GoesOn, IsCall
    <3>4. CASE Ends(j, x)
      BY <1>2, <1>3, <2>3, <3>4 DEF Ends
    <3> QED
      BY <1>1, <3>2, <3>3, <3>4
  <2> QED
    BY <2>1, <2>2, <2>3
<1> QED
  BY <1>5, <1>7 DEF GateAlone, IsCall

\* The end of a session marks its calls, and moves none.
LEMMA AbortMarks ==
  ASSUME Types, NEW r \in Runs, AbortSession(r)
  PROVE  /\ UNCHANGED <<setting, context, line, wraps, session>>
         /\ jobs' \in [Jobs -> Calls]
         /\ \A j \in Jobs :
              /\ jobs'[j].pc = jobs[j].pc /\ jobs'[j].kind = jobs[j].kind
              /\ jobs'[j].before = jobs[j].before /\ jobs'[j].tmpdir = jobs[j].tmpdir
              /\ jobs[j].dead => jobs'[j].dead
              /\ jobs[j] = NoJob \/ jobs[j].kind = "gate" => jobs'[j] = jobs[j]
<1>1. ASSUME NEW j \in Jobs
      PROVE  /\ [jobs[j] EXCEPT !.dead = TRUE] \in Calls
             /\ [jobs[j] EXCEPT !.dead = TRUE].pc = jobs[j].pc
             /\ [jobs[j] EXCEPT !.dead = TRUE].kind = jobs[j].kind
             /\ [jobs[j] EXCEPT !.dead = TRUE].before = jobs[j].before
             /\ [jobs[j] EXCEPT !.dead = TRUE].tmpdir = jobs[j].tmpdir
             /\ [jobs[j] EXCEPT !.dead = TRUE].dead
  BY DEF Types, Calls
<1> DEFINE mine == {j \in JobsOf(r) : jobs[j] # NoJob /\ jobs[j].kind # "gate"}
           marked(j) == [jobs[j] EXCEPT !.dead = TRUE]
<1>2. jobs' = [j \in Jobs |-> IF j \in mine THEN marked(j) ELSE jobs[j]]
  BY DEF AbortSession
<1>3. \A j \in mine : jobs[j] # NoJob /\ jobs[j].kind # "gate"
  OBVIOUS
<1> HIDE DEF mine, marked
<1>4. \A j \in Jobs : jobs'[j] = IF j \in mine THEN marked(j) ELSE jobs[j]
  BY <1>2
<1>5. ASSUME NEW j \in Jobs
      PROVE  /\ marked(j) \in Calls
             /\ marked(j).pc = jobs[j].pc /\ marked(j).kind = jobs[j].kind
             /\ marked(j).before = jobs[j].before /\ marked(j).tmpdir = jobs[j].tmpdir
             /\ marked(j).dead
  BY <1>1 DEF marked
<1>6. jobs' \in [Jobs -> Calls]
  BY <1>2, <1>5 DEF Types
<1> QED
  BY <1>3, <1>4, <1>5, <1>6 DEF AbortSession

\* The invariant of the lines and the gate.
LEMMA LinesInvariant == ASSUME BoxBounds PROVE SandboxSpec => []QInv
<1>1. ASSUME SandboxInit PROVE QInv
  <2>1. NoJob.kind = "none" /\ NoJob.pc = "idle" /\ NoJob.dead = FALSE
    BY DEF NoJob
  <2>2. line \in [Runs -> Seq(Jobs)] /\ \A r \in Runs : line[r] = <<>> /\ Len(line[r]) = 0
    BY <1>1, EmptySeq DEF SandboxInit
  <2>3. Lined
    BY <1>1, <2>1, <2>2 DEF SandboxInit, Lined, LineHolds, LineKnows, IsCall
  <2>4. KindsFit /\ GateAlone
    BY <1>1, <2>1 DEF SandboxInit, KindsFit, Fits, GateAlone
  <2> QED
    BY <1>1, <2>3, <2>4, InitPolicy DEF QInv
<1>2. ASSUME QInv, [SandboxNext]_sandboxVars PROVE QInv'
  <2>0. PInv /\ Types /\ PInv'
    BY <1>2, StepKeeps DEF QInv, PInv
  <2>1. CASE UNCHANGED <<jobs, line>>
    BY <1>2, <2>0, <2>1 DEF QInv, Lined, LineHolds, LineKnows, IsCall, KindsFit, Fits, GateAlone
  <2>2. ASSUME NEW j \in Jobs, SandboxStep(j) PROVE QInv'
    BY <1>2, <2>0, <2>2, LinesKept, KindsKept DEF QInv
  <2>3. ASSUME NEW r \in Runs, AbortSession(r) PROVE QInv'
    <3>1. /\ line' = line
          /\ \A j \in Jobs : /\ jobs'[j].pc = jobs[j].pc /\ jobs'[j].kind = jobs[j].kind
                             /\ jobs[j].dead => jobs'[j].dead
                             /\ jobs[j] = NoJob \/ jobs[j].kind = "gate" => jobs'[j] = jobs[j]
      BY <2>0, <2>3, AbortMarks
    <3>2. \A q \in Runs : \A k \in 1..Len(line[q]) : line[q][k] \in Jobs
      <4>1. \A q \in Runs : line[q] \in Seq(Jobs)
        BY <1>2 DEF QInv, Lined
      <4> QED
        BY <4>1, ElementOfSeq
    <3>3. \A q \in Runs : LineHolds(q)'
      BY <1>2, <3>1, <3>2 DEF QInv, Lined, LineHolds, IsCall
    <3>4. \A j \in Jobs : LineKnows(j)'
      BY <1>2, <3>1 DEF QInv, Lined, LineKnows, IsCall
    <3>5. KindsFit'
      BY <1>2, <3>1 DEF QInv, KindsFit, Fits
    <3>6. GateAlone'
      BY <1>2, <3>1 DEF QInv, GateAlone, IsCall
    <3> QED
      BY <1>2, <2>0, <3>1, <3>3, <3>4, <3>5, <3>6 DEF QInv, Lined
  <2> QED
    BY <1>2, <2>1, <2>2, <2>3 DEF SandboxNext, sandboxVars, EditAllowlist, StartRun, CloseRun
<1> QED
  BY <1>1, <1>2, PTL DEF SandboxSpec

-----------------------------------------------------------------------------
(* What the agent has started, and what touches a path.                    *)

\* What a run has recorded it has started, and only a supervisor that lets
\* them leaves processes out of their group.
RecordsFollow ==
  \A r \in Runs :
    /\ context[r].groups # {} => context[r].started
    /\ context[r].strays => context[r].started /\ context[r].supervisor # "namespace"

\* Where a trusted tool is at work nothing is left.
NothingIsLeft ==
  \A j \in Jobs : jobs[j].pc = "touching" =>
    context[RunOf[j]].groups = {} /\ ~context[RunOf[j]].strays

\* Two calls of a run are not both past the line.
LEMMA OneAtATime ==
  ASSUME BoxBounds, Types, Lined, KindsFit, GateAlone, NEW i \in Jobs, NEW j \in Jobs,
         RunOf[i] = RunOf[j], jobs[i].pc = "touching", jobs[j].pc \notin {"idle", "queued"},
         ~jobs[j].dead
  PROVE  i = j
<1>1. jobs[i].kind # "none" /\ jobs[j].kind # "none"
  BY DEF KindsFit, Fits
<1>2. CASE IsCall(i) /\ IsCall(j)
  BY <1>2 DEF Lined, LineKnows
<1>3. CASE jobs[i].kind = "gate"
  BY <1>1, <1>3 DEF GateAlone
<1>4. CASE jobs[j].kind = "gate"
  BY <1>1, <1>4 DEF GateAlone
<1> QED
  BY <1>1, <1>2, <1>3, <1>4 DEF Types, Calls, IsCall

\* What reaping leaves of a run's processes.
LEMMA ReapedLeaves ==
  ASSUME NEW c \in Contexts, NEW survivors \in SUBSET Jobs
  PROVE  /\ Reaped(c, survivors).groups = survivors
         /\ Reaped(c, survivors).strays => c.strays /\ c.supervisor # "cgroup"
         /\ Reaped(c, survivors).started = c.started
         /\ Reaped(c, survivors).supervisor = c.supervisor
<1> DEFINE b == c.strays /\ c.supervisor # "cgroup"
<1>1. b \in BOOLEAN /\ (b => c.strays /\ c.supervisor # "cgroup")
  OBVIOUS
<1>2. Reaped(c, survivors) = [c EXCEPT !.groups = survivors, !.strays = b]
  BY DEF Reaped
<1> HIDE DEF b
<1> QED
  BY <1>1, <1>2 DEF Contexts

\* What a step of a call may make of its run's context, c.
SpawnsGroup(j, c) ==
  /\ jobs[j].pc = "wrapping" /\ ~jobs[j].dead /\ jobs'[j].pc # "touching"
  /\ c.started /\ c.strays = context[RunOf[j]].strays
LeavesLess(j, c) ==
  LET old == context[RunOf[j]]
  IN /\ c.started = old.started /\ c.groups \subseteq old.groups
     /\ c.strays => old.strays \/ (old.groups # {} /\ old.supervisor # "namespace")
     /\ jobs'[j].pc = "touching" =>
          jobs[j].pc = "reaping" /\ ~jobs[j].dead /\ c.groups = {} /\ ~c.strays

LEMMA ContextMoves ==
  ASSUME BoxBounds, Types, KindsFit, RecordsFollow, NEW j \in Jobs, SandboxStep(j)
  PROVE  \E c \in Contexts :
           /\ \A r \in Runs : context'[r] = IF r = RunOf[j] THEN c ELSE context[r]
           /\ c.supervisor = context[RunOf[j]].supervisor
           /\ SpawnsGroup(j, c) \/ LeavesLess(j, c)
<1> DEFINE r == RunOf[j]
           old == context[r]
<1>1. r \in Runs /\ old \in Contexts
  BY DEF BoxBounds, Types
<1>2. old.groups \subseteq Jobs /\ old.strays \in BOOLEAN /\ old.started \in BOOLEAN
  BY <1>1 DEF Contexts
<1>3. PICK x \in Calls : /\ jobs' = [jobs EXCEPT ![j] = x]
                         /\ Enters(j, x) \/ GoesOn(j, x) \/ Ends(j, x)
  BY CallMoves
<1>4. jobs'[j] = x
  BY <1>3 DEF Types
<1>5. ASSUME context' = context, jobs'[j].pc # "touching"
      PROVE  \A q \in Runs : context'[q] = IF q = r THEN old ELSE context[q]
  BY <1>5
<1>6. LeavesLess(j, old) \/ jobs'[j].pc = "touching"
  BY DEF LeavesLess
<1>7. CASE Call(j) \/ CallGate(j) \/ Refuse(j) \/ Claim(j) \/ Wrap(j) \/ NotSpawned(j)
           \/ BeginFile(j) \/ Touched(j)
  <2>1. context' = context
    BY <1>7 DEF Call, CallGate, Refuse, Claim, Wrap, NotSpawned, BeginFile, Touched
  <2>2. NoJob.pc = "idle" /\ jobs[j] \in Calls
    BY DEF NoJob, Types
  <2>3. jobs'[j].pc # "touching"
    <3>1. CASE Refuse(j) \/ NotSpawned(j)
      BY <2>2, <3>1 DEF Refuse, NotSpawned, Over, Leaves, Types, Calls
    <3>2. CASE Call(j) \/ CallGate(j)
      <4>1. PICK kind \in {"bash", "file", "gate"} :
              jobs' = [jobs EXCEPT ![j] = [jobs[j] EXCEPT !.pc = "queued", !.kind = kind]]
        BY <3>2 DEF Call, CallGate
      <4>2. [jobs[j] EXCEPT !.pc = "queued", !.kind = kind].pc = "queued"
        BY <2>2 DEF Calls
      <4> QED
        BY <4>1, <4>2 DEF Types
    <3>3. CASE Claim(j) \/ BeginFile(j)
      BY <2>2, <3>3 DEF Claim, BeginFile, Types, Calls
    <3>4. CASE Wrap(j)
      <4>1. jobs' = [jobs EXCEPT ![j] = [jobs[j] EXCEPT !.pc = "wrapping", !.before = session.tmpdir]]
        BY <3>4 DEF Wrap
      <4>2. [jobs[j] EXCEPT !.pc = "wrapping", !.before = session.tmpdir].pc = "wrapping"
        BY <2>2 DEF Calls
      <4> QED
        BY <4>1, <4>2 DEF Types
    <3>5. CASE Touched(j)
      BY <2>2, <3>5 DEF Touched, Leaves, Types
    <3> QED
      BY <1>7, <3>1, <3>2, <3>3, <3>4, <3>5
  <2> QED
    BY <1>1, <1>5, <1>6, <2>1, <2>3
<1>8. CASE Spawn(j)
  <2> DEFINE c == [old EXCEPT !.started = TRUE, !.groups = old.groups \cup {j}]
             y == [jobs[j] EXCEPT !.pc = "running", !.tmpdir = session.tmpdir]
  <2>1. c \in Contexts /\ c.started /\ c.strays = old.strays /\ c.supervisor = old.supervisor
    BY <1>1, <1>2 DEF Contexts
  <2>2. y.pc = "running"
    BY DEF Types, Calls
  <2>3. jobs[j].pc = "wrapping" /\ ~jobs[j].dead /\ jobs' = [jobs EXCEPT ![j] = y]
        /\ context' = [context EXCEPT ![r] = c]
    BY <1>8 DEF Spawn
  <2> HIDE DEF c, y
  <2>4. jobs'[j] = y
    BY <2>3 DEF Types
  <2>5. \A q \in Runs : context'[q] = IF q = r THEN c ELSE context[q]
    BY <2>3 DEF Types
  <2>6. SpawnsGroup(j, c)
    BY <2>1, <2>2, <2>3, <2>4 DEF SpawnsGroup
  <2> QED
    BY <2>1, <2>5, <2>6
<1>9. CASE Exit(j)
  <2>1. PICK left \in BOOLEAN, strays \in BOOLEAN :
          /\ strays => old.supervisor # "namespace" /\ j \in old.groups
          /\ context' = [context EXCEPT ![r] = [old EXCEPT
               !.groups = IF left THEN old.groups ELSE old.groups \ {j},
               !.strays = old.strays \/ strays]]
    BY <1>9 DEF Exit
  <2> DEFINE g == IF left THEN old.groups ELSE old.groups \ {j}
             b == old.strays \/ strays
             c == [old EXCEPT !.groups = g, !.strays = b]
  <2>2. g \subseteq old.groups /\ g \in SUBSET Jobs /\ b \in BOOLEAN
        /\ (b => old.strays \/ (old.groups # {} /\ old.supervisor # "namespace"))
    BY <1>2, <2>1
  <2>3. context' = [context EXCEPT ![r] = c]
    BY <2>1
  <2> HIDE DEF g, b
  <2>4. c \in Contexts /\ c.started = old.started /\ c.groups = g /\ c.strays = b
        /\ c.supervisor = old.supervisor
    BY <1>1, <2>2 DEF Contexts
  <2> HIDE DEF c
  <2>5. jobs'[j].pc # "touching"
    <3>1. jobs[j] \in Calls /\ NoJob.pc = "idle"
      BY DEF Types, NoJob
    <3>2. Over(j)
      BY <1>9 DEF Exit
    <3> QED
      BY <3>1, <3>2 DEF Over, Leaves, Types, Calls
  <2>6. LeavesLess(j, c)
    BY <2>2, <2>4, <2>5 DEF LeavesLess
  <2>7. \A q \in Runs : context'[q] = IF q = r THEN c ELSE context[q]
    BY <2>3 DEF Types
  <2> QED
    BY <2>4, <2>6, <2>7
<1>10. CASE Touch(j)
  <2>1. PICK survivors \in SUBSET old.groups :
          /\ context' = [context EXCEPT ![r] = Reaped(old, survivors)]
          /\ \/ Still(old, survivors) /\ ~jobs[j].dead
             \/ Leaves(j)
    BY <1>10 DEF Touch
  <2> DEFINE c == Reaped(old, survivors)
  <2>2. survivors \in SUBSET Jobs
    BY <1>2
  <2>3. /\ c \in Contexts /\ c.groups = survivors /\ c.started = old.started
        /\ c.supervisor = old.supervisor /\ (c.strays => old.strays /\ old.supervisor # "cgroup")
    BY <1>1, <2>2, ReapedLeaves, ReapedIsContext
  <2>4. context' = [context EXCEPT ![r] = c]
    BY <2>1
  <2> HIDE DEF c
  <2>5. \A q \in Runs : context'[q] = IF q = r THEN c ELSE context[q]
    BY <2>4 DEF Types
  <2>6. jobs'[j].pc = "touching" => ~jobs[j].dead /\ Still(old, survivors)
    BY <2>1 DEF Leaves, NoJob, Types
  <2>7. Still(old, survivors) => c.groups = {} /\ ~c.strays
    BY <1>1, <2>3 DEF Still, RecordsFollow, Contexts
  <2>8. LeavesLess(j, c)
    BY <1>10, <2>3, <2>6, <2>7 DEF LeavesLess, Touch
  <2> QED
    BY <2>3, <2>5, <2>8
<1> QED
  BY <1>7, <1>8, <1>9, <1>10 DEF SandboxStep

LEMMA TouchesKept ==
  ASSUME BoxBounds, QInv, RecordsFollow, NothingIsLeft, [SandboxNext]_sandboxVars
  PROVE  RecordsFollow' /\ NothingIsLeft'
<1>0. Types /\ Lined /\ KindsFit /\ GateAlone
  BY DEF QInv, PInv
<1>1. CASE UNCHANGED context /\ \A j \in Jobs : jobs'[j].pc = jobs[j].pc
  BY <1>1 DEF RecordsFollow, NothingIsLeft
<1>2. ASSUME NEW r \in Runs, StartRun(r) PROVE RecordsFollow' /\ NothingIsLeft'
  <2>1. PICK supervisor \in Supervisors[r] :
          context' = [context EXCEPT ![r] = [NoContext EXCEPT !.pc = "on", !.policy = setting,
                                                          !.supervisor = supervisor]]
    BY <1>2 DEF StartRun
  <2> DEFINE c == [NoContext EXCEPT !.pc = "on", !.policy = setting, !.supervisor = supervisor]
  <2>2. c.groups = {} /\ c.strays = FALSE
    BY DEF NoContext
  <2>3. \A q \in Runs : context'[q] = IF q = r THEN c ELSE context[q]
    BY <1>0, <2>1 DEF Types
  <2> HIDE DEF c
  <2> QED
    BY <1>2, <2>2, <2>3 DEF StartRun, RecordsFollow, NothingIsLeft, BoxBounds
<1>3. ASSUME NEW r \in Runs, CloseRun(r) PROVE RecordsFollow' /\ NothingIsLeft'
  <2> DEFINE d == Reaped(context[r], {})
             c == [d EXCEPT !.pc = "off"]
  <2>1. /\ d \in Contexts /\ d.groups = {} /\ d.started = context[r].started
        /\ d.supervisor = context[r].supervisor /\ (d.strays => context[r].strays)
    BY <1>0, ReapedIsContext, ReapedLeaves DEF Types
  <2>2. context' = [context EXCEPT ![r] = c]
    BY <1>3 DEF CloseRun
  <2> HIDE DEF d
  <2>3. /\ c.groups = {} /\ c.started = context[r].started
        /\ c.supervisor = context[r].supervisor /\ (c.strays => context[r].strays)
    BY <2>1 DEF Contexts
  <2>4. \A q \in Runs : context'[q] = IF q = r THEN c ELSE context[q]
    BY <1>0, <2>2 DEF Types
  <2> HIDE DEF c
  <2>5. jobs' = jobs
    BY <1>3 DEF CloseRun
  <2>6. RecordsFollow'
    <3>1. SUFFICES ASSUME NEW q \in Runs
                   PROVE  /\ context'[q].groups # {} => context'[q].started
                          /\ context'[q].strays => /\ context'[q].started
                                                  /\ context'[q].supervisor # "namespace"
      BY DEF RecordsFollow
    <3>2. /\ context[q].groups # {} => context[q].started
          /\ context[q].strays => context[q].started /\ context[q].supervisor # "namespace"
      BY DEF RecordsFollow
    <3>3. CASE q = r
      <4>1. context'[q] = c
        BY <2>4, <3>3
      <4> QED
        BY <2>3, <3>2, <3>3, <4>1
    <3>4. CASE q # r
      <4>1. context'[q] = context[q]
        BY <2>4, <3>4
      <4> QED
        BY <3>2, <4>1
    <3> QED
      BY <3>3, <3>4
  <2>7. ASSUME NEW i \in Jobs, jobs[i].pc = "touching"
        PROVE  context'[RunOf[i]].groups = {} /\ ~context'[RunOf[i]].strays
    <3>1. RunOf[i] \in Runs /\ context[RunOf[i]].groups = {} /\ ~context[RunOf[i]].strays
      BY <2>7 DEF NothingIsLeft, BoxBounds
    <3> QED
      BY <2>3, <2>4, <3>1
  <2>9. NothingIsLeft'
    BY ONLY <2>5, <2>7 DEF NothingIsLeft
  <2> QED
    BY ONLY <2>6, <2>9
<1>4. ASSUME NEW j \in Jobs, SandboxStep(j) PROVE RecordsFollow' /\ NothingIsLeft'
  <2>1. PICK c \in Contexts :
          /\ \A r \in Runs : context'[r] = IF r = RunOf[j] THEN c ELSE context[r]
          /\ c.supervisor = context[RunOf[j]].supervisor
          /\ SpawnsGroup(j, c) \/ LeavesLess(j, c)
    BY <1>0, <1>4, ContextMoves
  <2>2. PICK x \in Calls : jobs' = [jobs EXCEPT ![j] = x]
    BY <1>0, <1>4, CallMoves
  <2>3. \A i \in Jobs : i # j => jobs'[i] = jobs[i]
    BY <1>0, <2>2, JobStep
  <2>4. \A i \in Jobs : RunOf[i] \in Runs
    BY DEF BoxBounds
  <2>5. RecordsFollow'
    BY <2>1, <2>4 DEF RecordsFollow, SpawnsGroup, LeavesLess
  <2>6. ASSUME NEW i \in Jobs, jobs'[i].pc = "touching"
        PROVE context'[RunOf[i]].groups = {} /\ ~context'[RunOf[i]].strays
    <3>1. CASE i = j
      BY <2>1, <2>4, <2>6, <3>1 DEF SpawnsGroup, LeavesLess
    <3>2. CASE i # j /\ RunOf[i] # RunOf[j]
      BY <2>1, <2>3, <2>4, <2>6, <3>2 DEF NothingIsLeft
    <3>3. CASE i # j /\ RunOf[i] = RunOf[j]
      <4>1. /\ jobs[i].pc = "touching"
            /\ context[RunOf[j]].groups = {} /\ ~context[RunOf[j]].strays
        BY <2>3, <2>6, <3>3 DEF NothingIsLeft
      <4>2. ~SpawnsGroup(j, c)
        BY <1>0, <3>3, <4>1, OneAtATime DEF SpawnsGroup
      <4> QED
        BY <2>1, <2>4, <3>3, <4>1, <4>2 DEF LeavesLess
    <3> QED
      BY <3>1, <3>2, <3>3
  <2> QED
    BY <2>5, <2>6 DEF NothingIsLeft
<1>5. ASSUME NEW r \in Runs, AbortSession(r)
      PROVE UNCHANGED context /\ \A j \in Jobs : jobs'[j].pc = jobs[j].pc
  BY <1>0, <1>5, AbortMarks
<1> QED
  BY <1>1, <1>2, <1>3, <1>4, <1>5 DEF SandboxNext, sandboxVars, EditAllowlist

\* While a file tool or the writer of GATE.md touches a path, no process that
\* the agent has started is left, in its group or out of it, and no other call of
\* the run touches one: whatever else is queued, runs on after its session was
\* aborted, or survives being killed (guardedTools.ts, gate.ts: the tool takes its
\* turn, and reaps or gives up first).
THEOREM FileToolsAreAlone == ASSUME BoxBounds PROVE SandboxSpec => []FileToolsRunAlone
<1>1. SandboxInit => RecordsFollow /\ NothingIsLeft
  BY DEF SandboxInit, RecordsFollow, NothingIsLeft, NoContext, NoJob
<1>2. QInv /\ RecordsFollow /\ NothingIsLeft /\ [SandboxNext]_sandboxVars
        => RecordsFollow' /\ NothingIsLeft'
  BY TouchesKept
<1>3. QInv /\ NothingIsLeft => FileToolsRunAlone
  <2> SUFFICES ASSUME QInv, NothingIsLeft, NEW j \in Jobs, jobs[j].pc = "touching",
                      NEW i \in JobsOf(RunOf[j]) \ {j}, jobs[i].pc = "touching"
               PROVE  FALSE
    BY DEF FileToolsRunAlone, NothingIsLeft
  <2>1. i \in Jobs /\ RunOf[i] = RunOf[j] /\ i # j
    BY DEF JobsOf
  <2>2. jobs[i].kind # "none" /\ jobs[j].kind # "none"
    BY <2>1 DEF QInv, KindsFit, Fits
  <2>3. jobs[i].kind # "gate" /\ jobs[j].kind # "gate"
    BY <2>1, <2>2 DEF QInv, GateAlone
  <2>4. IsCall(i) /\ IsCall(j)
    BY <2>1, <2>2, <2>3 DEF QInv, PInv, Types, Calls, IsCall
  <2> QED
    BY <2>1, <2>4 DEF QInv, Lined, LineKnows
<1> QED
  BY <1>1, <1>2, <1>3, LinesInvariant, PTL DEF SandboxSpec

-----------------------------------------------------------------------------
(* The turns at the wrapping, and the TMPDIR it borrows.                   *)

InWrap == {"waiting", "wrapping"}

\* The line of the wrapping holds, once each, the calls that wait for it or
\* are at it.
WrapsLined ==
  /\ wraps \in Seq(Jobs)
  /\ \A k, l \in 1..Len(wraps) : wraps[k] = wraps[l] => k = l
  /\ \A k \in 1..Len(wraps) : jobs[wraps[k]].pc \in InWrap
  /\ \A j \in Jobs : jobs[j].pc \in InWrap => \E k \in 1..Len(wraps) : wraps[k] = j

\* Who is at it is at the head, has borrowed TMPDIR and remembers that nobody
\* else had; what runs was given its own.
Borrows(j) == wraps[1] = j /\ session.tmpdir = RunOf[j] /\ jobs[j].before = None
Borrowed ==
  /\ \A j \in Jobs : jobs[j].pc = "wrapping" => Borrows(j)
  /\ (\A j \in Jobs : jobs[j].pc # "wrapping") => session.tmpdir = None
  /\ \A j \in Jobs : jobs[j].pc = "running" => jobs[j].tmpdir = RunOf[j]

TInv == WrapsLined /\ Borrowed

\* What a step of one call may make of it, x, of the line and of TMPDIR.
PassesBy(j, x) ==
  /\ jobs[j].pc \notin InWrap /\ x.pc \notin InWrap /\ x.pc # "running"
  /\ wraps' = wraps /\ session'.tmpdir = session.tmpdir
Waits(j, x) ==
  /\ jobs[j].pc = "queued" /\ x.pc = "waiting"
  /\ wraps' = Append(wraps, j) /\ session'.tmpdir = session.tmpdir
TakesTmpdir(j, x) ==
  /\ jobs[j].pc = "waiting" /\ WrapTurn(j) /\ x.pc = "wrapping" /\ x.before = session.tmpdir
  /\ wraps' = wraps /\ session'.tmpdir = RunOf[j]
GivesBack(j, x) ==
  /\ jobs[j].pc = "wrapping" /\ x.pc \notin InWrap
  /\ x.pc = "running" => x.tmpdir = session.tmpdir
  /\ wraps' = Unwrapped(j) /\ session'.tmpdir = jobs[j].before

LEMMA OverIsOut ==
  ASSUME Types, NEW j \in Jobs, Over(j)
  PROVE  \E x \in Calls : /\ jobs' = [jobs EXCEPT ![j] = x]
                          /\ x.pc \notin InWrap /\ x.pc # "running"
<1>1. PICK x \in Calls : x.pc \notin Holding /\ jobs' = [jobs EXCEPT ![j] = x]
  BY OverHoldsNothing
<1> QED
  BY <1>1 DEF Holding, InWrap

LEMMA WrapMoves ==
  ASSUME Types, NEW j \in Jobs, SandboxStep(j)
  PROVE  \E x \in Calls :
           /\ jobs' = [jobs EXCEPT ![j] = x]
           /\ PassesBy(j, x) \/ Waits(j, x) \/ TakesTmpdir(j, x) \/ GivesBack(j, x)
<1>1. jobs[j] \in Calls /\ session \in SessionRecord
  BY DEF Types
<1>2. NoJob \in Calls /\ NoJob.pc = "idle"
  BY DEF NoJob, Calls
<1>3. ASSUME Call(j) \/ CallGate(j)
      PROVE  \E x \in Calls : jobs' = [jobs EXCEPT ![j] = x] /\ PassesBy(j, x)
  <2>1. PICK kind \in {"bash", "file", "gate"} :
          jobs' = [jobs EXCEPT ![j] = [jobs[j] EXCEPT !.pc = "queued", !.kind = kind]]
    BY <1>3 DEF Call, CallGate
  <2> DEFINE x == [jobs[j] EXCEPT !.pc = "queued", !.kind = kind]
  <2>2. x \in Calls /\ x.pc = "queued"
    BY <1>1 DEF Calls
  <2> HIDE DEF x
  <2>3. jobs[j] = NoJob /\ wraps' = wraps /\ session' = session
    BY <1>3 DEF Call, CallGate
  <2>4. PassesBy(j, x)
    BY <1>2, <2>2, <2>3 DEF PassesBy, InWrap
  <2> QED
    BY <2>1, <2>2, <2>4 DEF x
<1>4. CASE Refuse(j)
  <2>1. Over(j) /\ jobs[j].pc = "queued" /\ wraps' = wraps /\ session' = session
    BY <1>4 DEF Refuse
  <2> QED
    BY <2>1, OverIsOut DEF PassesBy, InWrap
<1>5. CASE Claim(j)
  <2> DEFINE x == [jobs[j] EXCEPT !.pc = "waiting"]
  <2>1. x \in Calls /\ x.pc = "waiting"
    BY <1>1 DEF Calls
  <2>2. jobs' = [jobs EXCEPT ![j] = x] /\ jobs[j].pc = "queued" /\ wraps' = Append(wraps, j)
    BY <1>5 DEF Claim
  <2>3. session'.tmpdir = session.tmpdir
    BY <1>1, <1>5 DEF Claim, SessionRecord
  <2> HIDE DEF x
  <2> QED
    BY <2>1, <2>2, <2>3 DEF Waits
<1>6. CASE Wrap(j)
  <2> DEFINE x == [jobs[j] EXCEPT !.pc = "wrapping", !.before = session.tmpdir]
  <2>1. x \in Calls /\ x.pc = "wrapping" /\ x.before = session.tmpdir
    BY <1>1 DEF Calls, SessionRecord
  <2>2. /\ jobs' = [jobs EXCEPT ![j] = x] /\ jobs[j].pc = "waiting"
        /\ WrapTurn(j) /\ wraps' = wraps
    BY <1>6 DEF Wrap
  <2>3. session'.tmpdir = RunOf[j]
    BY <1>1, <1>6 DEF Wrap, SessionRecord
  <2> HIDE DEF x
  <2> QED
    BY <2>1, <2>2, <2>3 DEF TakesTmpdir
<1>7. CASE Spawn(j)
  <2> DEFINE x == [jobs[j] EXCEPT !.pc = "running", !.tmpdir = session.tmpdir]
  <2>1. x \in Calls /\ x.pc = "running" /\ x.tmpdir = session.tmpdir
    BY <1>1 DEF Calls, SessionRecord
  <2>2. jobs' = [jobs EXCEPT ![j] = x] /\ jobs[j].pc = "wrapping" /\ wraps' = Unwrapped(j)
    BY <1>7 DEF Spawn
  <2>3. session'.tmpdir = jobs[j].before
    BY <1>1, <1>7 DEF Spawn, SessionRecord
  <2> HIDE DEF x
  <2> QED
    BY <2>1, <2>2, <2>3 DEF GivesBack, InWrap
<1>8. CASE NotSpawned(j)
  <2>1. Over(j) /\ jobs[j].pc = "wrapping" /\ wraps' = Unwrapped(j)
    BY <1>8 DEF NotSpawned
  <2>2. session'.tmpdir = jobs[j].before
    BY <1>1, <1>8 DEF NotSpawned, SessionRecord
  <2> QED
    BY <2>1, <2>2, OverIsOut DEF GivesBack
<1>9. CASE Exit(j)
  <2>1. Over(j) /\ jobs[j].pc = "running" /\ wraps' = wraps
    BY <1>9 DEF Exit
  <2>2. session'.tmpdir = session.tmpdir
    BY <1>1, <1>9 DEF Exit, SessionRecord
  <2> QED
    BY <2>1, <2>2, OverIsOut DEF PassesBy, InWrap
<1>10. ASSUME BeginFile(j) \/ Touch(j) \/ Touched(j)
       PROVE  \E x \in Calls : jobs' = [jobs EXCEPT ![j] = x] /\ PassesBy(j, x)
  <2>1. /\ jobs[j].pc \in {"queued", "reaping", "touching"}
        /\ wraps' = wraps /\ session' = session
    BY <1>10 DEF BeginFile, Touch, Touched
  <2>2. \/ jobs' = [jobs EXCEPT ![j] = NoJob]
        \/ \E pc \in {"reaping", "touching"} :
             jobs' = [jobs EXCEPT ![j] = [jobs[j] EXCEPT !.pc = pc]]
    BY <1>10 DEF BeginFile, Touch, Touched, Leaves
  <2>3. ASSUME NEW pc \in {"reaping", "touching"}
        PROVE  [jobs[j] EXCEPT !.pc = pc] \in Calls /\ [jobs[j] EXCEPT !.pc = pc].pc = pc
    BY <1>1 DEF Calls
  <2>4. PICK x \in Calls : jobs' = [jobs EXCEPT ![j] = x] /\ x.pc \in {"idle", "reaping", "touching"}
    BY <1>2, <2>2, <2>3
  <2> QED
    BY <2>1, <2>4 DEF PassesBy, InWrap
<1> QED
  BY <1>3, <1>4, <1>5, <1>6, <1>7, <1>8, <1>9, <1>10 DEF SandboxStep

\* Who waits is in the line, so somebody is at its head.
LEMMA WrapHead ==
  ASSUME WrapsLined, NEW j \in Jobs, jobs[j].pc \in InWrap
  PROVE  /\ Len(wraps) \in Nat /\ Len(wraps) >= 1 /\ Head(wraps) = wraps[1]
         /\ DOMAIN wraps = 1..Len(wraps) /\ \A k \in 1..Len(wraps) : wraps[k] \in Jobs
<1>1. wraps \in Seq(Jobs) /\ \E k \in 1..Len(wraps) : wraps[k] = j
  BY DEF WrapsLined
<1>2. Len(wraps) \in Nat /\ DOMAIN wraps = 1..Len(wraps)
  BY <1>1, LenProperties
<1>3. \A k \in 1..Len(wraps) : wraps[k] \in Jobs
  BY <1>1, ElementOfSeq
<1>4. Len(wraps) >= 1 /\ wraps # <<>>
  BY <1>1, <1>2, EmptySeq
<1> QED
  BY <1>1, <1>2, <1>3, <1>4, HeadTailProperties

LEMMA SameUpTo ==
  ASSUME NEW m \in Nat, NEW n \in Nat, 1..m = 1..n
  PROVE  m = n
<1>1. \A k \in Int : k \in 1..m <=> k \in 1..n
  OBVIOUS
<1>2. CASE m > n
  BY <1>1, <1>2
<1>3. CASE n > m
  BY <1>1, <1>3
<1> QED
  BY <1>2, <1>3

\* Taking the head out of the line.
LEMMA HeadGone ==
  ASSUME WrapsLined, NEW j \in Jobs, jobs[j].pc \in InWrap, wraps[1] = j, wraps' = Unwrapped(j)
  PROVE  /\ wraps' \in Seq(Jobs) /\ Len(wraps') = Len(wraps) - 1
         /\ \A k \in 1..Len(wraps') : wraps'[k] = wraps[k + 1]
<1>1. /\ Len(wraps) \in Nat /\ Len(wraps) >= 1 /\ DOMAIN wraps = 1..Len(wraps)
      /\ \A k \in 1..Len(wraps) : wraps[k] \in Jobs
  BY WrapHead
<1>2. \A k \in 1..Len(wraps) : wraps[k] = j => k = 1
  BY <1>1 DEF WrapsLined
<1> DEFINE place == CHOOSE k \in DOMAIN wraps : wraps[k] = j
<1>3. place = 1
  BY <1>1, <1>2
<1>4. wraps' = [i \in 1..(Len(wraps) - 1) |-> IF i < place THEN wraps[i] ELSE wraps[i + 1]]
  BY DEF Unwrapped
<1> HIDE DEF place
<1>5. wraps' = [i \in 1..(Len(wraps) - 1) |-> wraps[i + 1]]
  BY <1>1, <1>3, <1>4
<1> DEFINE n == Len(wraps) - 1
<1>6. n \in Nat /\ \A i \in 1..n : wraps[i + 1] \in Jobs
  BY <1>1
<1>7. wraps' = [i \in 1..n |-> wraps[i + 1]]
  BY <1>5
<1> HIDE DEF n
<1>8. wraps' \in [1..n -> Jobs]
  BY <1>6, <1>7
<1>9. wraps' \in Seq(Jobs)
  BY <1>6, <1>8, SeqDef
<1>10. Len(wraps') = n
  <2>1. Len(wraps') \in Nat /\ DOMAIN wraps' = 1..Len(wraps')
    BY <1>9, LenProperties
  <2>2. DOMAIN wraps' = 1..n
    BY <1>8
  <2> QED
    BY <1>6, <2>1, <2>2, SameUpTo
<1>11. \A k \in 1..n : wraps'[k] = wraps[k + 1]
  BY <1>7
<1> QED
  BY <1>9, <1>10, <1>11 DEF n

LEMMA TmpdirKept ==
  ASSUME BoxBounds, Types, TInv, NEW j \in Jobs, SandboxStep(j)
  PROVE  TInv'
<1>0. WrapsLined /\ Borrowed
  BY DEF TInv
<1>1. PICK x \in Calls :
        /\ jobs' = [jobs EXCEPT ![j] = x]
        /\ PassesBy(j, x) \/ Waits(j, x) \/ TakesTmpdir(j, x) \/ GivesBack(j, x)
  BY WrapMoves
<1>2. \A i \in Jobs : jobs'[i] = IF i = j THEN x ELSE jobs[i]
  BY <1>1, JobStep
<1>3. /\ wraps \in Seq(Jobs) /\ Len(wraps) \in Nat
      /\ \A k \in 1..Len(wraps) : wraps[k] \in Jobs
  BY <1>0, LenProperties, ElementOfSeq DEF WrapsLined
<1>4. CASE PassesBy(j, x)
  <2>1. WrapsLined'
    BY <1>0, <1>2, <1>3, <1>4 DEF WrapsLined, PassesBy
  <2>2. \A i \in Jobs : jobs'[i].pc \in {"wrapping", "running"} => jobs'[i] = jobs[i]
    BY <1>2, <1>4 DEF PassesBy, InWrap
  <2>3. \A i \in Jobs : jobs'[i].pc # "wrapping" => jobs[i].pc # "wrapping"
    BY <1>2, <1>4 DEF PassesBy, InWrap
  <2>4. Borrowed'
    BY <1>0, <1>4, <2>2, <2>3 DEF Borrowed, Borrows, PassesBy
  <2> QED
    BY <2>1, <2>4 DEF TInv
<1>5. CASE Waits(j, x)
  <2> DEFINE n == Len(wraps)
  <2>1. /\ wraps' \in Seq(Jobs) /\ Len(wraps') = n + 1
        /\ \A k \in 1..n : wraps'[k] = wraps[k]
        /\ wraps'[n + 1] = j
    BY <1>3, <1>5, AppendProperties DEF Waits
  <2>2. \A k \in 1..n : wraps[k] # j
    BY <1>0, <1>5 DEF WrapsLined, Waits, InWrap
  <2>3. n \in Nat /\ \A k \in 1..(n + 1) : k \in 1..n \/ k = n + 1
    BY <1>3
  <2> HIDE DEF n
  <2>4. \A k, l \in 1..Len(wraps') : wraps'[k] = wraps'[l] => k = l
    BY <1>0, <2>1, <2>2, <2>3 DEF WrapsLined, n
  <2>5. \A k \in 1..Len(wraps') : jobs'[wraps'[k]].pc \in InWrap
    BY <1>0, <1>2, <1>3, <1>5, <2>1, <2>2, <2>3 DEF WrapsLined, Waits, InWrap, n
  <2>6. ASSUME NEW i \in Jobs, jobs'[i].pc \in InWrap
        PROVE  \E k \in 1..Len(wraps') : wraps'[k] = i
    <3>1. CASE i = j
      BY <2>1, <2>3, <3>1
    <3>2. CASE i # j
      <4>1. PICK k \in 1..n : wraps[k] = i
        BY <1>0, <1>2, <2>6, <3>2 DEF WrapsLined, n
      <4> QED
        BY <2>1, <2>3, <4>1
    <3> QED
      BY <3>1, <3>2
  <2>7. WrapsLined'
    BY <2>1, <2>4, <2>5, <2>6 DEF WrapsLined
  <2>8. ASSUME NEW i \in Jobs, jobs'[i].pc = "wrapping" PROVE Borrows(i)'
    <3>1. i # j /\ jobs'[i] = jobs[i] /\ Borrows(i)
      BY <1>0, <1>2, <1>5, <2>8 DEF Waits, Borrowed
    <3>2. 1 \in 1..n
      BY <1>0, <2>3, <2>8, <3>1, WrapHead DEF InWrap, n
    <3> QED
      BY <1>5, <2>1, <3>1, <3>2 DEF Borrows, Waits
  <2>9. \A i \in Jobs : jobs'[i].pc # "wrapping" => jobs[i].pc # "wrapping"
    BY <1>2, <1>5 DEF Waits
  <2>10. \A i \in Jobs : jobs'[i].pc = "running" => jobs'[i] = jobs[i]
    BY <1>2, <1>5 DEF Waits
  <2>11. Borrowed'
    BY <1>0, <1>5, <2>8, <2>9, <2>10 DEF Borrowed, Waits
  <2> QED
    BY <2>7, <2>11 DEF TInv
<1>6. CASE TakesTmpdir(j, x)
  <2>1. WrapsLined'
    BY <1>0, <1>2, <1>3, <1>6 DEF WrapsLined, TakesTmpdir, InWrap
  <2>2. wraps[1] = j
    BY <1>0, <1>6, WrapHead DEF TakesTmpdir, WrapTurn, InWrap
  <2>3. \A i \in Jobs : jobs[i].pc # "wrapping"
    BY <1>0, <1>6, <2>2 DEF Borrowed, Borrows, TakesTmpdir
  <2>4. session.tmpdir = None
    BY <1>0, <2>3 DEF Borrowed
  <2>5. \A i \in Jobs : jobs'[i].pc = "wrapping" => i = j
    BY <1>2, <2>3
  <2>6. jobs'[j].pc = "wrapping" /\ Borrows(j)'
    BY <1>2, <1>6, <2>2, <2>4 DEF Borrows, TakesTmpdir
  <2>7. \A i \in Jobs : jobs'[i].pc = "running" => jobs'[i] = jobs[i]
    BY <1>2, <1>6 DEF TakesTmpdir
  <2>8. Borrowed'
    BY <1>0, <2>5, <2>6, <2>7 DEF Borrowed
  <2> QED
    BY <2>1, <2>8 DEF TInv
<1>7. CASE GivesBack(j, x)
  <2>1. Borrows(j) /\ jobs[j].pc \in InWrap
    BY <1>0, <1>7 DEF Borrowed, GivesBack, InWrap
  <2> DEFINE n == Len(wraps)
  <2>2. n \in Nat /\ n >= 1
    BY <1>0, <2>1, WrapHead
  <2>3. /\ wraps' \in Seq(Jobs) /\ Len(wraps') = n - 1
        /\ \A k \in 1..(n - 1) : wraps'[k] = wraps[k + 1]
    BY <1>0, <1>7, <2>1, HeadGone DEF Borrows, GivesBack
  <2>4. \A k \in 1..(n - 1) : k + 1 \in 1..n /\ k + 1 # 1
    BY <2>2
  <2>5. \A k \in 1..n : k = 1 \/ k - 1 \in 1..(n - 1)
    BY <2>2
  <2>6. 1 \in 1..n
    BY <2>2
  <2> HIDE DEF n
  <2>7. \A k, l \in 1..(n - 1) : wraps'[k] = wraps'[l] => k = l
    <3>1. SUFFICES ASSUME NEW k \in 1..(n - 1), NEW l \in 1..(n - 1), wraps'[k] = wraps'[l]
                   PROVE  k = l
      OBVIOUS
    <3>2. wraps[k + 1] = wraps[l + 1] /\ k + 1 \in 1..n /\ l + 1 \in 1..n
      BY <2>3, <2>4, <3>1
    <3>3. k + 1 = l + 1
      BY <1>0, <3>2 DEF WrapsLined, n
    <3> QED
      BY <2>2, <3>3
  <2>8. ASSUME NEW k \in 1..(n - 1) PROVE jobs'[wraps'[k]].pc \in InWrap
    <3>1. wraps'[k] = wraps[k + 1] /\ k + 1 \in 1..n /\ k + 1 # 1
      BY <2>3, <2>4
    <3>2. wraps[k + 1] # j /\ wraps[k + 1] \in Jobs /\ jobs[wraps[k + 1]].pc \in InWrap
      BY <1>0, <1>3, <2>1, <2>6, <3>1 DEF WrapsLined, Borrows, n
    <3> QED
      BY <1>2, <3>1, <3>2
  <2>9. ASSUME NEW i \in Jobs, jobs'[i].pc \in InWrap
        PROVE  \E k \in 1..(n - 1) : wraps'[k] = i
    <3>1. i # j /\ jobs[i].pc \in InWrap
      BY <1>2, <1>7, <2>9 DEF GivesBack
    <3>2. PICK k \in 1..n : wraps[k] = i
      BY <1>0, <3>1 DEF WrapsLined, n
    <3>3. k # 1 /\ k - 1 \in 1..(n - 1) /\ (k - 1) + 1 = k
      BY <2>1, <2>2, <2>5, <3>1, <3>2 DEF Borrows
    <3> QED
      BY <2>3, <3>2, <3>3
  <2>10. WrapsLined'
    BY <2>3, <2>7, <2>8, <2>9 DEF WrapsLined
  <2>11. \A i \in Jobs : jobs[i].pc = "wrapping" => i = j
    BY <1>0, <2>1 DEF Borrowed, Borrows
  <2>12. (\A i \in Jobs : jobs'[i].pc # "wrapping") /\ session'.tmpdir = None
    BY <1>2, <1>7, <2>1, <2>11 DEF GivesBack, Borrows, InWrap
  <2>13. ASSUME NEW i \in Jobs, jobs'[i].pc = "running" PROVE jobs'[i].tmpdir = RunOf[i]
    BY <1>0, <1>2, <1>7, <2>1, <2>13 DEF GivesBack, Borrowed, Borrows
  <2>14. Borrowed'
    BY <2>12, <2>13 DEF Borrowed
  <2> QED
    BY <2>10, <2>14 DEF TInv
<1> QED
  BY <1>1, <1>4, <1>5, <1>6, <1>7

LEMMA TmpdirInvariant == ASSUME BoxBounds PROVE SandboxSpec => []TInv
<1>1. ASSUME SandboxInit PROVE TInv
  <2>1. wraps \in Seq(Jobs) /\ Len(wraps) = 0
    BY <1>1, EmptySeq DEF SandboxInit
  <2>2. /\ \A j \in Jobs : jobs[j].pc = "idle"
        /\ session.tmpdir = None
    BY <1>1 DEF SandboxInit, NoJob
  <2> QED
    BY <2>1, <2>2 DEF TInv, WrapsLined, Borrowed, InWrap
<1>2. ASSUME PInv, TInv, [SandboxNext]_sandboxVars PROVE TInv'
  <2>1. Types
    BY <1>2 DEF PInv
  <2>2. CASE UNCHANGED <<jobs, wraps, session>>
    BY <1>2, <2>2 DEF TInv, WrapsLined, Borrowed, Borrows
  <2>3. ASSUME NEW j \in Jobs, SandboxStep(j) PROVE TInv'
    BY <1>2, <2>1, <2>3, TmpdirKept
  <2>4. ASSUME NEW r \in Runs, AbortSession(r) PROVE TInv'
    <3>1. /\ UNCHANGED <<wraps, session>>
          /\ \A j \in Jobs : /\ jobs'[j].pc = jobs[j].pc /\ jobs'[j].tmpdir = jobs[j].tmpdir
                             /\ jobs'[j].before = jobs[j].before
      BY <2>1, <2>4, AbortMarks
    <3>2. \A k \in 1..Len(wraps) : wraps[k] \in Jobs
      BY <1>2, ElementOfSeq DEF TInv, WrapsLined
    <3>3. WrapsLined'
      BY <1>2, <3>1, <3>2 DEF TInv, WrapsLined
    <3>4. Borrowed'
      BY <1>2, <3>1 DEF TInv, Borrowed, Borrows
    <3> QED
      BY <3>3, <3>4 DEF TInv
  <2> QED
    BY <1>2, <2>2, <2>3, <2>4 DEF SandboxNext, sandboxVars, EditAllowlist, StartRun, CloseRun
<1> QED
  BY <1>1, <1>2, InitPolicy, StepKeeps, PTL DEF SandboxSpec

\* A command is wrapped with its own run's TMPDIR, though that is a variable of
\* the whole process, and whenever nobody is at the wrapping or waits for it the
\* process has its own back: whatever fails, is aborted or is claimed meanwhile
\* (srt.ts: the wrapping is serialized and restores TMPDIR in its finally).
THEOREM TmpdirIsBorrowed == ASSUME BoxBounds PROVE SandboxSpec => []TmpdirIsTheRuns
<1>1. ASSUME TInv PROVE TmpdirIsTheRuns
  <2>1. wraps = <<>> => \A j \in Jobs : jobs[j].pc # "wrapping"
    BY <1>1, EmptySeq DEF TInv, WrapsLined, InWrap
  <2> QED
    BY <1>1, <2>1 DEF TInv, Borrowed, TmpdirIsTheRuns
<1> QED
  BY <1>1, TmpdirInvariant, PTL

\* Every state of the sandbox is well-typed; the count of commands is that of
\* the calls that hold the policy, so it never exceeds the calls there are.
THEOREM SandboxTypes == ASSUME BoxBounds PROVE SandboxSpec => []SandboxTypeOK
<1>1. ASSUME QInv, TInv PROVE SandboxTypeOK
  <2>1. /\ Types /\ line \in [Runs -> Seq(Jobs)] /\ wraps \in Seq(Jobs)
        /\ session.commands = Cardinality(Holders)
    BY <1>1 DEF QInv, PInv, Lined, TInv, WrapsLined, Counted
  <2>2. /\ Cardinality(Holders) \in Nat /\ Cardinality(Jobs) \in Nat
        /\ Cardinality(Holders) <= Cardinality(Jobs)
    <3>1. IsFiniteSet(Jobs) /\ Holders \subseteq Jobs
      BY DEF BoxBounds, Holders
    <3> QED
      BY <3>1, FS_Subset, FS_CardinalityType
  <2>3. session.commands \in 0..Cardinality(Jobs)
    BY <2>1, <2>2
  <2>4. session \in [claimed : Policies \cup {None}, commands : 0..Cardinality(Jobs),
                     applied : Policies \cup {None}, tmpdir : Runs \cup {None}]
    <3>1. session \in SessionRecord
      BY <2>1 DEF Types
    <3> QED
      BY <2>3, <3>1 DEF SessionRecord
  <2> QED
    BY <2>1, <2>4 DEF Types, Calls, Contexts, SandboxTypeOK
<1> QED
  BY <1>1, LinesInvariant, TmpdirInvariant, PTL

(***************************************************************************)
(* One call: it has failed exactly if something has made it fail, and its  *)
(* stall timer ends a silence.                                             *)
(***************************************************************************)

CallLimits ==
  /\ Threshold \in Nat /\ MaxReply \in Nat /\ HardLimit \in Nat /\ StallLimit \in Nat

-----------------------------------------------------------------------------
(* The inductive invariant.                                                *)

\* What is left of the timer and what was silent never exceed the limit.
TimerIsDue == timers.idle + timers.due <= StallLimit

\* Until something trips the call, its error is that of its last request.
ErrorIsTheRequests ==
  /\ phase = "creating" => tripped = "none"
  /\ phase \in {"creating", "prompting"} => ~error.thrown
  /\ phase \in {"creating", "prompting"} /\ tripped = "none" =>
       error.total \in {"none", "failed"} /\ (error.total = "none" <=> service = "fine")

\* After an abort it is what was kept of it; and once the prompt has settled it
\* is what will be returned.
OutcomeIsTheRequests ==
  /\ phase # "done" /\ tripped = "aborted" =>
       error.before \in {"none", "failed"} /\ (error.before = "none" <=> service = "fine")
  /\ phase = "settled" /\ tripped = "none" =>
       Outcome \in {"none", "failed", "thrown"} /\ (Outcome = "none" <=> service = "fine")

CallInv ==
  /\ CallTypeOK /\ TimerIsDue /\ ErrorIsTheRequests /\ OutcomeIsTheRequests
  /\ VerdictIsTheCalls

-----------------------------------------------------------------------------
(* Every step keeps it.                                                    *)

LEMMA CallInitInv == ASSUME CallLimits, CallInit PROVE CallInv
<1>3. timers \in [elapsed : 0..HardLimit, idle : Nat, due : 0..StallLimit]
  BY DEF CallLimits, CallInit
<1>4. repeats \in [key : Keys \cup {NoKey}, streak : 0..(Threshold + 1)]
  <2>1. 0 \in 0..(Threshold + 1)
    BY DEF CallLimits
  <2> QED BY <2>1 DEF CallInit
<1>5. reply \in 0..(MaxReply + 1)
  BY DEF CallLimits, CallInit
<1>6. error \in [total : Errors, before : Errors, thrown : BOOLEAN]
  BY DEF CallInit, Errors
<1>1. CallTypeOK
  BY <1>3, <1>4, <1>5, <1>6 DEF CallInit, CallTypeOK
<1>2. TimerIsDue
  BY DEF CallLimits, CallInit, TimerIsDue
<1> QED BY <1>1, <1>2
     DEF CallInit, CallInv, ErrorIsTheRequests, OutcomeIsTheRequests, VerdictIsTheCalls

\* Types and timer, action by action of a kind.
LEMMA TripIs ==
  ASSUME CallTypeOK, NEW cause \in Causes, Trip(cause)
  PROVE  /\ tripped' \in Causes \cup {"none"} /\ tripped' # "none"
         /\ error' \in [total : Errors, before : Errors, thrown : BOOLEAN]
         /\ error'.total = error.total /\ error'.thrown = error.thrown
         /\ tripped # "none" => tripped' = tripped /\ error' = error
         /\ tripped = "none" /\ tripped' = "aborted" => error'.before = error.total
BY DEF CallTypeOK, Trip, Causes, Speaking

LEMMA CausesAre ==
  /\ {"timeout", "stalled", "stuck", "oversized", "aborted"} = Causes
  /\ "none" \notin Causes /\ Speaking \subseteq Causes \ {"aborted"}
BY DEF Causes, Speaking

\* A step that may trip the call and leaves its service alone.
LEMMA TrippedKeeps ==
  ASSUME CallInv, phase = "prompting", UNCHANGED <<phase, code, service>>, CallTypeOK', TimerIsDue',
         \/ UNCHANGED <<tripped, error>>
         \/ \E cause \in Causes : Trip(cause)
  PROVE  CallInv'
<1>1. ErrorIsTheRequests' /\ OutcomeIsTheRequests' /\ VerdictIsTheCalls'
  <2>1. CASE UNCHANGED <<tripped, error>>
    BY <2>1 DEF CallInv, ErrorIsTheRequests, OutcomeIsTheRequests, VerdictIsTheCalls
  <2>2. ASSUME NEW cause \in Causes, Trip(cause)
        PROVE  ErrorIsTheRequests' /\ OutcomeIsTheRequests' /\ VerdictIsTheCalls'
    <3>1. /\ tripped' # "none" /\ error'.thrown = error.thrown
          /\ tripped # "none" => tripped' = tripped /\ error' = error
          /\ tripped = "none" /\ tripped' = "aborted" => error'.before = error.total
      BY <2>2, TripIs DEF CallInv
    <3> QED BY <3>1
         DEF CallInv, ErrorIsTheRequests, OutcomeIsTheRequests, VerdictIsTheCalls
  <2> QED BY <2>1, <2>2
<1> QED BY <1>1 DEF CallInv

LEMMA CallerAbortsKeeps == ASSUME CallLimits, CallInv, CallerAborts PROVE CallInv'
<1>1. CASE phase = "prompting"
  <2>1. Trip("aborted") /\ "aborted" \in Causes
        /\ UNCHANGED <<phase, timers, repeats, reply, code, service>> /\ aborted' = TRUE
    BY <1>1, CausesAre DEF CallerAborts
  <2>2. CallTypeOK' /\ TimerIsDue'
    BY <2>1, TripIs DEF CallInv, CallTypeOK, TimerIsDue
  <2> QED BY <1>1, <2>1, <2>2, TrippedKeeps
<1>2. CASE phase # "prompting"
  <2>1. UNCHANGED <<phase, tripped, error, timers, repeats, reply, code, service>>
        /\ aborted' = TRUE
    BY <1>2 DEF CallerAborts
  <2>2. Outcome' = Outcome
    BY <2>1 DEF Outcome
  <2> QED BY <2>1, <2>2 DEF CallInv, CallTypeOK, TimerIsDue, ErrorIsTheRequests,
                            OutcomeIsTheRequests, VerdictIsTheCalls
<1> QED BY <1>1, <1>2

LEMMA CreateKeeps == ASSUME CallLimits, CallInv, CreateSession \/ CreateFails PROVE CallInv'
<1>1. CASE CreateSession
  BY <1>1 DEF CreateSession, CallInv, CallTypeOK, TimerIsDue, ErrorIsTheRequests,
              OutcomeIsTheRequests, VerdictIsTheCalls
<1>2. CASE CreateFails
  <2>1. /\ phase = "creating" /\ phase' = "done" /\ code' = "failed"
        /\ error' = [error EXCEPT !.total = "creation"]
        /\ UNCHANGED <<aborted, tripped, timers, repeats, reply, service>>
    BY <1>2 DEF CreateFails
  <2>2. error' \in [total : Errors, before : Errors, thrown : BOOLEAN] /\ error'.total = "creation"
    BY <2>1 DEF CallInv, CallTypeOK, Errors
  <2> QED BY <2>1, <2>2 DEF CallInv, CallTypeOK, TimerIsDue, ErrorIsTheRequests,
                            OutcomeIsTheRequests, VerdictIsTheCalls
<1> QED BY <1>1, <1>2

LEMMA TimersKeep == ASSUME CallLimits, CallInv, Tick \/ HardTimer \/ StallTimer PROVE CallInv'
<1>1. CASE Tick
  <2>1. /\ phase = "prompting" /\ timers.elapsed < HardLimit /\ timers.due > 0
        /\ timers' = [elapsed |-> timers.elapsed + 1, idle |-> timers.idle + 1,
                      due |-> timers.due - 1]
        /\ UNCHANGED <<phase, aborted, tripped, error, repeats, reply, code, service>>
    BY <1>1 DEF Tick
  <2>2. timers' \in [elapsed : 0..HardLimit, idle : Nat, due : 0..StallLimit] /\ TimerIsDue'
    BY <2>1 DEF CallLimits, CallInv, CallTypeOK, TimerIsDue
  <2>3. CallTypeOK'
    BY <2>1, <2>2 DEF CallInv, CallTypeOK
  <2> QED BY <2>1, <2>2, <2>3, TrippedKeeps
<1>2. CASE HardTimer
  <2>1. /\ phase = "prompting" /\ Trip("timeout") /\ "timeout" \in Causes
        /\ UNCHANGED <<phase, aborted, timers, repeats, reply, code, service>>
    BY <1>2, CausesAre DEF HardTimer
  <2>2. CallTypeOK' /\ TimerIsDue'
    BY <2>1, TripIs DEF CallInv, CallTypeOK, TimerIsDue
  <2> QED BY <2>1, <2>2, TrippedKeeps
<1>3. CASE StallTimer
  <2>1. /\ phase = "prompting" /\ timers.due = 0
        /\ UNCHANGED <<phase, aborted, repeats, reply, code, service>>
    BY <1>3 DEF StallTimer
  <2>2. CASE timers.idle >= StallLimit
    <3>1. Trip("stalled") /\ "stalled" \in Causes /\ UNCHANGED timers
      BY <1>3, <2>2, CausesAre DEF StallTimer
    <3>2. CallTypeOK' /\ TimerIsDue'
      BY <2>1, <3>1, TripIs DEF CallInv, CallTypeOK, TimerIsDue
    <3> QED BY <2>1, <3>1, <3>2, TrippedKeeps
  <2>3. CASE ~(timers.idle >= StallLimit)
    <3>1. timers' = [timers EXCEPT !.due = Rearm(timers.idle)] /\ UNCHANGED <<tripped, error>>
      BY <1>3, <2>3 DEF StallTimer
    <3> DEFINE d == StallLimit - timers.idle
    <3>2. d \in 0..StallLimit /\ timers.idle + d <= StallLimit /\ timers' = [timers EXCEPT !.due = d]
      BY <2>3, <3>1 DEF CallLimits, CallInv, CallTypeOK, Rearm
    <3>3. timers' \in [elapsed : 0..HardLimit, idle : Nat, due : 0..StallLimit] /\ TimerIsDue'
      <4> HIDE DEF d
      <4> QED BY <3>2 DEF CallInv, CallTypeOK, TimerIsDue
    <3>4. CallTypeOK'
      BY <2>1, <3>1, <3>3 DEF CallInv, CallTypeOK
    <3> QED BY <2>1, <3>1, <3>3, <3>4, TrippedKeeps
  <2> QED BY <2>2, <2>3
<1> QED BY <1>1, <1>2, <1>3

\* Whatever arrives, the timer has no less to wait for.
LEMMA AliveIs ==
  ASSUME CallLimits, CallInv, Alive
  PROVE  /\ phase = "prompting" /\ TimerIsDue'
         /\ timers' \in [elapsed : 0..HardLimit, idle : Nat, due : 0..StallLimit]
BY DEF CallLimits, CallInv, CallTypeOK, TimerIsDue, Alive

LEMMA SpeechKeeps == ASSUME CallLimits, CallInv, Byte \/ Message \/ Delta PROVE CallInv'
<1>1. CASE Byte \/ Message
  <2>1. /\ Alive /\ reply' \in {0, reply}
        /\ UNCHANGED <<phase, aborted, tripped, error, repeats, code, service>>
    BY <1>1 DEF Byte, Message
  <2>2. CallTypeOK'
    BY <2>1, AliveIs DEF CallInv, CallTypeOK, CallLimits
  <2> QED BY <2>1, <2>2, AliveIs, TrippedKeeps
<1>2. CASE Delta
  <2>1. /\ Alive /\ reply <= MaxReply /\ reply' = reply + 1
        /\ UNCHANGED <<phase, aborted, repeats, code, service>>
        /\ UNCHANGED <<tripped, error>> \/ Trip("oversized")
        /\ "oversized" \in Causes
    BY <1>2, CausesAre DEF Delta
  <2>2. reply' \in 0..(MaxReply + 1)
    BY <2>1 DEF CallInv, CallTypeOK, CallLimits
  <2>3. CallTypeOK'
    BY <2>1, <2>2, AliveIs, TripIs DEF CallInv, CallTypeOK
  <2> QED BY <2>1, <2>3, AliveIs, TrippedKeeps
<1> QED BY <1>1, <1>2

LEMMA ToolCallKeeps == ASSUME CallLimits, CallInv, ToolCall PROVE CallInv'
<1>1. /\ Alive /\ reply' = 0 /\ repeats.streak <= Threshold
      /\ UNCHANGED <<phase, aborted, code, service>>
  BY DEF ToolCall
<1>2. PICK key \in Keys :
        /\ repeats' = [key |-> key, streak |-> Streak(key)]
        /\ UNCHANGED <<tripped, error>> \/ Trip("stuck")
  BY DEF ToolCall
<1>3. Streak(key) \in 0..(Threshold + 1)
  BY <1>1 DEF Streak, CallInv, CallTypeOK, CallLimits
<1>4. repeats' \in [key : Keys \cup {NoKey}, streak : 0..(Threshold + 1)]
  BY <1>2, <1>3
<1>5. "stuck" \in Causes /\ reply' \in 0..(MaxReply + 1)
  BY <1>1, CausesAre DEF CallLimits
<1>6. CallTypeOK'
  BY <1>1, <1>2, <1>4, <1>5, AliveIs, TripIs DEF CallInv, CallTypeOK
<1> QED BY <1>1, <1>2, <1>5, <1>6, AliveIs, TrippedKeeps

\* Requests fail and are served again; the aborted turn says that it was.
LEMMA RequestsKeep ==
  ASSUME CallLimits, CallInv, RequestFails \/ RetrySucceeds \/ TurnAborted
  PROVE  CallInv'
<1>1. CASE RequestFails
  <2>1. /\ Alive /\ reply' = 0 /\ tripped = "none" /\ service' \in {"failing", "failed"}
        /\ error' = [error EXCEPT !.total = "failed"]
        /\ UNCHANGED <<phase, aborted, tripped, repeats, code>>
    BY <1>1 DEF RequestFails, Folded
  <2>2. /\ error' \in [total : Errors, before : Errors, thrown : BOOLEAN]
        /\ error'.total = "failed" /\ error'.thrown = error.thrown
    BY <2>1 DEF CallInv, CallTypeOK, Errors
  <2>3. CallTypeOK'
    BY <2>1, <2>2, AliveIs DEF CallInv, CallTypeOK, CallLimits
  <2> QED BY <2>1, <2>2, <2>3, AliveIs
       DEF CallInv, ErrorIsTheRequests, OutcomeIsTheRequests, VerdictIsTheCalls
<1>2. CASE RetrySucceeds
  <2>1. /\ Alive /\ tripped = "none" /\ service' = "fine"
        /\ error' = [error EXCEPT !.total = "none"]
        /\ UNCHANGED <<phase, aborted, tripped, repeats, reply, code>>
    BY <1>2 DEF RetrySucceeds, Folded
  <2>2. /\ error' \in [total : Errors, before : Errors, thrown : BOOLEAN]
        /\ error'.total = "none" /\ error'.thrown = error.thrown
    BY <2>1 DEF CallInv, CallTypeOK, Errors
  <2>3. CallTypeOK'
    BY <2>1, <2>2, AliveIs DEF CallInv, CallTypeOK, CallLimits
  <2> QED BY <2>1, <2>2, <2>3, AliveIs
       DEF CallInv, ErrorIsTheRequests, OutcomeIsTheRequests, VerdictIsTheCalls
<1>3. CASE TurnAborted
  <2>1. /\ Alive /\ tripped # "none" /\ reply' = 0
        /\ error' = [error EXCEPT !.total = "note"]
        /\ UNCHANGED <<phase, aborted, tripped, repeats, code, service>>
    BY <1>3 DEF TurnAborted, Folded
  <2>2. /\ error' \in [total : Errors, before : Errors, thrown : BOOLEAN]
        /\ error'.before = error.before /\ error'.thrown = error.thrown
    BY <2>1 DEF CallInv, CallTypeOK, Errors
  <2>3. CallTypeOK'
    BY <2>1, <2>2, AliveIs DEF CallInv, CallTypeOK, CallLimits
  <2> QED BY <2>1, <2>2, <2>3, AliveIs
       DEF CallInv, ErrorIsTheRequests, OutcomeIsTheRequests, VerdictIsTheCalls
<1> QED BY <1>1, <1>2, <1>3

LEMMA SettlingKeeps == ASSUME CallLimits, CallInv, PromptEnds \/ WatchdogWins PROVE CallInv'
<1>1. CASE PromptEnds
  <2>1. PICK thrown \in BOOLEAN :
          /\ error' = [error EXCEPT !.thrown = thrown]
          /\ service' = IF thrown /\ tripped = "none" THEN "failed" ELSE service
    BY <1>1 DEF PromptEnds
  <2>2. /\ phase = "prompting" /\ phase' = "settled"
        /\ UNCHANGED <<aborted, tripped, timers, repeats, reply, code>>
    BY <1>1 DEF PromptEnds
  <2>3. /\ error' \in [total : Errors, before : Errors, thrown : BOOLEAN]
        /\ error'.before = error.before /\ error'.total = error.total /\ error'.thrown = thrown
    BY <2>1 DEF CallInv, CallTypeOK
  <2>4. CallTypeOK'
    BY <2>1, <2>2, <2>3 DEF CallInv, CallTypeOK
  <2>5. tripped = "none" =>
          Outcome' = IF error.total = "none" /\ thrown THEN "thrown" ELSE error.total
    BY <2>2, <2>3 DEF Outcome, Speaking
  <2> QED BY <2>1, <2>2, <2>3, <2>4, <2>5
       DEF CallInv, TimerIsDue, ErrorIsTheRequests, OutcomeIsTheRequests, VerdictIsTheCalls
<1>2. CASE WatchdogWins
  BY <1>2 DEF WatchdogWins, CallInv, CallTypeOK, TimerIsDue, ErrorIsTheRequests,
              OutcomeIsTheRequests, VerdictIsTheCalls
<1> QED BY <1>1, <1>2

LEMMA ReturnKeeps == ASSUME CallLimits, CallInv, Return PROVE CallInv'
<1>1. /\ phase = "settled" /\ phase' = "done" /\ error' = [error EXCEPT !.total = Outcome]
      /\ code' = IF Outcome # "none" \/ tripped \notin {"none", "aborted"} THEN "failed" ELSE "ok"
      /\ UNCHANGED <<aborted, tripped, timers, repeats, reply, service>>
  BY DEF Return
<1>2. Outcome \in Errors
  BY DEF Outcome, CallInv, CallTypeOK, Errors
<1>3. /\ error' \in [total : Errors, before : Errors, thrown : BOOLEAN]
      /\ error'.total = Outcome
  BY <1>1, <1>2 DEF CallInv, CallTypeOK
<1>4. CallTypeOK' /\ TimerIsDue'
  BY <1>1, <1>3 DEF CallInv, CallTypeOK, TimerIsDue
<1>5. tripped \in Causes \cup {"none"}
  BY DEF CallInv, CallTypeOK
<1>6. VerdictIsTheCalls'
  <2>1. CASE tripped = "none"
    BY <1>1, <1>3, <2>1 DEF CallInv, OutcomeIsTheRequests, VerdictIsTheCalls, Causes, Speaking
  <2>2. CASE tripped = "aborted"
    <3>1. Outcome = error.before
      BY <2>2 DEF Outcome, Speaking
    <3> QED BY <1>1, <1>3, <2>2, <3>1
         DEF CallInv, OutcomeIsTheRequests, VerdictIsTheCalls, Causes, Speaking
  <2>3. CASE tripped \notin {"none", "aborted"}
    BY <1>1, <1>5, <2>3 DEF VerdictIsTheCalls
  <2> QED BY <2>1, <2>2, <2>3
<1> QED BY <1>1, <1>4, <1>6 DEF CallInv, ErrorIsTheRequests, OutcomeIsTheRequests

LEMMA CallStepKeeps == ASSUME CallLimits, CallInv, [CallNext]_callVars PROVE CallInv'
<1>1. CASE UNCHANGED callVars
  BY <1>1 DEF callVars, CallInv, CallTypeOK, TimerIsDue, ErrorIsTheRequests, OutcomeIsTheRequests,
              VerdictIsTheCalls, Outcome
<1>2. CASE CallNext
  BY <1>2, CallerAbortsKeeps, CreateKeeps, TimersKeep, SpeechKeeps, ToolCallKeeps, RequestsKeep,
     SettlingKeeps, ReturnKeeps, Zenon DEF CallNext, Stream
<1> QED BY <1>1, <1>2

LEMMA CallInvHolds == ASSUME CallLimits PROVE CallSpec => []CallInv
<1>1. CallInit => CallInv
  BY CallInitInv
<1>2. CallInv /\ [CallNext]_callVars => CallInv'
  BY CallStepKeeps
<1> QED BY <1>1, <1>2, PTL DEF CallSpec

-----------------------------------------------------------------------------
(* The theorems.                                                           *)

\* runHarness's locals keep their types: the stall timer is never armed for
\* more than its limit, and neither reply nor streak outgrows what trips it.
THEOREM CallsAreTyped == ASSUME CallLimits PROVE CallSpec => []CallTypeOK
<1>1. CallInv => CallTypeOK
  BY DEF CallInv
<1> QED BY <1>1, CallInvHolds, PTL

\* A call has failed exactly if a watchdog ended it, its session could not be
\* made, or its last request was never served: whatever was folded from the
\* stream before and after an abort, a retry that went through is no failure.
THEOREM VerdictsAreTheCalls == ASSUME CallLimits PROVE CallSpec => []VerdictIsTheCalls
<1>1. CallInv => VerdictIsTheCalls
  BY DEF CallInv
<1> QED BY <1>1, CallInvHolds, PTL

\* A timer that is re-armed only when it fires, and never by the stream itself,
\* still ends a silence at its limit.
THEOREM SilenceEnds == ASSUME CallLimits PROVE CallSpec => []SilenceIsBounded
<1>1. CallInv => SilenceIsBounded
  <2> SUFFICES ASSUME CallInv PROVE timers.idle <= StallLimit
    BY DEF SilenceIsBounded
  <2>1. timers.idle \in Nat /\ timers.due \in Nat /\ timers.idle + timers.due <= StallLimit
    BY DEF CallInv, CallTypeOK, TimerIsDue
  <2> QED BY <2>1 DEF CallLimits
<1> QED BY <1>1, CallInvHolds, PTL

(***************************************************************************)
(* The install gate: approvals are never lost, only ticked scripts are     *)
(* approved, and a loop that hands over to evaluation has been gated.      *)
(***************************************************************************)

\* The bounds of the model are numbers.
GateBounds == /\ MaxInstalls \in Nat
              /\ MaxLoops \in Nat \ {0}

\* A card's request is under way on some page only with that card's name.
PagesHaveACard == \A p \in Pages : pages[p].step # "idle" => pages[p].card \in Tasks

\* Only what was ticked travels through a request: what it asks for, and what
\* it has found in the tree and will record.
RequestsWereChecked ==
  \A p \in Pages : /\ pages[p].asked \subseteq checked
                   /\ pages[p].present \subseteq checked

\* The list a scan goes by may be old, but nothing is ever taken off it.
ScansAreCurrentOrOlder == \A c \in Tasks : cards[c].known \subseteq approved

GateInv == /\ GateTypeOK
           /\ PagesHaveACard
           /\ RequestsWereChecked
           /\ ScansAreCurrentOrOlder
           /\ ApprovedWereChecked
           /\ LoopIsGated

\* The state of boot meets the invariant: nothing is installed or approved.
LEMMA InitGate == ASSUME GateBounds, GateInit PROVE GateInv
BY DEF GateBounds, GateInit, GateInv, GateTypeOK, CardRecord, PageRecord, NoRequest, PagesHaveACard,
       RequestsWereChecked, ScansAreCurrentOrOlder, ApprovedWereChecked, LoopIsGated

\* What a card's resume leaves is a card, and never one the loop handed over.
LEMMA ResumedCard ==
  ASSUME GateTypeOK, NEW c \in Tasks
  PROVE  /\ Resumed(c) \in CardRecord
         /\ Resumed(c).tree = cards[c].tree
         /\ Resumed(c).known = cards[c].known
         /\ Resumed(c).late = cards[c].late
         /\ Resumed(c).status = "checks" => cards[c].status = "checks"
         /\ Resumed(c).status = "evaluating" /\ Resumed(c).from = "loop" =>
              cards[c].status = "evaluating" /\ cards[c].from = "loop"
BY DEF GateTypeOK, CardRecord, Resumed, InAttention

\* What an installation and the end of a loop leave of a card.
LEMMA CardFits ==
  ASSUME NEW k \in CardRecord, NEW t \in SUBSET Scripts
  PROVE  /\ [k EXCEPT !.tree = t, !.changed = TRUE] \in CardRecord
         /\ [k EXCEPT !.status = "failed"] \in CardRecord
         /\ [k EXCEPT !.open = FALSE, !.done = TRUE] \in CardRecord
BY DEF CardRecord

\* And a scan, the checks after it, and a card they send back.
LEMMA ScanFits ==
  ASSUME NEW k \in CardRecord, NEW b \in SUBSET Scripts, NEW s \in {"work", "checks", "gate"}
  PROVE  /\ [k EXCEPT !.known = {}, !.banner = b, !.status = s] \in CardRecord
         /\ [k EXCEPT !.status = "scan", !.known = b, !.changed = FALSE, !.late = {}] \in CardRecord
BY DEF CardRecord

LEMMA ChecksFit ==
  ASSUME NEW k \in CardRecord, NEW l \in SUBSET Scripts, NEW t \in SUBSET Scripts,
         NEW changed \in BOOLEAN
  PROVE  /\ [k EXCEPT !.late = l, !.tree = t, !.changed = TRUE] \in CardRecord
         /\ [k EXCEPT !.status = "work", !.open = TRUE, !.done = FALSE, !.changed = changed]
              \in CardRecord
BY DEF CardRecord

\* A loop's or an operator's step keeps cards and requests well formed.
LEMMA GateTypes ==
  ASSUME GateBounds, GateTypeOK, PagesHaveACard, [GateNext]_gateVars
  PROVE  GateTypeOK' /\ PagesHaveACard'
<1> USE DEF GateTypeOK, PagesHaveACard
<1>1. ASSUME NEW c \in Tasks, Install(c) PROVE GateTypeOK' /\ PagesHaveACard'
  <2>1. PICK tree \in SUBSET Scripts :
          cards' = [cards EXCEPT ![c] = [@ EXCEPT !.tree = tree, !.changed = TRUE]]
    BY <1>1 DEF Install
  <2>2. [cards[c] EXCEPT !.tree = tree, !.changed = TRUE] \in CardRecord
    BY CardFits
  <2>3. cards' \in [Tasks -> CardRecord]
    BY <2>1, <2>2
  <2> QED
    BY <1>1, <2>3 DEF GateBounds, Install
<1>2. ASSUME NEW c \in Tasks, IterationEnds(c) PROVE GateTypeOK' /\ PagesHaveACard'
  <2>1. Scanning(c) \in CardRecord
    BY ScanFits DEF Scanning
  <2>2. cards' \in [Tasks -> CardRecord]
    BY <1>2, <2>1 DEF IterationEnds
  <2> QED
    BY <1>2, <2>2 DEF IterationEnds
<1>3. ASSUME NEW c \in Tasks, LoopDone(c) PROVE GateTypeOK' /\ PagesHaveACard'
  <2>1. [Scanning(c) EXCEPT !.open = FALSE, !.done = TRUE] \in CardRecord
    <3>1. Scanning(c) \in CardRecord
      BY ScanFits DEF Scanning
    <3> HIDE DEF GateTypeOK
    <3> QED
      BY <3>1, CardFits
  <2>2. [[cards[c] EXCEPT !.status = "failed"] EXCEPT !.open = FALSE, !.done = TRUE] \in CardRecord
    <3> DEFINE k == [cards[c] EXCEPT !.status = "failed"]
    <3>1. k \in CardRecord
      BY CardFits
    <3> HIDE DEF k
    <3>2. [k EXCEPT !.open = FALSE, !.done = TRUE] \in CardRecord
      BY <3>1, CardFits
    <3> QED
      BY <3>2 DEF k
  <2>3. cards' \in [Tasks -> CardRecord]
    BY <1>3, <2>1, <2>2 DEF LoopDone
  <2> QED
    BY <1>3, <2>3 DEF LoopDone
<1>4. ASSUME NEW c \in Tasks, Scanned(c) PROVE GateTypeOK' /\ PagesHaveACard'
  <2> DEFINE unapproved == cards[c].tree \ cards[c].known
             banner == cards[c].banner \cup unapproved
             status == IF unapproved # {} THEN "gate"
                       ELSE IF cards[c].done THEN "checks" ELSE "work"
  <2>1. cards' = [cards EXCEPT ![c] = [@ EXCEPT !.known = {}, !.banner = banner,
                                                !.status = status]]
    BY <1>4 DEF Scanned
  <2>2. banner \in SUBSET Scripts /\ status \in {"work", "checks", "gate"}
    BY DEF CardRecord
  <2> HIDE DEF banner, status
  <2>3. [cards[c] EXCEPT !.known = {}, !.banner = banner, !.status = status] \in CardRecord
    BY <2>2, ScanFits
  <2>4. cards' \in [Tasks -> CardRecord]
    BY <2>1, <2>3
  <2> QED
    BY <1>4, <2>4 DEF Scanned
<1>5. ASSUME NEW c \in Tasks, LoopFails(c) \/ Restart(c) \/ RetryLoop(c)
      PROVE GateTypeOK' /\ PagesHaveACard'
  <2>1. CASE \E status \in {"ready", "failed"} : cards' = [cards EXCEPT ![c].status = status]
    BY <1>5, <2>1 DEF LoopFails, Restart, RetryLoop, CardRecord
  <2>2. CASE RetryLoop(c)
    <3>1. [cards[c] EXCEPT !.status = "evaluating", !.from = "retry"] \in CardRecord
      BY DEF CardRecord
    <3>2. cards' \in [Tasks -> CardRecord]
      BY <2>2, <3>1 DEF RetryLoop
    <3> QED
      BY <2>2, <3>2 DEF RetryLoop
  <2> QED
    BY <1>5, <2>1, <2>2 DEF LoopFails, Restart
<1>6. ASSUME NEW c \in Tasks, StartLoop(c) PROVE GateTypeOK' /\ PagesHaveACard'
  <2> DEFINE status == IF cards[c].open THEN "work" ELSE "failed"
             next == [cards[c] EXCEPT !.runs = cards[c].runs + 1, !.changed = FALSE,
                                      !.done = FALSE, !.status = status]
  <2>1. cards[c].runs + 1 \in 1..MaxLoops
    BY <1>6 DEF GateBounds, StartLoop, CardRecord
  <2>3. cards' = [cards EXCEPT ![c] = next]
    BY <1>6 DEF StartLoop
  <2>5. cards[c] \in CardRecord /\ status \in {"work", "failed"}
    OBVIOUS
  <2> HIDE DEF status
  <2>2. next \in CardRecord
    BY <2>1, <2>5 DEF CardRecord
  <2> HIDE DEF next
  <2>4. cards' \in [Tasks -> CardRecord]
    BY <2>2, <2>3
  <2> QED
    BY <1>6, <2>4 DEF StartLoop
<1>7. ASSUME NEW c \in Tasks, NEW p \in Pages, Approve(p, c)
      PROVE GateTypeOK' /\ PagesHaveACard'
  <2>1. PICK asked \in SUBSET cards[c].banner :
          /\ pages' = [pages EXCEPT ![p] =
               [step |-> "scan", card |-> c, asked |-> asked, present |-> {}, row |-> approved]]
          /\ checked' = checked \cup asked
    BY <1>7 DEF Approve
  <2>2. asked \subseteq Scripts
    BY <2>1 DEF CardRecord
  <2> QED
    BY <1>7, <2>1, <2>2 DEF Approve, PageRecord
<1>8. ASSUME NEW p \in Pages, Match(p) PROVE GateTypeOK' /\ PagesHaveACard'
  BY <1>8 DEF Match, PageRecord, CardRecord, NoRequest
<1>9. ASSUME NEW p \in Pages, RebuildFails(p) PROVE GateTypeOK' /\ PagesHaveACard'
  BY <1>9 DEF RebuildFails, PageRecord, NoRequest
<1>10. ASSUME NEW p \in Pages, SaveApproval(p) PROVE GateTypeOK' /\ PagesHaveACard'
  <2>1. pages[p].card \in Tasks /\ Resumed(pages[p].card) \in CardRecord
    BY <1>10, ResumedCard DEF SaveApproval
  <2> QED
    BY <1>10, <2>1 DEF SaveApproval, PageRecord, NoRequest
<1>11. CASE UNCHANGED gateVars
  BY <1>11 DEF gateVars
<1>12. ASSUME NEW c \in Tasks, CheckInstalls(c) PROVE GateTypeOK' /\ PagesHaveACard'
  <2>1. PICK tree \in SUBSET Scripts :
          cards' = [cards EXCEPT ![c] = [@ EXCEPT
            !.late = (cards[c].late \cup (tree \ cards[c].tree)) \cap tree,
            !.tree = tree, !.changed = TRUE]]
    BY <1>12 DEF CheckInstalls
  <2> DEFINE late == (cards[c].late \cup (tree \ cards[c].tree)) \cap tree
  <2>2. late \in SUBSET Scripts OBVIOUS
  <2> HIDE DEF late
  <2>3. [cards[c] EXCEPT !.late = late, !.tree = tree, !.changed = TRUE] \in CardRecord
    BY <2>2, ChecksFit
  <2>4. cards' \in [Tasks -> CardRecord]
    BY <2>1, <2>3 DEF late
  <2> QED
    BY <1>12, <2>4 DEF GateBounds, CheckInstalls
<1>13. ASSUME NEW c \in Tasks, SentBack(c) PROVE GateTypeOK' /\ PagesHaveACard'
  <2>1. PICK changed \in BOOLEAN :
          cards' = [cards EXCEPT ![c] = [@ EXCEPT
            !.status = "work", !.open = TRUE, !.done = FALSE, !.changed = changed]]
    BY <1>13 DEF SentBack, CardRecord
  <2>2. cards' \in [Tasks -> CardRecord]
    BY <2>1, ChecksFit
  <2> QED
    BY <1>13, <2>2 DEF SentBack
<1>14. ASSUME NEW c \in Tasks, HandOver(c) PROVE GateTypeOK' /\ PagesHaveACard'
  <2>1. [cards[c] EXCEPT !.status = "evaluating", !.from = "loop"] \in CardRecord
    BY DEF CardRecord
  <2>2. cards' \in [Tasks -> CardRecord]
    BY <1>14, <2>1 DEF HandOver
  <2> QED
    BY <1>14, <2>2 DEF HandOver
<1> QED
  BY <1>1, <1>2, <1>3, <1>4, <1>5, <1>6, <1>7, <1>8, <1>9, <1>10, <1>11, <1>12, <1>13, <1>14
     DEF GateNext

\* An approval is recorded on top of the list as it is then, and nothing else
\* touches the list.
LEMMA ApprovalsGrow ==
  ASSUME [GateNext]_gateVars PROVE approved \subseteq approved'
<1>1. ASSUME NEW c \in Tasks,
             \/ Install(c) \/ IterationEnds(c) \/ LoopDone(c) \/ Scanned(c) \/ CheckInstalls(c)
             \/ SentBack(c) \/ HandOver(c) \/ LoopFails(c) \/ StartLoop(c) \/ Restart(c)
             \/ RetryLoop(c)
      PROVE approved' = approved
  BY <1>1 DEF Install, IterationEnds, LoopDone, Scanned, CheckInstalls, SentBack, HandOver,
              LoopFails, StartLoop, Restart, RetryLoop
<1>2. ASSUME NEW p \in Pages, Match(p) \/ RebuildFails(p) \/ \E c \in Tasks : Approve(p, c)
      PROVE approved' = approved
  BY <1>2 DEF Match, RebuildFails, Approve
<1>3. ASSUME NEW p \in Pages, SaveApproval(p) PROVE approved \subseteq approved'
  BY <1>3 DEF SaveApproval
<1> QED
  BY <1>1, <1>2, <1>3 DEF GateNext, gateVars

\* Every step keeps the requests, and with them the list, to what was ticked.
LEMMA ChecksHold ==
  ASSUME GateInv, [GateNext]_gateVars
  PROVE  RequestsWereChecked' /\ ApprovedWereChecked'
<1> USE DEF GateInv, GateTypeOK, RequestsWereChecked, ApprovedWereChecked
<1>1. ASSUME NEW c \in Tasks,
             \/ Install(c) \/ IterationEnds(c) \/ LoopDone(c) \/ Scanned(c) \/ CheckInstalls(c)
             \/ SentBack(c) \/ HandOver(c) \/ LoopFails(c) \/ StartLoop(c) \/ Restart(c)
             \/ RetryLoop(c)
      PROVE UNCHANGED <<approved, pages, checked>>
  BY <1>1 DEF Install, IterationEnds, LoopDone, Scanned, CheckInstalls, SentBack, HandOver,
              LoopFails, StartLoop, Restart, RetryLoop
<1>2. ASSUME NEW c \in Tasks, NEW p \in Pages, Approve(p, c)
      PROVE RequestsWereChecked' /\ ApprovedWereChecked'
  BY <1>2 DEF Approve, PageRecord
<1>3. ASSUME NEW p \in Pages, Match(p)
      PROVE RequestsWereChecked' /\ ApprovedWereChecked'
  BY <1>3 DEF Match, PageRecord, NoRequest
<1>4. ASSUME NEW p \in Pages, RebuildFails(p) \/ SaveApproval(p)
      PROVE RequestsWereChecked' /\ ApprovedWereChecked'
  BY <1>4 DEF RebuildFails, SaveApproval, PageRecord, NoRequest
<1> QED
  BY <1>1, <1>2, <1>3, <1>4 DEF GateNext, gateVars

\* A card comes to its last checks through a scan that found nothing outside a
\* list the repository's list still contains, and what its tree gains there is
\* kept account of until the next scan.
LEMMA GateHolds ==
  ASSUME GateInv, [GateNext]_gateVars
  PROVE  ScansAreCurrentOrOlder' /\ LoopIsGated'
<1> USE DEF GateInv, GateTypeOK, ScansAreCurrentOrOlder, LoopIsGated
<1>0. approved \subseteq approved'
  BY ApprovalsGrow
<1>1. ASSUME NEW c \in Tasks, Install(c) PROVE ScansAreCurrentOrOlder' /\ LoopIsGated'
  BY <1>1 DEF Install, CardRecord
<1>2. ASSUME NEW c \in Tasks, IterationEnds(c) \/ LoopDone(c)
      PROVE ScansAreCurrentOrOlder' /\ LoopIsGated'
  <2>1. CASE IterationEnds(c)
    BY <2>1 DEF IterationEnds, Scanning, CardRecord
  <2>2. CASE LoopDone(c)
    <3>1. PICK ending \in {Scanning(c), [cards[c] EXCEPT !.status = "failed"]} :
            cards' = [cards EXCEPT ![c] = [ending EXCEPT !.open = FALSE, !.done = TRUE]]
      BY <2>2 DEF LoopDone
    <3>2. approved' = approved
      BY <2>2 DEF LoopDone
    <3>3. /\ cards'[c].status \in {"scan", "failed"}
          /\ cards'[c].known \in {approved, cards[c].known}
      BY <3>1 DEF Scanning, CardRecord
    <3>4. \A d \in Tasks \ {c} : cards'[d] = cards[d]
      BY <3>1
    <3> QED
      BY <3>2, <3>3, <3>4
  <2> QED
    BY <1>2, <2>1, <2>2
<1>3. ASSUME NEW c \in Tasks, Scanned(c) PROVE ScansAreCurrentOrOlder' /\ LoopIsGated'
  BY <1>3 DEF Scanned, CardRecord
<1>4. ASSUME NEW c \in Tasks, LoopFails(c) \/ StartLoop(c) \/ Restart(c) \/ RetryLoop(c)
      PROVE ScansAreCurrentOrOlder' /\ LoopIsGated'
  <2>1. CASE \E status \in {"ready", "failed"} : cards' = [cards EXCEPT ![c].status = status]
    BY <1>4, <2>1 DEF LoopFails, StartLoop, Restart, RetryLoop, CardRecord
  <2>2. CASE RetryLoop(c)
    <3>1. cards' = [cards EXCEPT ![c] = [cards[c] EXCEPT !.status = "evaluating", !.from = "retry"]]
      BY <2>2 DEF RetryLoop
    <3>2. /\ cards'[c].known = cards[c].known /\ cards'[c].from = "retry"
          /\ \A d \in Tasks \ {c} : cards'[d] = cards[d]
      BY <3>1 DEF CardRecord
    <3> QED
      BY <2>2, <3>2 DEF RetryLoop
  <2>3. CASE StartLoop(c)
    <3>1. PICK status \in {"work", "failed"} :
            cards' = [cards EXCEPT ![c] = [cards[c] EXCEPT
              !.runs = cards[c].runs + 1, !.changed = FALSE, !.done = FALSE, !.status = status]]
      BY <2>3 DEF StartLoop
    <3>2. /\ cards'[c].known = cards[c].known /\ cards'[c].status = status
          /\ \A d \in Tasks \ {c} : cards'[d] = cards[d]
      BY <3>1 DEF CardRecord
    <3> QED
      BY <2>3, <3>2 DEF StartLoop
  <2> QED
    BY <1>4, <2>1, <2>2, <2>3 DEF LoopFails, Restart
<1>5. ASSUME NEW p \in Pages, Match(p) \/ RebuildFails(p) \/ \E c \in Tasks : Approve(p, c)
      PROVE ScansAreCurrentOrOlder' /\ LoopIsGated'
  BY <1>5 DEF Match, RebuildFails, Approve
<1>6. ASSUME NEW p \in Pages, SaveApproval(p) PROVE ScansAreCurrentOrOlder' /\ LoopIsGated'
  <2>1. pages[p].card \in Tasks
    BY <1>6 DEF PagesHaveACard, SaveApproval
  <2> QED
    BY <1>0, <1>6, <2>1, ResumedCard DEF SaveApproval
<1>7. ASSUME NEW c \in Tasks, CheckInstalls(c) PROVE ScansAreCurrentOrOlder' /\ LoopIsGated'
  <2>1. PICK tree \in SUBSET Scripts :
          cards' = [cards EXCEPT ![c] = [cards[c] EXCEPT
            !.late = (cards[c].late \cup (tree \ cards[c].tree)) \cap tree,
            !.tree = tree, !.changed = TRUE]]
    BY <1>7 DEF CheckInstalls
  <2>2. /\ cards'[c].known = cards[c].known
        /\ cards'[c].tree \ cards'[c].late \subseteq cards[c].tree \ cards[c].late
        /\ \A d \in Tasks \ {c} : cards'[d] = cards[d]
    BY <2>1 DEF CardRecord
  <2> QED
    BY <1>7, <2>2 DEF CheckInstalls
<1>8. ASSUME NEW c \in Tasks, SentBack(c) PROVE ScansAreCurrentOrOlder' /\ LoopIsGated'
  <2>1. cards'[c].status = "work" /\ cards'[c].known = cards[c].known
        /\ \A d \in Tasks \ {c} : cards'[d] = cards[d]
    BY <1>8 DEF SentBack, CardRecord
  <2> QED
    BY <1>8, <2>1 DEF SentBack
<1>9. ASSUME NEW c \in Tasks, HandOver(c) PROVE ScansAreCurrentOrOlder' /\ LoopIsGated'
  <2>1. /\ cards'[c].known = cards[c].known /\ cards'[c].tree = cards[c].tree
        /\ cards'[c].late = cards[c].late
        /\ \A d \in Tasks \ {c} : cards'[d] = cards[d]
    BY <1>9 DEF HandOver, CardRecord
  <2> QED
    BY <1>9, <2>1 DEF HandOver
<1> QED
  BY <1>1, <1>2, <1>3, <1>4, <1>5, <1>6, <1>7, <1>8, <1>9 DEF GateNext, gateVars

LEMMA GateInvariant == ASSUME GateBounds PROVE GateSpec => []GateInv
<1>1. GateInit => GateInv
  BY InitGate
<1>2. GateInv /\ [GateNext]_gateVars => GateInv'
  BY GateTypes, ChecksHold, GateHolds DEF GateInv
<1> QED
  BY <1>1, <1>2, PTL DEF GateSpec

\* Every state of the gate is well-typed, requests in flight included.
THEOREM GateIsTyped == ASSUME GateBounds PROVE GateSpec => []GateTypeOK
<1>1. GateInv => GateTypeOK
  BY DEF GateInv
<1> QED
  BY <1>1, GateInvariant, PTL

\* Two approvals of one repository at a time never drop each other's scripts:
\* the list only grows.
THEOREM NothingIsUnapproved == GateSpec => ApprovalsAreKept
<1>1. [GateNext]_gateVars => [approved \subseteq approved']_gateVars
  BY ApprovalsGrow
<1> QED
  BY <1>1, PTL DEF GateSpec, ApprovalsAreKept

\* Only scripts somebody ticked are approved, whatever version of a package
\* comes into the tree while a request is under way; and a loop that hands its
\* card to evaluation leaves no other in the worktree than its last checks have
\* installed, whatever gates the run passed or skipped before.
THEOREM ScriptsAreVetted == ASSUME GateBounds PROVE GateSpec => []OnlyVettedScripts
<1>1. GateInv => OnlyVettedScripts
  BY DEF GateInv, OnlyVettedScripts
<1> QED
  BY <1>1, GateInvariant, PTL

(***************************************************************************)
(* The live transcript: what a watcher pushes has no gaps, and the page    *)
(* skips no line of what it shows.                                         *)
(***************************************************************************)

\* A run has an iteration at least, and the bounds are numbers.
TranscriptBounds ==
  /\ Iterations \in Nat \ {0} /\ Lines \in Nat /\ Chunk \in Nat

-----------------------------------------------------------------------------
(* The inductive invariant.                                                *)

RunRow == [live : BOOLEAN, iteration : Files]
Transcript == [lines : 0..Lines, half : BOOLEAN]
Read == [own : BOOLEAN, of : Files, from : 0..Lines, got : BOOLEAN, upto : 0..Lines, more : BOOLEAN]
Watcher == [iteration : 0..Iterations, cursor : 0..Lines, event : BOOLEAN, reads : SUBSET Read,
            again : BOOLEAN, pushed : 0..Lines]
PushOf == [of : Files, from : 0..Lines, upto : 0..Lines]
Line == [of : Files, line : Nat]
View == [of : Files, live : BOOLEAN, cursor : 0..Lines, first : BOOLEAN, resync : BOOLEAN,
         timer : 0..Iterations, shown : Seq(Line), open : BOOLEAN]
Get == [pc : {"none", "sent", "back"}, of : 0..Iterations, from : {-1} \cup 0..Lines,
        upto : 0..Lines, more : BOOLEAN, reset : BOOLEAN, replace : BOOLEAN]

TranscriptTypes ==
  /\ run \in RunRow /\ file \in [Files -> Transcript] /\ watcher \in Watcher
  /\ pushes \in Seq(PushOf) /\ tab \in View /\ fetch \in Get
  /\ used.picks \in Nat

\* One read of a watcher at a time, from its cursor, and the pushes are as much
\* as that.
OneReadAtATime ==
  /\ \A r, q \in watcher.reads : r.own /\ q.own => r = q
  /\ \A r \in watcher.reads : r.own => r.from = watcher.cursor
  /\ watcher.pushed = watcher.cursor

PushesMove == \A i \in DOMAIN pushes : pushes[i].from < pushes[i].upto

\* A request is for a file; without a cursor it replaces what is shown, and what
\* comes back is a stretch.
RequestsAreServed ==
  /\ fetch.pc = "sent" => fetch.of # 0 /\ ~fetch.reset /\ (fetch.from = -1 => fetch.replace)
  /\ fetch.pc = "back" => fetch.of # 0 /\ 0 <= fetch.from /\ fetch.from <= fetch.upto

\* No line of s is more than one after the line before it.
Stepwise(s) == \A i \in DOMAIN s : i > 1 => s[i].line <= s[i - 1].line + 1
\* s ends with line n, or after it.
Reaches(s, n) == s # <<>> => n <= s[Len(s)].line

\* The cursor and what is on its way never start past what is shown.
Appending == fetch.pc # "none" /\ ~fetch.replace /\ ~fetch.reset
ViewFollows ==
  used.picks = 0 =>
    /\ Stepwise(tab.shown) /\ Reaches(tab.shown, tab.cursor)
    /\ Appending => Reaches(tab.shown, fetch.from)
    /\ Appending /\ tab.live => fetch.from <= tab.cursor

TranscriptInv ==
  /\ TranscriptTypes /\ OneReadAtATime /\ PushesMove /\ RequestsAreServed /\ ViewFollows

-----------------------------------------------------------------------------
(* Chunks and lines.                                                       *)

LEMMA ChunkTypes ==
  ASSUME TranscriptBounds, TranscriptTypes, NEW f \in Files, NEW from \in 0..Lines
  PROVE  /\ ChunkEnd(f, from) \in 0..Lines /\ HasMore(f, from) \in BOOLEAN
         /\ from <= file[f].lines => from <= ChunkEnd(f, from)
<1>1. file[f].lines \in 0..Lines /\ file[f].half \in BOOLEAN
  BY DEF TranscriptTypes, Transcript
<1>2. Chunk \in Nat /\ Lines \in Nat
  BY DEF TranscriptBounds
<1>3. ChunkEnd(f, from) \in 0..Lines /\ (from <= file[f].lines => from <= ChunkEnd(f, from))
  BY <1>1, <1>2 DEF ChunkEnd
<1> HIDE DEF ChunkEnd
<1> QED BY <1>1, <1>3 DEF HasMore

LEMMA LinesAre ==
  ASSUME NEW f \in Files, NEW from \in Nat, NEW upto \in Nat, from <= upto
  PROVE  /\ LinesOf(f, from, upto) \in Seq(Line)
         /\ Len(LinesOf(f, from, upto)) = upto - from
         /\ \A k \in 1..(upto - from) : LinesOf(f, from, upto)[k].line = from + k
         /\ Stepwise(LinesOf(f, from, upto))
         /\ Reaches(LinesOf(f, from, upto), upto)
<1> DEFINE n == upto - from
           t == [k \in 1..n |-> [of |-> f, line |-> from + k]]
<1>1. n \in Nat
  OBVIOUS
<1>2. \A k \in 1..n : from + k \in Nat /\ [of |-> f, line |-> from + k] \in Line
  BY DEF Line
<1>3. t \in [1..n -> Line] /\ \A k \in 1..n : t[k].line = from + k
  BY <1>2
<1>4. LinesOf(f, from, upto) = t
  BY DEF LinesOf
<1> HIDE DEF t, n
<1>5. t \in Seq(Line) /\ Len(t) = n /\ DOMAIN t = 1..n
  BY <1>1, <1>3
<1>6. Stepwise(t)
  BY <1>1, <1>3, <1>5 DEF Stepwise
<1>7. Reaches(t, upto)
  <2>1. SUFFICES ASSUME t # <<>> PROVE upto <= t[Len(t)].line
    BY DEF Reaches
  <2>2. n # 0
    BY <1>5, <2>1
  <2>3. n \in 1..n /\ t[n].line = from + n
    BY <1>1, <1>3, <2>2
  <2> QED BY <1>5, <2>3 DEF n
<1> QED BY <1>3, <1>4, <1>5, <1>6, <1>7 DEF n

\* Lines from where s ends, or before, make s longer without a skip.
LEMMA LinesAppended ==
  ASSUME NEW s \in Seq(Line), NEW f \in Files, NEW from \in Nat, NEW upto \in Nat,
         from <= upto, Stepwise(s), Reaches(s, from)
  PROVE  /\ s \o LinesOf(f, from, upto) \in Seq(Line)
         /\ Stepwise(s \o LinesOf(f, from, upto))
         /\ Reaches(s \o LinesOf(f, from, upto), upto)
<1> DEFINE t == LinesOf(f, from, upto)
           m == Len(s)
           n == Len(t)
           u == s \o t
<1>1. /\ t \in Seq(Line) /\ n = upto - from /\ Stepwise(t)
      /\ \A k \in 1..n : t[k].line = from + k
  BY LinesAre
<1> HIDE DEF t
<1>2. m \in Nat /\ n \in Nat
  BY <1>1
<1>3. /\ u \in Seq(Line) /\ Len(u) = m + n
      /\ \A i \in 1..(m + n) : u[i] = IF i <= m THEN s[i] ELSE t[i - m]
  BY <1>1, ConcatProperties
<1>4. \A i \in 1..m : s[i].line \in Nat
  <2>1. \A i \in 1..m : s[i] \in Line
    OBVIOUS
  <2> QED BY <2>1 DEF Line
<1> HIDE DEF u
<1>5. ASSUME NEW i \in DOMAIN u, i > 1
      PROVE  u[i].line <= u[i - 1].line + 1
  <2>0. i \in 1..(m + n) /\ i - 1 \in 1..(m + n)
    BY <1>2, <1>3, <1>5
  <2>1. CASE i <= m
    <3>1. u[i] = s[i] /\ u[i - 1] = s[i - 1] /\ i \in DOMAIN s
      BY <1>2, <1>3, <2>0, <2>1
    <3> QED BY <3>1, <1>5 DEF Stepwise
  <2>2. CASE i = m + 1
    <3>1. m >= 1 /\ 1 \in 1..n /\ i - 1 = m /\ i - m = 1
      BY <1>2, <2>0, <2>2, <1>5
    <3>2. u[i] = t[1] /\ u[i - 1] = s[m]
      BY <1>2, <1>3, <2>0, <2>2, <3>1
    <3>3. s # <<>> /\ from <= s[m].line
      BY <3>1 DEF Reaches
    <3>4. s[m].line \in Nat /\ t[1].line = from + 1
      BY <1>1, <1>2, <1>4, <3>1
    <3> QED BY <3>2, <3>3, <3>4
  <2>3. CASE i > m + 1
    <3>1. i - m \in 1..n /\ i - 1 - m \in 1..n /\ ~(i - 1 <= m) /\ ~(i <= m)
      BY <1>2, <2>0, <2>3
    <3>2. u[i] = t[i - m] /\ u[i - 1] = t[i - 1 - m]
      BY <1>2, <1>3, <2>0, <3>1
    <3>3. t[i - m].line = from + (i - m) /\ t[i - 1 - m].line = from + (i - 1 - m)
      BY <1>1, <3>1
    <3>4. i \in Int
      BY <1>2, <2>0
    <3> HIDE DEF m, n
    <3> QED BY <3>2, <3>3, <3>4, <1>2
  <2> QED BY <1>2, <2>0, <2>1, <2>2, <2>3
<1>6. Stepwise(u)
  BY <1>5 DEF Stepwise
<1>7. ASSUME u # <<>> PROVE upto <= u[Len(u)].line
  <2>1. CASE n = 0
    <3>1. from = upto /\ m # 0 /\ m + n = m
      BY <1>1, <1>2, <1>3, <1>7, <2>1
    <3>2. s # <<>> /\ m \in 1..(m + n) /\ u[m] = s[m]
      BY <1>2, <1>3, <3>1
    <3> QED BY <1>3, <3>1, <3>2 DEF Reaches
  <2>2. CASE n # 0
    <3>1. m + n \in 1..(m + n) /\ ~(m + n <= m) /\ m + n - m = n /\ n \in 1..n
      BY <1>2, <2>2
    <3>2. u[m + n] = t[n] /\ t[n].line = from + n
      BY <1>1, <1>3, <3>1
    <3> QED BY <1>1, <1>3, <3>2
  <2> QED BY <2>1, <2>2
<1>8. Reaches(u, upto)
  BY <1>7 DEF Reaches
<1> QED BY <1>3, <1>6, <1>8 DEF u, t

-----------------------------------------------------------------------------
(* The watcher.                                                            *)

WatcherParts == watcher \in Watcher /\ OneReadAtATime

\* The watcher's own part of the invariant, after a step on it.
LEMMA WatcherSteps ==
  ASSUME TranscriptBounds, TranscriptTypes, OneReadAtATime, NEW w \in Watcher, watcher' = w,
         \A r, q \in w.reads : r.own /\ q.own => r = q,
         \A r \in w.reads : r.own => r.from = w.cursor,
         w.pushed = w.cursor
  PROVE  WatcherParts'
BY DEF WatcherParts, OneReadAtATime

LEMMA NoneWatches ==
  ASSUME TranscriptTypes
  PROVE  /\ Orphans \subseteq Read /\ \A r \in Orphans : ~r.own
         /\ watcher.reads \subseteq Read
<1>1. watcher.reads \subseteq Read
  BY DEF TranscriptTypes, Watcher
<1>2. \A r \in watcher.reads : [r EXCEPT !.own = FALSE] \in Read /\ ~[r EXCEPT !.own = FALSE].own
  BY <1>1 DEF Read
<1> QED BY <1>1, <1>2 DEF Orphans

LEMMA NobodyWatches ==
  ASSUME TranscriptBounds
  PROVE  NoWatcher \in Watcher /\ NoWatcher.pushed = NoWatcher.cursor
<1>1. 0 \in 0..Lines /\ 0 \in 0..Iterations
  BY DEF TranscriptBounds
<1> QED BY <1>1 DEF NoWatcher, Watcher

LEMMA NoticedKeeps ==
  ASSUME TranscriptBounds, TranscriptTypes, OneReadAtATime, NEW f \in Files, watcher' = Noticed(f)
  PROVE  WatcherParts'
<1>1. CASE watcher.iteration = f
  <2> DEFINE w == [watcher EXCEPT !.event = TRUE]
  <2>1. w \in Watcher /\ w.reads = watcher.reads /\ w.cursor = watcher.cursor /\ w.pushed = watcher.pushed
    BY DEF TranscriptTypes, Watcher
  <2>2. watcher' = w
    BY <1>1 DEF Noticed
  <2> HIDE DEF w
  <2> QED BY <2>1, <2>2, WatcherSteps DEF OneReadAtATime
<1>2. CASE watcher.iteration # f
  BY <1>2, WatcherSteps DEF Noticed, TranscriptTypes, OneReadAtATime
<1> QED BY <1>1, <1>2

LEMMA StopKeeps ==
  ASSUME TranscriptBounds, TranscriptTypes, OneReadAtATime, StopRunWatcher
  PROVE  WatcherParts'
<1> DEFINE w == [NoWatcher EXCEPT !.reads = Orphans]
<1>1. Orphans \subseteq Read /\ \A r \in Orphans : ~r.own
  BY NoneWatches
<1> HIDE DEF Orphans
<1>2. w \in Watcher /\ w.reads = Orphans /\ w.pushed = w.cursor
  BY <1>1, NobodyWatches DEF Watcher
<1>3. watcher' = w
  BY DEF StopRunWatcher
<1> HIDE DEF w
<1> QED BY <1>1, <1>2, <1>3, WatcherSteps

LEMMA SyncKeeps ==
  ASSUME TranscriptBounds, TranscriptTypes, OneReadAtATime, SyncRunWatcher
  PROVE  WatcherParts'
<1>1. CASE watcher.iteration = run.iteration
  BY <1>1, WatcherSteps DEF SyncRunWatcher, TranscriptTypes, OneReadAtATime
<1>2. CASE watcher.iteration # run.iteration
  <2> DEFINE w == [NoWatcher EXCEPT !.iteration = run.iteration, !.event = TRUE, !.reads = Orphans]
  <2>1. Orphans \subseteq Read /\ \A r \in Orphans : ~r.own
    BY NoneWatches
  <2> HIDE DEF Orphans
  <2>2. run.iteration \in 0..Iterations
    BY DEF TranscriptTypes, RunRow, Files, TranscriptBounds
  <2>3. w \in Watcher /\ w.reads = Orphans /\ w.pushed = w.cursor
    BY <2>1, <2>2, NobodyWatches DEF Watcher
  <2>4. watcher' = w
    BY <1>2 DEF SyncRunWatcher
  <2> HIDE DEF w
  <2> QED BY <2>1, <2>3, <2>4, WatcherSteps
<1> QED BY <1>1, <1>2

LEMMA PumpKeeps ==
  ASSUME TranscriptBounds, TranscriptTypes, OneReadAtATime, Pump
  PROVE  WatcherParts'
<1>1. watcher \in Watcher /\ watcher.reads \subseteq Read
  BY NoneWatches DEF TranscriptTypes
<1>2. CASE PumpFree
  <2> DEFINE r == [own |-> TRUE, of |-> watcher.iteration, from |-> watcher.cursor,
                   got |-> FALSE, upto |-> 0, more |-> FALSE]
             S == watcher.reads \cup {r}
             w == [watcher EXCEPT !.event = FALSE, !.reads = S]
  <2>1. r \in Read /\ r.own /\ r.from = watcher.cursor
    BY <1>1 DEF Pump, Read, Watcher, Files, TranscriptBounds
  <2>2. watcher' = w
    BY <1>2 DEF Pump
  <2> HIDE DEF r
  <2>3. S \subseteq Read /\ \A q \in S : q.own => q = r
    BY <1>1, <1>2, <2>1 DEF PumpFree
  <2> HIDE DEF S
  <2>4. w \in Watcher /\ w.reads = S /\ w.cursor = watcher.cursor /\ w.pushed = watcher.pushed
    BY <1>1, <2>3 DEF Watcher
  <2> HIDE DEF w
  <2> QED BY <2>1, <2>2, <2>3, <2>4, WatcherSteps DEF OneReadAtATime
<1>3. CASE ~PumpFree
  <2> DEFINE w == [watcher EXCEPT !.event = FALSE, !.again = TRUE]
  <2>1. w \in Watcher /\ w.reads = watcher.reads /\ w.cursor = watcher.cursor /\ w.pushed = watcher.pushed
    BY <1>1 DEF Watcher
  <2>2. watcher' = w
    BY <1>3 DEF Pump
  <2> HIDE DEF w
  <2> QED BY <2>1, <2>2, WatcherSteps DEF OneReadAtATime
<1> QED BY <1>2, <1>3

LEMMA ReadKeeps ==
  ASSUME TranscriptBounds, TranscriptTypes, OneReadAtATime, NEW r \in watcher.reads, PumpReads(r)
  PROVE  WatcherParts'
<1> DEFINE e == ChunkEnd(r.of, r.from)
           m == HasMore(r.of, r.from)
           q == [r EXCEPT !.got = TRUE, !.upto = e, !.more = m]
           S == (watcher.reads \ {r}) \cup {q}
           w == [watcher EXCEPT !.reads = S]
<1>1. watcher \in Watcher /\ watcher.reads \subseteq Read /\ r \in Read
  BY NoneWatches DEF TranscriptTypes
<1>2. r.of \in Files /\ r.from \in 0..Lines
  BY <1>1 DEF Read
<1>3. e \in 0..Lines /\ m \in BOOLEAN
  BY <1>2, ChunkTypes
<1>4. watcher' = w
  BY DEF PumpReads
<1> HIDE DEF e, m
<1>5. q \in Read /\ q.own = r.own /\ q.from = r.from
  BY <1>1, <1>3 DEF Read
<1> HIDE DEF q
<1>6. S \subseteq Read
  BY <1>1, <1>5
<1>7. \A x, y \in S : x.own /\ y.own => x = y
  BY <1>5 DEF OneReadAtATime
<1>8. \A x \in S : x.own => x.from = watcher.cursor
  BY <1>5 DEF OneReadAtATime
<1> HIDE DEF S
<1>9. w \in Watcher /\ w.reads = S /\ w.cursor = watcher.cursor /\ w.pushed = watcher.pushed
  BY <1>1, <1>6 DEF Watcher
<1> HIDE DEF w
<1> QED BY <1>4, <1>7, <1>8, <1>9, WatcherSteps DEF OneReadAtATime

LEMMA EmitKeeps ==
  ASSUME TranscriptBounds, TranscriptTypes, OneReadAtATime, NEW r \in watcher.reads, PumpEmits(r)
  PROVE  WatcherParts'
<1> DEFINE moves == r.own /\ r.upto > r.from
           S == watcher.reads \ {r}
           k == IF moves THEN r.upto ELSE watcher.cursor
           p == IF moves THEN watcher.pushed + (r.upto - r.from) ELSE watcher.pushed
           a == IF r.own THEN FALSE ELSE watcher.again
           e == watcher.event \/ (r.own /\ (watcher.again \/ r.more))
           w == [watcher EXCEPT !.reads = S, !.cursor = k, !.event = e, !.again = a, !.pushed = p]
<1>1. watcher \in Watcher /\ watcher.reads \subseteq Read /\ r \in Read
  BY NoneWatches DEF TranscriptTypes
<1>2. watcher' = w
  BY DEF PumpEmits
<1>3. /\ r.own \in BOOLEAN /\ r.upto \in 0..Lines /\ r.from \in 0..Lines /\ r.more \in BOOLEAN
      /\ watcher.cursor \in 0..Lines /\ watcher.again \in BOOLEAN /\ watcher.event \in BOOLEAN
      /\ watcher.pushed = watcher.cursor /\ (r.own => r.from = watcher.cursor)
  BY <1>1 DEF Read, Watcher, OneReadAtATime
<1>4. k \in 0..Lines /\ p = k /\ a \in BOOLEAN /\ e \in BOOLEAN
  <2>1. k \in 0..Lines
    BY <1>3
  <2>2. p = k
    <3>1. r.upto \in Int /\ r.from \in Int /\ watcher.cursor \in Int
      BY <1>3
    <3>2. CASE moves
      BY <1>3, <3>1, <3>2
    <3>3. CASE ~moves
      BY <1>3, <3>3
    <3> QED BY <3>2, <3>3
  <2>3. a \in BOOLEAN
    BY <1>3
  <2>4. e \in BOOLEAN
    BY <1>3
  <2> QED BY <2>1, <2>2, <2>3, <2>4
<1>5. \A q \in S : q.own => ~r.own /\ q.from = watcher.cursor
  BY DEF OneReadAtATime
<1>6. \A q \in S : q.own => q.from = k
  BY <1>5
<1>7. \A q, x \in S : q.own /\ x.own => q = x
  BY DEF OneReadAtATime
<1>8. S \subseteq Read
  BY <1>1
<1> HIDE DEF moves, S, k, p, a, e
<1>9. w \in Watcher /\ w.reads = S /\ w.cursor = k /\ w.pushed = p
  BY <1>1, <1>4, <1>8 DEF Watcher
<1> HIDE DEF w
<1> QED BY <1>2, <1>4, <1>6, <1>7, <1>9, WatcherSteps

-----------------------------------------------------------------------------
(* The page.                                                               *)

PageParts ==
  /\ pushes \in Seq(PushOf) /\ tab \in View /\ fetch \in Get /\ used.picks \in Nat
  /\ PushesMove /\ RequestsAreServed /\ ViewFollows

LEMMA NothingIsFetched ==
  ASSUME TranscriptBounds
  PROVE  NoFetch \in Get /\ NoFetch.pc = "none" /\ ~NoFetch.reset
<1>1. 0 \in 0..Lines /\ 0 \in 0..Iterations
  BY DEF TranscriptBounds
<1> QED BY <1>1 DEF NoFetch, Get

\* What a load asks for: what is in flight, or a stretch from the cursor, or
\* without a first answer what will replace all that is shown.
LEMMA LoadsAre ==
  ASSUME TranscriptBounds, fetch \in Get, NEW view \in View, NEW f \in Files
  PROVE  LET g == Loads(view, f) IN
         /\ g \in Get
         /\ fetch.pc # "none" => g = fetch
         /\ fetch.pc = "none" =>
              /\ g.pc = "sent" /\ g.of = f /\ g.replace = view.first /\ ~g.reset
              /\ ~view.first => g.from = view.cursor
<1> DEFINE c == IF view.live \/ ~view.first THEN view.cursor ELSE -1
           h == [NoFetch EXCEPT !.pc = "sent", !.of = f, !.replace = view.first, !.from = c]
<1>1. c \in {-1} \cup 0..Lines /\ (~view.first => c = view.cursor) /\ view.first \in BOOLEAN
  BY DEF View
<1>2. f \in 0..Iterations
  BY DEF Files, TranscriptBounds
<1>3. Loads(view, f) = IF fetch.pc # "none" THEN fetch ELSE h
  BY DEF Loads
<1> HIDE DEF c
<1>4. h \in Get /\ h.pc = "sent" /\ h.of = f /\ h.replace = view.first /\ ~h.reset /\ h.from = c
  BY <1>1, <1>2, NothingIsFetched DEF Get
<1> HIDE DEF h
<1> QED BY <1>1, <1>3, <1>4

\* The page's own part of the invariant, after a load of what its cursor says.
LEMMA LoadKeeps ==
  ASSUME TranscriptBounds, PageParts, UNCHANGED used,
         pushes' \in Seq(PushOf), PushesMove',
         NEW view \in View, tab' = view, NEW f \in Files, fetch' = Loads(tab, f),
         view.cursor = tab.cursor, view.live = tab.live, view.shown = tab.shown
  PROVE  PageParts'
<1> DEFINE g == Loads(tab, f)
<1>1. /\ g \in Get
      /\ fetch.pc # "none" => g = fetch
      /\ fetch.pc = "none" => /\ g.pc = "sent" /\ g.of = f /\ g.replace = tab.first /\ ~g.reset
                              /\ ~tab.first => g.from = tab.cursor
  BY LoadsAre DEF PageParts
<1> HIDE DEF g
<1>2. fetch' = g /\ f # 0 /\ tab.cursor \in 0..Lines /\ Lines \in Nat
  BY DEF g, Files, PageParts, View, TranscriptBounds
<1>3. RequestsAreServed'
  <2>1. CASE fetch.pc # "none"
    BY <1>1, <1>2, <2>1 DEF PageParts, RequestsAreServed
  <2>2. CASE fetch.pc = "none"
    <3>1. g.from = -1 => g.replace
      BY <1>1, <1>2, <2>2
    <3> QED BY <1>1, <1>2, <2>2, <3>1 DEF RequestsAreServed
  <2> QED BY <2>1, <2>2
<1>4. ViewFollows'
  <2>1. SUFFICES ASSUME used.picks = 0 PROVE ViewFollows'
    BY DEF ViewFollows
  <2>2. /\ Stepwise(tab'.shown) /\ Reaches(tab'.shown, tab'.cursor)
    BY <2>1 DEF PageParts, ViewFollows
  <2>3. Appending' => Reaches(tab'.shown, fetch'.from) /\ (tab'.live => fetch'.from <= tab'.cursor)
    <3>1. CASE fetch.pc # "none"
      BY <1>1, <1>2, <2>1, <3>1 DEF PageParts, ViewFollows, Appending
    <3>2. CASE fetch.pc = "none"
      <4>1. Appending' => g.from = tab.cursor
        BY <1>1, <1>2, <3>2 DEF Appending
      <4> QED BY <1>2, <2>2, <4>1
    <3> QED BY <3>1, <3>2
  <2> QED BY <2>2, <2>3 DEF ViewFollows
<1> QED BY <1>1, <1>2, <1>3, <1>4 DEF PageParts

\* A mount takes the cursor back and shows what there was; what is in flight stays.
LEMMA MountKeeps ==
  ASSUME TranscriptBounds, PageParts, NEW f \in Files, NEW live \in BOOLEAN,
         Mounted(f, live), used'.picks \in Nat, UNCHANGED pushes,
         used'.picks = 0 => used.picks = 0 /\ ~live
  PROVE  PageParts'
<1> DEFINE view == [tab EXCEPT !.of = f, !.live = live, !.cursor = 0, !.first = TRUE,
                               !.resync = TRUE, !.timer = 0]
           g == Loads(view, f)
<1>1. tab \in View /\ fetch \in Get /\ 0 \in 0..Lines /\ 0 \in 0..Iterations
  BY DEF PageParts, TranscriptBounds
<1>2. view \in View /\ view.first /\ view.shown = tab.shown /\ view.live = live /\ view.cursor = 0
  BY <1>1 DEF View
<1>3. tab' = view /\ fetch' = g
  BY DEF Mounted
<1> HIDE DEF view
<1>4. /\ g \in Get
      /\ fetch.pc # "none" => g = fetch
      /\ fetch.pc = "none" => g.pc = "sent" /\ g.of = f /\ g.replace /\ ~g.reset
  BY <1>1, <1>2, LoadsAre
<1> HIDE DEF g
<1>5. f # 0
  BY DEF Files, TranscriptBounds
<1>6. RequestsAreServed'
  BY <1>3, <1>4, <1>5 DEF PageParts, RequestsAreServed
<1>7. ViewFollows'
  <2>1. SUFFICES ASSUME used'.picks = 0 PROVE ViewFollows'
    BY DEF ViewFollows
  <2>2. used.picks = 0 /\ ~live
    BY <2>1
  <2>3. \A i \in DOMAIN tab.shown : tab.shown[i].line \in Nat
    <3>1. tab.shown \in Seq(Line)
      BY <1>1 DEF View
    <3>2. \A i \in DOMAIN tab.shown : tab.shown[i] \in Line
      BY <3>1
    <3> QED BY <3>2 DEF Line
  <2>4. Reaches(tab.shown, 0)
    <3>1. SUFFICES ASSUME tab.shown # <<>> PROVE 0 <= tab.shown[Len(tab.shown)].line
      BY DEF Reaches
    <3>2. tab.shown \in Seq(Line)
      BY <1>1 DEF View
    <3>3. Len(tab.shown) \in DOMAIN tab.shown
      BY <3>1, <3>2
    <3> QED BY <2>3, <3>3
  <2>5. Appending' => Appending /\ fetch' = fetch
    BY <1>3, <1>4 DEF Appending
  <2> QED BY <1>2, <1>3, <2>2, <2>4, <2>5 DEF ViewFollows, PageParts
<1> QED BY <1>2, <1>3, <1>4, <1>6, <1>7 DEF PageParts, PushesMove

LEMMA ServeKeeps ==
  ASSUME TranscriptBounds, TranscriptTypes, PageParts, Serve PROVE PageParts'
<1> DEFINE lines == file[fetch.of].lines
           reset == fetch.from > lines
           from == IF reset THEN 0
                   ELSE IF fetch.from < 0 THEN (IF lines > Chunk THEN lines - Chunk ELSE 0)
                   ELSE fetch.from
           e == ChunkEnd(fetch.of, from)
           m == HasMore(fetch.of, from)
           g == [fetch EXCEPT !.pc = "back", !.from = from, !.upto = e, !.more = m, !.reset = reset]
<1>1. fetch \in Get /\ fetch.of \in Files /\ fetch.pc = "sent"
  <2>1. fetch \in Get /\ fetch.pc = "sent" /\ fetch.of # 0
    BY DEF PageParts, Serve, RequestsAreServed
  <2>2. fetch.of \in 0..Iterations
    BY <2>1 DEF Get
  <2> QED BY <2>1, <2>2 DEF Files, TranscriptBounds
<1>2. lines \in 0..Lines /\ Chunk \in Nat /\ Lines \in Nat
  BY <1>1 DEF TranscriptTypes, Transcript, TranscriptBounds
<1>3. fetch.from \in {-1} \cup 0..Lines
  BY <1>1 DEF Get
<1>4. reset \in BOOLEAN /\ from \in 0..Lines /\ from <= lines
      /\ (~reset => from = fetch.from \/ fetch.from = -1)
  <2> HIDE DEF lines
  <2>1. lines \in Int /\ fetch.from \in Int
    BY <1>2, <1>3
  <2> QED BY <1>2, <1>3, <2>1
<1>5. e \in 0..Lines /\ m \in BOOLEAN /\ from <= e
  <2> HIDE DEF from
  <2> QED BY <1>1, <1>4, ChunkTypes
<1>6. fetch' = g /\ UNCHANGED <<tab, pushes, used>>
  BY DEF Serve
<1> HIDE DEF lines, reset, from, e, m
<1>7. /\ g \in Get /\ g.pc = "back" /\ g.of = fetch.of /\ g.from = from /\ g.upto = e
      /\ g.reset = reset /\ g.replace = fetch.replace
  BY <1>1, <1>4, <1>5 DEF Get
<1> HIDE DEF g
<1>8. RequestsAreServed'
  <2>1. fetch.of # 0 /\ 0 <= from
    BY <1>1, <1>4 DEF Files, TranscriptBounds
  <2> QED BY <1>5, <1>6, <1>7, <2>1 DEF RequestsAreServed
<1>9. Appending' => Appending /\ fetch'.from = fetch.from
  <2>1. ~fetch.reset /\ (fetch.from = -1 => fetch.replace)
    BY <1>1 DEF PageParts, RequestsAreServed
  <2> QED BY <1>1, <1>4, <1>6, <1>7, <2>1 DEF Appending
<1>10. ViewFollows'
  BY <1>6, <1>9 DEF ViewFollows, PageParts
<1> QED BY <1>6, <1>7, <1>8, <1>10 DEF PageParts, PushesMove

LEMMA ResponseKeeps ==
  ASSUME TranscriptBounds, TranscriptTypes, PageParts, Response PROVE PageParts'
<1> DEFINE lines == LinesOf(fetch.of, fetch.from, fetch.upto)
           s == IF fetch.replace \/ fetch.reset THEN lines ELSE tab.shown \o lines
           t == IF fetch.more THEN fetch.of ELSE tab.timer
           y == fetch.more /\ tab.resync
           view == [tab EXCEPT !.cursor = fetch.upto, !.first = FALSE, !.shown = s,
                               !.timer = t, !.resync = y]
<1>1. /\ fetch \in Get /\ fetch.pc = "back" /\ fetch.of # 0
      /\ 0 <= fetch.from /\ fetch.from <= fetch.upto
  BY DEF PageParts, Response, RequestsAreServed
<1>2. /\ fetch.of \in 0..Iterations /\ fetch.from \in {-1} \cup 0..Lines /\ fetch.upto \in 0..Lines
      /\ fetch.more \in BOOLEAN
  BY <1>1 DEF Get
<1>3. fetch.of \in Files /\ fetch.from \in Nat /\ fetch.upto \in Nat
  BY <1>1, <1>2 DEF Files, TranscriptBounds
<1>4. tab \in View /\ tab.shown \in Seq(Line) /\ tab.timer \in 0..Iterations /\ tab.resync \in BOOLEAN
  BY DEF PageParts, View
<1>5. lines \in Seq(Line) /\ Stepwise(lines) /\ Reaches(lines, fetch.upto)
  BY <1>1, <1>3, LinesAre
<1>6. s \in Seq(Line)
  <2> HIDE DEF lines
  <2> QED BY <1>4, <1>5, ConcatProperties
<1>7. used.picks = 0 => Stepwise(s) /\ Reaches(s, fetch.upto)
  <2>1. CASE fetch.replace \/ fetch.reset
    <3> HIDE DEF lines
    <3> QED BY <1>5, <2>1
  <2>2. CASE ~(fetch.replace \/ fetch.reset)
    <3>1. SUFFICES ASSUME used.picks = 0 PROVE Stepwise(s) /\ Reaches(s, fetch.upto)
      OBVIOUS
    <3>2. Stepwise(tab.shown) /\ Reaches(tab.shown, fetch.from)
      BY <1>1, <2>2, <3>1 DEF PageParts, ViewFollows, Appending
    <3>3. Stepwise(tab.shown \o lines) /\ Reaches(tab.shown \o lines, fetch.upto)
      BY <1>1, <1>3, <1>4, <3>2, LinesAppended
    <3> HIDE DEF lines
    <3> QED BY <2>2, <3>3
  <2> QED BY <2>1, <2>2
<1>8. t \in 0..Iterations /\ y \in BOOLEAN
  BY <1>2, <1>4
<1>9. tab' = view /\ fetch' = NoFetch /\ UNCHANGED <<pushes, used>>
  BY DEF Response
<1> HIDE DEF s, t, y, lines
<1>10. view \in View /\ view.shown = s /\ view.cursor = fetch.upto
  BY <1>2, <1>4, <1>6, <1>8 DEF View
<1> HIDE DEF view
<1>11. fetch' \in Get /\ fetch'.pc = "none"
  BY <1>9, NothingIsFetched
<1>12. RequestsAreServed' /\ ~Appending'
  BY <1>11 DEF RequestsAreServed, Appending
<1>13. ViewFollows'
  BY <1>7, <1>9, <1>10, <1>12 DEF ViewFollows
<1> QED BY <1>9, <1>10, <1>11, <1>12, <1>13 DEF PageParts, PushesMove

LEMMA CatchUpKeeps ==
  ASSUME TranscriptBounds, PageParts, CatchUp PROVE PageParts'
<1> DEFINE view == [tab EXCEPT !.timer = 0]
<1>1. tab \in View /\ tab.timer \in Files /\ 0 \in 0..Iterations
  BY DEF PageParts, CatchUp, View, Files, TranscriptBounds
<1>2. view \in View /\ view.cursor = tab.cursor /\ view.live = tab.live /\ view.shown = tab.shown
  BY <1>1 DEF View
<1>3. tab' = view /\ fetch' = Loads(tab, tab.timer) /\ UNCHANGED <<pushes, used>>
  BY DEF CatchUp
<1> HIDE DEF view
<1>4. pushes' \in Seq(PushOf) /\ PushesMove'
  BY <1>3 DEF PageParts, PushesMove
<1> QED BY <1>1, <1>2, <1>3, <1>4, LoadKeeps

LEMMA ReconnectKeeps ==
  ASSUME TranscriptBounds, PageParts, Reconnect PROVE PageParts'
<1> DEFINE view == [tab EXCEPT !.open = TRUE, !.resync = TRUE]
<1>1. tab \in View /\ tab.of \in Files
  BY DEF PageParts, View
<1>2. /\ view \in View /\ view.cursor = tab.cursor /\ view.live = tab.live /\ view.shown = tab.shown
      /\ view.first = tab.first /\ view.of = tab.of
  BY <1>1 DEF View
<1>3. tab' = view /\ fetch' = Loads(view, view.of) /\ UNCHANGED <<pushes, used>>
  BY DEF Reconnect
<1>4. Loads(view, view.of) = Loads(tab, tab.of)
  <2> HIDE DEF view
  <2> QED BY <1>2 DEF Loads
<1> HIDE DEF view
<1>5. pushes' \in Seq(PushOf) /\ PushesMove'
  BY <1>3 DEF PageParts, PushesMove
<1> QED BY <1>1, <1>2, <1>3, <1>4, <1>5, LoadKeeps

\* A push that is taken starts at the cursor.
LEMMA ReceiveKeeps ==
  ASSUME TranscriptBounds, PageParts, Receive PROVE PageParts'
<1> DEFINE push == Head(pushes)
           decision == IF tab.live /\ push.of = tab.of THEN Decision(push) ELSE "ignore"
           s == tab.shown \o LinesOf(push.of, push.from, push.upto)
           view == [tab EXCEPT !.cursor = push.upto, !.shown = s]
<1>1. /\ pushes \in Seq(PushOf) /\ pushes # <<>> /\ UNCHANGED used /\ tab \in View
      /\ \A i \in DOMAIN pushes : pushes[i].from < pushes[i].upto
  BY DEF PageParts, Receive, PushesMove
<1>2. pushes' \in Seq(PushOf) /\ PushesMove'
  <2>1. pushes' = Tail(pushes)
    BY DEF Receive
  <2>2. /\ Tail(pushes) \in Seq(PushOf) /\ Len(Tail(pushes)) = Len(pushes) - 1
        /\ \A i \in 1..Len(Tail(pushes)) : Tail(pushes)[i] = pushes[i + 1]
    BY <1>1, HeadTailProperties
  <2>3. \A i \in 1..(Len(pushes) - 1) : i + 1 \in DOMAIN pushes
    BY <1>1
  <2> QED BY <1>1, <2>1, <2>2, <2>3 DEF PushesMove
<1>3. push \in PushOf /\ push.from < push.upto
  <2>1. push = pushes[1] /\ 1 \in DOMAIN pushes
    BY <1>1
  <2> HIDE DEF push
  <2> QED BY <1>1, <2>1
<1>4. push.of \in Files /\ push.from \in Nat /\ push.upto \in 0..Lines /\ push.upto \in Nat
  <2> HIDE DEF push
  <2> QED BY <1>3 DEF PushOf, TranscriptBounds
<1>5. /\ fetch' = IF decision = "resync" THEN Loads(tab, tab.of) ELSE fetch
      /\ tab' = IF decision = "apply" THEN view ELSE tab
  BY DEF Receive
<1>6. /\ decision \in {"ignore", "resync", "apply"}
      /\ decision = "apply" => tab.live /\ push.from = tab.cursor
  BY DEF Decision
<1> HIDE DEF push, decision
<1>7. tab.of \in Files /\ tab.shown \in Seq(Line) /\ tab.cursor \in 0..Lines
  BY <1>1 DEF View
<1>8. CASE decision = "resync"
  BY <1>1, <1>2, <1>5, <1>7, <1>8, LoadKeeps
<1>9. CASE decision = "ignore"
  BY <1>1, <1>2, <1>5, <1>9 DEF PageParts, RequestsAreServed, ViewFollows, Appending
<1>10. CASE decision = "apply"
  <2>1. s \in Seq(Line)
    <3>1. push.from <= push.upto
      BY <1>3, <1>4
    <3>2. LinesOf(push.of, push.from, push.upto) \in Seq(Line)
      BY <1>4, <3>1, LinesAre
    <3> QED BY <1>7, <3>2, ConcatProperties
  <2>2. used.picks = 0 => Stepwise(s) /\ Reaches(s, push.upto)
    <3>1. SUFFICES ASSUME used.picks = 0 PROVE Stepwise(s) /\ Reaches(s, push.upto)
      OBVIOUS
    <3>2. Stepwise(tab.shown) /\ Reaches(tab.shown, push.from)
      BY <1>6, <1>10, <3>1 DEF PageParts, ViewFollows
    <3>3. push.from <= push.upto
      BY <1>3, <1>4
    <3> QED BY <1>4, <1>7, <3>2, <3>3, LinesAppended
  <2> HIDE DEF s
  <2>3. view \in View /\ view.cursor = push.upto /\ view.shown = s
    BY <1>1, <1>4, <2>1 DEF View
  <2>4. tab' = view /\ fetch' = fetch
    BY <1>5, <1>10
  <2>5. view.live = tab.live
    BY <1>1 DEF View
  <2> HIDE DEF view
  <2>6. used.picks = 0 /\ Appending => fetch.from <= push.upto
    <3>1. used.picks = 0 /\ Appending => fetch.from <= push.from
      BY <1>6, <1>10 DEF PageParts, ViewFollows
    <3>2. fetch.from \in Int
      BY DEF PageParts, Get
    <3> QED BY <1>3, <1>4, <3>1, <3>2
  <2>7. used.picks = 0 /\ Appending => Reaches(s, fetch.from)
    <3>1. SUFFICES ASSUME used.picks = 0, Appending, s # <<>> PROVE fetch.from <= s[Len(s)].line
      BY DEF Reaches
    <3>2. push.upto <= s[Len(s)].line /\ fetch.from <= push.upto
      BY <2>2, <2>6, <3>1 DEF Reaches
    <3>3. s[Len(s)].line \in Int /\ fetch.from \in Int
      <4>1. s[Len(s)] \in Line
        BY <2>1, <3>1
      <4> QED BY <4>1 DEF Line, PageParts, Get
    <3> QED BY <1>4, <3>2, <3>3
  <2>8. ViewFollows'
    BY <1>1, <2>2, <2>3, <2>4, <2>6, <2>7 DEF ViewFollows, Appending
  <2> QED BY <1>1, <1>2, <2>3, <2>4, <2>8 DEF PageParts, RequestsAreServed
<1> QED BY <1>6, <1>8, <1>9, <1>10

LEMMA DropKeeps ==
  ASSUME TranscriptBounds, PageParts, Drop, used'.picks = used.picks PROVE PageParts'
<1> DEFINE view == [tab EXCEPT !.open = FALSE]
<1>1. /\ tab' = view /\ pushes' = <<>> /\ fetch' = fetch /\ tab \in View
  BY DEF Drop, PageParts
<1>2. /\ view \in View /\ view.cursor = tab.cursor /\ view.live = tab.live /\ view.shown = tab.shown
  BY <1>1 DEF View
<1> HIDE DEF view
<1>3. pushes' \in Seq(PushOf) /\ PushesMove'
  BY <1>1 DEF PushesMove
<1> QED BY <1>1, <1>2, <1>3 DEF PageParts, RequestsAreServed, ViewFollows, Appending

\* What a read has found goes out if there is any of it.
LEMMA PushGoesOut ==
  ASSUME TranscriptBounds, TranscriptTypes, PageParts, NEW r \in watcher.reads, PumpEmits(r)
  PROVE  PageParts'
<1> DEFINE p == [of |-> r.of, from |-> r.from, upto |-> r.upto]
<1>1. r \in Read
  BY NoneWatches
<1>2. p \in PushOf /\ p.from = r.from /\ p.upto = r.upto
  BY <1>1 DEF Read, PushOf
<1>3. /\ UNCHANGED <<tab, fetch, used>>
      /\ \/ pushes' = pushes
         \/ pushes' = Append(pushes, p) /\ r.upto > r.from
  BY DEF PumpEmits
<1> HIDE DEF p
<1>4. pushes' \in Seq(PushOf) /\ PushesMove'
  <2>1. CASE pushes' = pushes
    BY <2>1 DEF PageParts, PushesMove
  <2>2. CASE pushes' = Append(pushes, p) /\ r.upto > r.from
    <3>1. r.upto \in Int /\ r.from \in Int
      BY <1>1 DEF Read
    <3>2. p.from < p.upto
      BY <1>2, <2>2, <3>1
    <3>3. pushes \in Seq(PushOf)
      BY DEF PageParts
    <3>4. /\ pushes' \in Seq(PushOf) /\ Len(pushes') = Len(pushes) + 1
          /\ \A i \in 1..Len(pushes) : pushes'[i] = pushes[i]
          /\ pushes'[Len(pushes) + 1] = p
      BY <1>2, <2>2, <3>3, AppendProperties
    <3>5. \A i \in DOMAIN pushes' : i \in DOMAIN pushes \/ i = Len(pushes) + 1
      BY <3>3, <3>4
    <3> QED BY <3>2, <3>3, <3>4, <3>5 DEF PageParts, PushesMove
  <2> QED BY <1>3, <2>1, <2>2
<1> QED BY <1>3, <1>4 DEF PageParts, RequestsAreServed, ViewFollows, Appending

-----------------------------------------------------------------------------
(* Every step keeps the invariant.                                         *)

LEMMA TranscriptInitInv == ASSUME TranscriptBounds, LiveInit PROVE TranscriptInv
<1>1. 0 \in 0..Lines /\ 0 \in 0..Iterations /\ 1 \in Files /\ 1 \in 0..Iterations
  BY DEF TranscriptBounds, Files
<1>2. run \in RunRow /\ used.picks = 0
  BY <1>1 DEF LiveInit, RunRow
<1>3. file \in [Files -> Transcript]
  BY <1>1 DEF LiveInit, Transcript
<1>4. watcher \in Watcher /\ OneReadAtATime
  BY NobodyWatches DEF LiveInit, NoWatcher, OneReadAtATime
<1>5. tab \in View /\ tab.shown = <<>>
  <2>1. <<>> \in Seq(Line)
    OBVIOUS
  <2> QED BY <1>1, <2>1 DEF LiveInit, View
<1>6. fetch \in Get /\ fetch.pc = "sent" /\ fetch.of # 0 /\ fetch.replace /\ ~fetch.reset
  <2> DEFINE one == 1
  <2>1. one \in 0..Iterations /\ one # 0
    BY <1>1
  <2>2. fetch = [NoFetch EXCEPT !.pc = "sent", !.of = one, !.replace = TRUE]
    BY DEF LiveInit
  <2> HIDE DEF one
  <2> QED BY <2>1, <2>2, NothingIsFetched DEF Get
<1>7. pushes \in Seq(PushOf) /\ PushesMove
  BY DEF LiveInit, PushesMove
<1>8. RequestsAreServed
  BY <1>6 DEF RequestsAreServed
<1>9. ViewFollows
  BY <1>5, <1>6 DEF ViewFollows, Appending, Stepwise, Reaches
<1> QED BY <1>2, <1>3, <1>4, <1>5, <1>6, <1>7, <1>8, <1>9 DEF TranscriptInv, TranscriptTypes

\* The invariant by who changes it: the worker's rows, the watcher, the page.
LEMMA TranscriptByParts ==
  /\ TranscriptInv => TranscriptTypes /\ OneReadAtATime /\ WatcherParts /\ PageParts
  /\ run' \in RunRow /\ file' \in [Files -> Transcript] /\ WatcherParts' /\ PageParts'
       => TranscriptInv'
BY DEF TranscriptInv, TranscriptTypes, WatcherParts, PageParts

LEMMA StillParts ==
  /\ WatcherParts /\ UNCHANGED watcher => WatcherParts'
  /\ PageParts /\ UNCHANGED <<pushes, tab, fetch, used>> => PageParts'
BY DEF WatcherParts, OneReadAtATime, PageParts, PushesMove, RequestsAreServed, ViewFollows, Appending

LEMMA WorkerKeeps ==
  ASSUME TranscriptBounds, TranscriptInv, Write \/ StartIteration \/ FinishRun PROVE TranscriptInv'
<1>1. /\ TranscriptTypes /\ OneReadAtATime /\ WatcherParts /\ PageParts
      /\ UNCHANGED <<pushes, tab, fetch, used>>
  BY TranscriptByParts DEF Write, StartIteration, FinishRun
<1>2. run \in RunRow /\ run.iteration \in Files /\ file \in [Files -> Transcript]
  BY <1>1 DEF TranscriptTypes, RunRow
<1>3. CASE Write
  <2> DEFINE f == run.iteration
             t == IF file[f].half THEN [lines |-> file[f].lines + 1, half |-> FALSE]
                  ELSE [file[f] EXCEPT !.half = TRUE]
  <2>1. file[f] \in Transcript /\ file[f].lines < Lines
    BY <1>2, <1>3 DEF Write
  <2>2. file[f].lines + 1 \in 0..Lines
    BY <2>1 DEF Transcript, TranscriptBounds
  <2>3. t \in Transcript
    <3> HIDE DEF f
    <3> QED BY <2>1, <2>2 DEF Transcript
  <2>4. file' = [file EXCEPT ![f] = t]
    BY <1>3 DEF Write
  <2> HIDE DEF t
  <2>5. file' \in [Files -> Transcript] /\ run' = run /\ watcher' = Noticed(f)
    BY <1>2, <1>3, <2>3, <2>4 DEF Write
  <2> HIDE DEF f
  <2>6. WatcherParts'
    BY <1>1, <1>2, <2>5, NoticedKeeps DEF f
  <2> QED BY <1>1, <1>2, <2>5, <2>6, TranscriptByParts, StillParts
<1>4. CASE StartIteration
  <2> DEFINE n == run.iteration + 1
  <2>1. n \in Files /\ run' = [run EXCEPT !.iteration = n]
    BY <1>2, <1>4 DEF StartIteration, Files, TranscriptBounds
  <2> HIDE DEF n
  <2>2. run' \in RunRow /\ UNCHANGED <<file, watcher>>
    BY <1>2, <1>4, <2>1 DEF RunRow, StartIteration
  <2> QED BY <1>1, <1>2, <2>2, TranscriptByParts, StillParts
<1>5. CASE FinishRun
  <2>1. run' \in RunRow /\ UNCHANGED <<file, watcher>>
    BY <1>2, <1>5 DEF RunRow, FinishRun
  <2> QED BY <1>1, <1>2, <2>1, TranscriptByParts, StillParts
<1> QED BY <1>3, <1>4, <1>5

LEMMA RegistryKeeps ==
  ASSUME TranscriptBounds, TranscriptInv,
         HearNews \/ Scan \/ Pump \/ \E r \in watcher.reads : PumpReads(r) \/ PumpEmits(r)
  PROVE  TranscriptInv'
<1>1. /\ TranscriptTypes /\ OneReadAtATime /\ WatcherParts /\ PageParts
      /\ UNCHANGED <<run, file>>
  BY TranscriptByParts DEF HearNews, Scan, Pump, PumpReads, PumpEmits
<1>2. run' \in RunRow /\ file' \in [Files -> Transcript]
  BY <1>1 DEF TranscriptTypes
<1>3. CASE HearNews \/ Scan
  <2>1. /\ StopRunWatcher \/ SyncRunWatcher
        /\ UNCHANGED <<pushes, tab, fetch, used>>
    BY <1>3 DEF HearNews, Scan
  <2> QED BY <1>1, <1>2, <2>1, StopKeeps, SyncKeeps, TranscriptByParts, StillParts
<1>4. CASE Pump
  <2>1. UNCHANGED <<pushes, tab, fetch, used>>
    BY <1>4 DEF Pump
  <2> QED BY <1>1, <1>2, <1>4, <2>1, PumpKeeps, TranscriptByParts, StillParts
<1>5. ASSUME NEW r \in watcher.reads, PumpReads(r)
      PROVE  TranscriptInv'
  <2>1. UNCHANGED <<pushes, tab, fetch, used>>
    BY <1>5 DEF PumpReads
  <2> QED BY <1>1, <1>2, <1>5, <2>1, ReadKeeps, TranscriptByParts, StillParts
<1>6. ASSUME NEW r \in watcher.reads, PumpEmits(r)
      PROVE  TranscriptInv'
  BY <1>1, <1>2, <1>6, EmitKeeps, PushGoesOut, TranscriptByParts
<1> QED BY <1>3, <1>4, <1>5, <1>6

LEMMA PageKeeps ==
  ASSUME TranscriptBounds, TranscriptInv,
         \/ \E f \in Files : Pick(f)
         \/ Settled \/ Serve \/ Response \/ CatchUp \/ Receive \/ Drop \/ Reconnect
  PROVE  TranscriptInv'
<1>1. /\ TranscriptTypes /\ OneReadAtATime /\ WatcherParts /\ PageParts
      /\ UNCHANGED <<run, file, watcher>>
  BY TranscriptByParts DEF Pick, Settled, Serve, Response, CatchUp, Receive, Drop, Reconnect
<1>2. run' \in RunRow /\ file' \in [Files -> Transcript] /\ WatcherParts'
  BY <1>1, StillParts DEF TranscriptTypes
<1>3. used.picks \in Nat /\ tab.of \in Files /\ tab.live \in BOOLEAN
  BY <1>1 DEF PageParts, View
<1>4. ASSUME NEW f \in Files, Pick(f)
      PROVE  PageParts'
  <2> DEFINE n == used.picks + 1
  <2>1. used' = [used EXCEPT !.picks = n] /\ n \in Nat /\ n # 0
    BY <1>3, <1>4 DEF Pick
  <2> HIDE DEF n
  <2>2. used'.picks = n \/ used'.picks = used.picks
    BY <2>1
  <2> QED BY <1>1, <1>3, <1>4, <2>1, <2>2, MountKeeps DEF Pick
<1>5. ASSUME Settled PROVE PageParts'
  BY <1>1, <1>3, <1>5, MountKeeps DEF Settled
<1>6. ASSUME Drop PROVE PageParts'
  <2> DEFINE n == used.drops + 1
  <2>1. used' = [used EXCEPT !.drops = n]
    BY <1>6 DEF Drop
  <2> HIDE DEF n
  <2>2. used'.picks = used.picks
    BY <2>1
  <2> QED BY <1>1, <1>6, <2>2, DropKeeps
<1>7. PageParts'
  BY <1>1, <1>4, <1>5, <1>6, ServeKeeps, ResponseKeeps, CatchUpKeeps, ReceiveKeeps, ReconnectKeeps
<1> QED BY <1>2, <1>7, TranscriptByParts

LEMMA TranscriptInductive == ASSUME TranscriptBounds PROVE LiveSpec => []TranscriptInv
<1>1. LiveInit => TranscriptInv
  BY TranscriptInitInv
<1>2. TranscriptInv /\ [LiveNext]_liveVars => TranscriptInv'
  <2>1. SUFFICES ASSUME TranscriptInv, [LiveNext]_liveVars PROVE TranscriptInv'
    OBVIOUS
  <2>2. CASE UNCHANGED liveVars
    BY <2>1, <2>2, TranscriptByParts, StillParts DEF liveVars, TranscriptTypes
  <2>3. CASE LiveNext
    BY <2>1, <2>3, WorkerKeeps, RegistryKeeps, PageKeeps DEF LiveNext
  <2> QED BY <2>1, <2>2, <2>3
<1> QED BY <1>1, <1>2, PTL DEF LiveSpec

-----------------------------------------------------------------------------
(* The theorems.                                                           *)

\* LiveTypeOK: the rows, the watcher, the pushes and the page keep their types.
THEOREM TranscriptsAreTyped == ASSUME TranscriptBounds PROVE LiveSpec => []LiveTypeOK
<1>1. TranscriptInv => LiveTypeOK
  <2>1. SUFFICES ASSUME TranscriptInv PROVE LiveTypeOK
    OBVIOUS
  <2>2. TranscriptTypes
    BY <2>1 DEF TranscriptInv
  <2>3. run \in [live : BOOLEAN, iteration : 0..Iterations]
    BY <2>2 DEF TranscriptTypes, RunRow, Files, TranscriptBounds
  <2>4. \A i \in DOMAIN pushes : pushes[i].of \in Files
    <3>1. \A i \in DOMAIN pushes : pushes[i] \in PushOf
      BY <2>2 DEF TranscriptTypes
    <3> QED BY <3>1 DEF PushOf
  <2> QED BY <2>2, <2>3, <2>4 DEF LiveTypeOK, TranscriptTypes, Transcript, Watcher, View, Get
<1> QED BY <1>1, TranscriptInductive, PTL

\* What a watcher has pushed is as much as its cursor says, whoever asks it to
\* read, whatever is orphaned and however the reads and their pushes interleave
\* (startTranscriptPush, stopRunWatcher).
THEOREM PushesHaveNoGaps == ASSUME TranscriptBounds PROVE LiveSpec => []PushesAreGapless
<1>1. TranscriptInv => PushesAreGapless
  BY DEF TranscriptInv, OneReadAtATime, PushesAreGapless
<1> QED BY <1>1, TranscriptInductive, PTL

\* Until another iteration is picked the page skips no line between two that it
\* shows, whatever is pushed, fetched, dropped and resynchronised at a time
\* (TranscriptView, transcriptPushDecision).
THEOREM NoLineIsSkipped == ASSUME TranscriptBounds PROVE LiveSpec => []NoLineSkipped
<1>1. TranscriptInv => NoLineSkipped
  BY DEF TranscriptInv, ViewFollows, Stepwise, NoLineSkipped
<1> QED BY <1>1, TranscriptInductive, PTL
=============================================================================
