----------------------------- MODULE Integrity -----------------------------
(***************************************************************************)
(* The integrity checks of a repository (integrity.ts) between the runs    *)
(* that share it and the deliveries that move its base branch.  A run      *)
(* takes a baseline of hooks, config and refs when it starts, is compared  *)
(* with it when it ends, and has hooks and config compared once more       *)
(* before its branch is merged, under the repository's lease.              *)
(*                                                                         *)
(* Hooks and config are each a version, and so is what a ref points at;    *)
(* None is a ref that does not exist.  Somebody outside Radulf - the       *)
(* operator, a fetch, an agent - may change any of them at any time.  The  *)
(* timestamps of baselines and ref_writes are places in the record of      *)
(* ref_writes.  A repository stays usable, its baselines are readable, and *)
(* what comes between the end of a run and its review is left out.         *)
(***************************************************************************)
EXTENDS Integers, Sequences, FiniteSets

CONSTANTS
  Judged,        \* runs that start, and whose end is watched
  Reviewed,      \* runs that wait for a review from the start
  MaxEdits,      \* a bound on the changes made outside Radulf
  MaxCrashes,    \* a bound on the workers that die in a delivery
  None

VARIABLES
  repo,          \* [hooks, config, refs]: the shared .git directory
  writes,        \* the rows of ref_writes: <<[ref, sha]>>
  lease,         \* the run whose delivery holds the repository's lease, or None
  run,           \* each run: see RunRecord
  made,          \* how many versions have been made
  crashes        \* how many workers have died

integrityVars == <<repo, writes, lease, run, made, crashes>>

CardRuns == Judged \cup Reviewed

\* The base branch; another local branch; the branch of a run; a
\* remote-tracking branch.
Refs == {"base", "side", "ralph", "remote"}
Versions == 0..(MaxEdits + Cardinality(CardRuns))

\* The last two are history: what changed outside since the run's baseline,
\* and the configs the operator has agreed to.
RunRecord ==
  [phase : {"new", "snapshot", "work", "inspect", "compare", "settle", "failed",
            "review", "pending", "check", "merge", "commit", "record", "dead",
            "attention", "done"},
   baseline : [hooks : Versions, config : Versions, refs : [Refs -> Versions \cup {None}],
               since : Nat] \cup {None},
   refsNow : [Refs -> Versions \cup {None}] \cup {None},
   found : SUBSET {"hooks", "config", "refs"},
   landed : BOOLEAN,
   warned : BOOLEAN,
   shown : Versions \cup {None},
   touched : SUBSET {"hooks", "config", "refs", "remote", "own"},
   agreed : SUBSET Versions]

IntegrityTypeOK ==
  /\ repo \in [hooks : Versions, config : Versions, refs : [Refs -> Versions \cup {None}]]
  /\ writes \in Seq([ref : Refs, sha : Versions])
  /\ lease \in CardRuns \cup {None}
  /\ run \in [CardRuns -> RunRecord]
  /\ made \in Versions
  /\ crashes \in 0..MaxCrashes

Unstarted ==
  [phase |-> "new", baseline |-> None, refsNow |-> None, found |-> {}, landed |-> FALSE, warned |-> FALSE,
   shown |-> None, touched |-> {}, agreed |-> {}]
FirstBaseline ==
  [hooks |-> 0, config |-> 0, refs |-> [ref \in Refs |-> 0], since |-> 0]

IntegrityInit ==
  /\ repo = [hooks |-> 0, config |-> 0, refs |-> [ref \in Refs |-> 0]]
  /\ writes = <<>>
  /\ lease = None
  /\ run = [r \in CardRuns |->
       IF r \in Judged THEN Unstarted
       ELSE [Unstarted EXCEPT !.phase = "review", !.baseline = FirstBaseline]]
  /\ made = 0
  /\ crashes = 0

-----------------------------------------------------------------------------
(* Outside Radulf.                                                         *)

\* Everyone with a baseline has one that is out of date by this.
Touched(kind) ==
  [r \in CardRuns |-> IF run[r].baseline = None THEN run[r]
                  ELSE [run[r] EXCEPT !.touched = @ \cup {kind}]]

Outside ==
  /\ made - Cardinality({r \in CardRuns : run[r].landed}) < MaxEdits
  /\ made' = made + 1
  /\ \/ repo' = [repo EXCEPT !.hooks = made'] /\ run' = Touched("hooks")
     \/ repo' = [repo EXCEPT !.config = made'] /\ run' = Touched("config")
     \/ \E ref \in Refs, oid \in {made', None} :
          /\ repo' = [repo EXCEPT !.refs[ref] = oid]
          /\ run' = Touched(CASE ref = "remote" -> "remote"
                              [] ref = "ralph" -> "own"
                              [] OTHER -> "refs")
  /\ UNCHANGED <<writes, lease, crashes>>

-----------------------------------------------------------------------------
(* A run.                                                                  *)

\* snapshotRepoIntegrity: the time, the hooks and the config are taken before
\* the refs are read ...
Capture(r) ==
  /\ run[r].phase = "new"
  /\ run' = [run EXCEPT ![r] = [@ EXCEPT
       !.phase = "snapshot",
       !.baseline = [hooks |-> repo.hooks, config |-> repo.config,
                     refs |-> repo.refs, since |-> Len(writes)]]]
  /\ UNCHANGED <<repo, writes, lease, made, crashes>>

\* ... and the refs by a git command that takes a while; the baseline is saved.
CaptureRefs(r) ==
  /\ run[r].phase = "snapshot"
  /\ run' = [run EXCEPT ![r] = [@ EXCEPT !.phase = "work", !.baseline.refs = repo.refs]]
  /\ UNCHANGED <<repo, writes, lease, made, crashes>>

\* The hooks and the config that are not as the run's baseline has them.
Changed(r) ==
  {kind \in {"hooks", "config"} : repo[kind] # run[r].baseline[kind]}

\* inspectRepoIntegrity at the end of a run: hooks and config first ...
Inspect(r) ==
  /\ run[r].phase = "work"
  /\ run' = [run EXCEPT ![r] = [@ EXCEPT !.phase = "inspect", !.found = Changed(r)]]
  /\ UNCHANGED <<repo, writes, lease, made, crashes>>

\* ... then the refs, once.
ReadRefs(r) ==
  /\ run[r].phase = "inspect"
  /\ run' = [run EXCEPT ![r] = [@ EXCEPT !.phase = "compare", !.refsNow = repo.refs]]
  /\ UNCHANGED <<repo, writes, lease, made, crashes>>

\* refWritesSince: where Radulf last put a ref since the baseline, if it did.
Written(r, ref) ==
  LET rows == {i \in (run[r].baseline.since + 1)..Len(writes) : writes[i].ref = ref}
  IN IF rows = {} THEN None ELSE writes[CHOOSE i \in rows : \A j \in rows : j <= i].sha

\* compareRefs: the refs that differ and are not where Radulf put them.  Run
\* branches are managed, and a remote-tracking branch only earns a warning.
Unexplained(r) ==
  {ref \in Refs \ {"ralph"} :
     /\ run[r].refsNow[ref] # run[r].baseline.refs[ref]
     /\ run[r].refsNow[ref] = None \/ run[r].refsNow[ref] # Written(r, ref)}

Violates(r) == Unexplained(r) \ {"remote"} # {}

\* The end of the check: a violation fails the run.
Conclude(r) ==
  LET found == run[r].found \cup (IF Violates(r) THEN {"refs"} ELSE {})
  IN run' = [run EXCEPT ![r] = [@ EXCEPT
       !.phase = IF found = {} THEN "review" ELSE "failed",
       !.found = found,
       !.warned = "remote" \in Unexplained(r),
       !.refsNow = None]]

\* Mutant of CompareRefs: the check judges at once.
CompareRefsAtOnce(r) ==
  /\ run[r].phase = "compare"
  /\ Conclude(r)
  /\ UNCHANGED <<repo, writes, lease, made, crashes>>

\* A ref that was moved or has appeared may be a delivery's that is not
\* recorded yet: the check waits for the lease before it judges.
MayBeADelivery(r) ==
  \E ref \in Unexplained(r) \ {"remote"} : run[r].refsNow[ref] # None

CompareRefs(r) ==
  /\ run[r].phase = "compare"
  /\ \/ MayBeADelivery(r) /\ run' = [run EXCEPT ![r].phase = "settle"]
     \/ ~MayBeADelivery(r) /\ Conclude(r)
  /\ UNCHANGED <<repo, writes, lease, made, crashes>>

\* waitForRepoLeaseRelease has seen the lease free, or has given up: only the
\* lease of a dead worker is taken to outlast LEASE_SETTLE_MS.
Settle(r) ==
  /\ run[r].phase = "settle"
  /\ lease # None => run[lease].phase = "dead"
  /\ Conclude(r)
  /\ UNCHANGED <<repo, writes, lease, made, crashes>>

-----------------------------------------------------------------------------
(* The delivery of a run.                                                  *)

\* approve: a delivery is requested.
Approve(r) ==
  /\ run[r].phase = "review"
  /\ run' = [run EXCEPT ![r].phase = "pending"]
  /\ UNCHANGED <<repo, writes, lease, made, crashes>>

\* claimDelivery: a worker takes the request and the repository's lease.
ClaimDelivery(r) ==
  /\ run[r].phase = "pending"
  /\ lease = None
  /\ lease' = r
  /\ run' = [run EXCEPT ![r].phase = "check"]
  /\ UNCHANGED <<repo, writes, made, crashes>>

\* deliver: hooks and config are compared once more before the merge.
CheckBeforeMerge(r) ==
  /\ run[r].phase = "check"
  /\ \/ /\ Changed(r) = {}
        /\ run' = [run EXCEPT ![r].phase = "merge"]
        /\ UNCHANGED lease
     \/ /\ Changed(r) # {}
        /\ run' = [run EXCEPT ![r] = [@ EXCEPT !.phase = "attention", !.found = Changed(r)]]
        /\ lease' = None
  /\ UNCHANGED <<repo, writes, made, crashes>>

\* mergeBranch: the commit moves the base branch.  A branch that the base
\* contains already needs no commit and leaves no record; without a base there
\* is nothing to check out.
Commit(r) ==
  /\ run[r].phase = "merge"
  /\ \/ /\ repo.refs["base"] # None /\ ~run[r].landed
        /\ made' = made + 1
        /\ repo' = [repo EXCEPT !.refs["base"] = made']
        /\ run' = [run EXCEPT ![r] = [@ EXCEPT !.phase = "commit", !.landed = TRUE]]
        /\ UNCHANGED lease
     \/ /\ repo.refs["base"] # None /\ run[r].landed
        /\ run' = [run EXCEPT ![r].phase = "record"]
        /\ UNCHANGED <<repo, lease, made>>
     \/ /\ repo.refs["base"] = None
        /\ run' = [run EXCEPT ![r].phase = "attention"]
        /\ lease' = None
        /\ UNCHANGED <<repo, made>>
  /\ UNCHANGED <<writes, crashes>>

\* recordRefWrite: a row says where HEAD is after the commit.
Record(r) ==
  /\ run[r].phase = "commit"
  /\ \/ /\ repo.refs["base"] # None
        /\ writes' = Append(writes, [ref |-> "base", sha |-> repo.refs["base"]])
        /\ run' = [run EXCEPT ![r].phase = "record"]
        /\ UNCHANGED lease
     \/ /\ repo.refs["base"] = None
        /\ run' = [run EXCEPT ![r].phase = "attention"]
        /\ lease' = None
        /\ UNCHANGED writes
  /\ UNCHANGED <<repo, made, crashes>>

\* completeApproval and the end of executeDelivery: the baseline is removed and
\* the lease released.
Complete(r) ==
  /\ run[r].phase = "record"
  /\ run' = [run EXCEPT ![r] = [@ EXCEPT !.phase = "done", !.baseline = None, !.shown = None]]
  /\ lease' = None
  /\ UNCHANGED <<repo, writes, made, crashes>>

\* A worker dies in a delivery ...
Die(r) ==
  /\ crashes < MaxCrashes
  /\ run[r].phase \in {"check", "merge", "commit", "record"}
  /\ run' = [run EXCEPT ![r].phase = "dead"]
  /\ crashes' = crashes + 1
  /\ UNCHANGED <<repo, writes, lease, made>>

\* ... and the reaper puts the card back and releases its lease.
Reap(r) ==
  /\ run[r].phase = "dead"
  /\ run' = [run EXCEPT ![r].phase = "attention"]
  /\ lease' = None
  /\ UNCHANGED <<repo, writes, made, crashes>>

-----------------------------------------------------------------------------
(* The operator.                                                           *)

\* reviewConfig: the page shows the config as it is now, with its hash.
ReviewConfig(r) ==
  /\ run[r].phase = "attention"
  /\ repo.config # run[r].baseline.config
  /\ run' = [run EXCEPT ![r].shown = repo.config]
  /\ UNCHANGED <<repo, writes, lease, made, crashes>>

\* retryMerge: the delivery is requested again.
Retry(r) ==
  /\ run[r].phase = "attention"
  /\ run' = [run EXCEPT ![r] = [@ EXCEPT !.phase = "pending", !.found = {}]]
  /\ UNCHANGED <<repo, writes, lease, made, crashes>>

\* retryMerge with an approval of the config that was shown: it is accepted if
\* the config still is that one, and becomes part of the baseline.
ApproveConfig(r) ==
  /\ run[r].phase = "attention"
  /\ run[r].shown # None
  /\ repo.config = run[r].shown
  /\ run' = [run EXCEPT ![r] = [@ EXCEPT
       !.phase = "pending", !.found = {}, !.shown = None,
       !.baseline.config = repo.config,
       !.agreed = run[r].agreed \cup {run[r].shown}]]
  /\ UNCHANGED <<repo, writes, lease, made, crashes>>

Settled == \A r \in CardRuns : run[r].phase \in {"done", "failed"}

IntegrityNext ==
  \/ Outside
  \/ \E r \in CardRuns :
       \/ Capture(r) \/ CaptureRefs(r) \/ Inspect(r) \/ ReadRefs(r)
       \/ CompareRefs(r) \/ Settle(r)
       \/ Approve(r) \/ ClaimDelivery(r) \/ CheckBeforeMerge(r) \/ Commit(r)
       \/ Record(r) \/ Complete(r) \/ Die(r) \/ Reap(r)
       \/ ReviewConfig(r) \/ Retry(r) \/ ApproveConfig(r)
  \/ Settled /\ UNCHANGED integrityVars

IntegritySpec == IntegrityInit /\ [][IntegrityNext]_integrityVars

-----------------------------------------------------------------------------
(* Properties.                                                             *)

\* The rows that Radulf has written since the baseline of a run; and the merges
\* it has not recorded, and is not about to.
WritesSince(r) == Len(writes) - run[r].baseline.since
Unrecorded ==
  Cardinality({r \in CardRuns : run[r].landed /\ run[r].phase # "commit"}) - Len(writes)

\* inspectRepoIntegrity: a run fails only for what has happened to the
\* repository since its baseline: hooks and config that were changed outside
\* Radulf, and refs that were, or that two deliveries have moved meanwhile, or
\* one whose worker died before it wrote that down.
ExplainedAlarm ==
  \A r \in Judged :
    run'[r].phase = "failed" /\ run[r].phase # "failed" =>
      /\ run'[r].found \ {"refs"} \subseteq run[r].touched
      /\ "refs" \in run'[r].found =>
           "refs" \in run[r].touched \/ WritesSince(r) >= 2 \/ Unrecorded > 0

\* deliver: a run's branch is merged with the hooks its run has started with,
\* and with the config it has started with or one that the operator has been
\* shown and has agreed to for this run - as of the check, not of the merge.
Vetted ==
  \A r \in CardRuns :
    run'[r].phase = "merge" /\ run[r].phase = "check" =>
      /\ "hooks" \notin run[r].touched
      /\ "config" \in run[r].touched => repo.config \in run[r].agreed

\* "Once the lease is free every ref write Radulf made is recorded, so a moved
\* ref still unexplained after that is real tampering" (integrity.ts): what
\* only Radulf has moved fails no run.
OwnMergesExcused ==
  \A r \in Judged :
    run[r].phase = "failed" /\ "refs" \in run[r].found => "refs" \in run[r].touched
=============================================================================
