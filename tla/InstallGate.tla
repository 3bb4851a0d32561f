---------------------------- MODULE InstallGate ----------------------------
(***************************************************************************)
(* The install-script gate (installGate.ts): what an install leaves in a   *)
(* worktree is compared with the lifecycle scripts a human has approved    *)
(* for the repository, the loop halts over the others, and the operator    *)
(* approves some of them on the card's page.                               *)
(*                                                                         *)
(* A script stands for a package at one version with one set of script     *)
(* bodies: what scriptKey tells apart.  NameOf is the package's name, the  *)
(* only thing npm is told.  What the gate shares with the card's life, the *)
(* cap and the pump, is in Pipeline; here a free slot is always there.     *)
(***************************************************************************)
EXTENDS Integers, Absent

CONSTANTS
  Tasks,         \* the cards of one repository
  Scripts,       \* the lifecycle-script sets a package registry has
  NameOf,        \* [Scripts -> package names]
  Pages,         \* the open pages of a card
  MaxInstalls,   \* a bound on the installs
  MaxLoops       \* a bound on the loop runs of a card

VARIABLES
  approved,      \* repo.approvedInstallScripts
  cards,         \* each card: see CardRecord
  pages,         \* each page's request: see PageRecord
  installs,      \* how many installs there have been
  checked        \* history: the scripts an operator has ticked and sent

gateVars == <<approved, cards, pages, installs, checked>>

\* changed: the lockfiles are not as the run has last seen them.  known: the
\* repository's list as the scan under way has read it.  banner: the packages
\* of the card's last install.gate event.  late: what the checks that follow the
\* last scan have installed.  from: how evaluation was reached.
CardRecord ==
  [status : {"ready", "work", "scan", "checks", "gate", "failed", "evaluating"},
   tree : SUBSET Scripts, changed : BOOLEAN, open : BOOLEAN, done : BOOLEAN,
   known : SUBSET Scripts, banner : SUBSET Scripts, late : SUBSET Scripts,
   runs : 1..MaxLoops,
   from : {"loop", "approval", "retry", None}]

PageRecord ==
  [step : {"idle", "scan", "rebuild", "record", "resume"},
   card : Tasks \cup {None},
   asked : SUBSET Scripts, present : SUBSET Scripts, row : SUBSET Scripts]

GateTypeOK ==
  /\ approved \subseteq Scripts
  /\ cards \in [Tasks -> CardRecord]
  /\ pages \in [Pages -> PageRecord]
  /\ installs \in 0..MaxInstalls
  /\ checked \subseteq Scripts

NoRequest == [step |-> "idle", card |-> None, asked |-> {}, present |-> {}, row |-> {}]

\* Each card has one open task left and its first loop run is at work.
GateInit ==
  /\ approved = {}
  /\ cards = [c \in Tasks |->
       [status |-> "work", tree |-> {}, changed |-> FALSE, open |-> TRUE, done |-> FALSE,
        known |-> {}, banner |-> {}, late |-> {}, runs |-> 1, from |-> None]]
  /\ pages = [p \in Pages |-> NoRequest]
  /\ installs = 0
  /\ checked = {}

-----------------------------------------------------------------------------
(* The loop.                                                               *)

\* The agent installs something, or takes it out again.
Install(c) ==
  /\ cards[c].status = "work"
  /\ installs < MaxInstalls
  /\ \E tree \in SUBSET Scripts :
       /\ tree # cards[c].tree
       /\ cards' = [cards EXCEPT ![c] = [@ EXCEPT !.tree = tree, !.changed = TRUE]]
  /\ installs' = installs + 1
  /\ UNCHANGED <<approved, pages, checked>>

\* The scan of the worktree that precedes: the list is read before the walk.
Scanning(c) ==
  [cards[c] EXCEPT !.status = "scan", !.known = approved, !.changed = FALSE, !.late = {}]

\* An iteration leaves its task open: changed lockfiles start a scan.
IterationEnds(c) ==
  /\ cards[c].status = "work" /\ cards[c].open
  /\ cards[c].changed
  /\ cards' = [cards EXCEPT ![c] = Scanning(c)]
  /\ UNCHANGED <<approved, pages, installs, checked>>

\* An iteration ticks the last task and signals DONE: there is a scan whatever
\* the lockfiles say, unless a check before it fails the run.
LoopDone(c) ==
  /\ cards[c].status = "work" /\ cards[c].open
  /\ \E ending \in {Scanning(c), [cards[c] EXCEPT !.status = "failed"]} :
       cards' = [cards EXCEPT ![c] = [ending EXCEPT !.open = FALSE, !.done = TRUE]]
  /\ UNCHANGED <<approved, pages, installs, checked>>

\* checkInstallGate: a script that is not approved halts the run; without one
\* the loop goes on, or a finished one to its last checks.
Scanned(c) ==
  LET unapproved == cards[c].tree \ cards[c].known
  IN /\ cards[c].status = "scan"
     /\ cards' = [cards EXCEPT
          ![c] = [@ EXCEPT
            !.known = {},
            !.banner = cards[c].banner \cup unapproved,
            !.status = IF unapproved # {} THEN "gate"
                       ELSE IF cards[c].done THEN "checks" ELSE "work"]]
     /\ UNCHANGED <<approved, pages, installs, checked>>

\* The acceptance criteria's own commands, and the repository's gate command, run
\* between the forced scan and evaluation; either may install.
CheckInstalls(c) ==
  /\ cards[c].status = "checks"
  /\ installs < MaxInstalls
  /\ \E tree \in SUBSET Scripts :
       /\ tree # cards[c].tree
       /\ cards' = [cards EXCEPT ![c] = [@ EXCEPT
            !.late = (cards[c].late \cup (tree \ cards[c].tree)) \cap tree,
            !.tree = tree, !.changed = TRUE]]
  /\ installs' = installs + 1
  /\ UNCHANGED <<approved, pages, checked>>

\* A criterion's command fails, the base conflicts, or the gate command fails:
\* the loop gets another task, with DONE taken away.  The base brought in may have
\* other lockfiles.
SentBack(c) ==
  /\ cards[c].status = "checks"
  /\ \E changed \in {cards[c].changed, TRUE} :
       cards' = [cards EXCEPT ![c] = [@ EXCEPT
         !.status = "work", !.open = TRUE, !.done = FALSE, !.changed = changed]]
  /\ UNCHANGED <<approved, pages, installs, checked>>

\* finishRun wins: the card goes on to evaluation.
HandOver(c) ==
  /\ cards[c].status = "checks"
  /\ cards' = [cards EXCEPT ![c] = [@ EXCEPT !.status = "evaluating", !.from = "loop"]]
  /\ UNCHANGED <<approved, pages, installs, checked>>

\* The loop fails for a reason of its own, or for one of its last checks'.
LoopFails(c) ==
  /\ cards[c].status \in {"work", "checks"}
  /\ cards' = [cards EXCEPT ![c].status = "failed"]
  /\ UNCHANGED <<approved, pages, installs, checked>>

\* The pump starts the next loop run, which takes the lockfiles as they are and
\* removes a stale DONE.  Without an open task it fails at once.
StartLoop(c) ==
  /\ cards[c].status = "ready"
  /\ cards[c].runs < MaxLoops
  /\ cards' = [cards EXCEPT ![c] = [@ EXCEPT
       !.runs = cards[c].runs + 1, !.changed = FALSE, !.done = FALSE,
       !.status = IF cards[c].open THEN "work" ELSE "failed"]]
  /\ UNCHANGED <<approved, pages, installs, checked>>

-----------------------------------------------------------------------------
(* The operator.                                                           *)

InAttention(c) == cards[c].status \in {"gate", "failed"}

\* restartCard: the plan is there, so the card goes back to the loop's queue.
Restart(c) ==
  /\ InAttention(c)
  /\ cards[c].runs < MaxLoops
  /\ cards' = [cards EXCEPT ![c].status = "ready"]
  /\ UNCHANGED <<approved, pages, installs, checked>>

\* retryFailedStep: a loop that had ticked its last task and written DONE goes
\* straight to evaluation.
RetryLoop(c) ==
  /\ cards[c].status = "failed"
  /\ ~cards[c].open /\ cards[c].done
  /\ cards' = [cards EXCEPT ![c] = [@ EXCEPT !.status = "evaluating", !.from = "retry"]]
  /\ UNCHANGED <<approved, pages, installs, checked>>

\* InstallGateBanner: scripts of the banner are ticked and sent, maybe from a
\* page that is not up to date.  approveInstallScripts reads the card and the
\* repository's row and walks the worktree.
Approve(p, c) ==
  /\ pages[p].step = "idle"
  /\ InAttention(c)
  /\ \E asked \in SUBSET cards[c].banner \ {{}} :
       /\ pages' = [pages EXCEPT ![p] =
            [step |-> "scan", card |-> c, asked |-> asked, present |-> {}, row |-> approved]]
       /\ checked' = checked \cup asked
  /\ UNCHANGED <<approved, cards, installs>>

\* Mutant of Match: a script is asked for by the name of its package.
MatchByName(p) ==
  LET present == {s \in cards[pages[p].card].tree :
                    \E asked \in pages[p].asked : NameOf[asked] = NameOf[s]}
  IN /\ pages[p].step = "scan"
     /\ pages' = [pages EXCEPT ![p] =
          IF present = {} THEN NoRequest ELSE [@ EXCEPT !.step = "rebuild", !.asked = {}, !.present = present]]
     /\ UNCHANGED <<approved, cards, installs, checked>>

\* Only what is in the resolved tree as it was asked for is approved.
Match(p) ==
  LET present == cards[pages[p].card].tree \cap pages[p].asked
  IN /\ pages[p].step = "scan"
     /\ pages' = [pages EXCEPT ![p] =
          IF present = {} THEN NoRequest ELSE [@ EXCEPT !.step = "rebuild", !.asked = {}, !.present = present]]
     /\ UNCHANGED <<approved, cards, installs, checked>>

\* rebuildPackages fails: nothing is approved.
RebuildFails(p) ==
  /\ pages[p].step = "rebuild"
  /\ pages' = [pages EXCEPT ![p] = NoRequest]
  /\ UNCHANGED <<approved, cards, installs, checked>>

\* The card goes on where it halted: to evaluation if no task is open, to the
\* loop's queue otherwise.  A card that has left Needs Attention stays there.
Resumed(c) ==
  IF ~InAttention(c) THEN cards[c]
  ELSE IF cards[c].open THEN [cards[c] EXCEPT !.status = "ready"]
  ELSE [cards[c] EXCEPT !.status = "evaluating", !.from = "approval"]

\* The rebuild is done: a transaction adds what was asked for to the list as it
\* is now, and the card is resumed.
SaveApproval(p) ==
  /\ pages[p].step = "rebuild"
  /\ approved' = approved \cup pages[p].present
  /\ cards' = [cards EXCEPT ![pages[p].card] = Resumed(pages[p].card)]
  /\ pages' = [pages EXCEPT ![p] = NoRequest]
  /\ UNCHANGED <<installs, checked>>

GateNext ==
  \/ \E c \in Tasks :
       \/ Install(c) \/ IterationEnds(c) \/ LoopDone(c) \/ Scanned(c) \/ CheckInstalls(c)
       \/ SentBack(c) \/ HandOver(c) \/ LoopFails(c) \/ StartLoop(c) \/ Restart(c) \/ RetryLoop(c)
       \/ \E p \in Pages : Approve(p, c)
  \/ \E p \in Pages : Match(p) \/ RebuildFails(p) \/ SaveApproval(p)

GateSpec == GateInit /\ [][GateNext]_gateVars

-----------------------------------------------------------------------------
(* Properties.                                                             *)

\* approveInstallScripts: two approvals of one repository at a time do not drop
\* each other's scripts.
ApprovalsAreKept == [][approved \subseteq approved']_gateVars

\* approveInstallScripts: what is approved is what somebody has ticked, and no
\* other version of the package that has come into the tree since.
ApprovedWereChecked == approved \subseteq checked

\* checkInstallGate: a loop that hands over to evaluation leaves no script in
\* the worktree that is not approved, but for what the checks after its last scan
\* installed, whatever earlier gates were passed over and however often the loop
\* was sent back.
LoopIsGated ==
  \A c \in Tasks :
    cards[c].status = "checks" \/ (cards[c].status = "evaluating" /\ cards[c].from = "loop")
      => cards[c].tree \ cards[c].late \subseteq approved

\* The gate as a whole.
OnlyVettedScripts == ApprovedWereChecked /\ LoopIsGated

\* "Nothing unapproved may reach the evaluator" (orchestrator.ts).
NothingUnapprovedIsEvaluated ==
  \A c \in Tasks : cards[c].status = "evaluating" => cards[c].tree \subseteq approved
=============================================================================
