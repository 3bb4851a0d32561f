------------------------------ MODULE Settings ------------------------------
(***************************************************************************)
(* The settings: the rows of the settings table, the pages that edit them  *)
(* (useSettingsData.ts), and the secret in data/auth-secret that each      *)
(* process reads or makes when it boots (authSecret.ts) and under which    *)
(* provider keys are stored (settingsCrypto.ts).                           *)
(*                                                                         *)
(* Four settings stand for their kinds: an ordinary one, one whose name    *)
(* has changed, a provider key and a prompt template.  0 is a setting's    *)
(* default: no key, and the built-in template, which blank stands for too. *)
(* What a page sends is valid; an invalid setting fails the whole save.    *)
(***************************************************************************)
EXTENDS Integers

CONSTANTS
  Procs,         \* the processes
  Web,           \* the one that serves the pages
  Tabs,          \* the open settings pages
  MaxEdits,      \* a bound on the edits
  MaxBoots,      \* a bound on the boots
  MaxRotations,  \* a bound on the deletions of data/auth-secret
  None, Mask     \* nothing; what a stored key is shown as (REDACTED)

VARIABLES
  rows,          \* the settings table
  file,          \* data/auth-secret: [secret, written] or None
  procs,         \* each process: [pc, env, epoch]
  tabs,          \* each page: see TabRecord
  edits, boots, rotations,
  meant          \* history: what was last saved for each setting

settingVars == <<rows, file, procs, tabs, edits, boots, rotations, meant>>

Keys == {"plain", "renamed", "key", "template"}
Values == 0..2
Shown == Values \cup {Mask}
Forms == {form \in [Keys -> Shown] : \A k \in Keys \ {"key"} : form[k] # Mask}
Secrets == 1..MaxBoots

\* A key is stored in clear text in an old row.
StoredRows ==
  [plain : Values \cup {None}, renamed : Values \cup {None}, legacy : Values \cup {None},
   key : [value : Values, under : Secrets \cup {None}] \cup {None},
   template : Values \cup {None}]

\* The page's form; what it had loaded or saved; the request under way and its
\* answer; and, as history, what has been typed since the last save began.
TabRecord ==
  [form : Forms \cup {None}, persisted : Forms \cup {None}, sent : Forms \cup {None},
   answer : Forms \cup {None}, typed : [Keys -> Values \cup {None}]]

SettingsTypeOK ==
  /\ rows \in StoredRows
  /\ file \in [secret : Secrets, written : BOOLEAN] \cup {None}
  /\ procs \in [Procs -> [pc : {"down", "create", "write", "wait", "up"},
                          env : Secrets \cup {None}, epoch : 0..MaxRotations]]
  /\ tabs \in [Tabs -> TabRecord]
  /\ edits \in 0..MaxEdits /\ boots \in 0..MaxBoots /\ rotations \in 0..MaxRotations

-----------------------------------------------------------------------------
(* The table.                                                              *)

\* A row under the old name counts until there is one under the new one.
Renamed(table) ==
  IF table.renamed # None THEN table.renamed
  ELSE IF table.legacy # None THEN table.legacy ELSE 0

\* decryptSecret: a key that is stored under another secret reads as unset.
KeyAs(p, row) ==
  IF row = None THEN 0
  ELSE IF row.under \in {None, procs[p].env} THEN row.value ELSE 0

\* getSettings.
GetSettings(p, table) ==
  [plain |-> IF table.plain = None THEN 0 ELSE table.plain,
   renamed |-> Renamed(table),
   key |-> KeyAs(p, table.key),
   template |-> IF table.template = None THEN 0 ELSE table.template]

\* redactSettings: a key that is set is masked.
Redacted(settings) ==
  [settings EXCEPT !.key = IF @ = 0 THEN 0 ELSE Mask]

\* encryptSecret; a page that sends the mask back has not touched the key.
StoredKey(p, sent) ==
  IF sent = Mask THEN rows.key
  ELSE IF sent = 0 THEN [value |-> 0, under |-> None]
  ELSE [value |-> sent, under |-> procs[p].env]

\* patchSettings: every setting of the form is stored; the row of a template
\* that is blank or the built-in one is deleted.
PatchSettings(p, form) ==
  [rows EXCEPT !.plain = form.plain, !.renamed = form.renamed,
               !.key = StoredKey(p, form.key),
               !.template = IF form.template = 0 THEN None ELSE form.template]

NoTyping == [k \in Keys |-> None]
Closed == [form |-> None, persisted |-> None, sent |-> None, answer |-> None,
           typed |-> NoTyping]

\* A new instance, or one with a row under an old name and a key in clear text.
SettingsInit ==
  /\ rows \in {[plain |-> None, renamed |-> None, legacy |-> None, key |-> None,
                template |-> None],
               [plain |-> 1, renamed |-> None, legacy |-> 1,
                key |-> [value |-> 1, under |-> None], template |-> 1]}
  /\ file = None
  /\ procs = [p \in Procs |-> [pc |-> "down", env |-> None, epoch |-> 0]]
  /\ tabs = [t \in Tabs |-> Closed]
  /\ edits = 0 /\ boots = 0 /\ rotations = 0
  /\ meant = GetSettings(Web, rows)

-----------------------------------------------------------------------------
(* The page.                                                               *)

Serving == procs[Web].pc = "up"

\* The page is opened, or opened again, and loads the settings.
Load(t) ==
  /\ Serving
  /\ tabs[t].sent = None
  /\ LET loaded == Redacted(GetSettings(Web, rows))
     IN tabs' = [tabs EXCEPT ![t] = [Closed EXCEPT !.form = loaded, !.persisted = loaded]]
  /\ UNCHANGED <<rows, file, procs, edits, boots, rotations, meant>>

\* The operator types a setting; also while a save is under way.
Edit(t, k, value) ==
  /\ tabs[t].form # None
  /\ edits < MaxEdits
  /\ tabs[t].form[k] # value
  /\ tabs' = [tabs EXCEPT ![t] = [@ EXCEPT
       !.form[k] = value,
       !.typed[k] = IF tabs[t].sent # None /\ tabs[t].sent[k] = value THEN None
                    ELSE value]]
  /\ edits' = edits + 1
  /\ UNCHANGED <<rows, file, procs, boots, rotations, meant>>

\* save: the whole form is sent.
Save(t) ==
  /\ tabs[t].form # None /\ tabs[t].form # tabs[t].persisted
  /\ tabs[t].sent = None
  /\ tabs' = [tabs EXCEPT ![t] = [@ EXCEPT !.sent = tabs[t].form, !.typed = NoTyping]]
  /\ UNCHANGED <<rows, file, procs, edits, boots, rotations, meant>>

\* PATCH /api/settings: the answer is the settings as they are now.
Patch(t) ==
  LET table == PatchSettings(Web, tabs[t].sent)
  IN /\ Serving
     /\ tabs[t].sent # None /\ tabs[t].answer = None
     /\ rows' = table
     /\ tabs' = [tabs EXCEPT ![t].answer = Redacted(GetSettings(Web, table))]
     /\ meant' = [k \in Keys |-> IF tabs[t].sent[k] = Mask THEN meant[k] ELSE tabs[t].sent[k]]
     /\ UNCHANGED <<file, procs, edits, boots, rotations>>

\* The page takes over the answer, except for what has been edited since.
Adopt(t) ==
  LET tab == tabs[t]
  IN /\ tab.answer # None
     /\ tabs' = [tabs EXCEPT
          ![t] = [@ EXCEPT
            !.form = [k \in Keys |-> IF tab.form[k] # tab.sent[k] THEN tab.form[k]
                                    ELSE tab.answer[k]],
            !.persisted = tab.answer, !.sent = None, !.answer = None]]
     /\ UNCHANGED <<rows, file, procs, edits, boots, rotations, meant>>

\* The request fails, or its answer is lost: the form stays as it is.
SaveFails(t) ==
  /\ tabs[t].sent # None
  /\ tabs' = [tabs EXCEPT ![t] = [@ EXCEPT !.sent = None, !.answer = None]]
  /\ UNCHANGED <<rows, file, procs, edits, boots, rotations, meant>>

-----------------------------------------------------------------------------
(* The processes.                                                          *)

\* ensureAuthSecret reads the file; without one it draws a secret of its own.
Boot(p) ==
  /\ procs[p].pc = "down"
  /\ boots < MaxBoots
  /\ boots' = boots + 1
  /\ procs' = [procs EXCEPT ![p] =
       IF file # None /\ (file # None => file.written)
       THEN [pc |-> "up", env |-> file.secret, epoch |-> rotations]
       ELSE [pc |-> "create", env |-> boots', epoch |-> rotations]]
  /\ UNCHANGED <<rows, file, tabs, edits, rotations, meant>>

\* Mutant of Create: the file is created over another's.
CreateOver(p) ==
  /\ procs[p].pc = "create"
  /\ file' = [secret |-> procs[p].env, written |-> FALSE]
  /\ procs' = [procs EXCEPT ![p] = [@ EXCEPT !.pc = "write", !.epoch = rotations]]
  /\ UNCHANGED <<rows, tabs, edits, boots, rotations, meant>>

\* An exclusive create: the file is there, and empty, or it was another's.
Create(p) ==
  /\ procs[p].pc = "create"
  /\ \/ /\ file = None
        /\ file' = [secret |-> procs[p].env, written |-> FALSE]
        /\ procs' = [procs EXCEPT ![p] = [@ EXCEPT !.pc = "write", !.epoch = rotations]]
     \/ /\ file # None
        /\ procs' = [procs EXCEPT ![p].pc = "wait"]
        /\ UNCHANGED file
  /\ UNCHANGED <<rows, tabs, edits, boots, rotations, meant>>

\* The secret is written to the file that was created, if that still is there.
Write(p) ==
  /\ procs[p].pc = "write"
  /\ file' = IF file # None /\ (file # None => file.secret = procs[p].env)
             THEN [file EXCEPT !.written = TRUE] ELSE file
  /\ procs' = [procs EXCEPT ![p].pc = "up"]
  /\ UNCHANGED <<rows, tabs, edits, boots, rotations, meant>>

\* waitForSecret: another's secret is taken over when it has been written ...
Wait(p) ==
  /\ procs[p].pc = "wait"
  /\ file # None
  /\ file.written
  /\ procs' = [procs EXCEPT ![p] = [pc |-> "up", env |-> file.secret, epoch |-> rotations]]
  /\ UNCHANGED <<rows, file, tabs, edits, boots, rotations, meant>>

\* ... or the boot fails; a process may die at any time, too.
Die(p) ==
  /\ procs[p].pc # "down"
  /\ procs' = [procs EXCEPT ![p] = [pc |-> "down", env |-> None, epoch |-> 0]]
  /\ UNCHANGED <<rows, file, tabs, edits, boots, rotations, meant>>

\* The operator deletes data/auth-secret, to end every session.
Rotate ==
  /\ rotations < MaxRotations
  /\ file # None
  /\ file' = None
  /\ rotations' = rotations + 1
  /\ UNCHANGED <<rows, procs, tabs, edits, boots, meant>>

SettingsNext ==
  \/ \E t \in Tabs :
       \/ Load(t) \/ Save(t) \/ Patch(t) \/ Adopt(t) \/ SaveFails(t)
       \/ \E k \in Keys, value \in Values : Edit(t, k, value)
  \/ \E p \in Procs : Boot(p) \/ Create(p) \/ Write(p) \/ Wait(p) \/ Die(p)
  \/ Rotate

SettingsSpec == SettingsInit /\ [][SettingsNext]_settingVars

-----------------------------------------------------------------------------
(* Properties.                                                             *)

Up == {p \in Procs : procs[p].pc = "up"}

\* ensureAuthSecret: processes that have booted since the secret was last
\* deleted have the same one, however their boots interleave.
OneSecret ==
  \A p, q \in Up : procs[p].epoch = procs[q].epoch => procs[p].env = procs[q].env

\* getSettings, patchSettings: every process reads what was last saved, an
\* untouched key included, unless the key is stored under another secret.
SavedIsRead ==
  \A p \in Up, k \in Keys :
    \/ GetSettings(p, rows)[k] = meant[k]
    \/ k = "key" /\ rows.key # None /\ rows.key.under # procs[p].env

\* useSettingsData: what is typed while a save is under way stays in the form.
EditsAreKept ==
  \A t \in Tabs, k \in Keys : tabs[t].typed[k] # None => tabs[t].form[k] = tabs[t].typed[k]
=============================================================================
