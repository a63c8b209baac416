----------------------------- MODULE EntityRemap ------------------------------
(***************************************************************************)
(* Entity ReMap (entity_remap.py): an apply replaces one entity_id by      *)
(* another in every document that refers to it.  A YAML file is rewritten  *)
(* under a lock of its path; a storage dashboard and a config-entry helper *)
(* are rewritten without one.  Several applies may run, and Home           *)
(* Assistant's own editor changes the same documents.                      *)
(*                                                                         *)
(* A document says, for each apply, how it refers to that apply's ids: by  *)
(* the old one, the new one, both or neither.  The stamp of an apply's     *)
(* backups is to the millisecond and taken as its own.                     *)
(***************************************************************************)
EXTENDS FiniteSets, Naturals

CONSTANTS
  Applies,         \* ha_soc/entity_remap/apply requests
  Yaml,            \* automations.yaml and scripts.yaml
  Scenes,          \* scenes.yaml
  Stored,          \* storage dashboards and helpers
  MaxEdits         \* bound: edits made outside HA SOC

Documents == Yaml \cup Scenes \cup Stored

ASSUME RemapAssumption ==
  /\ Yaml \cap Scenes = {} /\ (Yaml \cup Scenes) \cap Stored = {}
  /\ MaxEdits \in Nat

VARIABLES
  erDoc,         \* what each document refers to
  erTainted,     \* documents with !include or !secret
  erLock,        \* the apply that holds the lock of a document, as a set
  erApply,       \* what each apply is at
  erBackup,      \* the backups each apply made, as a set of at most one
  erWrote,       \* documents each apply wrote
  erEdited,      \* documents edited outside HA SOC since an apply read them
  erEdits        \* edits made so far

erFiles == <<erDoc, erTainted>>
erVars == <<erFiles, erLock, erApply, erBackup, erWrote, erEdited, erEdits>>

Reference == {"none", "old", "new", "both"}
Content == [Applies -> Reference]
Blank == [a \in Applies |-> "none"]
NoApply == [pc |-> "idle", todo |-> {}, doc |-> {}, read |-> Blank, fixed |-> {}, errors |-> {}]

ErTypeOK ==
  /\ erDoc \in [Documents -> Content] /\ erTainted \subseteq Documents \ Stored
  /\ \A d \in Documents : erLock[d] \subseteq Applies /\ Cardinality(erLock[d]) <= 1
  /\ \A a \in Applies :
       /\ erApply[a].pc \in {"idle", "scan", "next", "read", "backup", "done"}
       /\ Cardinality(erApply[a].doc) <= 1 /\ erApply[a].read \in Content
       /\ erApply[a].fixed \cap erApply[a].errors = {}
       /\ \A d \in Documents : Cardinality(erBackup[a][d]) <= 1
  /\ erEdits \in 0 .. MaxEdits

ErInit ==
  /\ erDoc \in [Documents -> [Applies -> {"old", "both"}]]
  /\ erTainted \in SUBSET (Documents \ Stored)
  /\ erLock = [d \in Documents |-> {}]
  /\ erApply = [a \in Applies |-> NoApply]
  /\ erBackup = [a \in Applies |-> [d \in Documents |-> {}]]
  /\ erWrote = [a \in Applies |-> {}]
  /\ erEdited = {} /\ erEdits = 0

-----------------------------------------------------------------------------

\* The owner acknowledged the backup; an apply without it does nothing.
ApplyBegins(a) ==
  /\ erApply[a].pc = "idle"
  /\ erApply' = [erApply EXCEPT ![a].pc = "scan"]
  /\ UNCHANGED <<erFiles, erLock, erBackup, erWrote, erEdited, erEdits>>

\* async_find_references.
Editable(a) == {d \in Documents \ erTainted : erDoc[d][a] \in {"old", "both"}}

Scanned(a) ==
  /\ erApply[a].pc = "scan"
  /\ erApply' = [erApply EXCEPT ![a] = [NoApply EXCEPT !.pc = "next", !.todo = Editable(a)]]
  /\ UNCHANGED <<erFiles, erLock, erBackup, erWrote, erEdited, erEdits>>

LockFor_Nobody(a, d) == TRUE

LockFor(a, d) == d \in Stored \/ erLock[d] = {}

\* The lock is taken and the document read.
DocumentRead(a, d) ==
  /\ erApply[a].pc = "next" /\ d \in erApply[a].todo
  /\ LockFor(a, d)
  /\ erLock' = IF d \in Stored THEN erLock ELSE [erLock EXCEPT ![d] = {a}]
  /\ erApply' = [erApply EXCEPT ![a].pc = "read", ![a].doc = {d}, ![a].todo = @ \ {d},
                                ![a].read = erDoc[d]]
  /\ erEdited' = erEdited \ {<<a, d>>}
  /\ UNCHANGED <<erFiles, erBackup, erWrote, erEdits>>

ItemUnlocked_OnSuccess(a, d, ok) ==
  IF ok THEN [erLock EXCEPT ![d] = @ \ {a}] ELSE erLock

\* async with releases the lock whichever way the item ends.
ItemUnlocked(a, d, ok) == [erLock EXCEPT ![d] = @ \ {a}]

\* One item is over: fixed, nothing to do, or an error that does not stop the
\* rest.
ItemOver(a, d, fixed, errors) ==
  /\ erLock' = ItemUnlocked(a, d, errors = {})
  /\ erApply' = [erApply EXCEPT ![a].pc = "next", ![a].doc = {},
                                ![a].fixed = @ \cup fixed, ![a].errors = @ \cup errors]

Refuses(a, d) ==
  \/ d \in erTainted
  \/ d \in Scenes /\ erApply[a].read[a] = "both"

HasOld(a) == erApply[a].read[a] \in {"old", "both"}

NothingToFix(a, d) ==
  /\ erApply[a].pc = "read" /\ d \in erApply[a].doc
  /\ ~Refuses(a, d) /\ ~HasOld(a)
  /\ ItemOver(a, d, {}, {})
  /\ UNCHANGED <<erFiles, erBackup, erWrote, erEdited, erEdits>>

\* The file has become tainted, the scene already has the new id, or the
\* entry is gone from the file.
ItemRefused(a, d) ==
  /\ erApply[a].pc = "read" /\ d \in erApply[a].doc
  /\ Refuses(a, d)
  /\ ItemOver(a, d, {}, {d})
  /\ UNCHANGED <<erFiles, erBackup, erWrote, erEdited, erEdits>>

BackupCopy(a, d) == IF d \in Stored THEN erApply[a].read ELSE erDoc[d]

BackupFailed_Ignored(a, d) ==
  /\ erApply' = [erApply EXCEPT ![a].pc = "backup"]
  /\ UNCHANGED <<erLock, erBackup>>

\* A backup that cannot be made ends the item before anything is written.
BackupFailed(a, d) == ItemOver(a, d, {}, {d}) /\ UNCHANGED erBackup

\* The pre-rewrite state is copied aside, a YAML file once per apply: the file
\* as it is now, a dashboard or helper as it was read.
BackedUp(a, d) ==
  /\ erApply[a].pc = "read" /\ d \in erApply[a].doc
  /\ ~Refuses(a, d) /\ HasOld(a)
  /\ \/ /\ erBackup' = [erBackup EXCEPT ![a][d] = IF @ = {} THEN {BackupCopy(a, d)} ELSE @]
        /\ erApply' = [erApply EXCEPT ![a].pc = "backup"]
        /\ erLock' = erLock
     \/ BackupFailed(a, d)
  /\ UNCHANGED <<erFiles, erWrote, erEdited, erEdits>>

\* The whole document, as it was read, with the reference replaced.
Written(a, d) ==
  /\ erApply[a].pc = "backup" /\ d \in erApply[a].doc
  /\ \/ /\ erDoc' = [erDoc EXCEPT ![d] = [erApply[a].read EXCEPT ![a] = "new"]]
        /\ erTainted' = erTainted \ {d}
        /\ erWrote' = [erWrote EXCEPT ![a] = @ \cup {d}]
        /\ ItemOver(a, d, {d}, {})
     \/ UNCHANGED <<erFiles, erWrote>> /\ ItemOver(a, d, {}, {d})
  /\ UNCHANGED <<erBackup, erEdited, erEdits>>

ApplyEnds(a) ==
  /\ erApply[a].pc = "next" /\ erApply[a].todo = {}
  /\ erApply' = [erApply EXCEPT ![a].pc = "done"]
  /\ UNCHANGED <<erFiles, erLock, erBackup, erWrote, erEdited, erEdits>>

\* Home Assistant's editor, or a text editor, changes a document.
EditedOutside(d) ==
  /\ erEdits < MaxEdits /\ erEdits' = erEdits + 1
  /\ \/ \E a \in Applies, r \in Reference : erDoc' = [erDoc EXCEPT ![d][a] = r] /\ UNCHANGED erTainted
     \/ d \notin Stored /\ erTainted' = erTainted \cup {d} /\ UNCHANGED erDoc
  /\ erEdited' = erEdited \cup (Applies \X {d})
  /\ UNCHANGED <<erLock, erApply, erBackup, erWrote>>

ApplyStep(a) ==
  \/ Scanned(a) \/ ApplyEnds(a)
  \/ \E d \in Documents : \/ DocumentRead(a, d) \/ NothingToFix(a, d) \/ ItemRefused(a, d)
                          \/ BackedUp(a, d) \/ Written(a, d)

ErNext ==
  \/ \E a \in Applies : ApplyBegins(a) \/ ApplyStep(a)
  \/ \E d \in Documents : EditedOutside(d)

ErSpec == ErInit /\ [][ErNext]_erVars

-----------------------------------------------------------------------------
(* Properties.                                                             *)

\* A YAML file reported as fixed keeps the new id, however applies interleave,
\* until someone edits it outside HA SOC.
FixedStaysFixed ==
  \A a \in Applies, d \in Yaml \cup Scenes :
    d \in erApply[a].fixed /\ <<a, d>> \notin erEdited => erDoc[d][a] \in {"new", "none"}

\* Whatever an apply wrote, it can be undone from that apply's own backup:
\* the backup still has the old reference.
BackupHasOld ==
  \A a \in Applies : \A d \in erWrote[a] :
    \E c \in erBackup[a][d] : c[a] \in {"old", "both"} \/ <<a, d>> \in erEdited

\* An apply that has begun ends, whatever fails on its way.
AppliesEnd == \A a \in Applies : (erApply[a].pc = "scan") ~> (erApply[a].pc = "done")
=============================================================================
