---------------------------- MODULE DashboardFiles ----------------------------
(***************************************************************************)
(* Editing one YAML file of <config>/dashboards through the panel          *)
(* (dashboard_files.py and the ha_soc/dashboards commands).  A write       *)
(* presents the digest of the text its author read, is checked and backed  *)
(* up under a lock of the file, and replaces the file atomically.  Others  *)
(* write the file without the lock: a text editor on the host, or Home     *)
(* Assistant.                                                              *)
(*                                                                         *)
(* Every text is new: it is its author and a number, and stands for its    *)
(* own digest.  A backup is named by the second it was made in.  Which     *)
(* paths are allowed is left out: the path is one that passes.             *)
(***************************************************************************)
EXTENDS Naturals, FiniteSets

CONSTANTS
  Operators,       \* panels that edit the file
  Host,            \* the writer outside HA SOC
  MaxTexts,        \* bound: texts written
  MaxSeconds,      \* bound: the clock
  MaxKills       \* bound: restarts of Home Assistant

ASSUME DashboardAssumption ==
  Host \notin Operators /\ MaxTexts \in Nat /\ MaxSeconds \in Nat /\ MaxKills \in Nat

VARIABLES
  dfFile,        \* the text in the file
  dfEdit,        \* each operator's editor and the write it has under way
  dfLock,        \* who holds the file's lock, as a set
  dfBackup,      \* the backup of each second, as a set of at most one text
  dfSecond,      \* the clock
  dfReplaced,    \* [text, seen, at]: what HA SOC replaced, what its author had read, which backup
  dfEnabled,     \* dashboard_edit_enabled
  dfTexts,       \* texts written so far
  dfKills      \* restarts so far

dfDisk == <<dfFile, dfBackup, dfReplaced>>
dfWorld == <<dfSecond, dfEnabled, dfTexts, dfKills>>
dfVars == <<dfDisk, dfEdit, dfLock, dfWorld>>

Text == (Operators \cup {Host}) \X (0 .. MaxTexts)
Original == <<Host, 0>>
NoEdit == [pc |-> "idle", seen |-> Original, read |-> FALSE, found |-> Original, stamp |-> 0]

DfTypeOK ==
  /\ dfFile \in Text
  /\ \A e \in Operators : /\ dfEdit[e].pc \in {"idle", "wait", "read", "valid", "backup", "done"}
                          /\ dfEdit[e].seen \in Text /\ dfEdit[e].found \in Text
  /\ dfLock \subseteq Operators /\ Cardinality(dfLock) <= 1
  /\ \A s \in 0 .. MaxSeconds : dfBackup[s] \subseteq Text /\ Cardinality(dfBackup[s]) <= 1
  /\ dfReplaced \subseteq [text : Text, seen : Text, at : 0 .. MaxSeconds]
  /\ dfEnabled \in BOOLEAN
  /\ dfSecond \in 0 .. MaxSeconds /\ dfTexts \in 0 .. MaxTexts

DfInit ==
  /\ dfFile = Original
  /\ dfEdit = [e \in Operators |-> NoEdit]
  /\ dfLock = {}
  /\ dfBackup = [s \in 0 .. MaxSeconds |-> {}]
  /\ dfSecond = 0 /\ dfReplaced = {}
  /\ dfEnabled = TRUE /\ dfTexts = 0 /\ dfKills = 0

-----------------------------------------------------------------------------

\* The owner's switch; an entry that is not loaded reads as off too.
SettingChanges ==
  /\ dfEnabled' = ~dfEnabled
  /\ UNCHANGED <<dfDisk, dfEdit, dfLock, dfSecond, dfTexts, dfKills>>

\* ws_dashboards_read.
EditorReads(e) ==
  /\ dfEnabled /\ dfEdit[e].pc = "idle"
  /\ dfEdit' = [dfEdit EXCEPT ![e] = [NoEdit EXCEPT !.seen = dfFile, !.read = TRUE]]
  /\ UNCHANGED <<dfDisk, dfLock, dfWorld>>

\* ws_dashboards_write, with the digest of the text the editor was given.
WriteAsked(e) ==
  /\ dfEnabled /\ dfEdit[e].pc = "idle" /\ dfEdit[e].read
  /\ dfEdit' = [dfEdit EXCEPT ![e].pc = "wait"]
  /\ UNCHANGED <<dfDisk, dfLock, dfWorld>>

LockFree_Always(e) == TRUE

LockFree(e) == dfLock = {}

WriteRefused(e) ==
  /\ dfEdit' = [dfEdit EXCEPT ![e] = [@ EXCEPT !.pc = "idle"]]
  /\ dfLock' = dfLock \ {e}
  /\ UNCHANGED <<dfDisk, dfWorld>>

\* _async_write_locked reads the file first: a digest that is not the one
\* presented is a conflict.
LockedRead(e) ==
  /\ dfEdit[e].pc = "wait" /\ LockFree(e)
  /\ dfFile = dfEdit[e].seen
  /\ dfLock' = {e}
  /\ dfEdit' = [dfEdit EXCEPT ![e].pc = "read", ![e].found = dfFile]
  /\ UNCHANGED <<dfDisk, dfWorld>>

Conflict(e) ==
  /\ dfEdit[e].pc = "wait" /\ LockFree(e)
  /\ dfFile # dfEdit[e].seen
  /\ WriteRefused(e)

\* async_validate finds the draft in order, or refuses it.
Validated(e) ==
  /\ dfEdit[e].pc = "read"
  /\ \/ dfEdit' = [dfEdit EXCEPT ![e].pc = "valid"] /\ UNCHANGED <<dfDisk, dfLock, dfWorld>>
     \/ WriteRefused(e)

\* The text read under the lock goes to the backup.  _backup_sync opens the name of this second with O_TRUNC; when it fails
\* nothing is replaced.
BackupMade(e) ==
  /\ dfEdit[e].pc = "valid"
  /\ \/ /\ dfBackup' = [dfBackup EXCEPT ![dfSecond] = {dfEdit[e].found}]
        /\ dfEdit' = [dfEdit EXCEPT ![e].pc = "backup", ![e].stamp = dfSecond]
        /\ UNCHANGED <<dfFile, dfReplaced, dfLock, dfWorld>>
     \/ WriteRefused(e)

MayReplace_Unbacked(e) == dfEdit[e].pc \in {"valid", "backup"}

MayReplace(e) == dfEdit[e].pc = "backup"

\* _write_sync: os.replace puts the draft in place of whatever is there, or
\* leaves the file as it was.
FileReplaced(e) ==
  /\ MayReplace(e)
  /\ \/ /\ dfTexts < MaxTexts
        /\ dfFile' = <<e, dfTexts + 1>>
        /\ dfTexts' = dfTexts + 1
        /\ dfReplaced' = dfReplaced \cup
             {[text |-> dfFile, seen |-> dfEdit[e].seen, at |-> dfEdit[e].stamp]}
        /\ dfEdit' = [dfEdit EXCEPT ![e] = [@ EXCEPT !.pc = "done", !.found = dfFile']]
        /\ UNCHANGED <<dfBackup, dfLock, dfSecond, dfEnabled, dfKills>>
     \/ WriteRefused(e)

\* The old backups are pruned, the lock is released and the handler audits the
\* write; the editor goes on with its own text.
WriteEnds(e) ==
  /\ dfEdit[e].pc = "done"
  /\ dfLock' = dfLock \ {e}
  /\ dfEdit' = [dfEdit EXCEPT ![e] = [NoEdit EXCEPT !.seen = dfEdit[e].found, !.read = TRUE]]
  /\ UNCHANGED <<dfDisk, dfWorld>>

-----------------------------------------------------------------------------

\* Someone else saves the file.
HostWrites ==
  /\ dfTexts < MaxTexts
  /\ dfFile' = <<Host, dfTexts + 1>>
  /\ dfTexts' = dfTexts + 1
  /\ UNCHANGED <<dfBackup, dfReplaced, dfEdit, dfLock, dfSecond, dfEnabled,
                 dfKills>>

SecondPasses ==
  /\ dfSecond < MaxSeconds
  /\ dfSecond' = dfSecond + 1
  /\ UNCHANGED <<dfDisk, dfEdit, dfLock, dfEnabled, dfTexts, dfKills>>

\* Home Assistant stops at any point of a write.
Killed ==
  /\ dfKills < MaxKills /\ dfKills' = dfKills + 1
  /\ dfEdit' = [e \in Operators |-> NoEdit] /\ dfLock' = {}
  /\ UNCHANGED <<dfDisk, dfSecond, dfEnabled, dfTexts>>

WriteStep(e) ==
  \/ LockedRead(e) \/ Conflict(e) \/ Validated(e) \/ BackupMade(e) \/ FileReplaced(e) \/ WriteEnds(e)

DfNext ==
  \/ \E e \in Operators : EditorReads(e) \/ WriteAsked(e) \/ WriteStep(e)
  \/ SettingChanges \/ HostWrites \/ SecondPasses \/ Killed

DfSpec == DfInit /\ [][DfNext]_dfVars

-----------------------------------------------------------------------------
(* Properties.                                                             *)

\* Two operators never overwrite one another: what a write replaced unread
\* was written outside HA SOC.
OperatorsNeverOverwrite == \A r \in dfReplaced : r.text # r.seen => r.text[1] = Host

\* The text a write replaced is in a backup, provided nobody saved it behind
\* the lock and no later write of the same second took the backup's name.
ReplacedIsBackedUp ==
  \A r \in dfReplaced :
    r.text = r.seen => \E t \in dfBackup[r.at] : t = r.text \/ t[2] > r.text[2]
=============================================================================
