----------------------------- MODULE UserProofs -----------------------------
(***************************************************************************)
(* The user's files and accounts.  For any number of operators, applies,   *)
(* documents and edits behind them, the dashboard editor and Entity ReMap  *)
(* write the user's documents safely; for any number of changes, starts,   *)
(* failures and crashes, the store's own files keep the syslog ring and the*)
(* secrets while these move to files of their own, and a save that says it *)
(* is done is; for any number of accounts, policy passes, commands and days*)
(* of grace, the user commands and the MFA policy keep AccessSafe; for any *)
(* number of devices, runs, keys, calls and faults, a device or a probe    *)
(* that was trusted first stays the one, until the owner or a crash takes  *)
(* the pin away.                                                           *)
(***************************************************************************)
EXTENDS UserFiles, StoreFiles, UserAccess, Identities, FiniteSetTheorems, TLAPS

(* A set of at most one element has at most that size.                     *)
LEMMA AtMostOne ==
  ASSUME NEW S, S = {} \/ \E x : S = {x}
  PROVE  Cardinality(S) <= 1
<1>1. CASE S = {}
  BY <1>1, FS_EmptySet
<1>2. ASSUME NEW x, S = {x} PROVE Cardinality(S) <= 1
  BY <1>2, FS_Singleton
<1>. QED
  BY <1>1, <1>2

-----------------------------------------------------------------------------
(* The dashboard editor.                                                   *)

Seconds == 0 .. MaxSeconds
EditRecs == [pc : {"idle", "wait", "read", "valid", "backup", "done"}, seen : Text,
             read : BOOLEAN, found : Text, stamp : Seconds]
ReplacedRecs == [text : Text, seen : Text, at : Seconds]

DfShape ==
  /\ dfFile \in Text /\ dfEdit \in [Operators -> EditRecs]
  /\ dfBackup \in [Seconds -> SUBSET Text]
  /\ \A s \in Seconds : dfBackup[s] = {} \/ \E t \in Text : dfBackup[s] = {t}
  /\ dfReplaced \subseteq ReplacedRecs /\ dfEnabled \in BOOLEAN
  /\ dfSecond \in Seconds /\ dfTexts \in 0 .. MaxTexts
  /\ dfLock = {} \/ \E e \in Operators : dfLock = {e}

(* Past the locked read a write holds the lock.                            *)
DfLocked ==
  \A e \in Operators : dfEdit[e].pc \in {"read", "valid", "backup", "done"} => dfLock = {e}

(* The file is the newest text, and newer than all that were replaced.     *)
DfNewest == dfFile[2] = dfTexts /\ \A r \in dfReplaced : r.text[2] < dfTexts

(* Until it replaces the file, a write has found what its author read, a   *)
(* text newer than all that were replaced; and what is in the file since   *)
(* came from the host.                                                     *)
DfFound ==
  \A e \in Operators : dfEdit[e].pc \in {"read", "valid", "backup"} =>
    /\ dfEdit[e].found = dfEdit[e].seen
    /\ dfFile = dfEdit[e].seen \/ dfFile[1] = Host
    /\ \A r \in dfReplaced : r.text[2] < dfEdit[e].found[2]
    /\ dfEdit[e].pc = "backup" => dfEdit[e].found \in dfBackup[dfEdit[e].stamp]

DfInv == DfShape /\ DfLocked /\ DfNewest /\ DfFound
           /\ OperatorsNeverOverwrite /\ ReplacedIsBackedUp

LEMMA InitDf == DfInit => DfInv
<1> SUFFICES ASSUME DfInit PROVE DfInv
  OBVIOUS
<1> USE DashboardAssumption DEF DfInit
<1>1. Original \in Text /\ Original[2] = 0
  BY DEF Original, Text
<1>2. NoEdit \in EditRecs /\ NoEdit.pc = "idle"
  BY <1>1 DEF NoEdit, EditRecs, Seconds
<1>3. \A e \in Operators : dfEdit[e].pc = "idle"
  BY <1>2
<1>4. dfEnabled \in BOOLEAN
  BY Zenon
<1>5. DfShape
  BY <1>1, <1>2, <1>4 DEF DfShape, Seconds
<1>6. DfLocked /\ DfFound
  BY <1>3 DEF DfLocked, DfFound
<1>7. DfNewest /\ OperatorsNeverOverwrite /\ ReplacedIsBackedUp
  BY <1>1 DEF DfNewest, OperatorsNeverOverwrite, ReplacedIsBackedUp
<1>. QED
  BY <1>5, <1>6, <1>7 DEF DfInv

(* A step that changes one editor, and on the disk nothing.                *)
LEMMA EditorMoves ==
  ASSUME DfInv, NEW e \in Operators, NEW r \in EditRecs,
         dfEdit' = [dfEdit EXCEPT ![e] = r], UNCHANGED <<dfDisk, dfWorld>>,
         dfLock' = {} \/ dfLock' = {e} \/ dfLock' = dfLock,
         dfLock' # dfLock => dfLock = {} \/ dfLock = {e},
         r.pc \in {"read", "valid", "backup", "done"} => dfLock' = {e},
         r.pc \in {"read", "valid", "backup"} =>
           /\ r.found = r.seen
           /\ dfFile = r.seen \/ dfFile[1] = Host
           /\ \A x \in dfReplaced : x.text[2] < r.found[2],
         r.pc # "backup"
  PROVE  DfInv'
<1>1. dfEdit \in [Operators -> EditRecs]
  BY DEF DfInv, DfShape
<1>2. dfEdit'[e] = r /\ \A f \in Operators : f # e => dfEdit'[f] = dfEdit[f]
  BY <1>1
<1>3. UNCHANGED <<dfFile, dfBackup, dfReplaced, dfSecond, dfEnabled, dfTexts, dfKills>>
  BY DEF dfDisk, dfWorld
<1>4. DfShape'
  <2>1. dfEdit' \in [Operators -> EditRecs]
    BY <1>1
  <2>2. dfLock' = {} \/ \E f \in Operators : dfLock' = {f}
    BY DEF DfInv, DfShape
  <2>. QED
    BY <1>3, <2>1, <2>2 DEF DfInv, DfShape
<1>5. DfLocked'
  <2>1. ASSUME NEW f \in Operators, f # e,
               dfEdit[f].pc \in {"read", "valid", "backup", "done"}
        PROVE  dfLock' = {f}
    <3>1. dfLock = {f}
      BY <2>1 DEF DfInv, DfLocked
    <3>2. dfLock # {} /\ dfLock # {e}
      BY <2>1, <3>1
    <3>. QED
      BY <3>1, <3>2
  <2>. QED
    BY <1>2, <2>1 DEF DfLocked
<1>6. DfFound'
  BY <1>2, <1>3 DEF DfInv, DfFound
<1>7. DfNewest' /\ OperatorsNeverOverwrite' /\ ReplacedIsBackedUp'
  BY <1>3 DEF DfInv, DfNewest, OperatorsNeverOverwrite, ReplacedIsBackedUp
<1>. QED
  BY <1>4, <1>5, <1>6, <1>7 DEF DfInv

(* A write that is refused leaves everything as it was.                    *)
LEMMA RefusedKeeps ==
  ASSUME DfInv, NEW e \in Operators, WriteRefused(e), dfLock = {} \/ dfLock = {e}
  PROVE  DfInv'
<1>1. dfEdit[e] \in EditRecs
  BY DEF DfInv, DfShape
<1>2. PICK r : r = [dfEdit[e] EXCEPT !.pc = "idle"]
  OBVIOUS
<1>3. r \in EditRecs /\ r.pc = "idle"
  BY <1>1, <1>2 DEF EditRecs
<1>4. dfEdit' = [dfEdit EXCEPT ![e] = r] /\ UNCHANGED <<dfDisk, dfWorld>>
  BY <1>2 DEF WriteRefused
<1>5. dfLock' = {}
  BY DEF WriteRefused
<1>. QED
  BY <1>3, <1>4, <1>5, EditorMoves

(* The steps up to the backup.                                             *)
LEMMA EditorKeeps ==
  ASSUME DfInv, NEW e \in Operators,
         \/ EditorReads(e) \/ WriteAsked(e) \/ LockedRead(e) \/ Conflict(e) \/ Validated(e)
         \/ WriteEnds(e)
  PROVE  DfInv'
<1>0. dfEdit \in [Operators -> EditRecs] /\ dfEdit[e] \in EditRecs /\ dfFile \in Text
  BY DEF DfInv, DfShape
<1>1. Original \in Text /\ 0 \in Seconds
  BY DashboardAssumption DEF Original, Text, Seconds
<1>2. ASSUME NEW t \in Text
      PROVE  /\ [NoEdit EXCEPT !.seen = t, !.read = TRUE] \in EditRecs
             /\ [NoEdit EXCEPT !.seen = t, !.read = TRUE].pc = "idle"
  BY <1>1 DEF NoEdit, EditRecs
<1>3. CASE EditorReads(e)
  <2>1. /\ dfEdit' = [dfEdit EXCEPT ![e] = [NoEdit EXCEPT !.seen = dfFile, !.read = TRUE]]
        /\ UNCHANGED <<dfDisk, dfWorld>> /\ dfLock' = dfLock
    BY <1>3 DEF EditorReads
  <2>2. PICK r : r = [NoEdit EXCEPT !.seen = dfFile, !.read = TRUE]
    OBVIOUS
  <2>3. r \in EditRecs /\ r.pc = "idle" /\ dfEdit' = [dfEdit EXCEPT ![e] = r]
    BY <1>0, <1>2, <2>1, <2>2
  <2>. QED
    BY <2>1, <2>3, EditorMoves
<1>4. CASE WriteAsked(e)
  <2>1. PICK r : r = [dfEdit[e] EXCEPT !.pc = "wait"]
    OBVIOUS
  <2>2. r \in EditRecs /\ r.pc = "wait"
    BY <1>0, <2>1 DEF EditRecs
  <2>3. dfEdit' = [dfEdit EXCEPT ![e] = r] /\ UNCHANGED <<dfDisk, dfWorld>> /\ dfLock' = dfLock
    BY <1>4, <2>1 DEF WriteAsked
  <2>. QED
    BY <2>2, <2>3, EditorMoves
<1>5. CASE LockedRead(e)
  <2>1. PICK r : r = [dfEdit[e] EXCEPT !.pc = "read", !.found = dfFile]
    OBVIOUS
  <2>2. dfFile = dfEdit[e].seen /\ dfLock = {} /\ dfLock' = {e} /\ UNCHANGED <<dfDisk, dfWorld>>
    BY <1>5 DEF LockedRead, LockFree
  <2>3. r \in EditRecs /\ r.pc = "read" /\ r.found = dfFile /\ r.seen = dfFile
    BY <1>0, <2>1, <2>2 DEF EditRecs
  <2>4. dfEdit' = [dfEdit EXCEPT ![e] = r]
    BY <1>0, <1>5, <2>1 DEF LockedRead, EditRecs
  <2>5. \A x \in dfReplaced : x.text[2] < r.found[2]
    BY <2>3 DEF DfInv, DfNewest
  <2>. QED
    BY <2>2, <2>3, <2>4, <2>5, EditorMoves
<1>6. CASE Conflict(e)
  BY <1>6, RefusedKeeps DEF Conflict, LockFree
<1>7. CASE Validated(e)
  <2>1. dfEdit[e].pc = "read" /\ dfLock = {e}
    BY <1>7 DEF Validated, DfInv, DfLocked
  <2>2. CASE WriteRefused(e)
    BY <2>1, <2>2, RefusedKeeps
  <2>3. CASE dfEdit' = [dfEdit EXCEPT ![e].pc = "valid"] /\ UNCHANGED <<dfDisk, dfLock, dfWorld>>
    <3>1. PICK r : r = [dfEdit[e] EXCEPT !.pc = "valid"]
      OBVIOUS
    <3>2. r \in EditRecs /\ r.pc = "valid" /\ r.found = dfEdit[e].found /\ r.seen = dfEdit[e].seen
      BY <1>0, <3>1 DEF EditRecs
    <3>3. dfEdit' = [dfEdit EXCEPT ![e] = r] /\ UNCHANGED <<dfDisk, dfWorld>> /\ dfLock' = dfLock
      BY <2>3, <3>1
    <3>4. /\ r.found = r.seen
          /\ dfFile = r.seen \/ dfFile[1] = Host
          /\ \A x \in dfReplaced : x.text[2] < r.found[2]
      BY <2>1, <3>2 DEF DfInv, DfFound
    <3>. QED
      BY <2>1, <3>2, <3>3, <3>4, EditorMoves
  <2>. QED
    BY <1>7, <2>2, <2>3 DEF Validated
<1>8. CASE WriteEnds(e)
  <2>1. dfEdit[e].pc = "done" /\ dfLock = {e} /\ dfEdit[e].found \in Text
    BY <1>0, <1>8 DEF WriteEnds, DfInv, DfLocked, EditRecs
  <2>2. PICK r : r = [NoEdit EXCEPT !.seen = dfEdit[e].found, !.read = TRUE]
    OBVIOUS
  <2>3. r \in EditRecs /\ r.pc = "idle"
    BY <1>2, <2>1, <2>2
  <2>4. /\ dfEdit' = [dfEdit EXCEPT ![e] = r]
        /\ UNCHANGED <<dfDisk, dfWorld>> /\ dfLock' = dfLock \ {e}
    BY <1>8, <2>2 DEF WriteEnds
  <2>5. dfLock' = {}
    BY <2>1, <2>4
  <2>. QED
    BY <2>1, <2>3, <2>4, <2>5, EditorMoves
<1>. QED
  BY <1>3, <1>4, <1>5, <1>6, <1>7, <1>8

(* A backup may take the name of an earlier one of the same second, whose  *)
(* text is then older than its own.                                        *)
LEMMA BackupKeeps ==
  ASSUME DfInv, NEW e \in Operators, BackupMade(e)
  PROVE  DfInv'
<1>0. /\ dfEdit \in [Operators -> EditRecs] /\ dfEdit[e] \in EditRecs
      /\ dfBackup \in [Seconds -> SUBSET Text] /\ dfSecond \in Seconds
  BY DEF DfInv, DfShape
<1>1. dfEdit[e].pc = "valid" /\ dfLock = {e} /\ dfEdit[e].found \in Text
  BY <1>0 DEF BackupMade, DfInv, DfLocked, EditRecs
<1>2. CASE WriteRefused(e)
  BY <1>1, <1>2, RefusedKeeps
<1>3. CASE ~WriteRefused(e)
  <2>1. /\ dfBackup' = [dfBackup EXCEPT ![dfSecond] = {dfEdit[e].found}]
        /\ dfEdit' = [dfEdit EXCEPT ![e].pc = "backup", ![e].stamp = dfSecond]
        /\ UNCHANGED <<dfFile, dfReplaced, dfLock, dfWorld>>
    BY <1>3 DEF BackupMade
  <2>2. PICK r : r = [dfEdit[e] EXCEPT !.pc = "backup", !.stamp = dfSecond]
    OBVIOUS
  <2>3. /\ r \in EditRecs /\ r.pc = "backup" /\ r.stamp = dfSecond
        /\ r.found = dfEdit[e].found /\ r.seen = dfEdit[e].seen
    BY <1>0, <2>2 DEF EditRecs
  <2>4. dfEdit' = [dfEdit EXCEPT ![e] = r]
    BY <1>0, <2>1, <2>2 DEF EditRecs
  <2>5. dfEdit'[e] = r /\ \A f \in Operators : f # e => dfEdit'[f] = dfEdit[f]
    BY <1>0, <2>4
  <2>6. UNCHANGED <<dfFile, dfReplaced, dfLock, dfSecond, dfEnabled, dfTexts>>
    BY <2>1 DEF dfWorld
  <2>7. /\ dfBackup'[dfSecond] = {dfEdit[e].found}
        /\ \A s \in Seconds : s # dfSecond => dfBackup'[s] = dfBackup[s]
        /\ dfBackup' \in [Seconds -> SUBSET Text]
    BY <1>0, <1>1, <2>1
  <2>8. DfShape'
    <3>1. dfEdit' \in [Operators -> EditRecs]
      BY <1>0, <2>3, <2>4
    <3>2. \A s \in Seconds : dfBackup'[s] = {} \/ \E t \in Text : dfBackup'[s] = {t}
      BY <1>1, <2>7 DEF DfInv, DfShape
    <3>. QED
      BY <2>6, <2>7, <3>1, <3>2 DEF DfInv, DfShape
  <2>9. DfLocked' /\ DfNewest' /\ OperatorsNeverOverwrite'
    BY <1>1, <2>5, <2>6 DEF DfInv, DfLocked, DfNewest, OperatorsNeverOverwrite
  <2>10. \A f \in Operators : f # e => dfEdit[f].pc \notin {"read", "valid", "backup", "done"}
    BY <1>1 DEF DfInv, DfLocked
  <2>11. /\ dfEdit[e].found = dfEdit[e].seen
         /\ dfFile = dfEdit[e].seen \/ dfFile[1] = Host
         /\ \A x \in dfReplaced : x.text[2] < dfEdit[e].found[2]
    BY <1>1 DEF DfInv, DfFound
  <2>12. DfFound'
    BY <2>3, <2>5, <2>6, <2>7, <2>10, <2>11 DEF DfFound
  <2>13. ReplacedIsBackedUp'
    <3>1. ASSUME NEW x \in dfReplaced, x.text = x.seen
          PROVE  \E t \in dfBackup'[x.at] : t = x.text \/ t[2] > x.text[2]
      <4>1. x.at \in Seconds /\ x.text \in Text
        BY DEF DfInv, DfShape, ReplacedRecs
      <4>2. CASE x.at = dfSecond
        <5>1. dfEdit[e].found[2] > x.text[2]
          <6>1. x.text[2] < dfEdit[e].found[2] /\ x.text[2] \in Nat /\ dfEdit[e].found[2] \in Nat
            BY <1>1, <2>11, <4>1 DEF Text
          <6>. QED
            BY <6>1
        <5>. QED
          BY <2>7, <4>2, <5>1
      <4>3. CASE x.at # dfSecond
        BY <2>7, <3>1, <4>1, <4>3 DEF DfInv, ReplacedIsBackedUp
      <4>. QED
        BY <4>2, <4>3
    <3>. QED
      BY <2>6, <3>1 DEF ReplacedIsBackedUp
  <2>. QED
    BY <2>8, <2>9, <2>12, <2>13 DEF DfInv
<1>. QED
  BY <1>2, <1>3

(* The replacement itself: what it replaces is what was found, or the      *)
(* host's.                                                                 *)
LEMMA ReplaceKeeps ==
  ASSUME DfInv, NEW e \in Operators, FileReplaced(e)
  PROVE  DfInv'
<1>0. /\ dfEdit \in [Operators -> EditRecs] /\ dfEdit[e] \in EditRecs
      /\ dfFile \in Text /\ dfTexts \in 0 .. MaxTexts /\ dfReplaced \subseteq ReplacedRecs
  BY DEF DfInv, DfShape
<1>1. dfEdit[e].pc = "backup" /\ dfLock = {e}
  BY DEF FileReplaced, MayReplace, DfInv, DfLocked
<1>2. CASE WriteRefused(e)
  BY <1>1, <1>2, RefusedKeeps
<1>3. CASE ~WriteRefused(e)
  <2>1. PICK new : new = [text |-> dfFile, seen |-> dfEdit[e].seen, at |-> dfEdit[e].stamp]
    OBVIOUS
  <2>2. PICK t : t = <<e, dfTexts + 1>>
    OBVIOUS
  <2>3. /\ dfTexts < MaxTexts /\ dfFile' = t /\ dfTexts' = dfTexts + 1
        /\ dfReplaced' = dfReplaced \cup {new}
        /\ dfEdit' = [dfEdit EXCEPT ![e] = [dfEdit[e] EXCEPT !.pc = "done", !.found = dfFile']]
        /\ UNCHANGED <<dfBackup, dfLock, dfSecond, dfEnabled, dfKills>>
    BY <1>3, <2>1, <2>2 DEF FileReplaced
  <2>4. t \in Text /\ t[2] = dfTexts + 1 /\ dfTexts + 1 \in 0 .. MaxTexts
    BY <1>0, <2>2, <2>3, DashboardAssumption DEF Text
  <2>5. PICK r : r = [dfEdit[e] EXCEPT !.pc = "done", !.found = t]
    OBVIOUS
  <2>6. r \in EditRecs /\ r.pc = "done"
    BY <1>0, <2>4, <2>5 DEF EditRecs
  <2>7. dfEdit' = [dfEdit EXCEPT ![e] = r]
    BY <2>3, <2>5
  <2>8. dfEdit'[e] = r /\ \A f \in Operators : f # e => dfEdit'[f] = dfEdit[f]
    BY <1>0, <2>7
  <2>9. new \in ReplacedRecs /\ new.text = dfFile /\ new.seen = dfEdit[e].seen
          /\ new.at = dfEdit[e].stamp
    BY <1>0, <2>1 DEF ReplacedRecs, EditRecs
  <2>10. \A f \in Operators : f # e => dfEdit[f].pc \notin {"read", "valid", "backup", "done"}
    BY <1>1 DEF DfInv, DfLocked
  <2>11. /\ dfEdit[e].found = dfEdit[e].seen
         /\ dfFile = dfEdit[e].seen \/ dfFile[1] = Host
         /\ dfEdit[e].found \in dfBackup[dfEdit[e].stamp]
    BY <1>1 DEF DfInv, DfFound
  <2>12. DfShape'
    <3>1. dfEdit' \in [Operators -> EditRecs]
      BY <1>0, <2>6, <2>7
    <3>. QED
      BY <1>0, <2>3, <2>4, <2>9, <3>1 DEF DfInv, DfShape
  <2>13. DfLocked'
    BY <1>1, <2>3, <2>8, <2>10 DEF DfLocked
  <2>14. DfFound'
    BY <2>6, <2>8, <2>10 DEF DfFound
  <2>15. DfNewest'
    <3>1. \A x \in dfReplaced : x.text[2] < dfTexts /\ x.text[2] \in Nat
      BY <1>0 DEF DfInv, DfNewest, ReplacedRecs, Text
    <3>2. new.text[2] = dfTexts /\ dfTexts \in Nat
      BY <1>0, <2>9 DEF DfInv, DfNewest
    <3>3. \A x \in dfReplaced \cup {new} : x.text[2] < dfTexts + 1
      BY <3>1, <3>2
    <3>. QED
      BY <2>3, <2>4, <3>3 DEF DfNewest
  <2>16. OperatorsNeverOverwrite'
    BY <2>3, <2>9, <2>11 DEF DfInv, OperatorsNeverOverwrite
  <2>17. ReplacedIsBackedUp'
    <3>1. dfBackup' = dfBackup
      BY <2>3
    <3>2. new.text = new.seen => new.text \in dfBackup[new.at]
      BY <2>9, <2>11
    <3>. QED
      BY <2>3, <3>1, <3>2 DEF DfInv, ReplacedIsBackedUp
  <2>. QED
    BY <2>12, <2>13, <2>14, <2>15, <2>16, <2>17 DEF DfInv
<1>. QED
  BY <1>2, <1>3

LEMMA NextDf == DfInv /\ [DfNext]_dfVars => DfInv'
<1> SUFFICES ASSUME DfInv, [DfNext]_dfVars PROVE DfInv'
  OBVIOUS
<1> USE DEF DfInv
<1>1. ASSUME NEW e \in Operators,
             \/ EditorReads(e) \/ WriteAsked(e) \/ WriteStep(e)
      PROVE  DfInv'
  BY <1>1, EditorKeeps, BackupKeeps, ReplaceKeeps DEF WriteStep
<1>2. ASSUME SettingChanges PROVE DfInv'
  <2>1. dfEnabled' \in BOOLEAN
    BY <1>2, Zenon DEF SettingChanges
  <2>2. UNCHANGED <<dfFile, dfBackup, dfReplaced, dfEdit, dfLock, dfSecond, dfTexts>>
    BY <1>2 DEF SettingChanges, dfDisk
  <2>. QED
    BY <2>1, <2>2 DEF DfShape, DfLocked, DfNewest, DfFound, OperatorsNeverOverwrite,
                      ReplacedIsBackedUp
<1>3. ASSUME HostWrites PROVE DfInv'
  <2>1. PICK t : t = <<Host, dfTexts + 1>>
    OBVIOUS
  <2>2. /\ dfTexts < MaxTexts /\ dfFile' = t /\ dfTexts' = dfTexts + 1
        /\ UNCHANGED <<dfBackup, dfReplaced, dfEdit, dfLock, dfSecond, dfEnabled, dfKills>>
    BY <1>3, <2>1 DEF HostWrites
  <2>3. t \in Text /\ t[2] = dfTexts + 1 /\ t[1] = Host /\ dfTexts + 1 \in 0 .. MaxTexts
    BY <2>1, <2>2, DashboardAssumption DEF DfShape, Text
  <2>4. DfShape' /\ DfLocked' /\ OperatorsNeverOverwrite' /\ ReplacedIsBackedUp'
    BY <2>2, <2>3 DEF DfShape, DfLocked, OperatorsNeverOverwrite, ReplacedIsBackedUp
  <2>5. DfFound'
    BY <2>2, <2>3 DEF DfFound
  <2>6. DfNewest'
    <3>1. \A x \in dfReplaced : x.text[2] < dfTexts /\ x.text[2] \in Nat
      BY DEF DfShape, DfNewest, ReplacedRecs, Text
    <3>2. dfTexts \in Nat
      BY DEF DfShape
    <3>. QED
      BY <2>2, <2>3, <3>1, <3>2 DEF DfNewest
  <2>. QED
    BY <2>4, <2>5, <2>6
<1>4. ASSUME SecondPasses PROVE DfInv'
  <2>1. dfSecond' \in Seconds
    BY <1>4, DashboardAssumption DEF SecondPasses, DfShape, Seconds
  <2>2. UNCHANGED <<dfFile, dfBackup, dfReplaced, dfEdit, dfLock, dfEnabled, dfTexts>>
    BY <1>4 DEF SecondPasses, dfDisk
  <2>. QED
    BY <2>1, <2>2 DEF DfShape, DfLocked, DfNewest, DfFound, OperatorsNeverOverwrite,
                      ReplacedIsBackedUp
<1>5. ASSUME Killed PROVE DfInv'
  <2>1. /\ dfEdit' = [e \in Operators |-> NoEdit] /\ dfLock' = {}
        /\ UNCHANGED <<dfFile, dfBackup, dfReplaced, dfSecond, dfEnabled, dfTexts>>
    BY <1>5 DEF Killed, dfDisk
  <2>2. NoEdit \in EditRecs /\ NoEdit.pc = "idle"
    BY DashboardAssumption DEF NoEdit, EditRecs, Original, Text, Seconds
  <2>3. DfShape'
    BY <2>1, <2>2 DEF DfShape
  <2>4. DfLocked' /\ DfFound'
    BY <2>1, <2>2 DEF DfLocked, DfFound
  <2>5. DfNewest' /\ OperatorsNeverOverwrite' /\ ReplacedIsBackedUp'
    BY <2>1 DEF DfNewest, OperatorsNeverOverwrite, ReplacedIsBackedUp
  <2>. QED
    BY <2>3, <2>4, <2>5
<1>6. CASE UNCHANGED dfVars
  BY <1>6 DEF dfVars, dfDisk, dfWorld, DfShape, DfLocked, DfNewest, DfFound,
              OperatorsNeverOverwrite, ReplacedIsBackedUp
<1>. QED
  BY <1>1, <1>2, <1>3, <1>4, <1>5, <1>6 DEF DfNext

LEMMA DfInvImplies == DfInv => DfTypeOK
<1> SUFFICES ASSUME DfInv PROVE DfTypeOK
  OBVIOUS
<1> USE DEF DfInv, DfShape, Seconds
<1>1. ASSUME NEW e \in Operators
      PROVE  /\ dfEdit[e].pc \in {"idle", "wait", "read", "valid", "backup", "done"}
             /\ dfEdit[e].seen \in Text /\ dfEdit[e].found \in Text
  BY DEF EditRecs
<1>2. Cardinality(dfLock) <= 1 /\ dfLock \subseteq Operators
  <2>1. dfLock = {} \/ \E x : dfLock = {x}
    OBVIOUS
  <2>. QED
    BY <2>1, AtMostOne
<1>3. ASSUME NEW s \in 0 .. MaxSeconds PROVE Cardinality(dfBackup[s]) <= 1
  <2>1. dfBackup[s] = {} \/ \E x : dfBackup[s] = {x}
    OBVIOUS
  <2>. QED
    BY <2>1, AtMostOne
<1>. QED
  BY <1>1, <1>2, <1>3 DEF DfTypeOK, ReplacedRecs

-----------------------------------------------------------------------------
(* Entity ReMap.                                                           *)

ApplyRecs == [pc : {"idle", "scan", "next", "read", "backup", "done"},
              todo : SUBSET Documents, doc : SUBSET Documents, read : Content,
              fixed : SUBSET Documents, errors : SUBSET Documents]
PlainFiles == Yaml \cup Scenes

ErShape ==
  /\ erDoc \in [Documents -> Content] /\ erTainted \subseteq Documents \ Stored
  /\ erLock \in [Documents -> SUBSET Applies]
  /\ \A d \in Documents : erLock[d] = {} \/ \E a \in Applies : erLock[d] = {a}
  /\ erApply \in [Applies -> ApplyRecs]
  /\ erBackup \in [Applies -> [Documents -> SUBSET Content]]
  /\ \A a \in Applies, d \in Documents :
       erBackup[a][d] = {} \/ \E c \in Content : erBackup[a][d] = {c}
  /\ erWrote \in [Applies -> SUBSET Documents]
  /\ erEdits \in 0 .. MaxEdits

(* An apply has one document in hand while it works, and each document     *)
(* once: still to do, in hand, or over.                                    *)
ErOnce ==
  \A a \in Applies :
    /\ IF erApply[a].pc \in {"read", "backup"}
       THEN \E d \in Documents : erApply[a].doc = {d}
       ELSE erApply[a].doc = {}
    /\ erApply[a].todo \cap erApply[a].doc = {}
    /\ erApply[a].todo \cap (erApply[a].fixed \cup erApply[a].errors) = {}
    /\ erApply[a].doc \cap (erApply[a].fixed \cup erApply[a].errors) = {}
    /\ erApply[a].fixed \cap erApply[a].errors = {}

(* A document not yet backed up by an apply was not written by it.         *)
ErUntouched ==
  \A a \in Applies, d \in Documents :
    (erApply[a].pc \in {"idle", "scan"} \/ d \in erApply[a].todo
       \/ (erApply[a].pc = "read" /\ d \in erApply[a].doc))
    => erBackup[a][d] = {} /\ d \notin erWrote[a]

(* A file in hand is locked, and as it was read unless someone edited it.  *)
ErInHand ==
  \A a \in Applies, d \in PlainFiles : d \in erApply[a].doc =>
    /\ erLock[d] = {a}
    /\ <<a, d>> \in erEdited \/ erDoc[d] = erApply[a].read

(* Before it writes, an apply has its backup with the old reference.       *)
ErBackedUp ==
  \A a \in Applies, d \in Documents : erApply[a].pc = "backup" /\ d \in erApply[a].doc =>
    \E c \in erBackup[a][d] : c[a] \in {"old", "both"} \/ <<a, d>> \in erEdited

(* What is fixed in a file is fixed in every copy another apply has read.  *)
ErFixed ==
  \A a \in Applies, d \in PlainFiles : d \in erApply[a].fixed /\ <<a, d>> \notin erEdited =>
    /\ erDoc[d][a] \in {"new", "none"}
    /\ \A b \in Applies : d \in erApply[b].doc => erApply[b].read[a] \in {"new", "none"}

ErInv == ErShape /\ ErOnce /\ ErUntouched /\ ErInHand /\ ErBackedUp /\ ErFixed /\ BackupHasOld

LEMMA InitEr == ErInit => ErInv
<1> SUFFICES ASSUME ErInit PROVE ErInv
  OBVIOUS
<1> USE RemapAssumption DEF ErInit
<1>1. Blank \in Content
  BY DEF Blank, Content, Reference
<1>2. /\ NoApply \in ApplyRecs /\ NoApply.pc = "idle" /\ NoApply.todo = {} /\ NoApply.doc = {}
      /\ NoApply.fixed = {} /\ NoApply.errors = {}
  BY <1>1 DEF NoApply, ApplyRecs
<1>3. \A a \in Applies : erApply[a] = NoApply /\ erWrote[a] = {}
  OBVIOUS
<1>4. \A a \in Applies, d \in Documents : erBackup[a][d] = {}
  OBVIOUS
<1>5. ErShape
  <2>1. erDoc \in [Documents -> Content]
    BY DEF Content, Reference
  <2>. QED
    BY <1>2, <1>4, <2>1 DEF ErShape
<1>6. ErOnce /\ ErInHand /\ ErBackedUp /\ ErFixed
  BY <1>2, <1>3 DEF ErOnce, ErInHand, ErBackedUp, ErFixed
<1>7. ErUntouched /\ BackupHasOld
  BY <1>3, <1>4 DEF ErUntouched, BackupHasOld
<1>. QED
  BY <1>5, <1>6, <1>7 DEF ErInv

(* A step that changes applies and locks only.                             *)
LEMMA ShapeStands ==
  ASSUME ErShape, erDoc' = erDoc, erTainted' = erTainted, erBackup' = erBackup,
         erWrote' = erWrote, erEdits' = erEdits,
         erApply' \in [Applies -> ApplyRecs], erLock' \in [Documents -> SUBSET Applies],
         \A d \in Documents : erLock'[d] = {} \/ \E a \in Applies : erLock'[d] = {a}
  PROVE  ErShape'
<1>1. /\ erDoc' \in [Documents -> Content] /\ erTainted' \subseteq Documents \ Stored
      /\ erWrote' \in [Applies -> SUBSET Documents] /\ erEdits' \in 0 .. MaxEdits
  BY DEF ErShape
<1>2. /\ erBackup' \in [Applies -> [Documents -> SUBSET Content]]
      /\ \A b \in Applies, x \in Documents :
           erBackup'[b][x] = {} \/ \E c \in Content : erBackup'[b][x] = {c}
  BY DEF ErShape
<1>. QED
  BY <1>1, <1>2 DEF ErShape

(* What the end of an item does to the apply and to the lock.              *)
LEMMA ItemRecord ==
  ASSUME ErShape, NEW a \in Applies, NEW d \in Documents, NEW F \in SUBSET {d},
         NEW E \in SUBSET {d}, ItemOver(a, d, F, E)
  PROVE  /\ erApply' \in [Applies -> ApplyRecs]
         /\ \A b \in Applies : b # a => erApply'[b] = erApply[b]
         /\ erApply'[a].pc = "next" /\ erApply'[a].doc = {}
         /\ erApply'[a].todo = erApply[a].todo /\ erApply'[a].read = erApply[a].read
         /\ erApply'[a].fixed = erApply[a].fixed \cup F
         /\ erApply'[a].errors = erApply[a].errors \cup E
         /\ erLock' \in [Documents -> SUBSET Applies]
         /\ erLock'[d] = erLock[d] \ {a}
         /\ \A x \in Documents : x # d => erLock'[x] = erLock[x]
<1>0. erApply \in [Applies -> ApplyRecs] /\ erApply[a] \in ApplyRecs
  BY DEF ErShape
<1>1. PICK r : r = [erApply[a] EXCEPT !.pc = "next", !.doc = {}, !.fixed = @ \cup F,
                                      !.errors = @ \cup E]
  OBVIOUS
<1>2. /\ r \in ApplyRecs /\ r.pc = "next" /\ r.doc = {} /\ r.todo = erApply[a].todo
      /\ r.read = erApply[a].read /\ r.fixed = erApply[a].fixed \cup F
      /\ r.errors = erApply[a].errors \cup E
  BY <1>0, <1>1 DEF ApplyRecs
<1>3. erApply' = [erApply EXCEPT ![a] = r]
  BY <1>0, <1>1 DEF ItemOver, ApplyRecs
<1>4. erLock' = [erLock EXCEPT ![d] = erLock[d] \ {a}]
  BY DEF ItemOver, ItemUnlocked
<1>. QED
  BY <1>0, <1>2, <1>3, <1>4 DEF ErShape

(* An item that ends without a write.                                      *)
LEMMA ItemKeeps ==
  ASSUME ErInv, NEW a \in Applies, NEW d \in Documents, NEW E \in SUBSET {d},
         erApply[a].pc \in {"read", "backup"}, d \in erApply[a].doc,
         ItemOver(a, d, {}, E), UNCHANGED <<erFiles, erBackup, erWrote, erEdited, erEdits>>
  PROVE  ErInv'
<1>0. UNCHANGED <<erDoc, erTainted, erBackup, erWrote, erEdited, erEdits>>
  BY DEF erFiles
<1>1. /\ erApply' \in [Applies -> ApplyRecs]
      /\ \A b \in Applies : b # a => erApply'[b] = erApply[b]
      /\ erApply'[a].pc = "next" /\ erApply'[a].doc = {}
      /\ erApply'[a].todo = erApply[a].todo /\ erApply'[a].fixed = erApply[a].fixed
      /\ erApply'[a].errors = erApply[a].errors \cup E
      /\ erLock' \in [Documents -> SUBSET Applies]
      /\ erLock'[d] = erLock[d] \ {a}
      /\ \A x \in Documents : x # d => erLock'[x] = erLock[x]
  <2>1. ErShape
    BY DEF ErInv
  <2>2. {} \in SUBSET {d}
    OBVIOUS
  <2>3. /\ erApply' \in [Applies -> ApplyRecs]
        /\ \A b \in Applies : b # a => erApply'[b] = erApply[b]
        /\ erApply'[a].pc = "next" /\ erApply'[a].doc = {}
        /\ erApply'[a].todo = erApply[a].todo
        /\ erApply'[a].fixed = erApply[a].fixed \cup {}
        /\ erApply'[a].errors = erApply[a].errors \cup E
        /\ erLock' \in [Documents -> SUBSET Applies]
        /\ erLock'[d] = erLock[d] \ {a}
        /\ \A x \in Documents : x # d => erLock'[x] = erLock[x]
    BY <2>1, <2>2, ItemRecord, Zenon
  <2>4. erApply[a].fixed \cup {} = erApply[a].fixed
    OBVIOUS
  <2>. QED
    BY <2>3, <2>4, Zenon
<1>2. erApply[a].doc = {d}
  BY DEF ErInv, ErOnce
<1>3. ErShape'
  <2>1. \A x \in Documents : erLock'[x] = {} \/ \E b \in Applies : erLock'[x] = {b}
    BY <1>1 DEF ErInv, ErShape
  <2>2. ErShape
    BY DEF ErInv
  <2>3. /\ erDoc' = erDoc /\ erTainted' = erTainted /\ erBackup' = erBackup
        /\ erWrote' = erWrote /\ erEdits' = erEdits
    BY <1>0
  <2>. QED
    BY <1>1, <2>1, <2>2, <2>3, ShapeStands
<1>4. ErOnce'
  <2>1. ASSUME NEW b \in Applies
        PROVE  /\ IF erApply'[b].pc \in {"read", "backup"}
                  THEN \E x \in Documents : erApply'[b].doc = {x}
                  ELSE erApply'[b].doc = {}
               /\ erApply'[b].todo \cap erApply'[b].doc = {}
               /\ erApply'[b].todo \cap (erApply'[b].fixed \cup erApply'[b].errors) = {}
               /\ erApply'[b].doc \cap (erApply'[b].fixed \cup erApply'[b].errors) = {}
               /\ erApply'[b].fixed \cap erApply'[b].errors = {}
    <3>1. CASE b = a
      BY <1>1, <1>2, <3>1 DEF ErInv, ErOnce
    <3>2. CASE b # a
      BY <1>1, <3>2 DEF ErInv, ErOnce
    <3>. QED
      BY <3>1, <3>2
  <2>. QED
    BY <2>1 DEF ErOnce
<1>5. ErUntouched'
  BY <1>0, <1>1 DEF ErInv, ErUntouched
<1>6. ErInHand'
  <2>1. ASSUME NEW b \in Applies, NEW x \in PlainFiles, x \in erApply'[b].doc
        PROVE  erLock'[x] = {b} /\ (<<b, x>> \in erEdited' \/ erDoc'[x] = erApply'[b].read)
    <3>1. b # a
      BY <1>1, <2>1
    <3>2. erLock[x] = {b} /\ (<<b, x>> \in erEdited \/ erDoc[x] = erApply[b].read)
      BY <1>1, <2>1, <3>1 DEF ErInv, ErInHand
    <3>3. x \in Documents
      BY DEF PlainFiles, Documents
    <3>4. erLock'[x] = {b}
      BY <1>1, <3>1, <3>2, <3>3
    <3>. QED
      BY <1>0, <1>1, <3>1, <3>2, <3>4
  <2>. QED
    BY <2>1 DEF ErInHand
<1>7. ErBackedUp'
  BY <1>0, <1>1 DEF ErInv, ErBackedUp
<1>8. ErFixed'
  <2>1. \A b \in Applies : erApply'[b].fixed = erApply[b].fixed
    BY <1>1
  <2>2. \A b \in Applies : erApply'[b].doc # {} => erApply'[b] = erApply[b]
    BY <1>1
  <2>. QED
    BY <1>0, <2>1, <2>2 DEF ErInv, ErFixed
<1>9. BackupHasOld'
  BY <1>0 DEF ErInv, BackupHasOld
<1>. QED
  BY <1>3, <1>4, <1>5, <1>6, <1>7, <1>8, <1>9 DEF ErInv

(* A step of an apply that has no document in hand and changes no file.    *)
LEMMA ApplyMoves ==
  ASSUME ErInv, NEW a \in Applies, NEW r \in ApplyRecs, erApply' = [erApply EXCEPT ![a] = r],
         UNCHANGED <<erFiles, erLock, erBackup, erWrote, erEdited, erEdits>>,
         r.pc \in {"scan", "next", "done"}, r.doc = {},
         r.fixed \subseteq erApply[a].fixed, r.errors \subseteq erApply[a].errors,
         r.todo \cap (r.fixed \cup r.errors) = {},
         r.pc = "scan" => erApply[a].pc = "idle",
         r.todo \subseteq erApply[a].todo \/ erApply[a].pc = "scan"
  PROVE  ErInv'
<1>0. /\ erDoc' = erDoc /\ erTainted' = erTainted /\ erLock' = erLock /\ erBackup' = erBackup
      /\ erWrote' = erWrote /\ erEdited' = erEdited /\ erEdits' = erEdits
  BY DEF erFiles
<1>1. erApply \in [Applies -> ApplyRecs] /\ ErShape
  BY DEF ErInv, ErShape
<1>2. erApply'[a] = r /\ \A b \in Applies : b # a => erApply'[b] = erApply[b]
  BY <1>1
<1>3. erApply' \in [Applies -> ApplyRecs]
  BY <1>1
<1>4. ErShape'
  <2>1. /\ erLock' \in [Documents -> SUBSET Applies]
        /\ \A d \in Documents : erLock'[d] = {} \/ \E b \in Applies : erLock'[d] = {b}
    BY <1>0, <1>1 DEF ErShape
  <2>. QED
    BY <1>0, <1>1, <1>3, <2>1, ShapeStands
<1>5. ErOnce'
  <2>1. r.fixed \cap r.errors = {}
    BY DEF ErInv, ErOnce
  <2>. QED
    BY <1>2, <2>1 DEF ErInv, ErOnce
<1>6. ErUntouched'
  BY <1>0, <1>2 DEF ErInv, ErUntouched
<1>7. ErInHand' /\ ErBackedUp'
  BY <1>0, <1>2 DEF ErInv, ErInHand, ErBackedUp
<1>8. ErFixed'
  <2>1. \A b \in Applies : erApply'[b].fixed \subseteq erApply[b].fixed
    BY <1>2
  <2>2. \A b \in Applies : erApply'[b].doc # {} => erApply'[b] = erApply[b]
    BY <1>2
  <2>. QED
    BY <1>0, <2>1, <2>2 DEF ErInv, ErFixed
<1>9. BackupHasOld'
  BY <1>0 DEF ErInv, BackupHasOld
<1>. QED
  BY <1>4, <1>5, <1>6, <1>7, <1>8, <1>9 DEF ErInv

LEMMA ApplyKeeps ==
  ASSUME ErInv, NEW a \in Applies, ApplyBegins(a) \/ Scanned(a) \/ ApplyEnds(a)
  PROVE  ErInv'
<1>0. erApply \in [Applies -> ApplyRecs] /\ erApply[a] \in ApplyRecs
  BY DEF ErInv, ErShape
<1>1. ASSUME NEW p \in {"scan", "done"}, erApply[a].pc \in {"idle", "next"},
             p = "scan" => erApply[a].pc = "idle",
             erApply' = [erApply EXCEPT ![a].pc = p],
             UNCHANGED <<erFiles, erLock, erBackup, erWrote, erEdited, erEdits>>
      PROVE  ErInv'
  <2>1. PICK r : r = [erApply[a] EXCEPT !.pc = p]
    OBVIOUS
  <2>2. /\ r \in ApplyRecs /\ r.pc = p /\ r.doc = erApply[a].doc /\ r.todo = erApply[a].todo
        /\ r.fixed = erApply[a].fixed /\ r.errors = erApply[a].errors
    BY <1>0, <2>1 DEF ApplyRecs
  <2>3. erApply[a].doc = {} /\ r.todo \cap (r.fixed \cup r.errors) = {}
    BY <1>1, <2>2 DEF ErInv, ErOnce
  <2>4. erApply' = [erApply EXCEPT ![a] = r]
    BY <1>1, <2>1
  <2>. QED
    BY <1>1, <2>2, <2>3, <2>4, ApplyMoves, ZenonT(40)
<1>2. CASE ApplyBegins(a)
  BY <1>1, <1>2 DEF ApplyBegins
<1>3. CASE ApplyEnds(a)
  BY <1>1, <1>3 DEF ApplyEnds
<1>4. CASE Scanned(a)
  <2>1. PICK r : r = [NoApply EXCEPT !.pc = "next", !.todo = Editable(a)]
    OBVIOUS
  <2>2. Editable(a) \in SUBSET Documents /\ Blank \in Content
    BY DEF Editable, Blank, Content, Reference
  <2>3. /\ r \in ApplyRecs /\ r.pc = "next" /\ r.doc = {} /\ r.fixed = {} /\ r.errors = {}
    BY <2>1, <2>2 DEF NoApply, ApplyRecs
  <2>4. /\ erApply' = [erApply EXCEPT ![a] = r] /\ erApply[a].pc = "scan"
        /\ UNCHANGED <<erFiles, erLock, erBackup, erWrote, erEdited, erEdits>>
    BY <1>4, <2>1 DEF Scanned
  <2>5. r.todo \cap (r.fixed \cup r.errors) = {}
    BY <2>3
  <2>. QED
    BY <2>3, <2>4, <2>5, ApplyMoves
<1>. QED
  BY <1>2, <1>3, <1>4

(* A document is taken in hand: an apply reads each of them once, and a    *)
(* file under its lock.                                                    *)
LEMMA ReadKeeps ==
  ASSUME ErInv, NEW a \in Applies, NEW d \in Documents, DocumentRead(a, d)
  PROVE  ErInv'
<1>0. /\ erApply \in [Applies -> ApplyRecs] /\ erApply[a] \in ApplyRecs /\ erDoc[d] \in Content
      /\ erLock \in [Documents -> SUBSET Applies]
  BY DEF ErInv, ErShape
<1>1. /\ erApply[a].pc = "next" /\ d \in erApply[a].todo
      /\ d \in Stored \/ erLock[d] = {}
      /\ erLock' = IF d \in Stored THEN erLock ELSE [erLock EXCEPT ![d] = {a}]
      /\ erEdited' = erEdited \ {<<a, d>>}
      /\ erDoc' = erDoc /\ erTainted' = erTainted /\ erBackup' = erBackup
      /\ erWrote' = erWrote /\ erEdits' = erEdits
  BY DEF DocumentRead, LockFor, erFiles
<1>2. PICK r : r = [erApply[a] EXCEPT !.pc = "read", !.doc = {d}, !.todo = @ \ {d},
                                      !.read = erDoc[d]]
  OBVIOUS
<1>3. /\ r \in ApplyRecs /\ r.pc = "read" /\ r.doc = {d} /\ r.todo = erApply[a].todo \ {d}
      /\ r.read = erDoc[d] /\ r.fixed = erApply[a].fixed /\ r.errors = erApply[a].errors
  BY <1>0, <1>2 DEF ApplyRecs
<1>4. erApply' = [erApply EXCEPT ![a] = r]
  BY <1>0, <1>2 DEF DocumentRead, ApplyRecs
<1>5. erApply'[a] = r /\ \A b \in Applies : b # a => erApply'[b] = erApply[b]
  BY <1>0, <1>4
<1>6. d \notin erWrote[a] /\ erBackup[a][d] = {} /\ d \notin erApply[a].fixed
        /\ d \notin erApply[a].errors
  BY <1>1 DEF ErInv, ErUntouched, ErOnce
<1>7. /\ \A x \in Documents : x # d => erLock'[x] = erLock[x]
      /\ d \in PlainFiles => erLock[d] = {} /\ erLock'[d] = {a}
      /\ d \in Stored => erLock'[d] = erLock[d]
      /\ erLock' \in [Documents -> SUBSET Applies]
  BY <1>0, <1>1, RemapAssumption DEF PlainFiles
<1>8. d \in PlainFiles \/ d \in Stored
  BY DEF PlainFiles, Documents
<1>9. ErShape'
  <2>1. \A x \in Documents : erLock'[x] = {} \/ \E b \in Applies : erLock'[x] = {b}
    BY <1>7, <1>8 DEF ErInv, ErShape
  <2>2. ErShape
    BY DEF ErInv
  <2>3. erApply' \in [Applies -> ApplyRecs]
    BY <1>0, <1>3, <1>4
  <2>. QED
    BY <1>1, <1>7, <2>1, <2>2, <2>3, ShapeStands
<1>10. ErOnce'
  <2>1. \E x \in Documents : r.doc = {x}
    BY <1>3
  <2>2. /\ r.todo \cap r.doc = {} /\ r.todo \cap (r.fixed \cup r.errors) = {}
        /\ r.doc \cap (r.fixed \cup r.errors) = {} /\ r.fixed \cap r.errors = {}
    BY <1>3, <1>6 DEF ErInv, ErOnce
  <2>. QED
    BY <1>3, <1>5, <2>1, <2>2 DEF ErInv, ErOnce
<1>11. ErUntouched'
  BY <1>1, <1>3, <1>5, <1>6 DEF ErInv, ErUntouched
<1>12. ErInHand'
  <2>1. ASSUME NEW b \in Applies, NEW x \in PlainFiles, x \in erApply'[b].doc
        PROVE  erLock'[x] = {b} /\ (<<b, x>> \in erEdited' \/ erDoc'[x] = erApply'[b].read)
    <3>1. CASE b = a
      BY <1>1, <1>3, <1>5, <1>7, <2>1, <3>1
    <3>2. CASE b # a
      <4>1. erLock[x] = {b} /\ (<<b, x>> \in erEdited \/ erDoc[x] = erApply[b].read)
        BY <1>5, <2>1, <3>2 DEF ErInv, ErInHand
      <4>2. x # d /\ x \in Documents
        BY <1>7, <4>1 DEF PlainFiles, Documents
      <4>3. <<b, x>> \in erEdited => <<b, x>> \in erEdited'
        BY <1>1, <3>2
      <4>. QED
        BY <1>1, <1>5, <1>7, <3>2, <4>1, <4>2, <4>3
    <3>. QED
      BY <3>1, <3>2
  <2>. QED
    BY <2>1 DEF ErInHand
<1>13. ErBackedUp'
  <2>1. ASSUME NEW b \in Applies, NEW x \in Documents, erApply'[b].pc = "backup",
               x \in erApply'[b].doc
        PROVE  \E c \in erBackup'[b][x] : c[b] \in {"old", "both"} \/ <<b, x>> \in erEdited'
    <3>1. b # a
      BY <1>3, <1>5, <2>1
    <3>2. \E c \in erBackup[b][x] : c[b] \in {"old", "both"} \/ <<b, x>> \in erEdited
      BY <1>5, <2>1, <3>1 DEF ErInv, ErBackedUp
    <3>3. <<b, x>> \in erEdited => <<b, x>> \in erEdited'
      BY <1>1, <3>1
    <3>. QED
      BY <1>1, <3>2, <3>3
  <2>. QED
    BY <2>1 DEF ErBackedUp
<1>14. ErFixed'
  <2>1. ASSUME NEW b \in Applies, NEW x \in PlainFiles, x \in erApply'[b].fixed,
               <<b, x>> \notin erEdited'
        PROVE  /\ erDoc'[x][b] \in {"new", "none"}
               /\ \A c \in Applies : x \in erApply'[c].doc =>
                    erApply'[c].read[b] \in {"new", "none"}
    <3>1. x \in erApply[b].fixed
      BY <1>3, <1>5, <2>1
    <3>2. <<b, x>> \notin erEdited
      BY <1>1, <1>6, <2>1, <3>1
    <3>3. /\ erDoc[x][b] \in {"new", "none"}
          /\ \A c \in Applies : x \in erApply[c].doc => erApply[c].read[b] \in {"new", "none"}
      BY <3>1, <3>2 DEF ErInv, ErFixed
    <3>4. ASSUME NEW c \in Applies, x \in erApply'[c].doc
          PROVE  erApply'[c].read[b] \in {"new", "none"}
      BY <1>3, <1>5, <3>3, <3>4
    <3>. QED
      BY <1>1, <3>3, <3>4
  <2>. QED
    BY <2>1 DEF ErFixed
<1>15. BackupHasOld'
  <2>1. ASSUME NEW b \in Applies, NEW x \in erWrote[b]
        PROVE  \E c \in erBackup[b][x] : c[b] \in {"old", "both"} \/ <<b, x>> \in erEdited'
    <3>1. \E c \in erBackup[b][x] : c[b] \in {"old", "both"} \/ <<b, x>> \in erEdited
      BY DEF ErInv, BackupHasOld
    <3>2. <<b, x>> \in erEdited => <<b, x>> \in erEdited'
      BY <1>1, <1>6
    <3>. QED
      BY <3>1, <3>2
  <2>. QED
    BY <1>1, <2>1 DEF BackupHasOld
<1>. QED
  BY <1>9, <1>10, <1>11, <1>12, <1>13, <1>14, <1>15 DEF ErInv

(* The backup has the old reference, or the file was edited since it was   *)
(* read.                                                                   *)
LEMMA CopyKeeps ==
  ASSUME ErInv, NEW a \in Applies, NEW d \in Documents, BackedUp(a, d)
  PROVE  ErInv'
<1>0. /\ erApply \in [Applies -> ApplyRecs] /\ erApply[a] \in ApplyRecs /\ erDoc[d] \in Content
      /\ erBackup \in [Applies -> [Documents -> SUBSET Content]] /\ ErShape
  BY DEF ErInv, ErShape
<1>1. CASE BackupFailed(a, d)
  <2>1. /\ ItemOver(a, d, {}, {d}) /\ erApply[a].pc = "read" /\ d \in erApply[a].doc
        /\ UNCHANGED <<erFiles, erBackup, erWrote, erEdited, erEdits>>
    BY <1>1 DEF BackedUp, BackupFailed
  <2>2. {d} \in SUBSET {d}
    OBVIOUS
  <2>. QED
    BY <2>1, <2>2, ItemKeeps
<1>2. CASE ~BackupFailed(a, d)
  <2>1. /\ erApply[a].pc = "read" /\ d \in erApply[a].doc
        /\ erBackup' = [erBackup EXCEPT ![a][d] = IF @ = {} THEN {BackupCopy(a, d)} ELSE @]
        /\ erApply' = [erApply EXCEPT ![a].pc = "backup"]
        /\ erLock' = erLock /\ erDoc' = erDoc /\ erTainted' = erTainted
        /\ erWrote' = erWrote /\ erEdited' = erEdited /\ erEdits' = erEdits
    BY <1>2 DEF BackedUp, erFiles
  <2>2. erApply[a].read[a] \in {"old", "both"}
    BY DEF BackedUp, HasOld
  <2>3. PICK r : r = [erApply[a] EXCEPT !.pc = "backup"]
    OBVIOUS
  <2>4. /\ r \in ApplyRecs /\ r.pc = "backup" /\ r.doc = erApply[a].doc
        /\ r.todo = erApply[a].todo /\ r.read = erApply[a].read
        /\ r.fixed = erApply[a].fixed /\ r.errors = erApply[a].errors
    BY <1>0, <2>3 DEF ApplyRecs
  <2>5. erApply' = [erApply EXCEPT ![a] = r]
    BY <2>1, <2>3
  <2>6. erApply'[a] = r /\ \A b \in Applies : b # a => erApply'[b] = erApply[b]
    BY <1>0, <2>5
  <2>7. erBackup[a][d] = {} /\ d \notin erWrote[a] /\ erApply[a].doc = {d}
          /\ d \notin erApply[a].todo
    BY <2>1 DEF ErInv, ErUntouched, ErOnce
  <2>8. PICK c : c = BackupCopy(a, d)
    OBVIOUS
  <2>9. c \in Content
    BY <1>0, <2>8 DEF BackupCopy, ApplyRecs
  <2>10. c[a] \in {"old", "both"} \/ <<a, d>> \in erEdited
    <3>1. CASE d \in Stored
      BY <2>2, <2>8, <3>1 DEF BackupCopy
    <3>2. CASE d \notin Stored
      <4>1. d \in PlainFiles /\ c = erDoc[d]
        BY <2>8, <3>2 DEF BackupCopy, PlainFiles, Documents
      <4>2. <<a, d>> \in erEdited \/ erDoc[d] = erApply[a].read
        BY <2>1, <4>1 DEF ErInv, ErInHand
      <4>. QED
        BY <2>2, <4>1, <4>2
    <3>. QED
      BY <3>1, <3>2
  <2>11. /\ erBackup' = [erBackup EXCEPT ![a] = [erBackup[a] EXCEPT ![d] = {c}]]
         /\ erBackup[a] \in [Documents -> SUBSET Content]
    BY <1>0, <2>1, <2>7, <2>8
  <2>12. /\ erBackup'[a][d] = {c}
         /\ \A x \in Documents : x # d => erBackup'[a][x] = erBackup[a][x]
         /\ \A b \in Applies : b # a => erBackup'[b] = erBackup[b]
         /\ erBackup' \in [Applies -> [Documents -> SUBSET Content]]
    BY <1>0, <2>9, <2>11
  <2>13. ErShape'
    <3>1. \A b \in Applies, x \in Documents :
            erBackup'[b][x] = {} \/ \E k \in Content : erBackup'[b][x] = {k}
      <4>1. ASSUME NEW b \in Applies, NEW x \in Documents
            PROVE  erBackup'[b][x] = {} \/ \E k \in Content : erBackup'[b][x] = {k}
        <5>1. CASE b = a /\ x = d
          BY <2>9, <2>12, <5>1
        <5>2. CASE ~(b = a /\ x = d)
          <6>1. erBackup'[b][x] = erBackup[b][x]
            BY <2>12, <5>2
          <6>2. erBackup[b][x] = {} \/ \E k \in Content : erBackup[b][x] = {k}
            BY <1>0 DEF ErShape
          <6>. QED
            BY <6>1, <6>2
        <5>. QED
          BY <5>1, <5>2
      <4>. QED
        BY <4>1
    <3>2. erApply' \in [Applies -> ApplyRecs]
      BY <1>0, <2>4, <2>5
    <3>3. /\ erDoc' \in [Documents -> Content] /\ erTainted' \subseteq Documents \ Stored
          /\ erWrote' \in [Applies -> SUBSET Documents] /\ erEdits' \in 0 .. MaxEdits
      BY <1>0, <2>1 DEF ErShape
    <3>4. /\ erLock' \in [Documents -> SUBSET Applies]
          /\ \A x \in Documents : erLock'[x] = {} \/ \E b \in Applies : erLock'[x] = {b}
      BY <1>0, <2>1 DEF ErShape
    <3>. QED
      BY <2>12, <3>1, <3>2, <3>3, <3>4 DEF ErShape
  <2>14. ErOnce'
    BY <2>1, <2>4, <2>6 DEF ErInv, ErOnce
  <2>15. ErUntouched'
    <3>1. ASSUME NEW b \in Applies, NEW x \in Documents,
                 \/ erApply'[b].pc \in {"idle", "scan"} \/ x \in erApply'[b].todo
                 \/ (erApply'[b].pc = "read" /\ x \in erApply'[b].doc)
          PROVE  erBackup'[b][x] = {} /\ x \notin erWrote'[b]
      <4>1. CASE b = a
        <5>1. x \in erApply[a].todo /\ x # d
          BY <2>4, <2>6, <2>7, <3>1, <4>1
        <5>2. erBackup[a][x] = {} /\ x \notin erWrote[a]
          BY <5>1 DEF ErInv, ErUntouched
        <5>. QED
          BY <2>1, <2>12, <4>1, <5>1, <5>2
      <4>2. CASE b # a
        <5>1. erBackup[b][x] = {} /\ x \notin erWrote[b]
          BY <2>6, <3>1, <4>2 DEF ErInv, ErUntouched
        <5>. QED
          BY <2>1, <2>12, <4>2, <5>1
      <4>. QED
        BY <4>1, <4>2
    <3>. QED
      BY <3>1 DEF ErUntouched
  <2>16. \A b \in Applies : /\ erApply'[b].doc = erApply[b].doc
                            /\ erApply'[b].read = erApply[b].read
                            /\ erApply'[b].fixed = erApply[b].fixed
    BY <2>4, <2>6
  <2>17. ErInHand' /\ ErFixed'
    BY <2>1, <2>16 DEF ErInv, ErInHand, ErFixed
  <2>18. ASSUME NEW b \in Applies, NEW x \in Documents,
                \E k \in erBackup[b][x] : k[b] \in {"old", "both"} \/ <<b, x>> \in erEdited
         PROVE  \E k \in erBackup'[b][x] : k[b] \in {"old", "both"} \/ <<b, x>> \in erEdited'
    <3>1. b # a \/ x # d
      BY <2>7, <2>18
    <3>. QED
      BY <2>1, <2>12, <2>18, <3>1
  <2>19. ErBackedUp'
    <3>1. ASSUME NEW b \in Applies, NEW x \in Documents, erApply'[b].pc = "backup",
                 x \in erApply'[b].doc
          PROVE  \E k \in erBackup'[b][x] : k[b] \in {"old", "both"} \/ <<b, x>> \in erEdited'
      <4>1. CASE b = a
        <5>1. x = d
          BY <2>4, <2>6, <2>7, <3>1, <4>1
        <5>. QED
          BY <2>1, <2>10, <2>12, <4>1, <5>1
      <4>2. CASE b # a
        <5>1. \E k \in erBackup[b][x] : k[b] \in {"old", "both"} \/ <<b, x>> \in erEdited
          BY <2>6, <3>1, <4>2 DEF ErInv, ErBackedUp
        <5>. QED
          BY <2>18, <5>1
      <4>. QED
        BY <4>1, <4>2
    <3>. QED
      BY <3>1 DEF ErBackedUp
  <2>20. BackupHasOld'
    <3>1. ASSUME NEW b \in Applies, NEW x \in erWrote[b]
          PROVE  \E k \in erBackup'[b][x] : k[b] \in {"old", "both"} \/ <<b, x>> \in erEdited'
      <4>1. x \in Documents
        BY <1>0 DEF ErShape
      <4>2. \E k \in erBackup[b][x] : k[b] \in {"old", "both"} \/ <<b, x>> \in erEdited
        BY DEF ErInv, BackupHasOld
      <4>. QED
        BY <2>18, <4>1, <4>2
    <3>. QED
      BY <2>1, <3>1 DEF BackupHasOld
  <2>. QED
    BY <2>13, <2>14, <2>15, <2>17, <2>19, <2>20 DEF ErInv
<1>. QED
  BY <1>1, <1>2

(* The write: whoever else has the file in hand would hold its lock, so    *)
(* what is written was read from the document as it still is, but for an   *)
(* edit outside, and with it all that other applies fixed.                 *)
LEMMA WriteKeeps ==
  ASSUME ErInv, NEW a \in Applies, NEW d \in Documents, Written(a, d)
  PROVE  ErInv'
<1>0. /\ erApply \in [Applies -> ApplyRecs] /\ erApply[a] \in ApplyRecs /\ ErShape
      /\ erWrote \in [Applies -> SUBSET Documents] /\ erDoc \in [Documents -> Content]
      /\ erLock \in [Documents -> SUBSET Applies]
  BY DEF ErInv, ErShape
<1>1. erApply[a].pc = "backup" /\ d \in erApply[a].doc
      /\ UNCHANGED <<erBackup, erEdited, erEdits>>
  BY DEF Written
<1>2. CASE UNCHANGED <<erFiles, erWrote>> /\ ItemOver(a, d, {}, {d})
  <2>1. {d} \in SUBSET {d}
    OBVIOUS
  <2>2. UNCHANGED <<erFiles, erBackup, erWrote, erEdited, erEdits>>
    BY <1>1, <1>2
  <2>. QED
    BY <1>1, <1>2, <2>1, <2>2, ItemKeeps
<1>3. CASE ~(UNCHANGED <<erFiles, erWrote>> /\ ItemOver(a, d, {}, {d}))
  <2>1. PICK t : t = [erApply[a].read EXCEPT ![a] = "new"]
    OBVIOUS
  <2>2. /\ erDoc' = [erDoc EXCEPT ![d] = t] /\ erTainted' = erTainted \ {d}
        /\ erWrote' = [erWrote EXCEPT ![a] = erWrote[a] \cup {d}]
        /\ ItemOver(a, d, {d}, {})
        /\ erBackup' = erBackup /\ erEdited' = erEdited /\ erEdits' = erEdits
    BY <1>3, <2>1 DEF Written
  <2>3. /\ erApply[a].read \in Content /\ t \in Content /\ t[a] = "new"
        /\ \A b \in Applies : b # a => t[b] = erApply[a].read[b]
    <3>1. erApply[a].read \in Content
      BY <1>0 DEF ApplyRecs
    <3>. QED
      BY <2>1, <3>1 DEF Content, Reference
  <2>4. /\ {d} \in SUBSET {d} /\ {} \in SUBSET {d}
    OBVIOUS
  <2>5. /\ erApply' \in [Applies -> ApplyRecs]
        /\ \A b \in Applies : b # a => erApply'[b] = erApply[b]
        /\ erApply'[a].pc = "next" /\ erApply'[a].doc = {}
        /\ erApply'[a].todo = erApply[a].todo
        /\ erApply'[a].fixed = erApply[a].fixed \cup {d}
        /\ erApply'[a].errors = erApply[a].errors \cup {}
        /\ erLock' \in [Documents -> SUBSET Applies]
        /\ erLock'[d] = erLock[d] \ {a}
        /\ \A x \in Documents : x # d => erLock'[x] = erLock[x]
    <3>1. PICK F \in SUBSET {d} : F = {d}
      BY <2>4
    <3>2. PICK E \in SUBSET {d} : E = {}
      BY <2>4
    <3>3. ErShape /\ ItemOver(a, d, F, E)
      BY <1>0, <2>2, <3>1, <3>2
    <3>4. /\ erApply' \in [Applies -> ApplyRecs]
          /\ \A b \in Applies : b # a => erApply'[b] = erApply[b]
          /\ erApply'[a].pc = "next" /\ erApply'[a].doc = {}
          /\ erApply'[a].todo = erApply[a].todo
          /\ erApply'[a].fixed = erApply[a].fixed \cup F
          /\ erApply'[a].errors = erApply[a].errors \cup E
          /\ erLock' \in [Documents -> SUBSET Applies]
          /\ erLock'[d] = erLock[d] \ {a}
          /\ \A x \in Documents : x # d => erLock'[x] = erLock[x]
      BY <3>1, <3>2, <3>3, ItemRecord, Zenon
    <3>. QED
      BY <3>1, <3>2, <3>4
  <2>6. erApply[a].doc = {d}
    BY <1>1 DEF ErInv, ErOnce
  <2>7. /\ erDoc'[d] = t /\ \A x \in Documents : x # d => erDoc'[x] = erDoc[x]
        /\ erDoc' \in [Documents -> Content]
    BY <1>0, <2>2, <2>3
  <2>8. /\ erWrote'[a] = erWrote[a] \cup {d}
        /\ \A b \in Applies : b # a => erWrote'[b] = erWrote[b]
        /\ erWrote' \in [Applies -> SUBSET Documents]
    BY <1>0, <2>2
  <2>9. d \in PlainFiles => \A b \in Applies : b # a => d \notin erApply[b].doc
    BY <1>1 DEF ErInv, ErInHand
  <2>10. ErShape'
    <3>1. \A x \in Documents : erLock'[x] = {} \/ \E b \in Applies : erLock'[x] = {b}
      <4>1. ASSUME NEW x \in Documents
            PROVE  erLock'[x] = {} \/ \E b \in Applies : erLock'[x] = {b}
        <5>1. erLock[x] = {} \/ \E b \in Applies : erLock[x] = {b}
          BY <1>0 DEF ErShape
        <5>2. erLock'[x] = erLock[x] \/ erLock'[x] = erLock[x] \ {a}
          BY <2>5
        <5>. QED
          BY <5>1, <5>2
      <4>. QED
        BY <4>1
    <3>2. erTainted' \subseteq Documents \ Stored /\ erEdits' \in 0 .. MaxEdits
      BY <1>0, <2>2 DEF ErShape
    <3>3. /\ erBackup' \in [Applies -> [Documents -> SUBSET Content]]
          /\ \A b \in Applies, x \in Documents :
               erBackup'[b][x] = {} \/ \E c \in Content : erBackup'[b][x] = {c}
      BY <1>0, <2>2 DEF ErShape
    <3>. QED
      BY <2>5, <2>7, <2>8, <3>1, <3>2, <3>3 DEF ErShape
  <2>11. ErOnce'
    <3>1. ASSUME NEW b \in Applies
          PROVE  /\ IF erApply'[b].pc \in {"read", "backup"}
                    THEN \E x \in Documents : erApply'[b].doc = {x}
                    ELSE erApply'[b].doc = {}
                 /\ erApply'[b].todo \cap erApply'[b].doc = {}
                 /\ erApply'[b].todo \cap (erApply'[b].fixed \cup erApply'[b].errors) = {}
                 /\ erApply'[b].doc \cap (erApply'[b].fixed \cup erApply'[b].errors) = {}
                 /\ erApply'[b].fixed \cap erApply'[b].errors = {}
      <4>1. CASE b = a
        BY <2>5, <2>6, <4>1 DEF ErInv, ErOnce
      <4>2. CASE b # a
        BY <2>5, <4>2 DEF ErInv, ErOnce
      <4>. QED
        BY <4>1, <4>2
    <3>. QED
      BY <3>1 DEF ErOnce
  <2>12. ErUntouched'
    <3>1. ASSUME NEW b \in Applies, NEW x \in Documents,
                 \/ erApply'[b].pc \in {"idle", "scan"} \/ x \in erApply'[b].todo
                 \/ (erApply'[b].pc = "read" /\ x \in erApply'[b].doc)
          PROVE  erBackup'[b][x] = {} /\ x \notin erWrote'[b]
      <4>1. CASE b = a
        <5>1. x \in erApply[a].todo
          BY <2>5, <3>1, <4>1
        <5>2. x # d
          BY <2>6, <5>1 DEF ErInv, ErOnce
        <5>3. erBackup[a][x] = {} /\ x \notin erWrote[a]
          BY <5>1 DEF ErInv, ErUntouched
        <5>. QED
          BY <2>2, <2>8, <4>1, <5>2, <5>3
      <4>2. CASE b # a
        <5>1. erBackup[b][x] = {} /\ x \notin erWrote[b]
          BY <2>5, <3>1, <4>2 DEF ErInv, ErUntouched
        <5>. QED
          BY <2>2, <2>8, <4>2, <5>1
      <4>. QED
        BY <4>1, <4>2
    <3>. QED
      BY <3>1 DEF ErUntouched
  <2>13. ErInHand'
    <3>1. ASSUME NEW b \in Applies, NEW x \in PlainFiles, x \in erApply'[b].doc
          PROVE  erLock'[x] = {b} /\ (<<b, x>> \in erEdited' \/ erDoc'[x] = erApply'[b].read)
      <4>1. b # a
        BY <2>5, <3>1
      <4>2. erLock[x] = {b} /\ (<<b, x>> \in erEdited \/ erDoc[x] = erApply[b].read)
        BY <2>5, <3>1, <4>1 DEF ErInv, ErInHand
      <4>3. x # d /\ x \in Documents
        BY <2>5, <2>9, <3>1, <4>1 DEF PlainFiles, Documents
      <4>. QED
        BY <2>2, <2>5, <2>7, <4>1, <4>2, <4>3
    <3>. QED
      BY <3>1 DEF ErInHand
  <2>14. ErBackedUp'
    BY <2>2, <2>5 DEF ErInv, ErBackedUp
  <2>15. ErFixed'
    <3>1. ASSUME NEW b \in Applies, NEW x \in PlainFiles, x \in erApply'[b].fixed,
                 <<b, x>> \notin erEdited'
          PROVE  /\ erDoc'[x][b] \in {"new", "none"}
                 /\ \A c \in Applies : x \in erApply'[c].doc =>
                      erApply'[c].read[b] \in {"new", "none"}
      <4>0. x \in Documents
        BY DEF PlainFiles, Documents
      <4>1. CASE x = d
        <5>1. \A c \in Applies : x \notin erApply'[c].doc
          BY <2>5, <2>9, <4>1
        <5>2. CASE b = a
          BY <2>3, <2>7, <4>1, <5>1, <5>2
        <5>3. CASE b # a
          <6>1. d \in erApply[b].fixed /\ <<b, d>> \notin erEdited
            BY <2>2, <2>5, <3>1, <4>1, <5>3
          <6>2. erApply[a].read[b] \in {"new", "none"}
            BY <1>1, <4>1, <6>1 DEF ErInv, ErFixed
          <6>. QED
            BY <2>3, <2>7, <4>1, <5>1, <5>3, <6>2
        <5>. QED
          BY <5>2, <5>3
      <4>2. CASE x # d
        <5>1. x \in erApply[b].fixed /\ <<b, x>> \notin erEdited
          BY <2>2, <2>5, <3>1, <4>2
        <5>2. /\ erDoc[x][b] \in {"new", "none"}
              /\ \A c \in Applies : x \in erApply[c].doc => erApply[c].read[b] \in {"new", "none"}
          BY <5>1 DEF ErInv, ErFixed
        <5>3. \A c \in Applies : x \in erApply'[c].doc => erApply'[c] = erApply[c]
          BY <2>5
        <5>. QED
          BY <2>7, <4>0, <4>2, <5>2, <5>3
      <4>. QED
        BY <4>1, <4>2
    <3>. QED
      BY <3>1 DEF ErFixed
  <2>16. BackupHasOld'
    <3>1. \E c \in erBackup[a][d] : c[a] \in {"old", "both"} \/ <<a, d>> \in erEdited
      BY <1>1 DEF ErInv, ErBackedUp
    <3>2. ASSUME NEW b \in Applies, NEW x \in erWrote'[b]
          PROVE  \E c \in erBackup[b][x] : c[b] \in {"old", "both"} \/ <<b, x>> \in erEdited
      <4>1. (b = a /\ x = d) \/ x \in erWrote[b]
        BY <2>8
      <4>. QED
        BY <3>1, <4>1 DEF ErInv, BackupHasOld
    <3>. QED
      BY <2>2, <3>2 DEF BackupHasOld
  <2>. QED
    BY <2>10, <2>11, <2>12, <2>13, <2>14, <2>15, <2>16 DEF ErInv
<1>. QED
  BY <1>2, <1>3

(* An edit outside excuses every apply for the document it changes.        *)
LEMMA EditKeeps ==
  ASSUME ErInv, NEW d \in Documents, EditedOutside(d)
  PROVE  ErInv'
<1>0. erDoc \in [Documents -> Content] /\ ErShape
  BY DEF ErInv, ErShape
<1>1. /\ erEdits < MaxEdits /\ erEdits' = erEdits + 1
      /\ erEdited' = erEdited \cup (Applies \X {d})
      /\ erLock' = erLock /\ erApply' = erApply /\ erBackup' = erBackup /\ erWrote' = erWrote
  BY DEF EditedOutside
<1>2. /\ erDoc' \in [Documents -> Content] /\ \A x \in Documents : x # d => erDoc'[x] = erDoc[x]
      /\ erTainted' \subseteq Documents \ Stored
  <2>1. ASSUME NEW a \in Applies, NEW r \in Reference, erDoc' = [erDoc EXCEPT ![d][a] = r],
               erTainted' = erTainted
        PROVE  /\ erDoc' \in [Documents -> Content]
               /\ \A x \in Documents : x # d => erDoc'[x] = erDoc[x]
               /\ erTainted' \subseteq Documents \ Stored
    BY <1>0, <2>1 DEF ErShape, Content
  <2>2. ASSUME d \notin Stored, erTainted' = erTainted \cup {d}, erDoc' = erDoc
        PROVE  /\ erDoc' \in [Documents -> Content]
               /\ \A x \in Documents : x # d => erDoc'[x] = erDoc[x]
               /\ erTainted' \subseteq Documents \ Stored
    BY <1>0, <2>2 DEF ErShape
  <2>. QED
    BY <2>1, <2>2 DEF EditedOutside
<1>3. /\ \A a \in Applies : <<a, d>> \in erEdited'
      /\ \A a \in Applies, x \in Documents : <<a, x>> \in erEdited => <<a, x>> \in erEdited'
  BY <1>1
<1>4. erEdits' \in 0 .. MaxEdits
  BY <1>0, <1>1, RemapAssumption DEF ErShape
<1>5. ErShape'
  <2>1. /\ erBackup' \in [Applies -> [Documents -> SUBSET Content]]
        /\ \A b \in Applies, x \in Documents :
             erBackup'[b][x] = {} \/ \E c \in Content : erBackup'[b][x] = {c}
    BY <1>0, <1>1 DEF ErShape
  <2>2. /\ erLock' \in [Documents -> SUBSET Applies]
        /\ \A x \in Documents : erLock'[x] = {} \/ \E b \in Applies : erLock'[x] = {b}
        /\ erApply' \in [Applies -> ApplyRecs] /\ erWrote' \in [Applies -> SUBSET Documents]
    BY <1>0, <1>1 DEF ErShape
  <2>. QED
    BY <1>2, <1>4, <2>1, <2>2 DEF ErShape
<1>6. ErOnce' /\ ErUntouched'
  BY <1>1 DEF ErInv, ErOnce, ErUntouched
<1>7. \A x \in PlainFiles : x \in Documents
  BY DEF PlainFiles, Documents
<1>8. ErInHand'
  BY <1>1, <1>2, <1>3, <1>7 DEF ErInv, ErInHand
<1>9. ErBackedUp'
  BY <1>1, <1>3 DEF ErInv, ErBackedUp
<1>10. ErFixed'
  BY <1>1, <1>2, <1>3, <1>7 DEF ErInv, ErFixed
<1>11. BackupHasOld'
  <2>1. \A b \in Applies : \A x \in erWrote[b] : x \in Documents
    BY <1>0 DEF ErShape
  <2>. QED
    BY <1>1, <1>3, <2>1 DEF ErInv, BackupHasOld
<1>. QED
  BY <1>5, <1>6, <1>8, <1>9, <1>10, <1>11 DEF ErInv

LEMMA NextEr == ErInv /\ [ErNext]_erVars => ErInv'
<1> SUFFICES ASSUME ErInv, [ErNext]_erVars PROVE ErInv'
  OBVIOUS
<1>1. ASSUME NEW a \in Applies, NEW d \in Documents, NothingToFix(a, d) \/ ItemRefused(a, d)
      PROVE  ErInv'
  <2>1. {} \in SUBSET {d} /\ {d} \in SUBSET {d}
    OBVIOUS
  <2>. QED
    BY <1>1, <2>1, ItemKeeps DEF NothingToFix, ItemRefused
<1>2. ASSUME NEW a \in Applies, ApplyBegins(a) \/ ApplyStep(a) PROVE ErInv'
  BY <1>1, <1>2, ApplyKeeps, ReadKeeps, CopyKeeps, WriteKeeps DEF ApplyStep
<1>3. CASE UNCHANGED erVars
  <2>1. /\ erDoc' = erDoc /\ erTainted' = erTainted /\ erLock' = erLock /\ erApply' = erApply
        /\ erBackup' = erBackup /\ erWrote' = erWrote /\ erEdited' = erEdited
        /\ erEdits' = erEdits
    BY <1>3 DEF erVars, erFiles
  <2>2. ErShape'
    <3>1. ErShape
      BY DEF ErInv
    <3>2. /\ erApply' \in [Applies -> ApplyRecs] /\ erLock' \in [Documents -> SUBSET Applies]
          /\ \A d \in Documents : erLock'[d] = {} \/ \E a \in Applies : erLock'[d] = {a}
      BY <2>1, <3>1 DEF ErShape
    <3>. QED
      BY <2>1, <3>1, <3>2, ShapeStands
  <2>3. ErOnce' /\ ErUntouched' /\ ErInHand' /\ ErBackedUp' /\ ErFixed' /\ BackupHasOld'
    BY <2>1 DEF ErInv, ErOnce, ErUntouched, ErInHand, ErBackedUp, ErFixed, BackupHasOld
  <2>. QED
    BY <2>2, <2>3 DEF ErInv
<1>. QED
  BY <1>2, <1>3, EditKeeps DEF ErNext

LEMMA ErInvImplies == ErInv => ErTypeOK /\ FixedStaysFixed /\ BackupHasOld
<1> SUFFICES ASSUME ErInv PROVE ErTypeOK /\ FixedStaysFixed /\ BackupHasOld
  OBVIOUS
<1>0. ErShape
  BY DEF ErInv
<1>1. ASSUME NEW d \in Documents PROVE erLock[d] \subseteq Applies /\ Cardinality(erLock[d]) <= 1
  <2>1. erLock[d] = {} \/ \E x : erLock[d] = {x}
    BY <1>0 DEF ErShape
  <2>2. erLock[d] \subseteq Applies
    BY <1>0 DEF ErShape
  <2>. QED
    BY <2>1, <2>2, AtMostOne
<1>2. ASSUME NEW a \in Applies
      PROVE  /\ erApply[a].pc \in {"idle", "scan", "next", "read", "backup", "done"}
             /\ erApply[a].read \in Content /\ erApply[a].fixed \cap erApply[a].errors = {}
  <2>1. erApply[a] \in ApplyRecs
    BY <1>0 DEF ErShape
  <2>. QED
    BY <2>1 DEF ApplyRecs, ErInv, ErOnce
<1>3. ASSUME NEW a \in Applies PROVE Cardinality(erApply[a].doc) <= 1
  <2>1. erApply[a].doc = {} \/ \E x : erApply[a].doc = {x}
    BY DEF ErInv, ErOnce
  <2>. QED
    BY <2>1, AtMostOne
<1>4. ASSUME NEW a \in Applies, NEW d \in Documents PROVE Cardinality(erBackup[a][d]) <= 1
  <2>1. erBackup[a][d] = {} \/ \E x : erBackup[a][d] = {x}
    BY <1>0 DEF ErShape
  <2>. QED
    BY <2>1, AtMostOne
<1>5. /\ erDoc \in [Documents -> Content] /\ erTainted \subseteq Documents \ Stored
      /\ erEdits \in 0 .. MaxEdits
  BY <1>0 DEF ErShape
<1>6. ErTypeOK
  BY <1>1, <1>2, <1>3, <1>4, <1>5 DEF ErTypeOK
<1>7. FixedStaysFixed
  BY DEF ErInv, ErFixed, FixedStaysFixed, PlainFiles
<1>. QED
  BY <1>6, <1>7 DEF ErInv

-----------------------------------------------------------------------------

(* However applies, operators and editors on the host interleave: a file   *)
(* reported as fixed keeps the new id until someone outside edits it, an   *)
(* operator's save never replaces what another one wrote unseen, and what  *)
(* was written over is in a backup (entity_remap.py async_apply_remap,     *)
(* dashboard_files.py async_write_file).                                   *)
THEOREM WritesHold == UserFilesSpec => []WritesSafe
<1>1. DfInit /\ [][DfNext]_dfVars => []DfInv
  BY InitDf, NextDf, PTL
<1>2. ErInit /\ [][ErNext]_erVars => []ErInv
  BY InitEr, NextEr, PTL
<1>3. DfInv /\ ErInv => WritesSafe
  BY DfInvImplies, ErInvImplies DEF WritesSafe, DfInv
<1>. QED
  BY <1>1, <1>2, <1>3, PTL DEF UserFilesSpec, DfSpec, ErSpec

-----------------------------------------------------------------------------
(* The files of the store.                                                 *)

Payloads == [kind : {"none", "func", "data"}, ver : 0 .. MaxChanges, lines : 0 .. MaxLines,
             ring : BOOLEAN, secret : BOOLEAN]
WriteRecs == [who : Writers \cup {Nobody}, load : Payloads]
DiskRecs == [ver : 0 .. MaxChanges, by : 1 .. MaxStarts, lines : 0 .. MaxLines,
             mainLines : 0 .. MaxLines, mainRing : BOOLEAN, mainSecret : BOOLEAN,
             ringFile : BOOLEAN, secretFile : BOOLEAN]
MemRecs == [ver : 0 .. MaxChanges, lines : 0 .. MaxLines, legacy : BOOLEAN, secret : BOOLEAN]
SaverRecs == [pc : {"idle", "waiting", "writing", "ok", "error"},
              fails : 0 .. MaxFailures, ver : 0 .. MaxChanges]
Setups == {"ring", "secret", "secretSave"}
Stops == {"flushMain", "flushRing", "stopped"}

StShape ==
  /\ stPhase \in Setups \cup {"run"} \cup Stops
  /\ stMem \in MemRecs /\ stDisk \in DiskRecs
  /\ stData \in [Files -> Payloads] /\ stTimer \in [Files -> BOOLEAN]
  /\ stWriting \in [Files -> WriteRecs]
  /\ stSaver \in [Savers -> SaverRecs]
  /\ stRingDirty \in BOOLEAN /\ stRingInMain \in BOOLEAN
  /\ stFailures \in 0 .. MaxFailures /\ stFails \in 0 .. MaxFailures /\ stFails <= stFailures
  /\ stStarts \in 1 .. MaxStarts /\ stDisk.by <= stStarts
  /\ \A old \in stOld : old[1] \in 1 .. MaxStarts /\ old[1] <= stStarts /\ old[2] \in Payloads

Saving(x) == stSaver[x].pc \in {"waiting", "writing"}

\* Who may write which file in which phase.
WritersSound ==
  /\ \A f \in Files : stTimer[f] => stData[f].kind # "none"
  /\ ~stTimer["secrets"]
  /\ stWriting["secrets"].who # Nobody =>
       /\ stWriting["secrets"].who = "setup" /\ stWriting["secrets"].load.secret
       /\ stPhase = "secret" /\ ~stMem.legacy
  /\ stWriting["ring"].who \notin Savers
  /\ stWriting["ring"].who = "setup" => stPhase = "ring"
  /\ stWriting["main"].who = "setup" => stPhase = "secretSave"
  /\ stWriting["main"].who = "flush" => stPhase = "flushMain"
  /\ stWriting["ring"].who = "flush" => stPhase = "flushRing"
  /\ stPhase = "secret" /\ stMem.legacy => stWriting["secrets"].who = Nobody
  /\ \A x \in Savers : /\ Saving(x) => stPhase \notin Setups
                       /\ stSaver[x].pc = "writing" <=> stWriting["main"].who = x

\* The secret is in its own file, or its write was lost.
SecretGone == stDisk.secretFile \/ "secrets" \in stLapse

\* A main payload leaves out only what its own file has.
Moved(p) == (p.ring \/ stDisk.ringFile) /\ (p.secret \/ SecretGone)

MovesSound ==
  /\ RingKept /\ SecretKept
  /\ stRingInMain \/ stDisk.ringFile
  /\ stMem.legacy \/ SecretGone \/ stWriting["secrets"].who # Nobody
  /\ stPhase = "secret" /\ stWriting["secrets"].who = Nobody => stMem.legacy
  /\ stData["main"].kind = "data" => Moved(stData["main"])
  /\ stWriting["main"].who # Nobody => Moved(stWriting["main"].load)
  /\ \A old \in stOld : Moved(old[2])

\* What a save at v asked for is set, is being written, or is on the disk.
Carried(v) ==
  \/ stData["main"].kind = "func"
  \/ stData["main"].kind = "data" /\ stData["main"].ver >= v
  \/ stData["main"].kind = "none" /\ stWriting["main"].who # Nobody /\ stWriting["main"].load.ver >= v
  \/ stData["main"].kind = "none" /\ stDisk.ver >= v

VersionsSound ==
  /\ stDisk.ver <= stMem.ver
  /\ stData["main"].kind = "data" => stDisk.ver <= stData["main"].ver /\ stData["main"].ver <= stMem.ver
  /\ stWriting["main"].who # Nobody =>
       /\ stDisk.ver <= stWriting["main"].load.ver /\ stWriting["main"].load.ver <= stMem.ver
       /\ stData["main"].kind = "data" => stWriting["main"].load.ver <= stData["main"].ver

SaverSound(x) ==
  /\ stSaver[x].pc # "idle" => stSaver[x].ver <= stMem.ver
  /\ Saving(x) => stSaver[x].fails <= stFails
  /\ stSaver[x].pc = "waiting" /\ stSaver[x].fails = stFails => Carried(stSaver[x].ver)
  /\ stSaver[x].pc = "writing" /\ stSaver[x].fails = stFails =>
       stWriting["main"].load.ver >= stSaver[x].ver
  /\ stSaver[x].pc = "ok" => stDisk.ver >= stSaver[x].ver

\* A stop leaves no save behind, so no version ever goes back.
StopsClean ==
  /\ stOld = {}
  /\ stPhase \in {"flushRing", "stopped"} \/ stWriting["main"].who = "flush" => ~stTimer["main"]
  /\ stPhase \in Stops => \A x \in Savers : ~Saving(x)

StInv ==
  /\ StShape /\ WritersSound /\ MovesSound
  /\ ~LateWork => StopsClean /\ VersionsSound /\ \A x \in Savers : SaverSound(x)

(* What the Stores are given. *)
LEMMA PayloadsAre ==
  ASSUME StShape
  PROVE  /\ MainPayload \in Payloads /\ MainPayload.kind = "data" /\ MainPayload.ver = stMem.ver
         /\ MainPayload.ring = stRingInMain /\ MainPayload.secret = stMem.legacy
         /\ RingPayload \in Payloads
         /\ Nothing \in Payloads /\ Nothing.kind = "none"
         /\ Func \in Payloads /\ Func.kind = "func"
         /\ \A f \in Files : Taken(f) \in Payloads
         /\ Taken("main") = IF stData["main"].kind = "data" THEN stData["main"] ELSE MainPayload
<1>1. stMem \in MemRecs /\ stRingInMain \in BOOLEAN /\ stData \in [Files -> Payloads]
  BY DEF StShape
<1>2. /\ MainPayload \in Payloads /\ MainPayload.kind = "data" /\ MainPayload.ver = stMem.ver
      /\ MainPayload.ring = stRingInMain /\ MainPayload.secret = stMem.legacy
  BY <1>1, StoreAssumption DEF MainPayload, Load, MemRecs, Payloads
<1>3. RingPayload \in Payloads
  BY <1>1, StoreAssumption DEF RingPayload, Load, MemRecs, Payloads
<1>4. /\ Nothing \in Payloads /\ Nothing.kind = "none"
      /\ Func \in Payloads /\ Func.kind = "func"
  BY StoreAssumption DEF Nothing, Func, Load, Payloads
<1>5. \A f \in Files : Taken(f) \in Payloads
  BY <1>1, <1>2, <1>3 DEF Taken
<1>. QED
  BY <1>2, <1>3, <1>4, <1>5 DEF Taken

(* A write takes the lock, and what was to be written. *)
LEMMA Begun ==
  ASSUME StShape, NEW w \in Writers, NEW f \in Files, NEW p \in Payloads, Begin(w, f, p)
  PROVE  /\ stWriting' \in [Files -> WriteRecs] /\ stData' \in [Files -> Payloads]
         /\ stTimer' \in [Files -> BOOLEAN]
         /\ stWriting'[f].who = w /\ stWriting'[f].load = p
         /\ stData'[f] = Nothing /\ ~stTimer'[f]
         /\ \A g \in Files \ {f} :
              stWriting'[g] = stWriting[g] /\ stData'[g] = stData[g] /\ stTimer'[g] = stTimer[g]
<1>1. /\ stWriting \in [Files -> WriteRecs] /\ stData \in [Files -> Payloads]
      /\ stTimer \in [Files -> BOOLEAN]
  BY DEF StShape
<1>2. [who |-> w, load |-> p] \in WriteRecs
  BY DEF WriteRecs
<1>3. Nothing \in Payloads
  BY PayloadsAre
<1>. QED
  BY <1>1, <1>2, <1>3 DEF Begin

(* A writer lets the lock go. *)
LEMMA LetGo ==
  ASSUME StShape, NEW f \in Files,
         stWriting' = [stWriting EXCEPT ![f] = [who |-> Nobody, load |-> Nothing]]
  PROVE  /\ stWriting' \in [Files -> WriteRecs] /\ stWriting'[f].who = Nobody
         /\ \A g \in Files \ {f} : stWriting'[g] = stWriting[g]
<1>1. stWriting \in [Files -> WriteRecs]
  BY DEF StShape
<1>2. [who |-> Nobody, load |-> Nothing] \in WriteRecs
  BY PayloadsAre DEF WriteRecs
<1>. QED
  BY <1>1, <1>2

(* A delayed save is armed. *)
LEMMA Scheduled ==
  ASSUME StShape
  PROVE  /\ ScheduleMain => /\ stData' \in [Files -> Payloads] /\ stTimer' \in [Files -> BOOLEAN]
                            /\ stData'["main"] = Func /\ stTimer'["main"]
                            /\ \A g \in Files \ {"main"} : stData'[g] = stData[g] /\ stTimer'[g] = stTimer[g]
         /\ ScheduleRing => /\ stData' \in [Files -> Payloads] /\ stTimer' \in [Files -> BOOLEAN]
                            /\ stData'["ring"] = Func /\ stTimer'["ring"]
                            /\ \A g \in Files \ {"ring"} : stData'[g] = stData[g] /\ stTimer'[g] = stTimer[g]
<1>1. /\ stData \in [Files -> Payloads] /\ stTimer \in [Files -> BOOLEAN] /\ Func \in Payloads
  BY PayloadsAre DEF StShape
<1>. QED
  BY <1>1 DEF ScheduleMain, ScheduleRing, Files

(* A call of async_save_now returns or raises. *)
LEMMA Returned ==
  ASSUME StShape, NEW x \in Savers, NEW n \in Nat, SaveReturns(x, n)
  PROVE  /\ stSaver' \in [Savers -> SaverRecs]
         /\ stSaver'[x] = [stSaver[x] EXCEPT !.pc = IF n # stSaver[x].fails THEN "error" ELSE "ok"]
         /\ \A y \in Savers \ {x} : stSaver'[y] = stSaver[y]
         /\ ScheduleMain \/ UNCHANGED <<stData, stTimer>>
<1>1. stSaver \in [Savers -> SaverRecs]
  BY DEF StShape
<1>2. [stSaver[x] EXCEPT !.pc = SaveResult(x, n)] \in SaverRecs
  BY <1>1 DEF SaverRecs, SaveResult
<1>. QED
  BY <1>1, <1>2 DEF SaveReturns, SaveResult, ReArm

LEMMA StInvImplies == StInv => StTypeOK /\ RingKept /\ SecretKept
  BY DEF StInv, StShape, WritersSound, MovesSound, StTypeOK, Setups, Stops, MemRecs, WriteRecs,
       SaverRecs

LEMMA StSavesTrue == StInv /\ ~LateWork => SaveNowIsTrue
  BY DEF StInv, SaverSound, SaveNowIsTrue

LEMMA StInit_Inv == StInit => StInv
<1> SUFFICES ASSUME StInit PROVE StInv
  OBVIOUS
<1>1. StShape
  BY StoreAssumption DEF StInit, StShape, LoadPhase, LoadedMem, Payloads, WriteRecs, DiskRecs,
       MemRecs, SaverRecs, Setups, Nothing, Load, NewSaver
<1>2. WritersSound
  BY StoreAssumption DEF StInit, WritersSound, Saving, NewSaver, Files, Nobody
<1>3. MovesSound
  BY DEF StInit, MovesSound, RingKept, SecretKept, LoadedMem, Nothing, Load, Files
<1>4. StopsClean /\ VersionsSound /\ \A x \in Savers : SaverSound(x)
  BY DEF StInit, StopsClean, VersionsSound, SaverSound, Saving, NewSaver, Nothing, Load, Files,
       LoadedMem
<1>. QED
  BY <1>1, <1>2, <1>3, <1>4 DEF StInv

LEMMA StChange == ASSUME StInv, Change PROVE StInv'
<1>1. StShape'
  BY StoreAssumption DEF StInv, StShape, Change, ScheduleMain, Files, Payloads, MemRecs, Load,
       Func, stRing, stGhost
<1>2. WritersSound'
  BY DEF StInv, StShape, WritersSound, Saving, Change, ScheduleMain, Load, Func
<1>3. MovesSound'
  BY DEF StInv, MovesSound, RingKept, SecretKept, Moved, SecretGone, Change, ScheduleMain, Load,
       Func, stRing, stGhost
<1>4. ASSUME ~LateWork PROVE StopsClean'
  BY <1>4 DEF StInv, WritersSound, StopsClean, Saving, Change
<1>5. ASSUME ~LateWork PROVE VersionsSound'
  BY <1>5 DEF StInv, StShape, VersionsSound, Change, ScheduleMain, Files, Payloads, WriteRecs,
       DiskRecs, MemRecs, Load, Func
<1>6. ASSUME ~LateWork PROVE \A x \in Savers : SaverSound(x)'
  BY <1>6 DEF StInv, StShape, SaverSound, Saving, Carried, Change, ScheduleMain, MemRecs,
       SaverRecs, Load, Func
<1>. QED
  BY <1>1, <1>2, <1>3, <1>4, <1>5, <1>6 DEF StInv

LEMMA StAppendSyslog == ASSUME StInv, AppendSyslog PROVE StInv'
<1>1. StShape'
  BY StoreAssumption DEF StInv, StShape, AppendSyslog, ScheduleRing, Files, Payloads, MemRecs,
       Load, Func, stGhost
<1>2. WritersSound'
  BY DEF StInv, StShape, WritersSound, Saving, AppendSyslog, ScheduleRing, Load, Func
<1>3. MovesSound'
  BY DEF StInv, MovesSound, RingKept, SecretKept, Moved, SecretGone, AppendSyslog, ScheduleRing,
       stGhost
<1>4. ASSUME ~LateWork PROVE StopsClean'
  BY <1>4 DEF StInv, StopsClean, Saving, AppendSyslog, ScheduleRing
<1>5. ASSUME ~LateWork PROVE VersionsSound'
  BY <1>5 DEF StInv, VersionsSound, AppendSyslog, ScheduleRing
<1>6. ASSUME ~LateWork PROVE \A x \in Savers : SaverSound(x)'
  BY <1>6 DEF StInv, SaverSound, Saving, Carried, AppendSyslog, ScheduleRing
<1>. QED
  BY <1>1, <1>2, <1>3, <1>4, <1>5, <1>6 DEF StInv

LEMMA StTimerWrite == ASSUME StInv, NEW f \in Files, TimerWrite(f) PROVE StInv'
<1>1. StShape'
  <2>1. "timer" \in Writers /\ Taken(f) \in Payloads /\ Begin("timer", f, Taken(f))
    BY PayloadsAre DEF StInv, TimerWrite, Writers
  <2>2. /\ stWriting' \in [Files -> WriteRecs] /\ stData' \in [Files -> Payloads]
        /\ stTimer' \in [Files -> BOOLEAN]
    BY <2>1, Begun DEF StInv
  <2>. QED
    BY <2>2 DEF StInv, StShape, TimerWrite
<1>2. WritersSound'
  BY StoreAssumption DEF StInv, StShape, WritersSound, Saving, TimerWrite, Begin, Unlocked, Files,
       Nobody
<1>3. MovesSound'
  BY DEF StInv, MovesSound, RingKept, SecretKept, Moved, SecretGone, TimerWrite, Begin, Taken,
       MainPayload, Unlocked, Load, Nothing
<1>4. ASSUME ~LateWork PROVE StopsClean'
  BY <1>4 DEF StInv, StopsClean, Saving, TimerWrite, Begin
<1>5. ASSUME ~LateWork PROVE VersionsSound'
  BY <1>5 DEF StInv, StShape, VersionsSound, TimerWrite, Begin, Taken, MainPayload, MemRecs, Load,
       Nothing
<1>6. ASSUME ~LateWork PROVE \A x \in Savers : SaverSound(x)'
  BY <1>6, StoreAssumption DEF StInv, StShape, WritersSound, SaverSound, Saving, Carried,
       TimerWrite, Begin, Taken, MainPayload, Unlocked, Nobody, Load, Nothing
<1>. QED
  BY <1>1, <1>2, <1>3, <1>4, <1>5, <1>6 DEF StInv

LEMMA StSaveNow == ASSUME StInv, NEW s \in Savers, SaveNow(s) PROVE StInv'
<1>1. StShape'
  BY StoreAssumption DEF StInv, StShape, SaveNow, MainPayload, Files, Payloads, MemRecs, SaverRecs,
       Load, stRing, stGhost
<1>2. WritersSound'
  BY DEF StInv, WritersSound, SaveNow, MainPayload, Setups, Load
<1>3. MovesSound'
  BY DEF StInv, WritersSound, MovesSound, RingKept, SecretKept, Moved, SecretGone, SaveNow,
       MainPayload, Load, stRing, stGhost
<1>4. ASSUME ~LateWork PROVE StopsClean'
  BY <1>4 DEF StInv, StopsClean, SaveNow, Stops
<1>5. ASSUME ~LateWork PROVE VersionsSound'
  BY <1>5 DEF StInv, StShape, VersionsSound, SaveNow, MainPayload, MemRecs, Load
<1>6. ASSUME ~LateWork PROVE \A x \in Savers : SaverSound(x)'
  BY <1>6 DEF StInv, StShape, SaverSound, Saving, Carried, SaveNow, MainPayload, Files, MemRecs,
       Load
<1>. QED
  BY <1>1, <1>2, <1>3, <1>4, <1>5, <1>6 DEF StInv

LEMMA StSaveBegins == ASSUME StInv, NEW s \in Savers, SaveBegins(s) PROVE StInv'
<1>1. StShape'
  <2>1. s \in Writers /\ "main" \in Files /\ Taken("main") \in Payloads /\ Begin(s, "main", Taken("main"))
    BY PayloadsAre DEF StInv, SaveBegins, Writers, Files
  <2>2. /\ stWriting' \in [Files -> WriteRecs] /\ stData' \in [Files -> Payloads]
        /\ stTimer' \in [Files -> BOOLEAN]
    BY <2>1, Begun DEF StInv
  <2>. QED
    BY <2>2 DEF StInv, StShape, SaveBegins, SaverRecs, stRing, stGhost
<1>2. WritersSound'
  BY StoreAssumption DEF StInv, StShape, WritersSound, Saving, SaveBegins, Begin, Unlocked, Files,
       Nobody
<1>3. MovesSound'
  <2>1. stPhase \notin Setups /\ stWriting["secrets"].who = Nobody
    BY DEF StInv, WritersSound, Saving, SaveBegins, Setups
  <2>2. Moved(Taken("main"))
    BY <2>1, PayloadsAre DEF StInv, MovesSound, Moved
  <2>3. "main" \in Files /\ Taken("main") \in Payloads /\ s \in Writers /\ Begin(s, "main", Taken("main"))
    BY PayloadsAre DEF StInv, SaveBegins, Files, Writers
  <2>4. /\ stData'["main"].kind = "none" /\ stWriting'["main"].load = Taken("main")
        /\ stWriting'["secrets"].who = Nobody
    BY <2>1, <2>3, Begun, PayloadsAre DEF StInv, Files
  <2>. QED
    BY <2>1, <2>2, <2>4 DEF StInv, MovesSound, RingKept, SecretKept, Moved, SecretGone, SaveBegins,
         stRing, stGhost
<1>4. ASSUME ~LateWork PROVE StopsClean'
  BY <1>4 DEF StInv, StShape, StopsClean, Saving, SaveBegins, Begin
<1>5. ASSUME ~LateWork PROVE VersionsSound'
  BY <1>5 DEF StInv, StShape, VersionsSound, SaveBegins, Begin, Taken, MainPayload, MemRecs, Load,
       Nothing
<1>6. ASSUME ~LateWork PROVE \A x \in Savers : SaverSound(x)'
  BY <1>6, StoreAssumption DEF StInv, StShape, WritersSound, SaverSound, Saving, Carried,
       SaveBegins, Begin, Taken, MainPayload, Unlocked, Files, Nobody, Load, Nothing
<1>. QED
  BY <1>1, <1>2, <1>3, <1>4, <1>5, <1>6 DEF StInv

LEMMA StSaveFindsNothing == ASSUME StInv, NEW s \in Savers, SaveFindsNothing(s) PROVE StInv'
<1>1. StShape'
  <2>1. stFails \in Nat /\ SaveReturns(s, stFails)
    BY StoreAssumption DEF StInv, StShape, SaveFindsNothing
  <2>2. stSaver' \in [Savers -> SaverRecs] /\ stData' \in [Files -> Payloads] /\ stTimer' \in [Files -> BOOLEAN]
    BY <2>1, Returned, Scheduled DEF StInv, StShape
  <2>. QED
    BY <2>2 DEF StInv, StShape, SaveFindsNothing, stRing, stGhost
<1>2. WritersSound'
  BY DEF StInv, StShape, WritersSound, Saving, SaveFindsNothing, SaveReturns, SaveResult, ReArm,
       ScheduleMain, Files, Load, Func
<1>3. MovesSound'
  BY DEF StInv, StShape, MovesSound, RingKept, SecretKept, Moved, SecretGone, SaveFindsNothing,
       SaveReturns, ReArm, ScheduleMain, Load, Func, stRing, stGhost
<1>4. ASSUME ~LateWork PROVE StopsClean'
  BY <1>4 DEF StInv, StShape, WritersSound, StopsClean, Saving, SaveFindsNothing
<1>5. ASSUME ~LateWork PROVE VersionsSound'
  BY <1>5 DEF StInv, StShape, VersionsSound, SaveFindsNothing, SaveReturns, ReArm, ScheduleMain,
       Load, Func
<1>6. ASSUME ~LateWork PROVE \A x \in Savers : SaverSound(x)'
  BY <1>6 DEF StInv, StShape, SaverSound, Saving, Carried, SaveFindsNothing, SaveReturns,
       SaveResult, ReArm, ScheduleMain, Unlocked, Load, Func
<1>. QED
  BY <1>1, <1>2, <1>3, <1>4, <1>5, <1>6 DEF StInv

LEMMA StSetupRing == ASSUME StInv, SetupRing PROVE StInv'
<1>1. StShape'
  <2>1. "setup" \in Writers /\ "ring" \in Files /\ RingPayload \in Payloads /\ Begin("setup", "ring", RingPayload)
    BY PayloadsAre DEF StInv, SetupRing, Writers, Files
  <2>2. /\ stWriting' \in [Files -> WriteRecs] /\ stData' \in [Files -> Payloads]
        /\ stTimer' \in [Files -> BOOLEAN]
    BY <2>1, Begun DEF StInv
  <2>. QED
    BY <2>2 DEF StInv, StShape, SetupRing, stRing, stGhost
<1>2. WritersSound'
  BY StoreAssumption DEF StInv, StShape, WritersSound, Saving, SetupRing, Begin
<1>3. MovesSound'
  BY DEF StInv, MovesSound, RingKept, SecretKept, Moved, SecretGone, SetupRing, Begin, stGhost
<1>4. ASSUME ~LateWork PROVE StopsClean'
  BY <1>4 DEF StInv, StopsClean, Saving, SetupRing, Begin
<1>5. ASSUME ~LateWork PROVE VersionsSound'
  BY <1>5 DEF StInv, VersionsSound, SetupRing, Begin
<1>6. ASSUME ~LateWork PROVE \A x \in Savers : SaverSound(x)'
  BY <1>6 DEF StInv, SaverSound, Saving, Carried, SetupRing, Begin
<1>. QED
  BY <1>1, <1>2, <1>3, <1>4, <1>5, <1>6 DEF StInv

LEMMA StMigrateSecret == ASSUME StInv, MigrateSecret PROVE StInv'
<1>1. StShape'
  <2>1. Load("data", 0, 0, FALSE, TRUE) \in Payloads
    BY StoreAssumption DEF Load, Payloads
  <2>2. stWriting' \in [Files -> WriteRecs]
    BY <2>1 DEF StInv, StShape, MigrateSecret, WriteRecs, Writers, Files
  <2>3. stMem' \in MemRecs
    BY DEF StInv, StShape, MigrateSecret, MemRecs
  <2>. QED
    BY <2>2, <2>3 DEF StInv, StShape, MigrateSecret, stRing, stGhost
<1>2. WritersSound'
  BY DEF StInv, WritersSound, Saving, MigrateSecret, Load
<1>3. MovesSound'
  BY DEF StInv, StShape, MovesSound, RingKept, SecretKept, Moved, SecretGone, MigrateSecret, Files,
       Nobody, stRing, stGhost
<1>4. ASSUME ~LateWork PROVE StopsClean'
  BY <1>4 DEF StInv, StopsClean, Saving, MigrateSecret
<1>5. ASSUME ~LateWork PROVE VersionsSound'
  BY <1>5 DEF StInv, VersionsSound, MigrateSecret
<1>6. ASSUME ~LateWork PROVE \A x \in Savers : SaverSound(x)'
  BY <1>6 DEF StInv, SaverSound, Saving, Carried, MigrateSecret
<1>. QED
  BY <1>1, <1>2, <1>3, <1>4, <1>5, <1>6 DEF StInv

LEMMA StMigrateSave == ASSUME StInv, MigrateSave PROVE StInv'
<1>1. StShape'
  BY StoreAssumption DEF StInv, StShape, MigrateSave, Begin, MainPayload, Files, Payloads,
       WriteRecs, MemRecs, Writers, Load, Nothing, stRing, stGhost
<1>2. WritersSound'
  BY StoreAssumption DEF StInv, StShape, WritersSound, Saving, MigrateSave, Begin, Unlocked, Nobody
<1>3. MovesSound'
  BY DEF StInv, WritersSound, MovesSound, RingKept, SecretKept, Moved, SecretGone, MigrateSave,
       Begin, MainPayload, Load, Nothing, stRing, stGhost
<1>4. ASSUME ~LateWork PROVE StopsClean'
  BY <1>4 DEF StInv, StopsClean, Saving, MigrateSave, Begin
<1>5. ASSUME ~LateWork PROVE VersionsSound'
  BY <1>5 DEF StInv, StShape, VersionsSound, MigrateSave, Begin, MainPayload, MemRecs, Load, Nothing
<1>6. ASSUME ~LateWork PROVE \A x \in Savers : SaverSound(x)'
  BY <1>6 DEF StInv, StShape, WritersSound, StopsClean, SaverSound, Saving, MigrateSave
<1>. QED
  BY <1>1, <1>2, <1>3, <1>4, <1>5, <1>6 DEF StInv

LEMMA StBeginStop == ASSUME StInv, BeginStop PROVE StInv'
<1>1. StShape'
  BY StoreAssumption DEF StInv, StShape, BeginStop, MainPayload, Files, Payloads, MemRecs, Stops,
       Load, stRing, stGhost
<1>2. WritersSound'
  BY DEF StInv, WritersSound, BeginStop, MainPayload, Setups, Load
<1>3. MovesSound'
  BY DEF StInv, WritersSound, MovesSound, RingKept, SecretKept, Moved, SecretGone, BeginStop,
       MainPayload, Load, stRing, stGhost
<1>4. ASSUME ~LateWork PROVE StopsClean'
  BY <1>4 DEF StInv, StopsClean, Saving, BeginStop
<1>5. ASSUME ~LateWork PROVE VersionsSound'
  BY <1>5 DEF StInv, StShape, VersionsSound, BeginStop, MainPayload, MemRecs, Load
<1>6. ASSUME ~LateWork PROVE \A x \in Savers : SaverSound(x)'
  BY <1>6 DEF StInv, SaverSound, Saving, BeginStop
<1>. QED
  BY <1>1, <1>2, <1>3, <1>4, <1>5, <1>6 DEF StInv

LEMMA StFlushMain == ASSUME StInv, FlushMain PROVE StInv'
<1>1. StShape'
  <2>1. "flush" \in Writers /\ "main" \in Files /\ Taken("main") \in Payloads
    BY PayloadsAre DEF StInv, Writers, Files
  <2>2. Begin("flush", "main", Taken("main")) \/ UNCHANGED stCore
    BY DEF FlushMain
  <2>3. /\ stWriting' \in [Files -> WriteRecs] /\ stData' \in [Files -> Payloads]
        /\ stTimer' \in [Files -> BOOLEAN]
    BY <2>1, <2>2, Begun DEF StInv, StShape, stCore
  <2>. QED
    BY <2>3 DEF StInv, StShape, FlushMain, Stops, stRing, stGhost
<1>2. WritersSound'
  BY StoreAssumption DEF StInv, StShape, WritersSound, FlushMain, Begin, Unlocked, Files, Setups,
       Nobody, stCore
<1>3. MovesSound'
  BY DEF StInv, StShape, WritersSound, MovesSound, RingKept, SecretKept, Moved, SecretGone,
       FlushMain, Begin, Taken, MainPayload, Load, Nothing, stCore, stRing, stGhost
<1>4. ASSUME ~LateWork PROVE StopsClean'
  BY <1>4 DEF StInv, StShape, WritersSound, StopsClean, Saving, FlushMain, Begin, Files, stCore
<1>5. ASSUME ~LateWork PROVE VersionsSound'
  BY <1>5 DEF StInv, StShape, VersionsSound, FlushMain, Begin, Taken, MainPayload, MemRecs, Load,
       Nothing, stCore
<1>6. ASSUME ~LateWork PROVE \A x \in Savers : SaverSound(x)'
  BY <1>6 DEF StInv, StShape, WritersSound, StopsClean, SaverSound, Saving, FlushMain
<1>. QED
  BY <1>1, <1>2, <1>3, <1>4, <1>5, <1>6 DEF StInv

LEMMA StFlushRing == ASSUME StInv, FlushRing PROVE StInv'
<1>1. StShape'
  <2>1. "flush" \in Writers /\ "ring" \in Files /\ RingPayload \in Payloads
    BY PayloadsAre DEF StInv, Writers, Files
  <2>2. Begin("flush", "ring", RingPayload) \/ UNCHANGED stCore
    BY DEF FlushRing
  <2>3. /\ stWriting' \in [Files -> WriteRecs] /\ stData' \in [Files -> Payloads]
        /\ stTimer' \in [Files -> BOOLEAN]
    BY <2>1, <2>2, Begun DEF StInv, StShape, stCore
  <2>. QED
    BY <2>3 DEF StInv, StShape, FlushRing, Stops, stRing, stGhost
<1>2. WritersSound'
  BY StoreAssumption DEF StInv, StShape, WritersSound, FlushRing, Begin, Files, Setups, Load, stCore
<1>3. MovesSound'
  BY DEF StInv, StShape, MovesSound, RingKept, SecretKept, Moved, SecretGone, FlushRing, Begin,
       Files, stCore, stGhost
<1>4. ASSUME ~LateWork PROVE StopsClean'
  BY <1>4 DEF StInv, StShape, WritersSound, StopsClean, Saving, FlushRing, Begin, Files, stCore
<1>5. ASSUME ~LateWork PROVE VersionsSound'
  BY <1>5 DEF StInv, StShape, VersionsSound, FlushRing, Begin, Files, stCore
<1>6. ASSUME ~LateWork PROVE \A x \in Savers : SaverSound(x)'
  BY <1>6 DEF StInv, StShape, WritersSound, StopsClean, SaverSound, Saving, FlushRing
<1>. QED
  BY <1>1, <1>2, <1>3, <1>4, <1>5, <1>6 DEF StInv

LEMMA StWriteLands == ASSUME StInv, NEW f \in Files, WriteLands(f) PROVE StInv'
<1>1. StShape'
  <2>1. stWriting' \in [Files -> WriteRecs]
    BY LetGo DEF StInv, WriteLands
  <2>2. stDisk' \in DiskRecs /\ stDisk'.by <= stStarts
    <3>1. stWriting[f].load \in Payloads /\ stDisk \in DiskRecs /\ stDisk' = OnDisk(f, stWriting[f].load, stStarts)
      BY DEF StInv, StShape, WriteLands, WriteRecs
    <3>2. stStarts \in 1 .. MaxStarts /\ stStarts \in Nat /\ stDisk.by <= stStarts
      BY StoreAssumption DEF StInv, StShape
    <3>3. CASE f = "main"
      <4> DEFINE p == stWriting[f].load
      <4>1. /\ p.ver \in 0 .. MaxChanges /\ p.lines \in 0 .. MaxLines
            /\ p.ring \in BOOLEAN /\ p.secret \in BOOLEAN
        BY <3>1 DEF Payloads
      <4>2. stDisk' = [stDisk EXCEPT !.ver = p.ver, !.by = stStarts, !.mainRing = p.ring,
                                     !.mainSecret = p.secret, !.mainLines = p.lines]
        BY <3>1, <3>3 DEF OnDisk
      <4> HIDE DEF p
      <4>3. stDisk'.by = stStarts
        BY <3>1, <4>2 DEF DiskRecs
      <4>4. stDisk' = [ver |-> p.ver, by |-> stStarts, lines |-> stDisk.lines,
                       mainLines |-> p.lines, mainRing |-> p.ring, mainSecret |-> p.secret,
                       ringFile |-> stDisk.ringFile, secretFile |-> stDisk.secretFile]
        BY <3>1, <4>2, ZenonT(40) DEF DiskRecs
      <4>5. stDisk' \in DiskRecs
        BY <3>1, <3>2, <4>1, <4>4, SMTT(30) DEF DiskRecs
      <4>. QED
        BY <3>2, <4>3, <4>5
    <3>4. CASE f = "ring"
      BY <3>1, <3>2, <3>4 DEF OnDisk, DiskRecs, Payloads
    <3>5. CASE f = "secrets"
      BY <3>1, <3>2, <3>5 DEF OnDisk, DiskRecs, Payloads
    <3>. QED
      BY <3>3, <3>4, <3>5 DEF Files
  <2>3. stFails \in Nat
    BY StoreAssumption DEF StInv, StShape
  <2>4. stSaver' \in [Savers -> SaverRecs] /\ stData' \in [Files -> Payloads] /\ stTimer' \in [Files -> BOOLEAN]
    <3>1. CASE stWriting[f].who \in Savers
      BY <2>3, <3>1, Returned, Scheduled DEF StInv, StShape, WriteLands
    <3>2. CASE stWriting[f].who \notin Savers
      BY <3>2, Scheduled DEF StInv, StShape, WriteLands
    <3>. QED
      BY <3>1, <3>2
  <2>5. stPhase' \in Setups \cup {"run"} \cup Stops
    BY DEF StInv, StShape, WriteLands, PhaseAfter, Setups, Stops
  <2>. QED
    BY <2>1, <2>2, <2>4, <2>5 DEF StInv, StShape, WriteLands, stGhost
<1>2. WritersSound'
  BY StoreAssumption DEF StInv, StShape, WritersSound, Saving, WriteLands, PhaseAfter, SaveReturns,
       SaveResult, ReArm, ScheduleMain, Files, SaverRecs, Setups, Nobody, Load, Func
<1>3. MovesSound'
  BY DEF StInv, StShape, WritersSound, MovesSound, RingKept, SecretKept, Moved, SecretGone,
       WriteLands, OnDisk, PhaseAfter, SaveReturns, ReArm, ScheduleMain, Files, Load, Func, stGhost
<1>4. ASSUME ~LateWork PROVE StopsClean'
  BY <1>4 DEF StInv, WritersSound, StopsClean, Saving, WriteLands, PhaseAfter, Files, Stops, Nobody
<1>5. ASSUME ~LateWork PROVE VersionsSound'
  BY <1>5 DEF StInv, StShape, VersionsSound, WriteLands, OnDisk, SaveReturns, ReArm, ScheduleMain,
       Load, Func
<1>6. ASSUME ~LateWork PROVE \A x \in Savers : SaverSound(x)'
  <2>1. /\ stDisk'.ver = IF f = "main" THEN stWriting["main"].load.ver ELSE stDisk.ver
        /\ stMem' = stMem /\ stFails' = stFails
        /\ stWriting'["main"].who = IF f = "main" THEN Nobody ELSE stWriting["main"].who
        /\ f # "main" => stWriting'["main"] = stWriting["main"]
    <3>1. stDisk \in DiskRecs /\ stWriting \in [Files -> WriteRecs] /\ "main" \in Files
      BY DEF StInv, StShape, Files
    <3>2. stDisk'.ver = IF f = "main" THEN stWriting["main"].load.ver ELSE stDisk.ver
      BY <3>1 DEF WriteLands, OnDisk, DiskRecs, Files
    <3>. QED
      BY <3>1, <3>2 DEF WriteLands
  <2>2. /\ stDisk.ver \in Nat /\ stWriting["main"].load.ver \in Nat /\ stFails \in Nat
        /\ f = "main" => stDisk.ver <= stWriting["main"].load.ver
        /\ f = "main" /\ stData["main"].kind = "data" => stWriting["main"].load.ver <= stData["main"].ver
        /\ \A x \in Savers : stSaver[x].ver \in Nat
    BY <1>6, StoreAssumption DEF StInv, StShape, VersionsSound, WriteLands, Files, WriteRecs, DiskRecs,
         SaverRecs, Payloads
  <2>3. \/ stData'["main"] = Func
        \/ stData'["main"] = stData["main"]
    BY <2>2, Returned, Scheduled DEF StInv, WriteLands, Files
  <2>4. ASSUME NEW v \in Nat, Carried(v) PROVE Carried(v)'
    BY <2>1, <2>2, <2>3, <2>4 DEF Carried, Func, Load
  <2>5. ASSUME NEW x \in Savers, stSaver'[x] = stSaver[x], f = "main" => stSaver[x].pc # "writing"
        PROVE  SaverSound(x)'
    BY <1>6, <2>1, <2>2, <2>4, <2>5 DEF StInv, SaverSound, Saving
  <2>6. ASSUME NEW x \in Savers, stWriting[f].who = x PROVE SaverSound(x)'
    <3>0. x # "setup" /\ x # Nobody
      BY StoreAssumption DEF Nobody
    <3>1. f = "main" /\ stSaver[x].pc = "writing"
      BY <2>6, <3>0 DEF StInv, WritersSound, Files
    <3>2. stSaver'[x] = [stSaver[x] EXCEPT !.pc = IF stFails # stSaver[x].fails THEN "error" ELSE "ok"]
      <4>1. SaveReturns(x, stFails)
        BY <2>6, <3>0 DEF WriteLands
      <4>. QED
        BY <2>2, <4>1, Returned DEF StInv
    <3>3. stSaver[x] \in SaverRecs
      BY DEF StInv, StShape
    <3>4. /\ stSaver'[x].pc = IF stFails # stSaver[x].fails THEN "error" ELSE "ok"
          /\ stSaver'[x].ver = stSaver[x].ver
      BY <3>2, <3>3 DEF SaverRecs
    <3>. QED
      BY <1>6, <2>1, <3>1, <3>4 DEF StInv, SaverSound, Saving
  <2>7. ASSUME NEW x \in Savers, stWriting[f].who # x PROVE SaverSound(x)'
    <3>1. stSaver'[x] = stSaver[x]
      BY <2>2, <2>7, Returned DEF StInv, WriteLands
    <3>2. f = "main" => stSaver[x].pc # "writing"
      BY <2>7 DEF StInv, WritersSound
    <3>. QED
      BY <2>5, <3>1, <3>2
  <2>. QED
    BY <2>6, <2>7
<1>. QED
  BY <1>1, <1>2, <1>3, <1>4, <1>5, <1>6 DEF StInv

LEMMA StWriteFails == ASSUME StInv, NEW f \in Files, WriteFails(f) PROVE StInv'
<1>1. StShape'
  <2>1. stWriting' \in [Files -> WriteRecs]
    BY LetGo DEF StInv, WriteFails
  <2>2. /\ stFailures' \in 0 .. MaxFailures /\ stFails' \in 0 .. MaxFailures /\ stFails' <= stFailures'
        /\ stFails' \in Nat
    BY StoreAssumption DEF StInv, StShape, WriteFails
  <2>3. stSaver' \in [Savers -> SaverRecs] /\ stData' \in [Files -> Payloads] /\ stTimer' \in [Files -> BOOLEAN]
    <3>1. CASE stWriting[f].who \in Savers /\ SaveReturns(stWriting[f].who, stFails')
      BY <2>2, <3>1, Returned, Scheduled DEF StInv, StShape
    <3>2. CASE UNCHANGED stSaver /\ (ScheduleMain \/ ScheduleRing \/ UNCHANGED <<stData, stTimer>>)
      BY <3>2, Scheduled DEF StInv, StShape
    <3>. QED
      BY <3>1, <3>2 DEF WriteFails, RingRetry, ReArm, FlushRetry
  <2>4. stPhase' \in Setups \cup {"run"} \cup Stops
    BY DEF StInv, StShape, WriteFails, PhaseAfter, Setups, Stops
  <2>. QED
    BY <2>1, <2>2, <2>3, <2>4 DEF StInv, StShape, WriteFails
<1>2. WritersSound'
  <2>1. (\A g \in Files : stTimer'[g] => stData'[g].kind # "none") /\ ~stTimer'["secrets"]
    <3>1. CASE ScheduleMain \/ ScheduleRing \/ UNCHANGED <<stData, stTimer>>
      BY <3>1, Scheduled DEF StInv, StShape, WritersSound, Files, Func, Load
    <3>. QED
      BY <3>1 DEF WriteFails, SaveReturns, RingRetry, ReArm, FlushRetry
  <2>2. \A g \in Files : stWriting'[g].who = IF g = f THEN Nobody ELSE stWriting[g].who
    BY LetGo DEF StInv, WriteFails
  <2>3. \A g \in Files \ {f} : stWriting'[g] = stWriting[g]
    BY LetGo DEF StInv, WriteFails
  <2>4. /\ stWriting'["secrets"].who # Nobody =>
             /\ stWriting'["secrets"].who = "setup" /\ stWriting'["secrets"].load.secret
             /\ stPhase' = "secret" /\ ~stMem'.legacy
        /\ stWriting'["ring"].who \notin Savers
        /\ stWriting'["ring"].who = "setup" => stPhase' = "ring"
        /\ stWriting'["main"].who = "setup" => stPhase' = "secretSave"
        /\ stWriting'["main"].who = "flush" => stPhase' = "flushMain"
        /\ stWriting'["ring"].who = "flush" => stPhase' = "flushRing"
        /\ stPhase' = "secret" /\ stMem'.legacy => stWriting'["secrets"].who = Nobody
    BY <2>2, <2>3, StoreAssumption DEF StInv, WritersSound, WriteFails, PhaseAfter, Files, Nobody
  <2>5. ASSUME NEW x \in Savers
        PROVE  /\ Saving(x)' => stPhase' \notin Setups
               /\ stSaver'[x].pc = "writing" <=> stWriting'["main"].who = x
    <3>1. x \notin {"setup", "timer", "flush", Nobody}
      BY StoreAssumption DEF Nobody
    <3>2. CASE stWriting[f].who = x
      <4>1. SaveReturns(x, stFails') /\ stPhase' = stPhase
        BY <3>1, <3>2 DEF WriteFails, PhaseAfter, StInv, WritersSound, Files
      <4>2. stSaver'[x].pc \in {"error", "ok"}
        BY <4>1 DEF StInv, StShape, SaverRecs, SaveReturns, SaveResult
      <4>3. f = "main"
        BY <3>1, <3>2 DEF StInv, WritersSound, Files
      <4>. QED
        BY <2>2, <3>1, <4>2, <4>3 DEF Saving, Files
    <3>3. CASE stWriting[f].who # x
      <4>1. stSaver'[x] = stSaver[x]
        BY <3>3 DEF WriteFails, SaveReturns, StInv, StShape
      <4>2. f = "main" => stSaver[x].pc # "writing"
        BY <3>3 DEF StInv, WritersSound
      <4>3. stPhase' \in Setups => stPhase \in Setups
        BY DEF WriteFails, PhaseAfter, StInv, WritersSound, Setups, Files
      <4>. QED
        BY <2>2, <3>1, <4>1, <4>2, <4>3 DEF StInv, WritersSound, Saving, Files
    <3>. QED
      BY <3>2, <3>3
  <2>. QED
    BY <2>1, <2>4, <2>5 DEF WritersSound
<1>3. MovesSound'
  BY DEF StInv, StShape, WritersSound, MovesSound, RingKept, SecretKept, Moved, SecretGone,
       WriteFails, PhaseAfter, SaveReturns, ReArm, ScheduleMain, ScheduleRing, RingRetry,
       FlushRetry, Files, Load, Func
<1>4. ASSUME ~LateWork PROVE StopsClean'
  BY <1>4 DEF StInv, StShape, WritersSound, StopsClean, Saving, WriteFails, PhaseAfter,
       ScheduleRing, RingRetry, FlushRetry, Files, Stops, Nobody
<1>5. ASSUME ~LateWork PROVE VersionsSound'
  BY <1>5 DEF StInv, StShape, VersionsSound, WriteFails, SaveReturns, ReArm, ScheduleMain,
       ScheduleRing, RingRetry, FlushRetry, Files, Load, Func
<1>6. ASSUME ~LateWork PROVE \A x \in Savers : SaverSound(x)'
  BY <1>6, StoreAssumption DEF StInv, StShape, WritersSound, SaverSound, Saving, Carried,
       WriteFails, SaveReturns, SaveResult, ScheduleRing, RingRetry, Files, SaverRecs
<1>. QED
  BY <1>1, <1>2, <1>3, <1>4, <1>5, <1>6 DEF StInv

LEMMA StReload == ASSUME StInv, Reload PROVE StInv'
<1>1. StShape'
  BY StoreAssumption DEF StInv, StShape, Reload, Boot, LoadPhase, LoadedMem, NewSaver, Taken,
       MainPayload, Files, Payloads, WriteRecs, DiskRecs, MemRecs, SaverRecs, Setups, Load, Nothing
<1>2. WritersSound'
  BY StoreAssumption DEF WritersSound, Saving, Reload, Boot, NewSaver, Files, Nobody
<1>3. MovesSound'
  BY DEF StInv, StShape, WritersSound, MovesSound, RingKept, SecretKept, Moved, SecretGone, Reload,
       Boot, LoadPhase, LoadedMem, Taken, MainPayload, Files, Load, Nothing
<1>4. ASSUME ~LateWork PROVE StopsClean'
  BY <1>4 DEF StInv, StopsClean, Saving, Reload, Boot, NewSaver, Files
<1>5. ASSUME ~LateWork PROVE VersionsSound'
  BY <1>5 DEF StInv, StShape, VersionsSound, Reload, Boot, LoadedMem, Files, DiskRecs, Load, Nothing
<1>6. ASSUME ~LateWork PROVE \A x \in Savers : SaverSound(x)'
  BY <1>6 DEF SaverSound, Reload, Boot, NewSaver
<1>. QED
  BY <1>1, <1>2, <1>3, <1>4, <1>5, <1>6 DEF StInv

LEMMA StCrashes == ASSUME StInv, StCrash PROVE StInv'
<1>1. StShape'
  BY StoreAssumption DEF StInv, StShape, StCrash, Boot, LoadPhase, LoadedMem, NewSaver, Payloads,
       WriteRecs, DiskRecs, MemRecs, SaverRecs, Setups, Load, Nothing
<1>2. WritersSound'
  BY StoreAssumption DEF WritersSound, Saving, StCrash, Boot, NewSaver, Files, Nobody
<1>3. MovesSound'
  BY DEF StInv, MovesSound, RingKept, SecretKept, SecretGone, StCrash, Boot, LoadPhase, LoadedMem,
       Files, Load, Nothing
<1>4. ASSUME ~LateWork PROVE StopsClean'
  BY <1>4 DEF StopsClean, Saving, StCrash, Boot, NewSaver, Files
<1>5. ASSUME ~LateWork PROVE VersionsSound'
  BY <1>5 DEF StInv, StShape, VersionsSound, StCrash, Boot, LoadedMem, Files, DiskRecs, Load,
       Nothing
<1>6. ASSUME ~LateWork PROVE \A x \in Savers : SaverSound(x)'
  BY <1>6 DEF SaverSound, StCrash, Boot, NewSaver
<1>. QED
  BY <1>1, <1>2, <1>3, <1>4, <1>5, <1>6 DEF StInv

LEMMA StOldTimerWrites == ASSUME StInv, OldTimerWrites PROVE StInv'
<1>1. StShape'
  <2>1. PICK old \in stOld : stDisk' = OnDisk("main", old[2], old[1]) /\ stOld' = stOld \ {old}
    BY DEF OldTimerWrites
  <2>2. old[1] \in 1 .. MaxStarts /\ old[1] <= stStarts /\ old[2] \in Payloads /\ stDisk \in DiskRecs
    BY DEF StInv, StShape
  <2>3. stDisk' \in DiskRecs /\ stDisk'.by <= stStarts
    BY <2>1, <2>2 DEF OnDisk, DiskRecs, Payloads
  <2>. QED
    BY <2>1, <2>3 DEF StInv, StShape, OldTimerWrites, stCore, stRing, stGhost
<1>2. WritersSound'
  BY DEF StInv, WritersSound, Saving, OldTimerWrites, stCore
<1>3. MovesSound'
  <2>1. PICK old \in stOld : stDisk' = OnDisk("main", old[2], old[1]) /\ stOld' = stOld \ {old}
    BY DEF OldTimerWrites
  <2>2. Moved(old[2]) /\ old[2] \in Payloads /\ stDisk \in DiskRecs
    BY DEF StInv, StShape, MovesSound
  <2>3. /\ stDisk'.ringFile = stDisk.ringFile /\ stDisk'.secretFile = stDisk.secretFile
        /\ stDisk'.mainRing = old[2].ring /\ stDisk'.mainSecret = old[2].secret
    BY <2>1, <2>2 DEF OnDisk, DiskRecs
  <2>. QED
    BY <2>1, <2>2, <2>3 DEF StInv, MovesSound, RingKept, SecretKept, Moved, SecretGone,
         OldTimerWrites, stCore, stRing, stGhost
<1>4. ASSUME ~LateWork PROVE StopsClean'
  BY <1>4 DEF StInv, StopsClean, OldTimerWrites
<1>5. ASSUME ~LateWork PROVE VersionsSound'
  BY <1>5 DEF StInv, StopsClean, OldTimerWrites
<1>6. ASSUME ~LateWork PROVE \A x \in Savers : SaverSound(x)'
  BY <1>6 DEF StInv, StopsClean, SaverSound, OldTimerWrites
<1>. QED
  BY <1>1, <1>2, <1>3, <1>4, <1>5, <1>6 DEF StInv

LEMMA StStep == StInv /\ [StNext]_stVars => StInv'
<1> SUFFICES ASSUME StInv, [StNext]_stVars PROVE StInv'
  OBVIOUS
<1>1. CASE UNCHANGED stVars
  BY <1>1 DEF StInv, StShape, WritersSound, MovesSound, StopsClean, VersionsSound, SaverSound,
       Saving, Carried, Moved, SecretGone, RingKept, SecretKept, stVars, stCore, stRing, stGhost
<1>2. CASE StNext
  BY <1>2, StChange, StAppendSyslog, StTimerWrite, StSaveNow, StSaveBegins, StSaveFindsNothing,
       StSetupRing, StMigrateSecret, StMigrateSave, StBeginStop, StFlushMain, StFlushRing,
       StWriteLands, StWriteFails, StReload, StCrashes, StOldTimerWrites DEF StNext
<1>. QED
  BY <1>1, <1>2

(* No write puts an older start's data over a newer start's. *)
LEMMA StByGrows == StInv /\ ~LateWork /\ [StNext]_stVars => stDisk'.by >= stDisk.by
<1> SUFFICES ASSUME StInv, ~LateWork, [StNext]_stVars PROVE stDisk'.by >= stDisk.by
  OBVIOUS
<1>1. stDisk \in DiskRecs /\ stDisk.by <= stStarts /\ stStarts \in Nat /\ stDisk.by \in Nat /\ stOld = {}
  BY StoreAssumption DEF StInv, StShape, StopsClean, DiskRecs
<1>2. ASSUME NEW f \in Files, WriteLands(f) PROVE stDisk'.by >= stDisk.by
  BY <1>1, <1>2 DEF WriteLands, OnDisk, DiskRecs
<1>3. ~OldTimerWrites
  BY <1>1 DEF OldTimerWrites
<1>4. CASE UNCHANGED stDisk
  BY <1>1, <1>4
<1>. QED
  BY <1>2, <1>3, <1>4 DEF StNext, stVars, Change, AppendSyslog, TimerWrite, SaveNow, SaveBegins,
       SaveFindsNothing, SetupRing, MigrateSecret, MigrateSave, BeginStop, FlushMain, FlushRing,
       WriteFails, Reload, StCrash, Boot

(* Whatever is written, fails or crashes, and whether or not work outlives   *)
(* its entry: what moves between the files is never in none of them.         *)
THEOREM StoreMoves == StSpec => [](StTypeOK /\ RingKept /\ SecretKept)
<1>. QED
  BY StInit_Inv, StStep, StInvImplies, PTL DEF StSpec

(* While no work outlives its entry, an acknowledged save is also on the     *)
(* disk, and no stopped instance writes over its successor (store.py).       *)
THEOREM StoreHolds == ~LateWork => (StSpec => StoreKeeps)
<1> SUFFICES ASSUME ~LateWork PROVE StSpec => StoreKeeps
  OBVIOUS
<1>1. StInv => StTypeOK /\ RingKept /\ SecretKept /\ SaveNowIsTrue
  BY StInvImplies, StSavesTrue
<1>2. StInv /\ [StNext]_stVars => [stDisk'.by >= stDisk.by]_stVars
  BY StByGrows
<1>. QED
  BY <1>1, <1>2, StInit_Inv, StStep, PTL DEF StSpec, StoreKeeps, NoStaleOverwrite

-----------------------------------------------------------------------------
(* The accounts.                                                           *)

UserRecs == [exists : BOOLEAN, admin : BOOLEAN, active : BOOLEAN, mfa : BOOLEAN,
             session : SUBSET {"old", "current"}, token : BOOLEAN]
PassRecs == [pc : {"idle", "listed"}, listed : SUBSET (Accounts \ {AccountOwner}),
             alone : BOOLEAN]

(* The accounts: who is active exists, and the owner is.                   *)
UsersInv ==
  /\ uaUser \in [Accounts -> UserRecs]
  /\ \A u \in Accounts : uaUser[u].active => uaUser[u].exists
  /\ uaUser[AccountOwner].active

(* A reset's steps are those still to take, and none are left only when    *)
(* no session with the old password is.                                    *)
ResetInv ==
  /\ uaReset \in [Accounts -> {<<>>, <<"revoke">>, <<"change", "revoke">>}]
  /\ ResetSignsOut

(* A pass that has run alone carries a list that is still true, and then   *)
(* no other pass is under way.                                             *)
PassInv ==
  /\ uaPass \in [PolicyPasses -> PassRecs]
  /\ \A p \in PolicyPasses : uaPass[p].pc = "listed" /\ uaPass[p].alone =>
       /\ \A u \in uaPass[p].listed : uaUser[u].active
       /\ \A q \in PolicyPasses : q # p => uaPass[q].pc = "idle"

(* Who was cut off is inactive, and has at most a grace that a stale list  *)
(* began, which no day passes over; who was restored has had at most as    *)
(* many days of grace as have passed since.                                *)
GraceInv ==
  /\ uaGrace \in [Accounts -> 0 .. NoGrace] /\ uaRestored \in [Accounts -> 0 .. NoGrace]
  /\ uaCut \subseteq Accounts
  /\ \A u \in uaCut : /\ uaUser[u].exists /\ ~uaUser[u].active
                      /\ uaGrace[u] \in {0, NoGrace}
                      /\ uaQuiet => uaGrace[u] = NoGrace
  /\ \A u \in Accounts : uaGrace[u] # NoGrace /\ uaRestored[u] # NoGrace
                           => uaGrace[u] <= uaRestored[u]

RestInv == /\ uaAccess \in BOOLEAN /\ uaAuto \in BOOLEAN /\ uaQuiet \in BOOLEAN
           /\ uaCommands \in 0 .. MaxCommands

AccessInv == UsersInv /\ ResetInv /\ PassInv /\ GraceInv /\ RestInv

(* What a step may not do: make an administrator, or cut somebody off      *)
(* early.                                                                  *)
OwnerStep ==
  \A u \in Accounts :
    (uaUser'[u].admin /\ uaUser'[u].active) /\ ~(uaUser[u].admin /\ uaUser[u].active)
    => uaActor' = "owner"
FreshStep ==
  \A u \in Accounts :
    (uaActor' = "policy" /\ uaUser[u].active /\ ~uaUser'[u].active /\ uaRestored[u] # NoGrace)
    => uaRestored[u] >= GraceDays

-----------------------------------------------------------------------------

(* Every command spends, and by that no list is alone any more.            *)
LEMMA SpendKeeps ==
  ASSUME AccessInv, NEW actor, Spend(actor)
  PROVE  PassInv' /\ uaQuiet' = FALSE /\ uaCommands' \in 0 .. MaxCommands /\ uaActor' = actor
<1>1. uaQuiet' = FALSE /\ uaActor' = actor
  BY DEF Spend
<1>2. uaCommands' \in 0 .. MaxCommands
  BY AccessAssumption DEF Spend, AccessInv, RestInv
<1>3. uaPass' = [p \in PolicyPasses |-> [uaPass[p] EXCEPT !.alone = FALSE]]
  BY DEF Spend
<1>4. uaPass \in [PolicyPasses -> PassRecs]
  BY DEF AccessInv, PassInv
<1>5. ASSUME NEW p \in PolicyPasses PROVE uaPass'[p] \in PassRecs /\ ~uaPass'[p].alone
  BY <1>3, <1>4 DEF PassRecs
<1>6. uaPass' \in [PolicyPasses -> PassRecs]
  BY <1>3, <1>5
<1>. QED
  BY <1>1, <1>2, <1>5, <1>6 DEF PassInv

(* A command that replaces what hass.auth holds of one account.            *)
LEMMA OneAccount ==
  ASSUME AccessInv, NEW u \in Accounts, NEW r \in UserRecs,
         uaUser' = [uaUser EXCEPT ![u] = r],
         r.active => r.exists, u = AccountOwner => r.active,
         uaActor' # "policy",
         r.admin /\ r.active => uaActor' = "owner" \/ (uaUser[u].admin /\ uaUser[u].active)
  PROVE  UsersInv' /\ OwnerStep /\ FreshStep
<1>1. uaUser \in [Accounts -> UserRecs]
  BY DEF AccessInv, UsersInv
<1>2. uaUser'[u] = r /\ \A v \in Accounts : v # u => uaUser'[v] = uaUser[v]
  BY <1>1
<1>3. uaUser' \in [Accounts -> UserRecs]
  BY <1>1
<1>4. UsersInv'
  BY <1>2, <1>3, AccessAssumption DEF AccessInv, UsersInv
<1>5. OwnerStep
  BY <1>2 DEF OwnerStep
<1>6. FreshStep
  BY DEF FreshStep
<1>. QED
  BY <1>4, <1>5, <1>6

(* ... and leaves resets alone.                                            *)
LEMMA ResetsStand ==
  ASSUME AccessInv, NEW u \in Accounts, NEW r \in UserRecs,
         uaUser' = [uaUser EXCEPT ![u] = r], uaReset' = uaReset,
         "old" \in r.session => "old" \in uaUser[u].session
  PROVE  ResetInv'
<1>1. uaUser \in [Accounts -> UserRecs]
  BY DEF AccessInv, UsersInv
<1>2. uaUser'[u] = r /\ \A v \in Accounts : v # u => uaUser'[v] = uaUser[v]
  BY <1>1
<1>. QED
  BY <1>2 DEF AccessInv, ResetInv, ResetSignsOut

(* ... and does not restore the account.                                   *)
LEMMA GraceStands ==
  ASSUME AccessInv, NEW u \in Accounts, NEW r \in UserRecs,
         uaUser' = [uaUser EXCEPT ![u] = r], UNCHANGED <<uaGrace, uaRestored, uaCut>>,
         uaQuiet' = FALSE, u \in uaCut => r.exists /\ ~r.active
  PROVE  GraceInv'
<1>1. uaUser \in [Accounts -> UserRecs]
  BY DEF AccessInv, UsersInv
<1>2. uaUser'[u] = r /\ \A v \in Accounts : v # u => uaUser'[v] = uaUser[v]
  BY <1>1
<1>. QED
  BY <1>2 DEF AccessInv, GraceInv

(* The gates: who has access and is not the owner makes no administrator.  *)
LEMMA ActorIs ==
  ASSUME NEW a \in Accounts
  PROVE  /\ Actor(a) # "policy"
         /\ a = AccountOwner => Actor(a) = "owner"
BY DEF Actor

LEMMA CreateKeeps ==
  ASSUME AccessInv, NEW a \in Accounts, NEW u \in Accounts, NEW admin \in BOOLEAN,
         CreateUser(a, u, admin)
  PROVE  AccessInv' /\ OwnerStep /\ FreshStep
<1>1. PICK r : r = [Absent EXCEPT !.exists = TRUE, !.admin = admin, !.active = TRUE]
  OBVIOUS
<1>2. r \in UserRecs /\ r.exists /\ r.active /\ r.admin = admin /\ "old" \notin r.session
  BY <1>1 DEF Absent, UserRecs
<1>3. /\ uaUser' = [uaUser EXCEPT ![u] = r] /\ Spend(Actor(a)) /\ ~uaUser[u].exists
      /\ UNCHANGED <<uaAccess, uaAuto, uaGrace, uaReset, uaCut, uaRestored>>
      /\ a = AccountOwner \/ ~admin
  BY <1>1 DEF CreateUser
<1>4. PassInv' /\ uaQuiet' = FALSE /\ uaCommands' \in 0 .. MaxCommands /\ uaActor' = Actor(a)
  BY <1>3, SpendKeeps
<1>5. uaActor' # "policy" /\ (admin => uaActor' = "owner")
  BY <1>3, <1>4, ActorIs
<1>6. UsersInv' /\ OwnerStep /\ FreshStep
  BY <1>2, <1>3, <1>5, OneAccount
<1>7. ResetInv'
  BY <1>2, <1>3, ResetsStand
<1>8. u \notin uaCut
  BY <1>3 DEF AccessInv, GraceInv
<1>9. GraceInv'
  BY <1>2, <1>3, <1>4, <1>8, GraceStands
<1>10. RestInv'
  BY <1>3, <1>4 DEF AccessInv, RestInv
<1>. QED
  BY <1>4, <1>6, <1>7, <1>9, <1>10 DEF AccessInv

LEMMA UpdateKeeps ==
  ASSUME AccessInv, NEW a \in Accounts, NEW u \in Accounts,
         NEW groups \in {"admin", "user", "keep"}, NEW active \in BOOLEAN,
         UpdateUser(a, u, groups, active)
  PROVE  AccessInv' /\ OwnerStep /\ FreshStep
<1>0. uaUser \in [Accounts -> UserRecs] /\ uaUser[u] \in UserRecs
  BY DEF AccessInv, UsersInv
<1>1. PICK r : r = [uaUser[u] EXCEPT !.admin = IF groups = "keep" THEN @ ELSE groups = "admin",
                                     !.active = active]
  OBVIOUS
<1>2. /\ r \in UserRecs /\ r.exists = uaUser[u].exists /\ r.active = active
      /\ r.session = uaUser[u].session
      /\ r.admin = IF groups = "keep" THEN uaUser[u].admin ELSE groups = "admin"
  BY <1>0, <1>1 DEF UserRecs
<1>3. uaUser' = [uaUser EXCEPT ![u] = r]
  BY <1>0, <1>1 DEF UpdateUser, UserRecs
<1>4. /\ uaUser[u].exists /\ MayTouch(a, u) /\ (a = AccountOwner \/ groups # "admin")
      /\ u = AccountOwner => active
      /\ Spend(Actor(a))
      /\ UNCHANGED <<uaAccess, uaAuto, uaGrace, uaReset>>
      /\ uaCut' = IF active THEN uaCut \ {u} ELSE uaCut
      /\ uaRestored' = IF active /\ u \in uaCut THEN [uaRestored EXCEPT ![u] = 0] ELSE uaRestored
  BY DEF UpdateUser
<1>5. PassInv' /\ uaQuiet' = FALSE /\ uaCommands' \in 0 .. MaxCommands /\ uaActor' = Actor(a)
  BY <1>4, SpendKeeps
<1>6. uaActor' # "policy" /\ (r.admin => uaActor' = "owner")
  <2>1. a = AccountOwner \/ ~uaUser[u].admin
    BY <1>4 DEF MayTouch, TargetIsAdmin
  <2>. QED
    BY <1>2, <1>4, <1>5, <2>1, ActorIs
<1>7. UsersInv' /\ OwnerStep /\ FreshStep
  BY <1>2, <1>3, <1>4, <1>6, OneAccount
<1>8. ResetInv'
  BY <1>2, <1>3, <1>4, ResetsStand
<1>9. GraceInv'
  <2>1. uaUser'[u] = r /\ \A v \in Accounts : v # u => uaUser'[v] = uaUser[v]
    BY <1>0, <1>3
  <2>2. /\ uaGrace \in [Accounts -> 0 .. NoGrace] /\ uaRestored \in [Accounts -> 0 .. NoGrace]
        /\ uaCut \subseteq Accounts
        /\ \A v \in uaCut : /\ uaUser[v].exists /\ ~uaUser[v].active
                            /\ uaGrace[v] \in {0, NoGrace}
        /\ \A v \in Accounts : uaGrace[v] # NoGrace /\ uaRestored[v] # NoGrace
                                 => uaGrace[v] <= uaRestored[v]
    BY DEF AccessInv, GraceInv
  <2>3. GraceDays \in Nat /\ 0 \in 0 .. NoGrace /\ NoGrace \in Nat
    BY AccessAssumption DEF NoGrace
  <2>4. uaRestored' \in [Accounts -> 0 .. NoGrace] /\ uaCut' \subseteq Accounts
    BY <1>4, <2>2, <2>3
  <2>5. \A v \in uaCut' : /\ uaUser'[v].exists /\ ~uaUser'[v].active
                          /\ uaGrace'[v] \in {0, NoGrace}
    <3>1. CASE active
      BY <1>4, <2>1, <2>2, <3>1
    <3>2. CASE ~active
      BY <1>2, <1>4, <2>1, <2>2, <3>2
    <3>. QED
      BY <3>1, <3>2
  <2>6. ASSUME NEW v \in Accounts, uaGrace'[v] # NoGrace, uaRestored'[v] # NoGrace
        PROVE  uaGrace'[v] <= uaRestored'[v]
    <3>1. CASE active /\ u \in uaCut /\ v = u
      <4>1. uaRestored'[v] = 0
        BY <1>4, <2>2, <3>1
      <4>2. uaGrace'[v] = 0
        BY <1>4, <2>2, <2>6, <3>1
      <4>. QED
        BY <4>1, <4>2
    <3>2. CASE ~(active /\ u \in uaCut /\ v = u)
      <4>1. uaRestored'[v] = uaRestored[v] /\ uaGrace' = uaGrace
        BY <1>4, <2>2, <3>2
      <4>. QED
        BY <2>2, <2>6, <4>1
    <3>. QED
      BY <3>1, <3>2
  <2>. QED
    BY <1>4, <1>5, <2>2, <2>4, <2>5, <2>6 DEF GraceInv
<1>10. RestInv'
  BY <1>4, <1>5 DEF AccessInv, RestInv
<1>. QED
  BY <1>5, <1>7, <1>8, <1>9, <1>10 DEF AccessInv

LEMMA DeleteKeeps ==
  ASSUME AccessInv, NEW a \in Accounts, NEW u \in Accounts, DeleteUser(a, u)
  PROVE  AccessInv' /\ OwnerStep /\ FreshStep
<1>0. uaUser \in [Accounts -> UserRecs]
  BY DEF AccessInv, UsersInv
<1>1. Absent \in UserRecs /\ ~Absent.active /\ Absent.session = {}
  BY DEF Absent, UserRecs
<1>2. /\ u # AccountOwner /\ Spend(Actor(a))
      /\ uaUser' = [uaUser EXCEPT ![u] = Absent]
      /\ uaCut' = uaCut \ {u} /\ uaRestored' = [uaRestored EXCEPT ![u] = NoGrace]
      /\ uaGrace' = [uaGrace EXCEPT ![u] = NoGrace]
      /\ uaReset' = [uaReset EXCEPT ![u] = <<>>]
      /\ UNCHANGED <<uaAccess, uaAuto>>
  BY DEF DeleteUser
<1>3. PassInv' /\ uaQuiet' = FALSE /\ uaCommands' \in 0 .. MaxCommands /\ uaActor' = Actor(a)
  BY <1>2, SpendKeeps
<1>4. uaActor' # "policy"
  BY <1>3, ActorIs
<1>5. UsersInv' /\ OwnerStep /\ FreshStep
  BY <1>1, <1>2, <1>4, OneAccount
<1>6. uaUser'[u] = Absent /\ \A v \in Accounts : v # u => uaUser'[v] = uaUser[v]
  BY <1>0, <1>2
<1>7. ResetInv'
  BY <1>1, <1>2, <1>6 DEF AccessInv, ResetInv, ResetSignsOut
<1>8. GraceInv'
  <2>1. NoGrace \in 0 .. NoGrace
    BY AccessAssumption DEF NoGrace
  <2>2. /\ uaGrace' \in [Accounts -> 0 .. NoGrace] /\ uaRestored' \in [Accounts -> 0 .. NoGrace]
        /\ \A v \in Accounts : v # u => uaGrace'[v] = uaGrace[v] /\ uaRestored'[v] = uaRestored[v]
        /\ uaGrace'[u] = NoGrace
    BY <1>2, <2>1 DEF AccessInv, GraceInv
  <2>. QED
    BY <1>2, <1>3, <1>6, <2>2 DEF AccessInv, GraceInv
<1>9. RestInv'
  BY <1>2, <1>3 DEF AccessInv, RestInv
<1>. QED
  BY <1>3, <1>5, <1>7, <1>8, <1>9 DEF AccessInv

(* Commands that make nobody active: deactivating, revoking, beginning a   *)
(* reset; and what users do themselves.                                    *)
LEMMA PlainKeeps ==
  ASSUME AccessInv, NEW u \in Accounts, NEW r \in UserRecs, NEW actor \in {"owner", "admin", "user"},
         uaUser' = [uaUser EXCEPT ![u] = r], Spend(actor),
         UNCHANGED <<uaAccess, uaAuto, uaGrace, uaReset, uaCut, uaRestored>>,
         r.active => uaUser[u].active, r.exists = uaUser[u].exists, r.admin = uaUser[u].admin,
         u = AccountOwner => r.active = uaUser[u].active,
         "old" \in r.session => "old" \in uaUser[u].session
  PROVE  AccessInv' /\ OwnerStep /\ FreshStep
<1>1. PassInv' /\ uaQuiet' = FALSE /\ uaCommands' \in 0 .. MaxCommands /\ uaActor' = actor
  BY SpendKeeps
<1>2. (r.active => r.exists) /\ (u = AccountOwner => r.active)
  BY DEF AccessInv, UsersInv
<1>3. UsersInv' /\ OwnerStep /\ FreshStep
  BY <1>1, <1>2, OneAccount
<1>4. ResetInv'
  BY ResetsStand
<1>5. u \in uaCut => r.exists /\ ~r.active
  BY DEF AccessInv, GraceInv
<1>6. GraceInv'
  BY <1>1, <1>5, GraceStands
<1>7. RestInv'
  BY <1>1 DEF AccessInv, RestInv
<1>. QED
  BY <1>1, <1>3, <1>4, <1>6, <1>7 DEF AccessInv

LEMMA CommandsKeep ==
  ASSUME AccessInv, NEW a \in Accounts, NEW u \in Accounts,
         \/ DeactivateUser(a, u) \/ BeginReset(a, u) \/ \E all \in BOOLEAN : Revoke(a, u, all)
         \/ Login(u) \/ ToggleMfa(u)
  PROVE  AccessInv' /\ OwnerStep /\ FreshStep
<1>0. uaUser \in [Accounts -> UserRecs] /\ uaUser[u] \in UserRecs
  BY DEF AccessInv, UsersInv
<1>1. Actor(a) \in {"owner", "admin", "user"}
  BY DEF Actor
<1>2. CASE DeactivateUser(a, u)
  <2>1. PICK r : r = [uaUser[u] EXCEPT !.active = FALSE, !.session = {}, !.token = FALSE]
    OBVIOUS
  <2>2. /\ r \in UserRecs /\ ~r.active /\ r.session = {}
        /\ r.exists = uaUser[u].exists /\ r.admin = uaUser[u].admin
    BY <1>0, <2>1 DEF UserRecs
  <2>3. uaUser' = [uaUser EXCEPT ![u] = r] /\ u # AccountOwner /\ Spend(Actor(a))
    BY <1>0, <1>2, <2>1 DEF DeactivateUser, Deactivated, UserRecs
  <2>4. UNCHANGED <<uaAccess, uaAuto, uaGrace, uaReset, uaCut, uaRestored>>
    BY <1>2 DEF DeactivateUser
  <2>. QED
    BY <1>1, <2>2, <2>3, <2>4, PlainKeeps
<1>3. ASSUME NEW all \in BOOLEAN, Revoke(a, u, all) PROVE AccessInv' /\ OwnerStep /\ FreshStep
  <2>1. PICK r : r = [uaUser[u] EXCEPT !.session = IF all THEN {} ELSE @, !.token = FALSE]
    OBVIOUS
  <2>2. /\ r \in UserRecs /\ r.active = uaUser[u].active /\ r.session \subseteq uaUser[u].session
        /\ r.exists = uaUser[u].exists /\ r.admin = uaUser[u].admin
    BY <1>0, <2>1 DEF UserRecs
  <2>3. uaUser' = [uaUser EXCEPT ![u] = r] /\ Spend(Actor(a))
    <3>1. CASE all
      BY <1>0, <1>3, <2>1, <3>1 DEF Revoke, UserRecs
    <3>2. CASE ~all
      BY <1>0, <1>3, <2>1, <3>2 DEF Revoke, UserRecs
    <3>. QED
      BY <3>1, <3>2
  <2>4. UNCHANGED <<uaAccess, uaAuto, uaGrace, uaReset, uaCut, uaRestored>>
    BY <1>3 DEF Revoke
  <2>. QED
    BY <1>1, <2>2, <2>3, <2>4, PlainKeeps
<1>4. CASE Login(u)
  <2>1. PICK r : r = [uaUser[u] EXCEPT !.session = @ \cup {"current"}]
    OBVIOUS
  <2>2. /\ r \in UserRecs /\ r.active = uaUser[u].active
        /\ "old" \in r.session => "old" \in uaUser[u].session
        /\ r.exists = uaUser[u].exists /\ r.admin = uaUser[u].admin
    BY <1>0, <2>1 DEF UserRecs
  <2>3. uaUser' = [uaUser EXCEPT ![u] = r] /\ Spend("user")
    BY <1>0, <1>4, <2>1 DEF Login, UserRecs
  <2>4. UNCHANGED <<uaAccess, uaAuto, uaGrace, uaReset, uaCut, uaRestored>>
    BY <1>4 DEF Login
  <2>. QED
    BY <2>2, <2>3, <2>4, PlainKeeps
<1>5. CASE ToggleMfa(u)
  <2>1. PICK r : r = [uaUser[u] EXCEPT !.mfa = ~@]
    OBVIOUS
  <2>2. /\ r \in UserRecs /\ r.active = uaUser[u].active /\ r.session = uaUser[u].session
        /\ r.exists = uaUser[u].exists /\ r.admin = uaUser[u].admin
    BY <1>0, <2>1 DEF UserRecs
  <2>3. uaUser' = [uaUser EXCEPT ![u] = r] /\ Spend("user")
    BY <1>0, <1>5, <2>1 DEF ToggleMfa, UserRecs
  <2>4. UNCHANGED <<uaAccess, uaAuto, uaGrace, uaReset, uaCut, uaRestored>>
    BY <1>5 DEF ToggleMfa
  <2>. QED
    BY <2>2, <2>3, <2>4, PlainKeeps
<1>6. CASE BeginReset(a, u)
  <2>1. /\ Spend(Actor(a)) /\ uaReset' = [uaReset EXCEPT ![u] = <<"change", "revoke">>]
        /\ UNCHANGED <<uaCut, uaUser, uaAccess, uaAuto, uaGrace, uaRestored>>
    BY <1>6 DEF BeginReset, ResetSteps
  <2>2. PassInv' /\ uaQuiet' = FALSE /\ uaCommands' \in 0 .. MaxCommands /\ uaActor' = Actor(a)
    BY <2>1, SpendKeeps
  <2>3. <<"change", "revoke">> # <<>>
    OBVIOUS
  <2>4. ResetInv'
    BY <2>1, <2>3 DEF AccessInv, ResetInv, ResetSignsOut
  <2>5. UsersInv' /\ GraceInv' /\ RestInv'
    BY <2>1, <2>2 DEF AccessInv, UsersInv, GraceInv, RestInv
  <2>6. OwnerStep /\ FreshStep
    BY <2>1 DEF OwnerStep, FreshStep
  <2>. QED
    BY <2>2, <2>4, <2>5, <2>6 DEF AccessInv
<1>. QED
  BY <1>2, <1>3, <1>4, <1>5, <1>6

(* A reset's own steps.                                                    *)
LEMMA ResetStepKeeps ==
  ASSUME AccessInv, NEW u \in Accounts, ResetStep(u)
  PROVE  AccessInv' /\ OwnerStep /\ FreshStep
<1>0. uaUser \in [Accounts -> UserRecs] /\ uaUser[u] \in UserRecs
  BY DEF AccessInv, UsersInv
<1>1. PICK new \in SUBSET {"old", "current"} :
        /\ uaUser' = [uaUser EXCEPT ![u] = [uaUser[u] EXCEPT !.session = new]]
        /\ Head(uaReset[u]) # "change" => new = {}
  <2>1. PICK new : new = IF Head(uaReset[u]) = "change" /\ uaUser[u].session # {}
                         THEN {"old"} ELSE {}
    OBVIOUS
  <2>2. uaUser' = [uaUser EXCEPT ![u].session = new]
    BY <2>1 DEF ResetStep
  <2>. QED
    BY <2>1, <2>2
<1>2. PICK r : r = [uaUser[u] EXCEPT !.session = new]
  OBVIOUS
<1>3. /\ r \in UserRecs /\ r.active = uaUser[u].active /\ r.session = new
      /\ r.exists = uaUser[u].exists /\ r.admin = uaUser[u].admin
  BY <1>0, <1>2 DEF UserRecs
<1>4. uaUser' = [uaUser EXCEPT ![u] = r]
  BY <1>1, <1>2
<1>5. /\ uaReset[u] # <<>> /\ uaReset' = [uaReset EXCEPT ![u] = Tail(@)] /\ uaActor' = "owner"
      /\ UNCHANGED <<uaAccess, uaAuto, uaGrace, uaPass, uaCommands, uaCut, uaRestored, uaQuiet>>
  BY DEF ResetStep
<1>6. (r.active => r.exists) /\ (u = AccountOwner => r.active)
  BY <1>3 DEF AccessInv, UsersInv
<1>7. UsersInv' /\ OwnerStep /\ FreshStep
  BY <1>3, <1>4, <1>5, <1>6, OneAccount
<1>8. uaUser'[u] = r /\ \A v \in Accounts : v # u => uaUser'[v] = uaUser[v]
  BY <1>0, <1>4
<1>9. ResetInv'
  <2>1. uaReset \in [Accounts -> {<<>>, <<"revoke">>, <<"change", "revoke">>}]
    BY DEF AccessInv, ResetInv
  <2>2. uaReset[u] = <<"revoke">> \/ uaReset[u] = <<"change", "revoke">>
    BY <1>5, <2>1
  <2>3. /\ Tail(<<"revoke">>) = <<>> /\ Head(<<"revoke">>) = "revoke"
        /\ Tail(<<"change", "revoke">>) = <<"revoke">> /\ <<"revoke">> # <<>>
    OBVIOUS
  <2>4. uaReset'[u] = Tail(uaReset[u]) /\ \A v \in Accounts : v # u => uaReset'[v] = uaReset[v]
    BY <1>5, <2>1
  <2>5. uaReset' \in [Accounts -> {<<>>, <<"revoke">>, <<"change", "revoke">>}]
    BY <1>5, <2>1, <2>2, <2>3
  <2>6. uaReset'[u] = <<>> => "old" \notin uaUser'[u].session
    BY <1>1, <1>3, <1>8, <2>2, <2>3, <2>4
  <2>. QED
    BY <1>8, <2>4, <2>5, <2>6 DEF AccessInv, ResetInv, ResetSignsOut
<1>10. \A v \in Accounts : uaUser'[v].active = uaUser[v].active /\ uaUser'[v].exists = uaUser[v].exists
  BY <1>3, <1>8
<1>11. PassInv'
  <2>1. uaPass \in [PolicyPasses -> PassRecs]
    BY DEF AccessInv, PassInv
  <2>2. \A p \in PolicyPasses : uaPass[p].listed \subseteq Accounts
    BY <2>1 DEF PassRecs
  <2>. QED
    BY <1>5, <1>10, <2>2 DEF AccessInv, PassInv
<1>12. GraceInv'
  BY <1>5, <1>10 DEF AccessInv, GraceInv
<1>13. RestInv'
  BY <1>5 DEF AccessInv, RestInv
<1>. QED
  BY <1>7, <1>9, <1>11, <1>12, <1>13 DEF AccessInv

LEMMA PolicyChangeKeeps ==
  ASSUME AccessInv, NEW access \in BOOLEAN, NEW auto \in BOOLEAN, ChangePolicy(access, auto)
  PROVE  AccessInv' /\ OwnerStep /\ FreshStep
<1>1. /\ Spend("owner") /\ uaAccess' = access /\ uaAuto' = auto
      /\ UNCHANGED <<uaCut, uaUser, uaGrace, uaReset, uaRestored>>
  BY DEF ChangePolicy
<1>2. PassInv' /\ uaQuiet' = FALSE /\ uaCommands' \in 0 .. MaxCommands /\ uaActor' = "owner"
  BY <1>1, SpendKeeps
<1>3. UsersInv' /\ GraceInv' /\ ResetInv'
  BY <1>1, <1>2 DEF AccessInv, UsersInv, GraceInv, ResetInv, ResetSignsOut
<1>4. RestInv'
  BY <1>1, <1>2 DEF RestInv
<1>5. OwnerStep /\ FreshStep
  BY <1>1 DEF OwnerStep, FreshStep
<1>. QED
  BY <1>2, <1>3, <1>4, <1>5 DEF AccessInv

-----------------------------------------------------------------------------
(* The policy.  A pass that begins while another is under way is not       *)
(* alone, and neither is that one any more.                                *)
LEMMA BeginPassKeeps ==
  ASSUME AccessInv, NEW p \in PolicyPasses, BeginPass(p)
  PROVE  AccessInv' /\ OwnerStep /\ FreshStep
<1>0. uaPass \in [PolicyPasses -> PassRecs]
  BY DEF AccessInv, PassInv
<1>1. PICK L : L = {u \in Accounts : Noncompliant(u)}
  OBVIOUS
<1>2. L \in SUBSET (Accounts \ {AccountOwner}) /\ \A u \in L : uaUser[u].active
  BY <1>1 DEF Noncompliant
<1>3. PICK al \in BOOLEAN : al = (\A r \in PolicyPasses : uaPass[r].pc = "idle")
  OBVIOUS
<1>4. uaPass' = [q \in PolicyPasses |->
                   IF q = p THEN [pc |-> "listed", listed |-> L, alone |-> al]
                   ELSE [uaPass[q] EXCEPT !.alone = FALSE]]
  BY <1>1, <1>3 DEF BeginPass
<1>5. /\ uaActor' = "policy"
      /\ UNCHANGED <<uaUser, uaAccess, uaAuto, uaGrace, uaReset, uaCommands, uaCut,
                     uaRestored, uaQuiet>>
  BY DEF BeginPass
<1>6. ASSUME NEW q \in PolicyPasses, q # p
      PROVE  uaPass'[q] \in PassRecs /\ ~uaPass'[q].alone /\ uaPass'[q].pc = uaPass[q].pc
  BY <1>0, <1>4, <1>6 DEF PassRecs
<1>7. uaPass'[p] = [pc |-> "listed", listed |-> L, alone |-> al]
  BY <1>4
<1>8. [pc |-> "listed", listed |-> L, alone |-> al] \in PassRecs
  BY <1>2, <1>3 DEF PassRecs
<1>9. uaPass' \in [PolicyPasses -> PassRecs]
  BY <1>4, <1>6, <1>7, <1>8
<1>10. PassInv'
  <2>1. ASSUME NEW q \in PolicyPasses, uaPass'[q].alone
        PROVE  /\ \A u \in uaPass'[q].listed : uaUser'[u].active
               /\ \A r \in PolicyPasses : r # q => uaPass'[r].pc = "idle"
    <3>1. q = p
      BY <1>6, <2>1
    <3>2. al /\ uaPass'[q].listed = L
      BY <1>7, <2>1, <3>1
    <3>. QED
      BY <1>2, <1>3, <1>5, <1>6, <3>1, <3>2
  <2>. QED
    BY <1>9, <2>1 DEF PassInv
<1>11. UsersInv' /\ GraceInv' /\ ResetInv' /\ RestInv'
  BY <1>5 DEF AccessInv, UsersInv, GraceInv, ResetInv, ResetSignsOut, RestInv
<1>12. OwnerStep /\ FreshStep
  BY <1>5 DEF OwnerStep, FreshStep
<1>. QED
  BY <1>10, <1>11, <1>12 DEF AccessInv

(* Whoever a pass cuts off had the whole grace, so that it was not a grace *)
(* begun by a stale list.                                                  *)
LEMMA EnforceKeeps ==
  ASSUME AccessInv, NEW p \in PolicyPasses, Enforce(p)
  PROVE  AccessInv' /\ OwnerStep /\ FreshStep
<1>0. /\ uaUser \in [Accounts -> UserRecs] /\ uaPass \in [PolicyPasses -> PassRecs]
      /\ uaPass[p] \in PassRecs
  BY DEF AccessInv, UsersInv, PassInv
<1>1. /\ uaPass[p].pc = "listed"
      /\ uaUser' = [u \in Accounts |-> IF u \in Expired(p) /\ uaUser[u].exists
                                       THEN Deactivated(uaUser, u)[u] ELSE uaUser[u]]
      /\ uaGrace' = GraceAfter(p)
      /\ uaPass' = [uaPass EXCEPT ![p] = NoPass]
      /\ uaQuiet' = uaPass[p].alone
      /\ uaCut' = uaCut \cup {u \in Expired(p) : uaUser[u].exists}
      /\ uaActor' = "policy"
      /\ UNCHANGED <<uaAccess, uaAuto, uaReset, uaCommands, uaRestored>>
  BY DEF Enforce
<1>2. /\ uaGrace \in [Accounts -> 0 .. NoGrace] /\ uaRestored \in [Accounts -> 0 .. NoGrace]
      /\ uaCut \subseteq Accounts
      /\ \A v \in uaCut : /\ uaUser[v].exists /\ ~uaUser[v].active
                          /\ uaGrace[v] \in {0, NoGrace}
      /\ \A v \in Accounts : uaGrace[v] # NoGrace /\ uaRestored[v] # NoGrace
                               => uaGrace[v] <= uaRestored[v]
  BY DEF AccessInv, GraceInv
<1>3. GraceDays \in Nat /\ GraceDays > 0 /\ NoGrace = GraceDays + 1
  BY AccessAssumption DEF NoGrace
<1>4. uaPass[p].listed \subseteq Accounts /\ AccountOwner \notin uaPass[p].listed
        /\ Expired(p) \subseteq uaPass[p].listed /\ uaPass[p].alone \in BOOLEAN
  BY <1>0 DEF PassRecs, Expired
<1>5. \A u \in Expired(p) : uaGrace[u] = GraceDays
  BY <1>2, <1>3, <1>4 DEF Expired, Started
<1>6. ASSUME NEW u \in Accounts
      PROVE  IF u \in Expired(p) /\ uaUser[u].exists
             THEN /\ uaUser'[u] \in UserRecs
                  /\ uaUser'[u].exists /\ ~uaUser'[u].active /\ uaUser'[u].session = {}
             ELSE uaUser'[u] = uaUser[u]
  <2>1. CASE u \in Expired(p) /\ uaUser[u].exists
    <3>1. uaUser'[u] = [uaUser[u] EXCEPT !.active = FALSE, !.session = {}, !.token = FALSE]
      BY <1>0, <1>1, <2>1 DEF Deactivated, UserRecs
    <3>2. uaUser[u] \in UserRecs
      BY <1>0
    <3>. QED
      BY <2>1, <3>1, <3>2 DEF UserRecs
  <2>2. CASE ~(u \in Expired(p) /\ uaUser[u].exists)
    BY <1>1, <2>2
  <2>. QED
    BY <2>1, <2>2
<1>7. UsersInv'
  <2>1. uaUser' \in [Accounts -> UserRecs]
    BY <1>0, <1>1, <1>6
  <2>2. uaUser'[AccountOwner] = uaUser[AccountOwner]
    BY <1>4, <1>6, AccessAssumption
  <2>. QED
    BY <1>6, <2>1, <2>2 DEF AccessInv, UsersInv
<1>8. ResetInv'
  BY <1>1, <1>6 DEF AccessInv, ResetInv, ResetSignsOut
<1>9. PassInv'
  <2>1. NoPass \in PassRecs /\ NoPass.pc = "idle"
    BY DEF NoPass, PassRecs
  <2>2. /\ uaPass' \in [PolicyPasses -> PassRecs] /\ uaPass'[p].pc = "idle"
        /\ \A q \in PolicyPasses : q # p => uaPass'[q] = uaPass[q]
    BY <1>0, <1>1, <2>1
  <2>3. ASSUME NEW q \in PolicyPasses, uaPass'[q].pc = "listed", uaPass'[q].alone PROVE FALSE
    <3>1. q # p /\ uaPass[q].pc = "listed" /\ uaPass[q].alone
      BY <2>2, <2>3
    <3>2. uaPass[p].pc = "idle"
      BY <3>1 DEF AccessInv, PassInv
    <3>. QED
      BY <1>1, <3>2
  <2>. QED
    BY <2>2, <2>3 DEF PassInv
<1>10. ASSUME NEW u \in Accounts
       PROVE  /\ uaGrace'[u] = IF u \in uaPass[p].listed /\ (u \notin Expired(p) \/ ~uaUser[u].exists)
                               THEN Started(u) ELSE NoGrace
              /\ Started(u) = IF uaGrace[u] = NoGrace THEN 0 ELSE uaGrace[u]
  BY <1>1 DEF GraceAfter, Started
<1>11. GraceInv'
  <2>1. uaGrace' \in [Accounts -> 0 .. NoGrace]
    <3>1. \A u \in Accounts : uaGrace'[u] \in 0 .. NoGrace
      BY <1>2, <1>3, <1>10
    <3>2. uaGrace' = [u \in Accounts |-> uaGrace'[u]]
      BY <1>1 DEF GraceAfter
    <3>. QED
      BY <3>1, <3>2
  <2>2. uaCut' \subseteq Accounts
    BY <1>1, <1>2, <1>4
  <2>3. ASSUME NEW v \in uaCut'
        PROVE  /\ uaUser'[v].exists /\ ~uaUser'[v].active
               /\ uaGrace'[v] \in {0, NoGrace}
               /\ uaQuiet' => uaGrace'[v] = NoGrace
    <3>1. v \in Accounts
      BY <2>2, <2>3
    <3>2. CASE v \in Expired(p) /\ uaUser[v].exists
      BY <1>6, <1>10, <3>1, <3>2
    <3>3. CASE v \in uaCut
      <4>1. uaUser[v].exists /\ ~uaUser[v].active /\ uaGrace[v] \in {0, NoGrace}
        BY <1>2, <3>3
      <4>2. v \notin Expired(p)
        BY <1>3, <1>5, <4>1
      <4>3. uaUser'[v] = uaUser[v]
        BY <1>6, <3>1, <4>2
      <4>4. uaGrace'[v] \in {0, NoGrace}
        BY <1>10, <3>1, <4>1
      <4>5. uaPass[p].alone => v \notin uaPass[p].listed
        BY <1>1, <4>1 DEF AccessInv, PassInv
      <4>6. uaQuiet' => uaGrace'[v] = NoGrace
        BY <1>1, <1>10, <3>1, <4>5
      <4>. QED
        BY <4>1, <4>3, <4>4, <4>6
    <3>. QED
      BY <1>1, <2>3, <3>2, <3>3
  <2>4. ASSUME NEW v \in Accounts, uaGrace'[v] # NoGrace, uaRestored'[v] # NoGrace
        PROVE  uaGrace'[v] <= uaRestored'[v]
    <3>1. uaRestored'[v] = uaRestored[v] /\ uaRestored[v] \in 0 .. NoGrace
      BY <1>1, <1>2
    <3>2. uaGrace'[v] = Started(v)
      BY <1>10, <2>4
    <3>3. CASE uaGrace[v] = NoGrace
      BY <1>3, <1>10, <3>1, <3>2, <3>3
    <3>4. CASE uaGrace[v] # NoGrace
      BY <1>2, <1>10, <2>4, <3>1, <3>2, <3>4
    <3>. QED
      BY <3>3, <3>4
  <2>. QED
    BY <1>1, <1>2, <2>1, <2>2, <2>3, <2>4 DEF GraceInv
<1>12. RestInv'
  BY <1>1, <1>4 DEF AccessInv, RestInv
<1>13. OwnerStep
  BY <1>6 DEF OwnerStep
<1>14. FreshStep
  <2>1. ASSUME NEW u \in Accounts, uaUser[u].active, ~uaUser'[u].active, uaRestored[u] # NoGrace
        PROVE  uaRestored[u] >= GraceDays
    <3>1. u \in Expired(p)
      BY <1>6, <2>1
    <3>2. uaGrace[u] = GraceDays /\ uaGrace[u] # NoGrace
      BY <1>3, <1>5, <3>1
    <3>3. uaGrace[u] <= uaRestored[u] /\ uaRestored[u] \in 0 .. NoGrace
      BY <1>2, <2>1, <3>2
    <3>. QED
      BY <1>3, <3>2, <3>3
  <2>. QED
    BY <2>1 DEF FreshStep
<1>. QED
  BY <1>7, <1>8, <1>9, <1>11, <1>12, <1>13, <1>14 DEF AccessInv

LEMMA NextDayKeeps ==
  ASSUME AccessInv, NextDay
  PROVE  AccessInv' /\ OwnerStep /\ FreshStep
<1>1. /\ uaQuiet /\ uaQuiet' = FALSE
      /\ uaGrace' = [u \in Accounts |-> DayOlder(uaGrace[u])]
      /\ uaRestored' = [u \in Accounts |-> DayOlder(uaRestored[u])]
      /\ UNCHANGED <<uaUser, uaAccess, uaAuto, uaPass, uaReset, uaCommands, uaCut>>
  BY DEF NextDay
<1>2. GraceDays \in Nat /\ NoGrace = GraceDays + 1
  BY AccessAssumption DEF NoGrace
<1>3. /\ \A n \in 0 .. NoGrace : DayOlder(n) \in 0 .. NoGrace /\ (DayOlder(n) = NoGrace <=> n = NoGrace)
      /\ \A m, n \in 0 .. NoGrace : m <= n => DayOlder(m) <= DayOlder(n)
  BY <1>2 DEF DayOlder
<1>4. /\ uaGrace \in [Accounts -> 0 .. NoGrace] /\ uaRestored \in [Accounts -> 0 .. NoGrace]
      /\ uaCut \subseteq Accounts
      /\ \A v \in uaCut : /\ uaUser[v].exists /\ ~uaUser[v].active
                          /\ uaGrace[v] = NoGrace
      /\ \A v \in Accounts : uaGrace[v] # NoGrace /\ uaRestored[v] # NoGrace
                               => uaGrace[v] <= uaRestored[v]
  BY <1>1 DEF AccessInv, GraceInv
<1>5. GraceInv'
  <2>1. \A v \in Accounts : uaGrace'[v] = DayOlder(uaGrace[v]) /\ uaRestored'[v] = DayOlder(uaRestored[v])
    BY <1>1
  <2>2. uaGrace' \in [Accounts -> 0 .. NoGrace] /\ uaRestored' \in [Accounts -> 0 .. NoGrace]
    BY <1>1, <1>3, <1>4
  <2>3. \A v \in uaCut : uaGrace'[v] = NoGrace
    <3>1. NoGrace \in 0 .. NoGrace
      BY <1>2
    <3>. QED
      BY <1>3, <1>4, <2>1, <3>1
  <2>4. \A v \in Accounts : uaGrace'[v] # NoGrace /\ uaRestored'[v] # NoGrace
                              => uaGrace'[v] <= uaRestored'[v]
    BY <1>3, <1>4, <2>1
  <2>. QED
    BY <1>1, <1>4, <2>2, <2>3, <2>4 DEF GraceInv
<1>6. UsersInv' /\ ResetInv' /\ PassInv' /\ RestInv'
  BY <1>1 DEF AccessInv, UsersInv, ResetInv, ResetSignsOut, PassInv, RestInv
<1>7. OwnerStep /\ FreshStep
  BY <1>1 DEF OwnerStep, FreshStep
<1>. QED
  BY <1>5, <1>6, <1>7 DEF AccessInv

-----------------------------------------------------------------------------

LEMMA InitAccess == UaInit => AccessInv
<1> SUFFICES ASSUME UaInit PROVE AccessInv
  OBVIOUS
<1> USE AccessAssumption DEF UaInit
<1>1. PICK r : r = [Absent EXCEPT !.exists = TRUE, !.admin = TRUE, !.active = TRUE, !.token = TRUE]
  OBVIOUS
<1>2. r \in UserRecs /\ r.exists /\ r.active /\ r.session = {}
  BY <1>1 DEF Absent, UserRecs
<1>3. uaUser = [u \in Accounts |-> r]
  BY <1>1
<1>4. UsersInv
  BY <1>2, <1>3 DEF UsersInv
<1>5. ResetInv
  BY <1>2, <1>3 DEF ResetInv, ResetSignsOut
<1>6. PassInv
  BY DEF PassInv, PassRecs, NoPass
<1>7. GraceInv
  BY DEF GraceInv, NoGrace
<1>8. RestInv
  <2>1. uaAccess \in BOOLEAN /\ uaAuto \in BOOLEAN /\ uaQuiet \in BOOLEAN
    BY Zenon
  <2>2. uaCommands \in 0 .. MaxCommands
    OBVIOUS
  <2>. QED
    BY <2>1, <2>2 DEF RestInv
<1>. QED
  BY <1>4, <1>5, <1>6, <1>7, <1>8 DEF AccessInv

LEMMA NextAccess ==
  AccessInv /\ [UaNext]_uaVars => AccessInv' /\ [OwnerStep]_uaVars /\ [FreshStep]_uaVars
<1> SUFFICES ASSUME AccessInv, [UaNext]_uaVars
             PROVE  AccessInv' /\ [OwnerStep]_uaVars /\ [FreshStep]_uaVars
  OBVIOUS
<1>1. CASE UNCHANGED uaVars
  BY <1>1 DEF uaVars, AccessInv, UsersInv, ResetInv, ResetSignsOut, PassInv, GraceInv, RestInv
<1>2. ASSUME UaNext PROVE AccessInv' /\ OwnerStep /\ FreshStep
  <2>1. ASSUME NEW a \in Accounts, NEW u \in Accounts,
               \/ DeactivateUser(a, u) \/ BeginReset(a, u) \/ \E x \in BOOLEAN : Revoke(a, u, x)
        PROVE  AccessInv' /\ OwnerStep /\ FreshStep
    BY <2>1, CommandsKeep
  <2>2. ASSUME NEW a \in Accounts, NEW u \in Accounts, DeleteUser(a, u)
        PROVE  AccessInv' /\ OwnerStep /\ FreshStep
    BY <2>2, DeleteKeeps
  <2>3. ASSUME NEW a \in Accounts, NEW u \in Accounts, NEW groups \in {"admin", "user", "keep"},
               NEW x \in BOOLEAN, UpdateUser(a, u, groups, x)
        PROVE  AccessInv' /\ OwnerStep /\ FreshStep
    BY <2>3, UpdateKeeps
  <2>4. ASSUME NEW a \in Accounts, NEW u \in Accounts, NEW x \in BOOLEAN, CreateUser(a, u, x)
        PROVE  AccessInv' /\ OwnerStep /\ FreshStep
    BY <2>4, CreateKeeps
  <2>5. ASSUME NEW u \in Accounts, ResetStep(u) PROVE AccessInv' /\ OwnerStep /\ FreshStep
    BY <2>5, ResetStepKeeps
  <2>6. ASSUME NEW u \in Accounts, Login(u) \/ ToggleMfa(u)
        PROVE  AccessInv' /\ OwnerStep /\ FreshStep
    BY <2>6, CommandsKeep
  <2>7. ASSUME NEW x \in BOOLEAN, NEW y \in BOOLEAN, ChangePolicy(x, y)
        PROVE  AccessInv' /\ OwnerStep /\ FreshStep
    BY <2>7, PolicyChangeKeeps
  <2>8. ASSUME NEW p \in PolicyPasses, BeginPass(p) PROVE AccessInv' /\ OwnerStep /\ FreshStep
    BY <2>8, BeginPassKeeps
  <2>9. ASSUME NEW p \in PolicyPasses, Enforce(p) PROVE AccessInv' /\ OwnerStep /\ FreshStep
    BY <2>9, EnforceKeeps
  <2>10. ASSUME NextDay PROVE AccessInv' /\ OwnerStep /\ FreshStep
    BY <2>10, NextDayKeeps
  <2>. QED
    BY <1>2, <2>1, <2>2, <2>3, <2>4, <2>5, <2>6, <2>7, <2>8, <2>9, <2>10 DEF UaNext
<1>. QED
  BY <1>1, <1>2

(* The inductive invariant has the types in it.                            *)
LEMMA AccessInvImplies == AccessInv => UaTypeOK /\ ResetSignsOut
<1> SUFFICES ASSUME AccessInv PROVE UaTypeOK
  BY DEF AccessInv, ResetInv
<1>1. ASSUME NEW u \in Accounts
      PROVE  /\ DOMAIN uaUser[u] = DOMAIN Absent
             /\ uaUser[u].session \subseteq {"old", "current"}
             /\ uaUser[u].active => uaUser[u].exists
  <2>1. uaUser[u] \in UserRecs /\ (uaUser[u].active => uaUser[u].exists)
    BY DEF AccessInv, UsersInv
  <2>. QED
    BY <2>1 DEF UserRecs, Absent
<1>2. \A p \in PolicyPasses : uaPass[p].pc \in {"idle", "listed"} /\ uaPass[p].listed \subseteq Accounts
  <2>1. \A p \in PolicyPasses : uaPass[p] \in PassRecs
    BY DEF AccessInv, PassInv
  <2>. QED
    BY <2>1 DEF PassRecs
<1>3. \A u \in Accounts : Len(uaReset[u]) \in 0 .. 2
  <2>1. Len(<<>>) \in 0 .. 2 /\ Len(<<"revoke">>) \in 0 .. 2 /\ Len(<<"change", "revoke">>) \in 0 .. 2
    OBVIOUS
  <2>2. \A u \in Accounts : uaReset[u] \in {<<>>, <<"revoke">>, <<"change", "revoke">>}
    BY DEF AccessInv, ResetInv
  <2>. QED
    BY <2>1, <2>2
<1>4. {uaAccess, uaAuto, uaQuiet} \subseteq BOOLEAN /\ uaCommands \in 0 .. MaxCommands
  BY DEF AccessInv, RestInv
<1>5. uaUser[AccountOwner].active
  BY DEF AccessInv, UsersInv
<1>. QED
  BY <1>1, <1>2, <1>3, <1>4, <1>5 DEF AccessInv, GraceInv, UaTypeOK

(* Users and policy, for any number of accounts, commands and overlapping  *)
(* passes (users.py, mfa_policy.py and their handlers): a password reset   *)
(* leaves no session of the old password, only the owner's command makes an *)
(* active administrator, and who was cut off and restored is cut off again *)
(* only after the whole grace period.                                      *)
THEOREM AccessHolds == UaSpec => AccessSafe
<1>1. UaSpec => []AccessInv
  BY InitAccess, NextAccess, PTL DEF UaSpec
<1>2. UaSpec => [](UaTypeOK /\ ResetSignsOut)
  BY <1>1, AccessInvImplies, PTL
<1>3. UaSpec => [][OwnerStep]_uaVars /\ [][FreshStep]_uaVars
  BY <1>1, NextAccess, PTL DEF UaSpec
<1>. QED
  BY <1>2, <1>3, PTL DEF AccessSafe, OwnerMakesAdmins, FreshGrace, OwnerStep, FreshStep

-----------------------------------------------------------------------------
(* SSH to devices.                                                         *)

RunRecs == {NoRun} \cup [pc : {"connecting"}, host : Hosts, print : {"none"}]
                   \cup [pc : {"running"}, host : Hosts, print : Prints]
PinRecs == [pins : [Hosts -> Prints \cup {"none"}], posture : Hosts \cup {"none"}]

SshShape ==
  /\ sdEnabled \in BOOLEAN
  /\ sdKey \in [memory : BOOLEAN, file : BOOLEAN]
  /\ sdRecord \in PinRecs /\ sdFile \in PinRecs
  /\ sdDevice \in [Hosts -> Prints]
  /\ sdRun \in [SshRuns -> RunRecs]
  /\ sdForgot \subseteq Hosts
  /\ sdFaults \in 0 .. MaxSshFaults /\ sdOwner \in 0 .. MaxSshOwner

(* A run that sends commands met the key that is pinned now: the check and *)
(* the pin of Connected are one stretch, and only the owner or a crash     *)
(* takes a pin away.                                                       *)
RunsUnderPin ==
  \A r \in SshRuns : sdRun[r].pc = "running" =>
    sdRun[r].print = sdRecord.pins[sdRun[r].host] \/ sdRun[r].host \in sdForgot

SshInv == SshShape /\ RunsUnderPin

(* The invariant says what the runs check.                                 *)
LEMMA SshInvImplies == SshInv => SdTypeOK /\ OneIdentity
<1> SUFFICES ASSUME SshInv PROVE SdTypeOK /\ OneIdentity
  OBVIOUS
<1>1. SdTypeOK
  BY SshAssumption DEF SshInv, SshShape, SdTypeOK, RunRecs, PinRecs, NoRun
<1>2. OneIdentity
  BY DEF SshInv, RunsUnderPin, OneIdentity
<1>. QED
  BY <1>1, <1>2

LEMMA SshInit == SdInit => SshInv
BY SshAssumption DEF SdInit, SshInv, SshShape, RunsUnderPin, RunRecs, PinRecs, NoRun

(* Every step keeps the invariant.                                         *)
LEMMA SshStep == SshInv /\ [SdNext]_sdVars => SshInv'
<1> SUFFICES ASSUME SshInv, [SdNext]_sdVars PROVE SshInv'
  OBVIOUS
<1> USE SshAssumption DEF SshInv, SshShape
<1>0. \A r \in SshRuns : sdRun[r] \in RunRecs
  OBVIOUS
<1>1. ASSUME NEW r \in SshRuns, NEW h \in Hosts, RunBegins(r, h) PROVE SshInv'
  BY <1>0, <1>1 DEF RunBegins, RunsUnderPin, RunRecs
<1>2. ASSUME NEW r \in SshRuns, SshRefused(r) \/ KeyChanged(r) PROVE SshInv'
  BY <1>0, <1>2 DEF SshRefused, KeyChanged, RunsUnderPin, RunRecs, NoRun
<1>3. ASSUME NEW r \in SshRuns, Connected(r) PROVE SshInv'
  <2> DEFINE h == sdRun[r].host
             met == sdDevice[h]
             known == sdRecord.pins[h]
             new == [pc |-> "running", host |-> h, print |-> met]
  <2>1. h \in Hosts /\ met \in Prints /\ known \in {"none", met}
    BY <1>0, <1>3 DEF Connected, Accepts, RunRecs, NoRun
  <2>2. sdRun' = [sdRun EXCEPT ![r] = new] /\ new \in RunRecs
    BY <1>3, <2>1 DEF Connected, RunRecs
  <2>3. /\ sdRecord' \in PinRecs /\ sdRecord'.pins[h] = met
        /\ \A x \in Hosts : sdRecord'.pins[x] # sdRecord.pins[x] => x = h /\ sdRecord.pins[x] = "none"
    BY <1>3, <2>1 DEF Connected, Pinned, PinRecs
  <2>4. RunsUnderPin'
    <3> SUFFICES ASSUME NEW q \in SshRuns, sdRun'[q].pc = "running"
                 PROVE  sdRun'[q].print = sdRecord'.pins[sdRun'[q].host] \/ sdRun'[q].host \in sdForgot'
      BY DEF RunsUnderPin
    <3>1. sdForgot' = sdForgot
      BY <1>3 DEF Connected
    <3>2. CASE q = r
      BY <2>2, <2>3, <3>2
    <3>3. CASE q # r
      <4>1. sdRun'[q] = sdRun[q]
        BY <2>2, <3>3
      <4>2. sdRun[q].host \in Hosts /\ sdRun[q].print \in Prints
        BY <1>0, <4>1 DEF RunRecs, NoRun
      <4>3. \/ sdRun[q].print = sdRecord.pins[sdRun[q].host]
            \/ sdRun[q].host \in sdForgot
        BY <4>1 DEF RunsUnderPin
      <4> HIDE DEF SshInv, h, new
      <4>. QED
        BY <2>3, <3>1, <4>1, <4>2, <4>3
    <3>. QED
      BY <3>2, <3>3
  <2>. QED
    BY <1>3, <2>2, <2>3, <2>4 DEF Connected
<1>4. ASSUME NEW r \in SshRuns, NEW passed \in BOOLEAN, SshEnds(r, passed) PROVE SshInv'
  BY <1>0, <1>4 DEF SshEnds, RunsUnderPin, RunRecs, PinRecs, NoRun
<1>5. ASSUME NEW present \in BOOLEAN, NEW ok \in BOOLEAN, KeySet(present, ok) PROVE SshInv'
  BY <1>5 DEF KeySet, OwnerActs, RunsUnderPin
<1>6. ASSUME NEW h \in Hosts, ForgetHostKey(h) PROVE SshInv'
  BY <1>0, <1>6 DEF ForgetHostKey, OwnerActs, RunsUnderPin, RunRecs, PinRecs
<1>7. ASSUME NEW h \in Hosts, NEW p \in Prints, DeviceChanges(h, p) PROVE SshInv'
  BY <1>7 DEF DeviceChanges, Fault, RunsUnderPin
<1>8. ASSUME SwitchCollection \/ RecordSaved PROVE SshInv'
  <2>1. sdEnabled' \in BOOLEAN /\ UNCHANGED <<sdKey, sdRecord, sdDevice, sdRun, sdForgot, sdFaults>>
    BY <1>8, Zenon DEF SwitchCollection, RecordSaved
  <2>2. sdFile' \in PinRecs /\ sdOwner' \in 0 .. MaxSshOwner
    BY <1>8 DEF SwitchCollection, RecordSaved, OwnerActs
  <2>. QED
    BY <2>1, <2>2 DEF RunsUnderPin
<1>9. ASSUME SshCrash PROVE SshInv'
  BY <1>9 DEF SshCrash, Fault, RunsUnderPin, RunRecs, PinRecs, NoRun
<1>10. CASE UNCHANGED sdVars
  BY <1>10 DEF sdVars, RunsUnderPin
<1>. QED
  BY <1>1, <1>2, <1>3, <1>4, <1>5, <1>6, <1>7, <1>8, <1>9, <1>10 DEF SdNext

(* What a step may do to a pin.                                            *)
PinStep ==
  \A h \in Hosts : sdRecord.pins[h] # "none" =>
    \/ sdRecord'.pins[h] = sdRecord.pins[h]
    \/ ForgetHostKey(h)
    \/ SshCrash /\ sdFile.pins[h] # sdRecord.pins[h]

LEMMA PinsKept == SshInv /\ [SdNext]_sdVars => [PinStep]_sdVars
<1> SUFFICES ASSUME SshInv, SdNext, NEW h \in Hosts, sdRecord.pins[h] # "none"
             PROVE  \/ sdRecord'.pins[h] = sdRecord.pins[h]
                    \/ ForgetHostKey(h)
                    \/ SshCrash /\ sdFile.pins[h] # sdRecord.pins[h]
  BY DEF PinStep
<1>0. sdRecord \in PinRecs /\ \A r \in SshRuns : sdRun[r] \in RunRecs
  BY DEF SshInv, SshShape
<1>1. ASSUME NEW r \in SshRuns, Connected(r) PROVE sdRecord'.pins[h] = sdRecord.pins[h]
  BY <1>0, <1>1 DEF Connected, Pinned, RunRecs, PinRecs, NoRun
<1>2. ASSUME NEW r \in SshRuns, NEW passed \in BOOLEAN, SshEnds(r, passed)
      PROVE  sdRecord'.pins[h] = sdRecord.pins[h]
  BY <1>0, <1>2 DEF SshEnds, PinRecs
<1>3. ASSUME NEW g \in Hosts, ForgetHostKey(g)
      PROVE  sdRecord'.pins[h] = sdRecord.pins[h] \/ ForgetHostKey(h)
  BY <1>0, <1>3 DEF ForgetHostKey, PinRecs
<1>4. ASSUME SshCrash
      PROVE  sdRecord'.pins[h] = sdRecord.pins[h] \/ (SshCrash /\ sdFile.pins[h] # sdRecord.pins[h])
  BY <1>4 DEF SshCrash
<1>5. ASSUME sdRecord' = sdRecord PROVE sdRecord'.pins[h] = sdRecord.pins[h]
  BY <1>5
<1>. QED
  BY <1>1, <1>2, <1>3, <1>4, <1>5
     DEF SdNext, RunBegins, SshRefused, KeyChanged, KeySet, DeviceChanges, SwitchCollection, RecordSaved

-----------------------------------------------------------------------------
(* The pairing with the probe.                                             *)

(* Only calls in the Supervisor's context get as far as a pin, and what is *)
(* trusted is what is pinned in memory.                                    *)
PairInv ==
  /\ PpTypeOK
  /\ RejectedNeverPins
  /\ ppTrusted \subseteq {ppPin} \ {"none"}
  /\ \A c \in ProbeCalls :
       /\ ppCall[c].pc # "idle" /\ ppCall[c].who = "supervisor" => ppCall[c].secret \in ppPresented
       /\ ppCall[c].pc = "save" => ppCall[c].who = "supervisor" /\ ppCall[c].secret # "none"

LEMMA PairInit == PpInit => PairInv
<1> SUFFICES ASSUME PpInit PROVE PairInv
  OBVIOUS
<1>1. ppCall \in [ProbeCalls -> [pc : {"idle", "resolve", "judge", "save"}, who : Callers,
                               secret : ProbeSecrets \cup {"none"}]]
  BY DEF PpInit, NoCall, Callers
<1>2. {ppUser, ppCached} \subseteq BOOLEAN /\ (ppCached => ppUser)
  BY Zenon DEF PpInit
<1>3. \A c \in ProbeCalls : ppCall[c].pc = "idle"
  BY DEF PpInit, NoCall
<1>. QED
  BY PairingAssumption, <1>1, <1>2, <1>3 DEF PpInit, PairInv, PpTypeOK, RejectedNeverPins, Callers

LEMMA PairStep == PairInv /\ [PpNext]_ppVars => PairInv'
<1> SUFFICES ASSUME PairInv, [PpNext]_ppVars PROVE PairInv'
  OBVIOUS
<1> USE PairingAssumption DEF PairInv, PpTypeOK, RejectedNeverPins, Callers, ppPins, ppGhosts
<1>1. ASSUME NEW c \in ProbeCalls, NEW who \in Callers, NEW secret \in ProbeSecrets \cup {"none"},
             CallArrives(c, who, secret)
      PROVE  PairInv'
  BY <1>1 DEF CallArrives
<1>2. ASSUME NEW c \in ProbeCalls, UserResolved(c) PROVE PairInv'
  BY <1>2 DEF UserResolved
<1>3. ASSUME NEW c \in ProbeCalls, FirstPins(c) PROVE PairInv'
  BY <1>3 DEF FirstPins, InContext, AtOnce
<1>4. ASSUME NEW c \in ProbeCalls, NEW ok \in BOOLEAN, PinWritten(c, ok) PROVE PairInv'
  BY <1>4 DEF PinWritten, Served, AtOnce, NoCall
<1>5. ASSUME NEW c \in ProbeCalls, SecretMatches(c) PROVE PairInv'
  BY <1>5 DEF SecretMatches, Served, InContext, NoCall
<1>6. ASSUME NEW c \in ProbeCalls, CallRejected(c) PROVE PairInv'
  BY <1>6 DEF CallRejected, NoCall
<1>7. ASSUME NEW ok \in BOOLEAN, ResetPairing(ok) PROVE PairInv'
  BY <1>7 DEF ResetPairing
<1>8. ASSUME SupervisorSeen PROVE PairInv'
  BY <1>8 DEF SupervisorSeen
<1>9. ASSUME PairingRestart PROVE PairInv'
  <2>1. ppCall' \in [ProbeCalls -> [pc : {"idle", "resolve", "judge", "save"}, who : Callers,
                                  secret : ProbeSecrets \cup {"none"}]]
    BY <1>9 DEF PairingRestart, NoCall
  <2>2. \A c \in ProbeCalls : ppCall'[c].pc = "idle"
    BY <1>9 DEF PairingRestart, NoCall
  <2>3. {ppUser', ppCached'} \subseteq BOOLEAN /\ ~ppCached'
    BY <1>9, Zenon DEF PairingRestart
  <2>4. ppTrusted' \subseteq {ppPin'} \ {"none"} /\ ppTrusted' \subseteq ProbeSecrets
    BY <1>9 DEF PairingRestart
  <2>5. /\ UNCHANGED <<ppPinFile, ppReport, ppPresented, ppResets>> /\ ppPin' = ppPinFile
        /\ ppFaults' \in 0 .. MaxPairFaults
    BY <1>9 DEF PairingRestart
  <2>. QED
    BY <2>1, <2>2, <2>3, <2>4, <2>5
<1>10. CASE UNCHANGED ppVars
  BY <1>10 DEF ppVars
<1>. QED
  BY <1>1, <1>2, <1>3, <1>4, <1>5, <1>6, <1>7, <1>8, <1>9, <1>10 DEF PpNext

(* At most one secret is good, since only the pinned one is.               *)
LEMMA PairInvImplies == PairInv => PpTypeOK /\ RejectedNeverPins /\ OneSecret
<1> SUFFICES ASSUME PairInv PROVE OneSecret
  BY DEF PairInv
<1>1. ppTrusted = {} \/ ppTrusted = {ppPin}
  BY DEF PairInv
<1>2. Cardinality({}) = 0 /\ Cardinality({ppPin}) = 1
  BY FS_EmptySet, FS_Singleton
<1>. QED
  BY <1>1, <1>2 DEF OneSecret

-----------------------------------------------------------------------------
(* The host key that the first connection to a device pinned stays: runs   *)
(* that overlap use the same key, and a pin goes only by the owner's hand  *)
(* or in a crash before it was saved (ssh_devices.py).                     *)
THEOREM SshIdentity == SdSpec => [](SdTypeOK /\ OneIdentity) /\ PinStands
<1>1. SdSpec => []SshInv
  BY SshInit, SshStep, PTL DEF SdSpec
<1>2. SdSpec => [][PinStep]_sdVars
  BY <1>1, PinsKept, PTL DEF SdSpec
<1>3. [][PinStep]_sdVars => PinStands
  BY DEF PinStep, PinStands
<1>. QED
  BY <1>1, <1>2, <1>3, SshInvImplies, PTL

(* Whatever calls overlap, no secret from outside the Supervisor's context *)
(* is pinned and at most one is good at a time (_async_call_rejected).     *)
THEOREM PairingIdentity == PpSpec => [](PpTypeOK /\ RejectedNeverPins /\ OneSecret)
<1>1. PpSpec => []PairInv
  BY PairInit, PairStep, PTL DEF PpSpec
<1>. QED
  BY <1>1, PairInvImplies, PTL

(* Both together, as the run checks them.                                  *)
THEOREM IdentityHolds == IdentitySpec => IdentitiesStand
BY SshIdentity, PairingIdentity, PTL DEF IdentitySpec, IdentitiesStand

=============================================================================
