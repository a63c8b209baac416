------------------------------ MODULE StoreFiles ------------------------------
(***************************************************************************)
(* The files of the store (store.py, secrets_store.py): the main file with *)
(* its debounced and its immediate saves, the syslog ring that moved to a  *)
(* file of its own, and the secrets that moved to a private file.          *)
(*                                                                         *)
(* Home Assistant's Store is external: a delayed save arms a timer, every  *)
(* write takes a lock, clears the timer, takes what was set last, and      *)
(* swallows its errors.  Contents are versions: the main file also says    *)
(* whether it carries the legacy ring and the legacy secret.               *)
(***************************************************************************)
EXTENDS Naturals

CONSTANTS
  Savers,        \* calls of async_save_now
  MaxChanges,    \* bound: changes of the data
  MaxLines,      \* bound: changes of the syslog ring
  MaxFailures,   \* bound: failed writes
  MaxStarts,     \* bound: setups of the entry
  LateWork       \* work of a stopped entry may still change its data

ASSUME StoreAssumption ==
  /\ MaxChanges \in Nat /\ MaxLines \in Nat /\ MaxFailures \in Nat /\ MaxStarts \in Nat \ {0}
  /\ LateWork \in BOOLEAN
  /\ Savers \cap {"timer", "flush", "setup", "nobody"} = {}

VARIABLES
  stPhase,      \* what the setup, the run or the stop of the entry is at
  stMem,        \* the data in memory
  stData,       \* what each Store was given last: nothing, a function, a payload
  stTimer,      \* the delayed save of each Store is armed
  stWriting,    \* the writer of each Store and the payload it writes
  stFails,      \* save_failures of the main Store
  stSaver,      \* what each async_save_now is at
  stRingDirty,  \* _ring_dirty
  stRingInMain, \* _ring_in_main
  stDisk,       \* the files
  stOld,        \* payloads a stopped instance may still write
  stFailures,   \* failed writes so far
  stLapse,      \* files whose write failed, or came too late, with no retry
  stStarts      \* setups so far

stCore == <<stData, stTimer, stWriting>>
stRing == <<stRingDirty, stRingInMain>>
stGhost == <<stFailures, stLapse, stStarts>>
stVars == <<stPhase, stMem, stCore, stFails, stSaver, stRing, stDisk, stOld, stGhost>>

Files == {"main", "ring", "secrets"}
Nobody == "nobody"
Writers == Savers \cup {"timer", "flush", "setup"}

\* A payload: kind is "none", "func" for a function called when the write
\* begins, or "data".  The ring's version is lines, the others use ver.
Load(kind, ver, lines, ring, secret) ==
  [kind |-> kind, ver |-> ver, lines |-> lines, ring |-> ring, secret |-> secret]
Nothing == Load("none", 0, 0, FALSE, FALSE)
Func == Load("func", 0, 0, FALSE, FALSE)

\* The main payload carries the legacy ring and the legacy secret while they
\* have not moved.
MainPayload_WithoutRing == Load("data", stMem.ver, 0, FALSE, stMem.legacy)

MainPayload ==
  Load("data", stMem.ver, IF stRingInMain THEN stMem.lines ELSE 0, stRingInMain, stMem.legacy)

RingPayload == Load("data", 0, stMem.lines, TRUE, FALSE)

NewSaver == [pc |-> "idle", fails |-> 0, ver |-> 0]

\* What a setup reads from the files.
LoadPhase(disk) == IF ~disk.ringFile /\ disk.mainRing THEN "ring"
                   ELSE IF disk.mainSecret THEN "secret" ELSE "run"

LoadedMem(disk) ==
  [ver    |-> disk.ver,
   lines  |-> IF disk.ringFile THEN disk.lines ELSE disk.mainLines,
   legacy |-> disk.mainSecret,
   secret |-> disk.secretFile]

StTypeOK ==
  /\ stPhase \in {"ring", "secret", "secretSave", "run", "flushMain", "flushRing", "stopped"}
  /\ stMem.ver \in 0 .. MaxChanges /\ stMem.lines \in 0 .. MaxLines
  /\ \A f \in Files : /\ stTimer[f] \in BOOLEAN
                      /\ stTimer[f] => stData[f].kind # "none"
                      /\ stWriting[f].who \in Writers \cup {Nobody}
  /\ \A x \in Savers : stSaver[x].pc \in {"idle", "waiting", "writing", "ok", "error"}
  /\ stFailures \in 0 .. MaxFailures /\ stFails \in 0 .. MaxFailures
  /\ stStarts \in 1 .. MaxStarts

\* An installation of an older version: ring and secret are in the main file.
StInit ==
  /\ stDisk = [ver |-> 0, by |-> 1, lines |-> 0, mainLines |-> 0, mainRing |-> TRUE,
               mainSecret |-> TRUE, ringFile |-> FALSE, secretFile |-> FALSE]
  /\ stPhase = LoadPhase(stDisk)
  /\ stMem = LoadedMem(stDisk)
  /\ stData = [f \in Files |-> Nothing] /\ stTimer = [f \in Files |-> FALSE]
  /\ stWriting = [f \in Files |-> [who |-> Nobody, load |-> Nothing]]
  /\ stFails = 0
  /\ stSaver = [x \in Savers |-> NewSaver]
  /\ stRingDirty = TRUE /\ stRingInMain = TRUE
  /\ stOld = {}
  /\ stFailures = 0 /\ stLapse = {} /\ stStarts = 1

-----------------------------------------------------------------------------
(* Changes.                                                                *)

\* async_schedule_save.
ScheduleMain == /\ stData' = [stData EXCEPT !["main"] = Func]
                /\ stTimer' = [stTimer EXCEPT !["main"] = TRUE]

ScheduleRing == /\ stData' = [stData EXCEPT !["ring"] = Func]
                /\ stTimer' = [stTimer EXCEPT !["ring"] = TRUE]

\* A setter changes the data and schedules a save.
Change ==
  /\ stPhase = "run" \/ (LateWork /\ stPhase = "stopped")
  /\ stMem.ver < MaxChanges
  /\ stMem' = [stMem EXCEPT !.ver = @ + 1]
  /\ ScheduleMain
  /\ UNCHANGED <<stPhase, stWriting, stFails, stSaver, stRing, stDisk, stOld, stGhost>>

\* async_append_syslog_entries: only the ring file is to be written.
AppendSyslog ==
  /\ stPhase = "run" /\ stMem.lines < MaxLines
  /\ stMem' = [stMem EXCEPT !.lines = @ + 1]
  /\ stRingDirty' = TRUE
  /\ ScheduleRing
  /\ UNCHANGED <<stPhase, stWriting, stFails, stSaver, stRingInMain, stDisk, stOld, stGhost>>

-----------------------------------------------------------------------------
(* Writes.  Home Assistant's Store is external.                            *)

Unlocked(f) == stWriting[f].who = Nobody

\* Under the lock: the timer is cleared and what was set last is taken.
Begin(w, f, load) ==
  /\ stWriting' = [stWriting EXCEPT ![f] = [who |-> w, load |-> load]]
  /\ stData' = [stData EXCEPT ![f] = Nothing]
  /\ stTimer' = [stTimer EXCEPT ![f] = FALSE]

Taken(f) == IF stData[f].kind = "data" THEN stData[f]
            ELSE IF f = "main" THEN MainPayload ELSE RingPayload

\* The flag clears when the data is taken.
TimerWrite(f) ==
  /\ stTimer[f] /\ Unlocked(f)
  /\ Begin("timer", f, Taken(f))
  /\ stRingDirty' = IF f = "ring" THEN FALSE ELSE stRingDirty
  /\ stLapse' = IF f = "main" /\ ~Unlocked("secrets") THEN stLapse \cup {"secrets"} ELSE stLapse
  /\ UNCHANGED <<stPhase, stMem, stFails, stSaver, stRingInMain, stDisk, stOld, stFailures,
                 stStarts>>

\* async_save_now: the failures so far are noted, the payload is set.
SaveNow(x) ==
  /\ stPhase = "run" /\ stSaver[x].pc = "idle"
  /\ stSaver' = [stSaver EXCEPT ![x] = [pc |-> "waiting", fails |-> stFails, ver |-> stMem.ver]]
  /\ stData' = [stData EXCEPT !["main"] = MainPayload]
  /\ UNCHANGED <<stPhase, stMem, stTimer, stWriting, stFails, stRing, stDisk, stOld, stGhost>>

SaveBegins(x) ==
  /\ stSaver[x].pc = "waiting" /\ Unlocked("main") /\ stData["main"].kind # "none"
  /\ Begin(x, "main", Taken("main"))
  /\ stSaver' = [stSaver EXCEPT ![x].pc = "writing"]
  /\ UNCHANGED <<stPhase, stMem, stFails, stRing, stDisk, stOld, stGhost>>

ReArm_Never == UNCHANGED <<stData, stTimer>>

\* Core cleared the pending save before it wrote: another one is scheduled.
ReArm == ScheduleMain

SaveResult_OwnWrite(x, fails) ==
  IF stSaver[x].pc = "writing" /\ fails # stSaver[x].fails THEN "error" ELSE "ok"

\* A failure since the call makes it raise, whoever's write failed.
SaveResult(x, fails) == IF fails # stSaver[x].fails THEN "error" ELSE "ok"

\* async_save_now returns or raises; fails is the count by then.
SaveReturns(x, fails) ==
  /\ stSaver' = [stSaver EXCEPT ![x].pc = SaveResult(x, fails)]
  /\ IF SaveResult(x, fails) = "error" THEN ReArm ELSE UNCHANGED <<stData, stTimer>>

\* Another writer already wrote what this one set.
SaveFindsNothing(x) ==
  /\ stSaver[x].pc = "waiting" /\ Unlocked("main") /\ stData["main"].kind = "none"
  /\ SaveReturns(x, stFails)
  /\ UNCHANGED <<stPhase, stMem, stWriting, stFails, stRing, stDisk, stOld, stGhost>>

OnDisk(f, load, start) ==
  CASE f = "main" -> [stDisk EXCEPT !.ver = load.ver, !.by = start, !.mainRing = load.ring,
                                    !.mainSecret = load.secret,
                                    !.mainLines = load.lines]
    [] f = "ring" -> [stDisk EXCEPT !.ringFile = TRUE, !.lines = load.lines]
    [] OTHER -> [stDisk EXCEPT !.secretFile = load.secret]

PhaseAfter(w) ==
  CASE w = "flush" -> IF stPhase = "flushMain" THEN "flushRing" ELSE "stopped"
    [] w = "setup" -> (CASE stPhase = "ring" -> IF stMem.legacy THEN "secret" ELSE "run"
                         [] stPhase = "secret" -> "secretSave"
                         [] OTHER -> "run")
    [] OTHER -> stPhase

\* The write lands.  A ring in its own file leaves the main payload, and the
\* setup that moved it schedules a save of the main file.
WriteLands(f) ==
  LET w == stWriting[f].who IN
  /\ w # Nobody
  /\ stDisk' = OnDisk(f, stWriting[f].load, stStarts)
  /\ stWriting' = [stWriting EXCEPT ![f] = [who |-> Nobody, load |-> Nothing]]
  /\ stRingInMain' = (stRingInMain /\ f # "ring")
  /\ stPhase' = PhaseAfter(w)
  /\ \/ w \in Savers /\ SaveReturns(w, stFails)
     \/ w = "setup" /\ f = "ring" /\ ScheduleMain /\ UNCHANGED stSaver
     \/ w \notin Savers /\ ~(w = "setup" /\ f = "ring") /\ UNCHANGED <<stData, stTimer, stSaver>>
  /\ UNCHANGED <<stMem, stFails, stRingDirty, stOld, stGhost>>

RingRetry_Dropped(w) == UNCHANGED <<stData, stTimer>>

\* _on_ring_write_result: a delayed write that failed is tried again later.
RingRetry(w) == IF w = "timer" THEN ScheduleRing ELSE UNCHANGED <<stData, stTimer>>

FlushRetry_Armed == ScheduleMain

\* A timer left behind by a stopped entry could overwrite its successor's data.
FlushRetry == UNCHANGED <<stData, stTimer>>

\* The write fails, and only the owner of the Store can tell.
WriteFails(f) ==
  LET w == stWriting[f].who
      fails == IF f = "main" THEN stFails + 1 ELSE stFails
  IN
  /\ w # Nobody /\ stFailures < MaxFailures
  /\ stFailures' = stFailures + 1
  /\ stFails' = fails
  /\ stWriting' = [stWriting EXCEPT ![f] = [who |-> Nobody, load |-> Nothing]]
  /\ stPhase' = PhaseAfter(w)
  /\ stRingDirty' = (stRingDirty \/ f = "ring")
  /\ stLapse' = IF f = "secrets" \/ (f = "main" /\ w \in {"timer", "flush"})
                THEN stLapse \cup {f} ELSE stLapse
  /\ \/ w \in Savers /\ SaveReturns(w, fails)
     \/ f = "ring" /\ RingRetry(w) /\ UNCHANGED stSaver
     \/ f = "main" /\ w = "setup" /\ ReArm /\ UNCHANGED stSaver
     \/ f = "main" /\ w = "flush" /\ FlushRetry /\ UNCHANGED stSaver
     \/ f \in {"main", "secrets"} /\ w = "timer" /\ UNCHANGED <<stData, stTimer, stSaver>>
     \/ f = "secrets" /\ w = "setup" /\ UNCHANGED <<stData, stTimer, stSaver>>
  /\ UNCHANGED <<stMem, stRingInMain, stDisk, stOld, stStarts>>

-----------------------------------------------------------------------------
(* Setup and stop.                                                         *)

\* The legacy ring is written to its own file before anything else.
SetupRing ==
  /\ stPhase = "ring" /\ Unlocked("ring")
  /\ Begin("setup", "ring", RingPayload)
  /\ stRingDirty' = FALSE
  /\ UNCHANGED <<stPhase, stMem, stFails, stSaver, stRingInMain, stDisk, stOld, stGhost>>

MigrateSecret_MainFirst ==
  /\ stPhase = "secret"
  /\ stMem' = [stMem EXCEPT !.legacy = FALSE, !.secret = TRUE]
  /\ stPhase' = "secretSave"
  /\ UNCHANGED <<stCore, stFails, stSaver, stRing, stDisk, stOld, stGhost>>

\* async_migrate_legacy_secrets: the value leaves the settings and is saved in
\* the private file before the main file is written without it.
MigrateSecret ==
  /\ stPhase = "secret" /\ Unlocked("secrets") /\ stMem.legacy
  /\ stMem' = [stMem EXCEPT !.legacy = FALSE, !.secret = TRUE]
  /\ stWriting' = [stWriting EXCEPT !["secrets"] =
       [who |-> "setup", load |-> Load("data", 0, 0, FALSE, TRUE)]]
  /\ UNCHANGED <<stPhase, stData, stTimer, stFails, stSaver, stRing, stDisk, stOld, stGhost>>

MigrateSave ==
  /\ stPhase = "secretSave" /\ Unlocked("main")
  /\ Begin("setup", "main", MainPayload)
  /\ UNCHANGED <<stPhase, stMem, stFails, stSaver, stRing, stDisk, stOld, stGhost>>

\* async_flush at the end of the entry.
BeginStop ==
  /\ stPhase = "run"
  /\ LateWork \/ \A x \in Savers : stSaver[x].pc \notin {"waiting", "writing"}
  /\ stPhase' = "flushMain"
  /\ stData' = [stData EXCEPT !["main"] = MainPayload]
  /\ UNCHANGED <<stMem, stTimer, stWriting, stFails, stSaver, stRing, stDisk, stOld, stGhost>>

FlushMain ==
  /\ stPhase = "flushMain" /\ Unlocked("main")
  /\ \/ stData["main"].kind # "none" /\ Begin("flush", "main", Taken("main")) /\ UNCHANGED stPhase
     \/ stData["main"].kind = "none" /\ stPhase' = "flushRing" /\ UNCHANGED stCore
  /\ UNCHANGED <<stMem, stFails, stSaver, stRing, stDisk, stOld, stGhost>>

FlushRing ==
  /\ stPhase = "flushRing"
  /\ \/ /\ ~stRingDirty /\ stWriting["ring"].who # "flush"
        /\ stPhase' = "stopped" /\ UNCHANGED <<stCore, stRingDirty>>
     \/ /\ stRingDirty /\ Unlocked("ring")
        /\ Begin("flush", "ring", RingPayload)
        /\ stRingDirty' = FALSE
        /\ UNCHANGED stPhase
  /\ UNCHANGED <<stMem, stFails, stSaver, stRingInMain, stDisk, stOld, stGhost>>

\* A new instance loads the files.
Boot ==
  /\ stStarts < MaxStarts
  /\ stStarts' = stStarts + 1
  /\ stPhase' = LoadPhase(stDisk)
  /\ stMem' = LoadedMem(stDisk)
  /\ stData' = [f \in Files |-> Nothing] /\ stTimer' = [f \in Files |-> FALSE]
  /\ stWriting' = [f \in Files |-> [who |-> Nobody, load |-> Nothing]]
  /\ stFails' = 0
  /\ stSaver' = [x \in Savers |-> NewSaver]
  /\ stRingInMain' = (LoadPhase(stDisk) = "ring") /\ stRingDirty' = (LoadPhase(stDisk) = "ring")
  /\ UNCHANGED <<stDisk, stFailures, stLapse>>

\* The entry is set up again; a timer of the stopped instance is still armed.
Reload ==
  /\ stPhase = "stopped"
  /\ Boot
  /\ stOld' = IF stTimer["main"] THEN stOld \cup {<<stStarts, Taken("main")>>} ELSE stOld

\* The process dies, with every timer in it.
StCrash == Boot /\ stOld' = {}

OldTimerWrites ==
  \E old \in stOld :
    /\ Unlocked("main")
    /\ stDisk' = OnDisk("main", old[2], old[1])
    /\ stOld' = stOld \ {old}
    /\ UNCHANGED <<stPhase, stMem, stCore, stFails, stSaver, stRing, stGhost>>

StNext ==
  \/ Change \/ AppendSyslog
  \/ \E f \in Files : TimerWrite(f) \/ WriteLands(f) \/ WriteFails(f)
  \/ \E x \in Savers : SaveNow(x) \/ SaveBegins(x) \/ SaveFindsNothing(x)
  \/ SetupRing \/ MigrateSecret \/ MigrateSave
  \/ BeginStop \/ FlushMain \/ FlushRing
  \/ Reload \/ StCrash \/ OldTimerWrites

StSpec == StInit /\ [][StNext]_stVars

-----------------------------------------------------------------------------
(* Properties.                                                             *)

\* The ring an older version kept in the main file is in one of the two files at
\* every moment, whatever is written, fails or crashes.
RingKept == stDisk.ringFile \/ stDisk.mainRing

\* The secret an older version kept in the main file is in one of the two files
\* at every moment, unless the private file could not be written or its write
\* outlasted the delay of a save of the main file.
SecretKept == stDisk.secretFile \/ stDisk.mainSecret \/ "secrets" \in stLapse

\* When async_save_now returns, what was in memory at its call is on the disk,
\* also when another writer wrote it.
SaveNowIsTrue ==
  \A x \in Savers : stSaver[x].pc = "ok" => stDisk.ver >= stSaver[x].ver

\* A stopped instance never puts its data over what its successor wrote.
NoStaleOverwrite == [][stDisk'.by >= stDisk.by]_stVars

\* What the ring holds while the entry runs reaches its file in spite of failed
\* writes.
RingSaved == <>[](stPhase = "run" /\ stDisk.ringFile => stDisk.lines = stMem.lines)

\* A change reaches the main file in spite of a failed immediate save; only a
\* failed delayed write or a failed flush is not tried again.
MainSaved == <>[](stPhase = "run" => stDisk.ver = stMem.ver \/ "main" \in stLapse)

\* What the store promises of its three files: what moves between them is never
\* in none, an acknowledged save is on the disk, and no instance that has
\* stopped writes over its successor.
StoreKeeps == [](StTypeOK /\ RingKept /\ SecretKept /\ SaveNowIsTrue) /\ NoStaleOverwrite
=============================================================================
