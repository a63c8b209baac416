------------------------------ MODULE AuditLog ------------------------------
(***************************************************************************)
(* The writer of the hash-chained audit log (custom_components/ha_soc/     *)
(* audit.py, class AuditLog): buffering and numbering on the event loop,   *)
(* the flush and the retention pass in the executor, chain_head.json, the  *)
(* head mirrored into the main store, and start-up after a crash, a        *)
(* reload or the loss of the audit directory.                              *)
(*                                                                         *)
(* The data is abstracted to what the chain is about.  A record is the     *)
(* number of its acceptance, the day it was logged on and its category     *)
(* class.  A hash is the history it commits to: the sequence of record     *)
(* numbers from genesis on, which makes SHA-256 injective.  A file is the  *)
(* set of lines on disk that carry its key <<day, segment>>; the lines of  *)
(* all files are kept in one sequence in the order of the sorted file      *)
(* list.  Sizes are counted in lines.                                      *)
(***************************************************************************)
EXTENDS Integers, Sequences, FiniteSets, SequencesExt

CONSTANTS
  MaxDay,         \* days are 1..MaxDay (0 is "no day file yet")
  BufferMax,      \* _BUFFER_MAX_RECORDS
  SegmentMax,     \* _SEGMENT_MAX_BYTES, in lines
  RecoveryFiles,  \* _RECOVERY_FILES
  RetentionDays,  \* setting audit_retention_days
  MaxLines,       \* setting audit_max_bytes, in lines
  FreshInstall,   \* TRUE: no audit directory yet; FALSE: one flushed record
  TrimMayFail,    \* fault: the ftruncate after a failed append may fail too
  RemoveMayFail,  \* fault: os.remove of an expired file may fail
  MaxLog,         \* bound: records accepted
  MaxDropped,     \* bound: records refused since the last report
  MaxFails,       \* bound: I/O errors
  MaxRestarts,    \* bound: crashes and unloads
  MaxWipes        \* bound: losses of the audit directory

ASSUME SizesAssumption ==
  /\ MaxDay \in Nat \ {0} /\ BufferMax \in Nat \ {0} /\ SegmentMax \in Nat \ {0}
  /\ RecoveryFiles \in Nat \ {0} /\ RetentionDays \in Nat /\ MaxLines \in Nat
ASSUME FaultsAssumption ==
  /\ FreshInstall \in BOOLEAN /\ TrimMayFail \in BOOLEAN /\ RemoveMayFail \in BOOLEAN
  /\ MaxLog \in Nat /\ MaxDropped \in Nat /\ MaxFails \in Nat
  /\ MaxRestarts \in Nat /\ MaxWipes \in Nat

VARIABLES
  \* the AuditLog object
  phase,         \* "down", start-up steps, "up", "stopping", "stopped"
  buffer,        \* _buffer: accepted records not known to be on disk
  prepared,      \* _prepared: numbered and hashed copies of a prefix of buffer
  dropped,       \* _dropped_count
  chain,         \* (_seq, _prev_hash): the last record committed
  anchor,        \* _anchor: the newest record retention deleted
  reset,         \* _reset: the mirrored head a lost chain was continued from
  floor,         \* _day_floor
  retentionDue,  \* an hour has passed since _last_retention
  repairs,       \* _recovery_events: categories to be logged by async_start
  task,          \* _flush_task: "none", "queued" or "running"
  \* the flush that holds _flush_lock
  flushPc,       \* "idle", "append", "head", "retain", "prune", "commit"
  owner,         \* who runs it: "none", "timer", "task", "stop" or "reader"
  batch,         \* records: what _sync_flush was called with
  written,       \* leading records of batch that are durably on disk
  headWritten,   \* _head_file_written
  pass,          \* locals of _sync_apply_retention
  \* disk
  disk,          \* the lines of the day files
  head,          \* chain_head.json
  mirror,        \* store.data["audit_head"]
  saved,         \* the same field in the saved store file
  \* environment
  today,         \* wall clock day
  accepted,      \* records accepted so far; the next one is accepted + 1
  refused,       \* records refused so far because the buffer was full
  fails, restarts, wipes,
  wipedAt        \* saved mirror's seq when the directory was lost last

memVars   == <<buffer, prepared, dropped, chain, anchor, reset, floor, retentionDue, repairs, task>>
flushVars == <<flushPc, owner, batch, written, headWritten, pass>>
diskVars  == <<disk, head>>
storeVars == <<mirror, saved>>
envVars   == <<today, accepted, refused, fails, restarts, wipes, wipedAt>>
vars      == <<phase, memVars, flushVars, diskVars, storeVars, envVars>>

-----------------------------------------------------------------------------
(* Data                                                                    *)

Days    == 1 .. MaxDay
Kinds   == {"low", "high", "reset", "repair", "dropped"}
Hashes  == Seq(Nat)
Genesis == <<>>

\* A buffered record.  count is the detail of an audit_records_dropped record.
Records == [id : Nat, ts : Days, kind : Kinds, count : Nat]

\* A numbered and hashed record, and the line it becomes in file <<day, seg>>.
\* A line with seq 0 is a torn fragment that does not parse; eol says whether
\* something was appended after it, which ends its line.
Prepared == [id : Nat, ts : Days, count : Nat, seq : Nat, prev : Hashes, hash : Hashes]
Lines    == [id : Nat, count : Nat, seq : Nat, prev : Hashes, hash : Hashes,
             day : Nat, seg : Nat, eol : BOOLEAN]

\* A point of the chain; seq 0 stands for "None" in the optional ones.
Marks  == [seq : Nat, hash : Hashes]
NoMark == [seq |-> 0, hash |-> Genesis]
Mark(r) == [seq |-> r.seq, hash |-> r.hash]

Heads  == [found : BOOLEAN, seq : Nat, hash : Hashes, anchor : Marks, reset : Marks]
NoHead == [found |-> FALSE, seq |-> 0, hash |-> Genesis, anchor |-> NoMark, reset |-> NoMark]

Torn(day, seg) == [id |-> 0, count |-> 0, seq |-> 0, prev |-> Genesis, hash |-> Genesis,
                   day |-> day, seg |-> seg, eol |-> FALSE]
IsTorn(l) == l.seq = 0

\* IMMEDIATE_FLUSH_CATEGORIES, IMMEDIATE_FLUSH_PREFIXES and flush=True.
Immediate(kind) == kind \in {"high", "reset", "repair"}

MaxOf(a, b) == IF a >= b THEN a ELSE b
MinOf(a, b) == IF a <= b THEN a ELSE b

-----------------------------------------------------------------------------
(* Numbering and hashing                                                   *)

\* The hash of the i-th of the records rs chained onto hash h.
ChainHash(h, rs, i) == h \o [j \in 1 .. i |-> rs[j].id]

\* The hash recomputed from a record's own prev_hash and content.
HashOk(r) == r.hash = Append(r.prev, r.id)

\* Mutant: numbering always restarts at the committed head.
Base_IgnoresCache == chain

\* Where numbering goes on: after the cached copies, or at the chain's head.
Base == IF prepared = <<>> THEN chain ELSE Mark(prepared[Len(prepared)])

\* The prepared copies of every buffered record.
PrepareBuffered ==
  LET new == SubSeq(buffer, Len(prepared) + 1, Len(buffer))
  IN  prepared \o [i \in 1 .. Len(new) |->
                     [id    |-> new[i].id,
                      ts    |-> new[i].ts,
                      count |-> new[i].count,
                      seq   |-> Base.seq + i,
                      prev  |-> ChainHash(Base.hash, new, i - 1),
                      hash  |-> ChainHash(Base.hash, new, i)]]

-----------------------------------------------------------------------------
(* Files                                                                   *)

Key(l) == <<l.day, l.seg>>
KeyBefore(k, m) == k[1] < m[1] \/ (k[1] = m[1] /\ k[2] < m[2])
FileKeys(d) == {Key(d[i]) : i \in DOMAIN d}
OldestOf(k, K) == k \in K /\ \A m \in K : m = k \/ KeyBefore(k, m)
Cut(d, a, b) == SubSeq(d, 1, a - 1) \o SubSeq(d, b + 1, Len(d))

\* Mutant: only the newest file is looked at.
RecentFiles_NewestOnly(d) ==
  {k \in FileKeys(d) : \A m \in FileKeys(d) : ~KeyBefore(k, m)}

\* _sync_recent_files: the newest few files.
RecentFiles(d) ==
  {k \in FileKeys(d) : Cardinality({m \in FileKeys(d) : KeyBefore(k, m)}) < RecoveryFiles}

NewestDay(d) == IF d = <<>> THEN 0 ELSE d[Len(d)].day

\* seg is the segment the next append for a day goes to: the highest one, or a
\* fresh one when that is full.
IsTarget(d, day, seg) ==
  LET segs == {d[i].seg : i \in {j \in DOMAIN d : d[j].day = day}}
      full(s) == Cardinality({i \in DOMAIN d : Key(d[i]) = <<day, s>>}) >= SegmentMax
      top(s) == s \in segs /\ \A t \in segs : t <= s
  IN  \/ segs = {} /\ seg = 0
      \/ top(seg) /\ ~full(seg)
      \/ \E s \in segs : top(s) /\ full(s) /\ seg = s + 1

\* e is disk d after the lines ls were appended to file k, which comes after
\* line p of the file list.
AppendLines(d, k, ls, e) ==
  LET ended == [i \in 1 .. Len(d) |-> IF Key(d[i]) = k THEN [d[i] EXCEPT !.eol = TRUE] ELSE d[i]]
  IN  \E p \in 0 .. Len(d) :
        /\ \A i \in DOMAIN d : KeyBefore(k, Key(d[i])) <=> i > p
        /\ e = SubSeq(ended, 1, p) \o ls \o SubSeq(ended, p + 1, Len(d))

\* Mutant: a record is filed under its own day, also after a clock step back.
GroupDay_OwnDay == batch[written + 1].ts

\* The day key of the next record to be appended never moves backwards; the
\* records after it that do not move it forward are appended with it.
GroupDay == MaxOf(batch[written + 1].ts, floor)
InGroup(n) == \A i \in 1 .. n : batch[written + i].ts <= GroupDay
IsGroup(n) == InGroup(n) /\ (written + n < Len(batch) => batch[written + n + 1].ts > GroupDay)
GroupLines(n, seg) ==
  [i \in 1 .. n |->
     [id |-> batch[written + i].id, count |-> batch[written + i].count,
      seq |-> batch[written + i].seq, prev |-> batch[written + i].prev,
      hash |-> batch[written + i].hash, day |-> GroupDay, seg |-> seg, eol |-> TRUE]]

\* d is what an append that did not complete can leave of the group: n whole
\* lines, and a fragment of the next one if torn.
PartialAppend(d) ==
  \E n \in 0 .. Len(batch) - written, seg \in 0 .. Len(disk), torn \in BOOLEAN :
    /\ InGroup(n)
    /\ torn => n < Len(batch) - written /\ InGroup(n + 1)
    /\ n > 0 \/ torn
    /\ IsTarget(disk, GroupDay, seg)
    /\ AppendLines(disk, <<GroupDay, seg>>,
         IF torn THEN Append(GroupLines(n, seg), Torn(GroupDay, seg)) ELSE GroupLines(n, seg), d)

-----------------------------------------------------------------------------
(* Verification                                                            *)

\* The files are merged by seq; a fragment is read after the line before it.
ReadKey(d, i) == IF ~IsTorn(d[i]) THEN d[i].seq
                 ELSE IF i > 1 /\ Key(d[i - 1]) = Key(d[i]) THEN d[i - 1].seq ELSE 0
ReadsBefore(d, i, j) ==
  ReadKey(d, i) < ReadKey(d, j) \/ (ReadKey(d, i) = ReadKey(d, j) /\ i < j)
ReadEarlier(d, i) == {j \in DOMAIN d : ReadsBefore(d, j, i)}
FirstRead(d, I) == CHOOSE i \in I : \A j \in I : j = i \/ ReadsBefore(d, i, j)
LastRead(d, I) == CHOOSE i \in I : \A j \in I : j = i \/ ReadsBefore(d, j, i)

\* The walk starts from the discontinuity that is further along.
FromReset(hd) == hd.reset.seq > hd.anchor.seq
WalkStart(hd) == IF FromReset(hd) THEN hd.reset ELSE hd.anchor
WalkEnd(hd, d) == IF d = <<>> THEN WalkStart(hd) ELSE Mark(d[LastRead(d, DOMAIN d)])

\* What the walk says of line i when it comes to it.
PrevRead(hd, d, i) ==
  IF ReadEarlier(d, i) = {} THEN WalkStart(hd).hash ELSE d[LastRead(d, ReadEarlier(d, i))].hash
OffStart(hd, d, i) ==
  /\ WalkStart(hd).seq > 0
  /\ \/ d[i].seq <= WalkStart(hd).seq
     \/ ReadEarlier(d, i) = {} /\ d[i].seq # WalkStart(hd).seq + 1
LineFault(hd, d, i) ==
  IF IsTorn(d[i]) THEN "corrupt_record"
  ELSE IF OffStart(hd, d, i) THEN IF FromReset(hd) THEN "chain_reset" ELSE "anchor_inconsistent"
  ELSE IF d[i].prev # PrevRead(hd, d, i) \/ ~HashOk(d[i]) THEN "hash_mismatch"
  ELSE "none"
WalkFaults(hd, d) == {i \in DOMAIN d : LineFault(hd, d, i) # "none"}

\* The verdict of _sync_verify_chain on head file hd, day files d and mirror m.
Verdict(hd, d, m) ==
  LET last == WalkEnd(hd, d)
  IN  IF m.seq > 0 /\ (~hd.found \/ hd.seq < m.seq) THEN "chain_reset"
      ELSE IF WalkFaults(hd, d) # {} THEN LineFault(hd, d, FirstRead(d, WalkFaults(hd, d)))
      ELSE IF hd.found /\ (last.seq < hd.seq \/ last.hash # hd.hash) THEN "tail_truncated"
      ELSE IF hd.reset.seq > 0 THEN "chain_reset"
      ELSE "ok"

-----------------------------------------------------------------------------
(* Logging                                                                 *)

\* Mutant: one record too many is admitted.
Room_OffByOne == BufferMax - Len(buffer) + 1

Room == BufferMax - Len(buffer)

\* async_log for each of kinds in turn: refused and counted once the buffer
\* is full, else buffered, with an immediate flush task for the high-value ones.
AsyncLog(kinds) ==
  LET n == MinOf(Len(kinds), Room)
  IN  /\ buffer' = buffer \o [i \in 1 .. n |->
                       [id |-> accepted + i, ts |-> today, kind |-> kinds[i], count |-> 0]]
      /\ accepted' = accepted + n
      /\ dropped' = dropped + (Len(kinds) - n)
      /\ refused' = refused + (Len(kinds) - n)
      /\ task' = IF task = "none" /\ \E i \in 1 .. n : Immediate(kinds[i])
                   THEN "queued" ELSE task

\* A listener or another component logs a record.
Log(kind) ==
  /\ phase = "up"
  /\ accepted < MaxLog
  /\ Len(buffer) = BufferMax => dropped < MaxDropped
  /\ AsyncLog(<<kind>>)
  /\ UNCHANGED <<phase, prepared, chain, anchor, reset, floor, retentionDue, repairs,
                 flushVars, diskVars, storeVars, today, fails, restarts, wipes, wipedAt>>

\* async_query numbers the buffered records without taking the flush lock.
Query ==
  /\ phase = "up"
  /\ Len(prepared) < Len(buffer)
  /\ prepared' = PrepareBuffered
  /\ UNCHANGED <<phase, buffer, dropped, chain, anchor, reset, floor, retentionDue, repairs,
                 task, flushVars, diskVars, storeVars, envVars>>

-----------------------------------------------------------------------------
(* Flushing                                                                *)

\* _async_flush up to the executor job, once the lock is free.
BeginFlush(who) ==
  /\ flushPc = "idle"
  /\ prepared' = PrepareBuffered
  /\ flushPc' = "append"
  /\ owner' = who
  /\ batch' = PrepareBuffered
  /\ written' = 0
  /\ headWritten' = FALSE
  /\ UNCHANGED <<buffer, dropped, chain, anchor, reset, floor, retentionDue, repairs,
                 pass, diskVars, storeVars, envVars>>

\* Mutant: the timer leaves ordinary records to the next high-value one.
TimerFlush_HighValueOnly ==
  /\ phase = "up"
  /\ \E i \in DOMAIN buffer : Immediate(buffer[i].kind)
  /\ BeginFlush("timer")
  /\ UNCHANGED <<phase, task>>

\* The 30 s timer.  With nothing buffered a flush does nothing at all.
TimerFlush ==
  /\ phase = "up"
  /\ buffer # <<>>
  /\ BeginFlush("timer")
  /\ UNCHANGED <<phase, task>>

\* The immediate flush task gets the lock.
TaskFlush ==
  /\ phase \in {"up", "stopping", "stopped"}
  /\ task = "queued"
  /\ buffer # <<>>
  /\ BeginFlush("task")
  /\ task' = "running"
  /\ UNCHANGED phase

\* The immediate flush task finds nothing left to write.
TaskFlushEmpty ==
  /\ phase \in {"up", "stopping", "stopped"}
  /\ flushPc = "idle"
  /\ task = "queued"
  /\ buffer = <<>>
  /\ task' = "none"
  /\ UNCHANGED <<phase, buffer, prepared, dropped, chain, anchor, reset, floor, retentionDue,
                 repairs, flushVars, diskVars, storeVars, envVars>>

\* One day group reaches its file and is fsynced.
AppendGroup ==
  /\ flushPc = "append"
  /\ \E n \in 1 .. Len(batch) - written, seg \in 0 .. Len(disk) :
       /\ IsGroup(n)
       /\ IsTarget(disk, GroupDay, seg)
       /\ AppendLines(disk, <<GroupDay, seg>>, GroupLines(n, seg), disk')
       /\ written' = written + n
       /\ flushPc' = IF written + n = Len(batch) THEN "head" ELSE "append"
  /\ floor' = GroupDay
  /\ UNCHANGED <<phase, buffer, prepared, dropped, chain, anchor, reset, retentionDue, repairs,
                 task, owner, batch, headWritten, pass, head, storeVars, envVars>>

\* The append fails; the partial write is cut off, unless that fails as well.
AppendFails ==
  /\ flushPc = "append"
  /\ fails < MaxFails
  /\ fails' = fails + 1
  /\ \/ disk' = disk
     \/ TrimMayFail /\ PartialAppend(disk')
  /\ flushPc' = IF written > 0 THEN "head" ELSE "retain"
  /\ UNCHANGED <<phase, memVars, owner, batch, written, headWritten, pass, head, storeVars,
                 today, accepted, refused, restarts, wipes, wipedAt>>

\* The head _sync_write_chain_head writes for the chain ending in m, with the
\* anchor a and the reset marker r carried along.
HeadPayload(m, a, r) ==
  [found |-> TRUE, seq |-> m.seq, hash |-> m.hash, anchor |-> a, reset |-> r]

\* The head during a flush: of what it has written, which is not committed yet.
FlushHead == IF written > 0 THEN batch[written] ELSE chain

WriteHead ==
  /\ flushPc = "head"
  /\ head' = HeadPayload(FlushHead, anchor, reset)
  /\ headWritten' = TRUE
  /\ flushPc' = "retain"
  /\ UNCHANGED <<phase, memVars, owner, batch, written, pass, disk, storeVars, envVars>>

WriteHeadFails ==
  /\ flushPc = "head"
  /\ fails < MaxFails
  /\ fails' = fails + 1
  /\ flushPc' = "retain"
  /\ UNCHANGED <<phase, memVars, owner, batch, written, headWritten, pass, diskVars, storeVars,
                 today, accepted, refused, restarts, wipes, wipedAt>>

-----------------------------------------------------------------------------
(* Retention                                                               *)

\* The cutoff day, the files whose removal failed in either half of the pass,
\* and best_tail.
Passes == [cutoff : Int, aged : SUBSET (Nat \X Nat), skipped : SUBSET (Nat \X Nat), best : Marks]
NoPass == [cutoff |-> 0, aged |-> {}, skipped |-> {}, best |-> NoMark]

SkipRetention ==
  /\ flushPc = "retain"
  /\ ~retentionDue
  /\ flushPc' = "commit"
  /\ UNCHANGED <<phase, memVars, owner, batch, written, headWritten, pass, diskVars, storeVars,
                 envVars>>

BeginRetention ==
  /\ flushPc = "retain"
  /\ retentionDue
  /\ flushPc' = "prune"
  /\ pass' = [NoPass EXCEPT !.cutoff = today - RetentionDays]
  /\ UNCHANGED <<phase, memVars, owner, batch, written, headWritten, diskVars, storeVars, envVars>>

\* Files whose removal failed in the age pass leave the pass altogether;
\* those whose removal failed in the size pass still count towards the total.
Expired == {k \in FileKeys(disk) \ pass.aged : k[1] < pass.cutoff}
Kept == FileKeys(disk) \ (pass.aged \cup pass.skipped)
TotalLines == Cardinality({i \in DOMAIN disk : Key(disk[i]) \notin pass.aged})
OverCap == TotalLines > MaxLines /\ Cardinality(Kept) > 1

HasVictim == Expired # {} \/ OverCap

\* Mutant: the files are taken from the newest on.
IsVictim_Newest(k) ==
  LET K == IF Expired # {} THEN Expired ELSE Kept
  IN  HasVictim /\ k \in K /\ \A m \in K : m = k \/ KeyBefore(m, k)

IsVictim(k) == HasVictim /\ OldestOf(k, IF Expired # {} THEN Expired ELSE Kept)

\* Mutant: the first line of an expired file is taken for its tail.
IsLastLine_First(i) == \A j \in DOMAIN disk : Key(disk[j]) = Key(disk[i]) => j >= i

IsLastLine(i) == \A j \in DOMAIN disk : Key(disk[j]) = Key(disk[i]) => j <= i

\* Remove the file that ends with line i, after taking that line's seq and
\* hash; a torn one has none.
RemoveFile ==
  /\ flushPc = "prune"
  /\ \E i \in DOMAIN disk :
       /\ IsVictim(Key(disk[i])) /\ IsLastLine(i)
       /\ \E a \in DOMAIN disk, b \in DOMAIN disk :
            /\ Key(disk[a]) = Key(disk[i]) /\ \A j \in 1 .. a - 1 : Key(disk[j]) # Key(disk[i])
            /\ Key(disk[b]) = Key(disk[i]) /\ \A j \in b + 1 .. Len(disk) : Key(disk[j]) # Key(disk[i])
            /\ disk' = Cut(disk, a, b)
       /\ pass' = IF disk[i].seq > pass.best.seq
                    THEN [pass EXCEPT !.best = Mark(disk[i])] ELSE pass
  /\ UNCHANGED <<phase, memVars, flushPc, owner, batch, written, headWritten, head, storeVars,
                 envVars>>

RemoveFileFails ==
  /\ RemoveMayFail
  /\ flushPc = "prune"
  /\ fails < MaxFails
  /\ fails' = fails + 1
  /\ \E k \in FileKeys(disk) :
       /\ IsVictim(k)
       /\ pass' = IF Expired # {} THEN [pass EXCEPT !.aged = @ \cup {k}]
                                  ELSE [pass EXCEPT !.skipped = @ \cup {k}]
  /\ UNCHANGED <<phase, memVars, flushPc, owner, batch, written, headWritten, diskVars, storeVars,
                 today, accepted, refused, restarts, wipes, wipedAt>>

\* The pass is over.  The anchor moves to the newest record deleted, a reset
\* marker that expired with it is cleared, and the head carries both.
EndRetention ==
  /\ flushPc = "prune"
  /\ ~HasVictim
  /\ flushPc' = "commit"
  /\ retentionDue' = FALSE
  /\ pass' = NoPass
  /\ IF pass.best.seq > anchor.seq
       THEN /\ anchor' = pass.best
            /\ reset' = IF pass.best.seq >= reset.seq THEN NoMark ELSE reset
            /\ \/ head' = HeadPayload(FlushHead, anchor', reset') /\ UNCHANGED fails
               \/ fails < MaxFails /\ fails' = fails + 1 /\ UNCHANGED head
       ELSE UNCHANGED <<anchor, reset, head, fails>>
  /\ UNCHANGED <<phase, buffer, prepared, dropped, chain, floor, repairs, task, owner, batch,
                 written, headWritten, disk, storeVars, today, accepted, refused, restarts, wipes, wipedAt>>

-----------------------------------------------------------------------------
(* Commit, on the event loop, and the store's mirror                       *)

\* Mutant: the whole batch is taken for written.
Uncommitted_WholeBatch(q) == SubSeq(q, Len(batch) + 1, Len(q))

\* What _commit_written leaves of the buffer and of the prepared copies.
Uncommitted(q) == SubSeq(q, written + 1, Len(q))

\* Mutant: the report counts one record whatever was refused.
DroppedRecord_CountsOne == [id |-> accepted + 1, ts |-> today, kind |-> "dropped", count |-> 1]

DroppedRecord == [id |-> accepted + 1, ts |-> today, kind |-> "dropped", count |-> dropped]

\* Mutant: the comparison with the limit is turned round.
ReportDue_WhenFull == dropped > 0 /\ Len(Uncommitted(buffer)) >= BufferMax

ReportDue == dropped > 0 /\ Len(Uncommitted(buffer)) < BufferMax

\* _commit_written: drop what was written, advance the chain, and account for
\* the records refused meanwhile if there is room again.
CommitWritten ==
  /\ prepared' = Uncommitted(prepared)
  /\ chain' = Mark(batch[written])
  /\ buffer' = IF ReportDue THEN Append(Uncommitted(buffer), DroppedRecord) ELSE Uncommitted(buffer)
  /\ accepted' = IF ReportDue THEN accepted + 1 ELSE accepted
  /\ dropped' = IF ReportDue THEN 0 ELSE dropped

\* Mutant: the mirror advances although the head file was not written.
SetAuditHead_Ungated ==
  mirror' = IF batch[written].seq > mirror.seq THEN Mark(batch[written]) ELSE mirror

\* async_set_audit_head: the mirror only advances, and only over a head that
\* reached disk.
SetAuditHead ==
  mirror' = IF headWritten /\ batch[written].seq > mirror.seq THEN Mark(batch[written]) ELSE mirror

EndFlush ==
  /\ flushPc = "commit"
  /\ IF written > 0
       THEN CommitWritten /\ SetAuditHead
       ELSE UNCHANGED <<buffer, prepared, chain, accepted, dropped, mirror>>
  /\ flushPc' = "idle"
  /\ owner' = "none"
  /\ batch' = <<>>
  /\ written' = 0
  /\ headWritten' = FALSE
  /\ task' = IF owner = "task" THEN "none" ELSE task
  /\ phase' = IF owner = "stop" THEN "stopped" ELSE phase
  /\ UNCHANGED <<anchor, reset, floor, retentionDue, repairs, pass, diskVars, saved,
                 today, refused, fails, restarts, wipes, wipedAt>>

\* The store's debounced save.
SaveStore ==
  /\ phase # "down"
  /\ saved # mirror
  /\ saved' = mirror
  /\ UNCHANGED <<phase, memVars, flushVars, diskVars, mirror, envVars>>

-----------------------------------------------------------------------------
(* Start-up                                                                *)

\* Mutant: the markers are not restored, so the next head rewrite drops them.
LoadHead_NoMarkers ==
  /\ phase = "down"
  /\ phase' = "repair"
  /\ chain' = Mark(head)
  /\ floor' = NewestDay(disk)
  /\ UNCHANGED <<buffer, prepared, dropped, anchor, reset, retentionDue, repairs, task,
                 flushVars, diskVars, storeVars, envVars>>

\* _sync_load_chain_head_file: a missing or unreadable head is a fresh chain.
\* The day floor is taken from the newest file.
LoadHead ==
  /\ phase = "down"
  /\ phase' = "repair"
  /\ chain' = Mark(head)
  /\ anchor' = head.anchor
  /\ reset' = head.reset
  /\ floor' = NewestDay(disk)
  /\ UNCHANGED <<buffer, prepared, dropped, retentionDue, repairs, task, flushVars,
                 diskVars, storeVars, envVars>>

\* _sync_repair_torn_tail: an unterminated fragment at the end of one of the
\* newest files is cut off.
TornTails == {i \in DOMAIN disk : /\ IsTorn(disk[i]) /\ ~disk[i].eol
                                  /\ Key(disk[i]) \in RecentFiles(disk)}

\* Mutant: the file is cut at the start of the line before the fragment.
Repaired_LineBefore(i) == Cut(disk, MaxOf(i - 1, 1), i)

Repaired(i) == Cut(disk, i, i)

RepairTornTail ==
  /\ phase = "repair"
  /\ \/ \E i \in TornTails :
          /\ \A j \in TornTails : j <= i
          /\ disk' = Repaired(i)
          /\ repairs' = Append(repairs, "repair")
          /\ UNCHANGED phase
     \/ /\ TornTails = {}
        /\ phase' = "rebuild"
        /\ UNCHANGED <<disk, repairs>>
  /\ UNCHANGED <<buffer, prepared, dropped, chain, anchor, reset, floor, retentionDue, task,
                 flushVars, head, storeVars, envVars>>

\* Mutant: the record at the head itself is not read.
RecordsAfter_Beyond(s) ==
  {i \in DOMAIN disk :
     /\ Key(disk[i]) \in RecentFiles(disk)
     /\ \A j \in DOMAIN disk : j >= i /\ Key(disk[j]) = Key(disk[i])
           => ~IsTorn(disk[j]) /\ disk[j].seq > s}

\* _sync_records_after: lines of the newest files, read backwards until one does
\* not parse or lies before seq s.
RecordsAfter(s) ==
  {i \in DOMAIN disk :
     /\ Key(disk[i]) \in RecentFiles(disk)
     /\ \A j \in DOMAIN disk : j >= i /\ Key(disk[j]) = Key(disk[i])
           => ~IsTorn(disk[j]) /\ disk[j].seq >= s}

\* The records found continue exactly from the loaded head up to line top.
Continues(top) ==
  LET found == RecordsAfter(chain.seq)
      at(q) == CHOOSE i \in found : disk[i].seq = q /\ \A j \in found : disk[j].seq = q => i <= j
      has(q) == \E i \in found : disk[i].seq = q
  IN  /\ top \in found
      /\ \A j \in found : disk[j].seq <= disk[top].seq
      /\ disk[top].seq > chain.seq
      /\ top = at(disk[top].seq)
      /\ chain.seq > 0 => has(chain.seq) /\ disk[at(chain.seq)].hash = chain.hash
      /\ \A q \in chain.seq + 1 .. disk[top].seq :
           /\ has(q)
           /\ disk[at(q)].prev = IF q = chain.seq + 1 THEN chain.hash ELSE disk[at(q - 1)].hash
           /\ HashOk(disk[at(q)])

\* _sync_recover_from_disk: a head that lags the durable records is rebuilt.
RebuildHead ==
  /\ phase = "rebuild"
  /\ phase' = "detect"
  /\ \/ \E top \in DOMAIN disk :
          /\ head.found /\ Continues(top)
          /\ chain' = Mark(disk[top])
          /\ repairs' = Append(repairs, "repair")
          /\ \/ head' = HeadPayload(chain', anchor, reset) /\ UNCHANGED fails
             \/ fails < MaxFails /\ fails' = fails + 1 /\ UNCHANGED head
     \/ /\ ~ (head.found /\ \E top \in DOMAIN disk : Continues(top))
        /\ UNCHANGED <<chain, repairs, head, fails>>
  /\ UNCHANGED <<buffer, prepared, dropped, anchor, reset, floor, retentionDue, task, flushVars,
                 disk, storeVars, today, accepted, refused, restarts, wipes, wipedAt>>

\* Mutant: a missing head file is not compared with the mirror.
Lost_FoundOnly == head.found /\ mirror.seq > chain.seq

Lost == mirror.seq > chain.seq

\* _async_detect_chain_reset, then _async_log_recovery_events.  A head behind
\* the mirror means the directory was lost: go on from the mirror, with the
\* reset record first.
DetectReset ==
  /\ phase = "detect"
  /\ phase' = "up"
  /\ chain' = IF Lost THEN mirror ELSE chain
  /\ reset' = IF Lost THEN mirror ELSE reset
  /\ AsyncLog((IF Lost THEN <<"reset">> ELSE <<>>) \o repairs)
  /\ repairs' = <<>>
  /\ UNCHANGED <<prepared, anchor, floor, retentionDue, flushVars, diskVars, storeVars,
                 today, fails, restarts, wipes, wipedAt>>

-----------------------------------------------------------------------------
(* Stop, crash, and the world outside                                      *)

\* async_stop: timers and listeners go, then one more flush.
BeginStop ==
  /\ phase = "up"
  /\ restarts < MaxRestarts
  /\ restarts' = restarts + 1
  /\ phase' = "stopping"
  /\ UNCHANGED <<memVars, flushVars, diskVars, storeVars, today, accepted, refused, fails, wipes, wipedAt>>

StopFlush ==
  /\ phase = "stopping"
  /\ buffer # <<>>
  /\ BeginFlush("stop")
  /\ UNCHANGED <<phase, task>>

StopFlushEmpty ==
  /\ phase = "stopping"
  /\ flushPc = "idle"
  /\ buffer = <<>>
  /\ phase' = "stopped"
  /\ UNCHANGED <<memVars, flushVars, diskVars, storeVars, envVars>>

\* The object is gone and a new one will be built.  Records that never reached
\* disk are gone with it, so their numbers are given out again.
LoseMemory ==
  /\ phase' = "down"
  /\ buffer' = <<>> /\ prepared' = <<>> /\ dropped' = 0
  /\ chain' = NoMark /\ anchor' = NoMark /\ reset' = NoMark
  /\ floor' = 0 /\ retentionDue' = TRUE /\ repairs' = <<>> /\ task' = "none"
  /\ flushPc' = "idle" /\ owner' = "none" /\ batch' = <<>> /\ written' = 0
  /\ headWritten' = FALSE /\ pass' = NoPass
  /\ LET durable == {disk'[i].id : i \in DOMAIN disk'} \cup ToSet(head.hash) \cup ToSet(saved'.hash)
     IN  \E n \in 0 .. accepted :
           /\ n \in durable \cup {0}
           /\ \A m \in durable : m <= n
           /\ accepted' = n

\* Unload after the stop: the store is written last.
Unload ==
  /\ phase = "stopped"
  /\ flushPc = "idle"
  /\ task = "none"
  /\ saved' = mirror
  /\ UNCHANGED <<disk, head, mirror, today, refused, fails, restarts, wipes, wipedAt>>
  /\ LoseMemory

\* The process or the host dies.  An append in progress may be partly on disk.
Crash ==
  /\ phase # "down"
  /\ restarts < MaxRestarts
  /\ restarts' = restarts + 1
  /\ \/ disk' = disk
     \/ flushPc = "append" /\ PartialAppend(disk')
  /\ mirror' = saved
  /\ UNCHANGED <<head, saved, today, refused, fails, wipes, wipedAt>>
  /\ LoseMemory

\* The audit directory is lost, whether HA SOC is running or not.
LoseDirectory ==
  /\ wipes < MaxWipes
  /\ wipes' = wipes + 1
  /\ wipedAt' = saved.seq
  /\ disk' = <<>>
  /\ head' = NoHead
  /\ UNCHANGED <<phase, memVars, flushVars, storeVars, today, accepted, refused, fails, restarts>>

\* Time passes, and the wall clock may be stepped either way.
ClockMoves ==
  /\ \E d \in Days : today' = d
  /\ retentionDue' = TRUE
  /\ UNCHANGED <<phase, buffer, prepared, dropped, chain, anchor, reset, floor, repairs, task,
                 flushVars, diskVars, storeVars, accepted, refused, fails, restarts, wipes, wipedAt>>

-----------------------------------------------------------------------------
(* Specification                                                           *)

\* A directory with one flushed record, for an installation that is not fresh.
FirstLine == [id |-> 1, count |-> 0, seq |-> 1, prev |-> Genesis, hash |-> <<1>>,
              day |-> 1, seg |-> 0, eol |-> TRUE]

Init ==
  /\ phase = "down"
  /\ buffer = <<>> /\ prepared = <<>> /\ dropped = 0
  /\ chain = NoMark /\ anchor = NoMark /\ reset = NoMark
  /\ floor = 0 /\ retentionDue = TRUE /\ repairs = <<>> /\ task = "none"
  /\ flushPc = "idle" /\ owner = "none" /\ batch = <<>> /\ written = 0
  /\ headWritten = FALSE /\ pass = NoPass
  /\ IF FreshInstall
       THEN disk = <<>> /\ head = NoHead /\ saved = NoMark /\ accepted = 0
       ELSE /\ disk = <<FirstLine>>
            /\ head = HeadPayload(FirstLine, NoMark, NoMark)
            /\ saved = Mark(FirstLine)
            /\ accepted = 1
  /\ mirror = saved
  /\ today = 1 /\ refused = 0 /\ fails = 0 /\ restarts = 0 /\ wipes = 0 /\ wipedAt = 0

\* The steps of a flush after it took the lock, but for the I/O errors.
FlushStep ==
  \/ AppendGroup \/ WriteHead \/ SkipRetention \/ BeginRetention \/ RemoveFile \/ EndRetention
  \/ EndFlush

IOError == AppendFails \/ WriteHeadFails \/ RemoveFileFails

StartStep == LoadHead \/ RepairTornTail \/ RebuildHead \/ DetectReset

StopStep == StopFlush \/ StopFlushEmpty \/ Unload

Next ==
  \/ \E kind \in {"low", "high"} : Log(kind)
  \/ Query
  \/ TimerFlush \/ TaskFlush \/ TaskFlushEmpty
  \/ FlushStep \/ IOError
  \/ SaveStore
  \/ StartStep
  \/ BeginStop \/ StopStep
  \/ Crash
  \/ LoseDirectory
  \/ ClockMoves

Spec == Init /\ [][Next]_vars

\* The timer keeps firing, the executor and start-up make progress, and a stop
\* that began is carried through.  Nobody has to log, query or save.
Fairness ==
  /\ WF_vars(TimerFlush) /\ WF_vars(TaskFlush) /\ WF_vars(TaskFlushEmpty)
  /\ WF_vars(FlushStep) /\ WF_vars(StartStep) /\ WF_vars(StopStep)

FairSpec == Spec /\ Fairness

-----------------------------------------------------------------------------
(* Properties                                                              *)

MemType ==
  /\ phase \in {"down", "repair", "rebuild", "detect", "up", "stopping", "stopped"}
  /\ buffer \in Seq(Records) /\ Len(buffer) <= BufferMax
  /\ prepared \in Seq(Prepared) /\ Len(prepared) <= Len(buffer)
  /\ dropped \in Nat
  /\ chain \in Marks /\ anchor \in Marks /\ reset \in Marks
  /\ floor \in Nat /\ retentionDue \in BOOLEAN
  /\ repairs \in Seq(Kinds)
  /\ task \in {"none", "queued", "running"}

FlushType ==
  /\ flushPc \in {"idle", "append", "head", "retain", "prune", "commit"}
  /\ owner \in {"none", "timer", "task", "stop", "reader"}
  /\ batch \in Seq(Prepared) /\ written \in 0 .. Len(batch) /\ headWritten \in BOOLEAN
  /\ pass \in Passes

DiskType == disk \in Seq(Lines) /\ head \in Heads /\ mirror \in Marks /\ saved \in Marks

EnvType ==
  /\ today \in Days /\ accepted \in Nat /\ refused \in Nat
  /\ fails \in Nat /\ restarts \in Nat /\ wipes \in Nat /\ wipedAt \in Nat

\* Every variable has the values the code can give it; the buffer and the
\* prepared copies stay within _BUFFER_MAX_RECORDS.
TypeOK == MemType /\ FlushType /\ DiskType /\ EnvType

\* Accepted records that are not on disk yet, with and without their numbers.
Pending == SubSeq(buffer, written + 1, Len(buffer))
PendingPrepared == SubSeq(prepared, written + 1, Len(prepared))

Linked(rs) == \A i \in 1 .. Len(rs) - 1 : rs[i + 1].seq = rs[i].seq + 1 /\ rs[i + 1].prev = rs[i].hash

\* The lines on disk but for the fragment a crash left at the very end, the one
\* place where there may be one.
Intact(ls) == IF ls # <<>> /\ IsTorn(ls[Len(ls)]) THEN SubSeq(ls, 1, Len(ls) - 1) ELSE ls

\* The lines on disk in file order, followed by the records already numbered
\* in memory, form one chain: consecutive numbers, each record naming the hash
\* of the one before it.  Holds across failed appends, failed head writes,
\* clock steps, queries during a flush, crashes at any point and restarts.
ChainIntact == wipes = 0 => Linked(Intact(disk) \o PendingPrepared)

Ids(rs) == [i \in DOMAIN rs |-> rs[i].id]

\* Accepted records are on disk or still buffered, once each and in the order
\* of acceptance: a failed or partial flush loses and repeats none.
NothingLost ==
  LET ids == Ids(Intact(disk)) \o Ids(Pending)
  IN  wipes = 0 /\ phase = "up" =>
        /\ \A i \in 1 .. Len(ids) - 1 : ids[i + 1] = ids[i] + 1
        /\ ids # <<>> => ids[Len(ids)] = accepted

Promise == INSTANCE DurableLog WITH log <- Ids(Intact(disk)), waiting <- Ids(Pending), running <- phase # "down"

\* While the directory is not lost, the log is a DurableLog: failed and partial
\* flushes, clock steps, expiry by whole files, crashes, repairs of torn tails
\* and the rebuilt head leave the records on disk what they are, but for those
\* appended in the order of acceptance and those expired from the front.
ImplementsDurableLog == Promise!LogSpec

\* The prepared copies are the copies of a prefix of the buffer, and the batch
\* a flush works on is a prefix of them, however many queries numbered further
\* records meanwhile: committing what was written drops exactly that.
PreparedFollowsBuffer ==
  /\ Len(prepared) <= Len(buffer)
  /\ \A i \in DOMAIN prepared : prepared[i].id = buffer[i].id
  /\ \A i \in DOMAIN prepared : prepared[i].seq = chain.seq + i
  /\ Len(batch) <= Len(prepared)
  /\ \A i \in DOMAIN batch : batch[i] = prepared[i]

\* What the steps of a flush and of start-up rely on: an object that is starting
\* has nothing buffered, and a flush is at a step its progress allows.
FlushInv ==
  /\ phase \in {"down", "repair", "rebuild", "detect"} =>
       buffer = <<>> /\ prepared = <<>> /\ flushPc = "idle"
  /\ flushPc = "idle" => batch = <<>> /\ written = 0 /\ ~headWritten
  /\ flushPc = "append" => written < Len(batch)
  /\ flushPc = "head" => written > 0
  /\ headWritten => flushPc \in {"retain", "prune", "commit"}

\* The head file never knows more than memory does, nor, while the directory was
\* never lost, the mirror more than the head file.
HeadInv ==
  /\ phase # "down" =>
       /\ head.seq <= chain.seq + written
       /\ head.anchor.seq <= anchor.seq
       /\ reset.seq <= chain.seq
       /\ head.reset.seq <= reset.seq \/ head.reset.seq <= anchor.seq
  /\ head.reset.seq <= head.seq
  /\ wipes = 0 =>
       /\ reset = NoMark /\ head.reset = NoMark
       /\ saved.seq <= mirror.seq /\ mirror.seq <= head.seq
       /\ headWritten => head.seq = chain.seq + written

\* As long as the directory was never lost, start-up never takes a stale head
\* for a lost directory: the saved mirror is not ahead of the head file.
NoFalseReset ==
  wipes = 0 => reset = NoMark /\ head.reset = NoMark /\ saved.seq <= head.seq

\* Once the head file is current, verification finds nothing wrong with a chain
\* nobody touched.
CleanVerifies ==
  wipes = 0 /\ phase = "up" /\ flushPc = "idle" /\ head.seq = chain.seq /\ head.anchor = anchor =>
    Verdict(head, disk, mirror) = "ok"

\* The loss of a directory whose head had been mirrored is reported by every
\* verification until retention has expired the place of the loss.
LossReported ==
  wipes > 0 /\ wipedAt > 0 /\ flushPc = "idle" /\ head.anchor.seq < wipedAt =>
    Verdict(head, disk, mirror) # "ok"

\* Until a restart, every refused record is counted by an audit_records_dropped
\* record on disk or on its way there, or still waits to be reported.
DropsAccounted ==
  restarts = 0 /\ anchor = NoMark =>
    refused = dropped + FoldSeq(LAMBDA r, n : r.count + n, 0, disk)
                      + FoldSeq(LAMBDA r, n : r.count + n, 0, Pending)

\* No head rewrite takes the head or the anchor back, and a reset marker stays
\* in the head file until the anchor has passed it.
MarkersCarried ==
  [][wipes' = wipes =>
       /\ head'.seq >= head.seq
       /\ head'.anchor.seq >= head.anchor.seq
       /\ head.reset.seq > 0 => head'.reset.seq >= head.reset.seq \/ head'.anchor.seq >= head.reset.seq
    ]_vars

\* A record that was accepted does not stay in memory for ever.
EventuallyWritten ==
  \A i \in 1 .. MaxLog : (\E j \in DOMAIN Pending : Pending[j].id = i)
                           ~> ~(\E j \in DOMAIN Pending : Pending[j].id = i)

\* Refused records are eventually reported.
EventuallyReported == dropped > 0 ~> dropped = 0

\* Nothing that was taken in stays in memory for ever: neither an accepted
\* record nor the count of those async_log refused.
EventuallyLogged == EventuallyWritten /\ EventuallyReported

=============================================================================
