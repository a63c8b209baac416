---------------------------- MODULE AuditReaders ----------------------------
(***************************************************************************)
(* The readers of the audit log (audit.py: async_verify_chain, async_query)*)
(* beside the writer of module AuditLog.  Each runs on the event loop and  *)
(* then in an executor thread of its own, without the flush lock, so the   *)
(* writer's steps fall between its reads.                                  *)
(***************************************************************************)
EXTENDS AuditLog

CONSTANT MaxReads   \* bound: verifications and queries

ASSUME ReadsAssumption == MaxReads \in Nat

VARIABLES
  vPc,       \* verification: "idle", "flush", "markers", "checkpoint", "walk"
  vHead,     \* anchor and reset marker, then the checkpoint, as read
  vMirror,   \* the mirror as read
  verdict,   \* the last verdict, "none" before the first
  disturbed, \* a flush was under way, or the disk changed, during the reads
  qPc,       \* query: "idle" or "read"
  qBuffered, \* the prepared records it took along
  qUpTo,     \* records accepted when it started
  answer,    \* ids of the last answer, newest first
  reads

readerVars == <<vPc, vHead, vMirror, verdict, disturbed, qPc, qBuffered, qUpTo, answer, reads>>
allVars == <<vars, readerVars>>

NoAnswer == [ids |-> <<>>, upTo |-> 0]

InitReaders ==
  /\ vPc = "idle" /\ vHead = NoHead /\ vMirror = NoMark /\ verdict = "none" /\ disturbed = FALSE
  /\ qPc = "idle" /\ qBuffered = <<>> /\ qUpTo = 0 /\ answer = NoAnswer
  /\ reads = 0

-----------------------------------------------------------------------------
(* async_verify_chain                                                      *)

\* Flush first, so that the walk covers everything logged so far.
VerifyFlush ==
  /\ phase = "up"
  /\ vPc = "idle"
  /\ reads < MaxReads
  /\ reads' = reads + 1
  /\ \/ /\ buffer # <<>>
        /\ BeginFlush("reader")
        /\ vPc' = "flush"
     \/ /\ flushPc = "idle"
        /\ buffer = <<>>
        /\ vPc' = "markers"
        /\ UNCHANGED <<buffer, prepared, dropped, chain, anchor, reset, floor, retentionDue,
                       repairs, flushVars, diskVars, storeVars, envVars>>
  /\ UNCHANGED <<phase, task, vHead, vMirror, verdict, disturbed, qPc, qBuffered, qUpTo, answer>>

\* Mutant: the retention anchor is not read.
ReadMarkers_NoAnchor ==
  /\ vPc = "markers"
  /\ vPc' = "checkpoint"
  /\ vHead' = [NoHead EXCEPT !.reset = head.reset]
  /\ disturbed' = (flushPc # "idle")
  /\ UNCHANGED <<vars, vMirror, verdict, qPc, qBuffered, qUpTo, answer, reads>>

\* _sync_read_chain_head_anchor and _sync_read_chain_head_reset.
ReadMarkers ==
  /\ vPc = "markers"
  /\ vPc' = "checkpoint"
  /\ vHead' = [NoHead EXCEPT !.anchor = head.anchor, !.reset = head.reset]
  /\ disturbed' = (flushPc # "idle")
  /\ UNCHANGED <<vars, vMirror, verdict, qPc, qBuffered, qUpTo, answer, reads>>

\* Mutant: the mirror is not consulted.
ReadCheckpoint_NoMirror ==
  /\ vPc = "checkpoint"
  /\ vPc' = "walk"
  /\ vHead' = [vHead EXCEPT !.found = head.found, !.seq = head.seq, !.hash = head.hash]
  /\ vMirror' = NoMark
  /\ UNCHANGED <<vars, verdict, disturbed, qPc, qBuffered, qUpTo, answer, reads>>

\* The mirror, and _sync_read_chain_head_checkpoint.
ReadCheckpoint ==
  /\ vPc = "checkpoint"
  /\ vPc' = "walk"
  /\ vHead' = [vHead EXCEPT !.found = head.found, !.seq = head.seq, !.hash = head.hash]
  /\ vMirror' = mirror
  /\ UNCHANGED <<vars, verdict, disturbed, qPc, qBuffered, qUpTo, answer, reads>>

\* The walk over the day files, and the verdict.
WalkFiles ==
  /\ vPc = "walk"
  /\ vPc' = "idle"
  /\ verdict' = Verdict(vHead, disk, vMirror)
  /\ vHead' = NoHead /\ vMirror' = NoMark
  /\ UNCHANGED <<vars, disturbed, qPc, qBuffered, qUpTo, answer, reads>>

-----------------------------------------------------------------------------
(* async_query                                                             *)

\* The buffered records are numbered and taken along.
QueryBuffered ==
  /\ phase = "up"
  /\ qPc = "idle"
  /\ reads < MaxReads
  /\ reads' = reads + 1
  /\ qPc' = "read"
  /\ prepared' = PrepareBuffered
  /\ qBuffered' = PrepareBuffered
  /\ qUpTo' = accepted
  /\ UNCHANGED <<phase, buffer, dropped, chain, anchor, reset, floor, retentionDue, repairs, task,
                 flushVars, diskVars, storeVars, envVars, vPc, vHead, vMirror, verdict, disturbed,
                 answer>>

\* Mutant: lines on disk are not compared with the records taken along.
Seen_None == {}

\* seen_seqs
Seen == {qBuffered[i].seq : i \in DOMAIN qBuffered}

\* _sync_query: what it took along, then the files newest first, without the
\* lines whose seq it has already.
QueryFiles ==
  LET fresh == SelectSeq(disk, LAMBDA l : ~IsTorn(l) /\ l.seq \notin Seen)
      ids(rs) == [i \in DOMAIN rs |-> rs[i].id]
  IN  /\ qPc = "read"
      /\ qPc' = "idle"
      /\ answer' = [ids |-> ids(Reverse(qBuffered)) \o ids(Reverse(fresh)), upTo |-> qUpTo]
      /\ qBuffered' = <<>> /\ qUpTo' = 0
      /\ UNCHANGED <<vars, vPc, vHead, vMirror, verdict, disturbed, reads>>

-----------------------------------------------------------------------------
(* A step of the writer.  A verification goes on when its flush is done; a *)
(* restart ends every reader.                                              *)
WriterStep ==
  /\ Next
  /\ disturbed' = (vPc \in {"checkpoint", "walk"} /\ (disturbed \/ flushPc' # "idle" \/ disk' # disk))
  /\ vPc' = IF phase' = "down" THEN "idle"
            ELSE IF vPc = "flush" /\ owner' # "reader" THEN "markers" ELSE vPc
  /\ qPc' = IF phase' = "down" THEN "idle" ELSE qPc
  /\ UNCHANGED <<vHead, vMirror, verdict, qBuffered, qUpTo, answer, reads>>

ReaderStep ==
  VerifyFlush \/ ReadMarkers \/ ReadCheckpoint \/ WalkFiles \/ QueryBuffered \/ QueryFiles

ReadersInit == Init /\ InitReaders
ReadersNext == WriterStep \/ ReaderStep
ReadersSpec == ReadersInit /\ [][ReadersNext]_allVars

-----------------------------------------------------------------------------
(* Properties                                                              *)

Quiet == wipes = 0 /\ fails = 0 /\ restarts = 0

\* A walk came to its verdict: a restart ends one without any.
Judged == vPc = "walk" /\ vPc' = "idle" /\ phase' # "down"

\* A verification of an untouched chain that did not overlap a write or a
\* retention pass is clean, whatever was logged and flushed before and after.
UndisturbedVerdict == [][Judged /\ Quiet /\ ~disturbed => verdict' = "ok"]_allVars

\* A verification that starts after the directory was lost, and whose mirror had
\* been saved, never calls the chain whole before the loss has expired.
LossNeverOk ==
  [][Judged /\ wipes > 0 /\ wipedAt > 0 /\ ~disturbed /\ vHead.anchor.seq < wipedAt
       => verdict' # "ok"]_allVars

\* An answer shows every record once: a record that a concurrent flush writes
\* between the two halves of the query is neither repeated nor missed.
AnswerComplete ==
  LET shown == answer.ids
  IN  wipes = 0 /\ restarts = 0 =>
        /\ \A i, j \in DOMAIN shown : i # j => shown[i] # shown[j]
        /\ \A id \in 1 .. answer.upTo :
             id \in ToSet(shown) \cup ToSet(anchor.hash) \cup ToSet(pass.best.hash)

\* What async_verify_chain answers is right whenever nothing moved under it:
\* clean for an untouched chain, never clean after a loss.
VerdictRight == UndisturbedVerdict /\ LossNeverOk

=============================================================================
