----------------------------- MODULE ExternalAudit -----------------------------
(***************************************************************************)
(* The ingest of another tool's hash-chained audit records                 *)
(* (external_audit.py): one source, whose log may be edited behind its     *)
(* back, sends batches; each record is verified against the head accepted  *)
(* last and handed to the audit log.  The head reaches the disk with the   *)
(* debounced save of the store, so a crash may take it back.               *)
(*                                                                         *)
(* A chain is a sequence of letters, and the hash of its n-th record is    *)
(* its prefix of length n: equal hashes are equal histories.               *)
(***************************************************************************)
EXTENDS Naturals, Sequences, SequencesExt

CONSTANTS
  Letters,      \* what a record may say
  MaxSeq,       \* bound: length of the source's chain
  MaxCrashes    \* bound: crashes

ASSUME ExternalAssumption == MaxSeq \in Nat \ {0} /\ MaxCrashes \in Nat

VARIABLES
  eaChain,      \* the source's log as it stands
  eaEdited,     \* the source's log was rewritten
  eaHead,       \* the hash accepted last, << >> for none
  eaHeadDisk,   \* the head in the store file
  eaLog,        \* hashes handed to the audit log, in order
  eaBreaks,     \* chain breaks were recorded in the audit log
  eaHeadLost,   \* a crash took the head back
  eaCrashes     \* crashes so far

eaVars == <<eaChain, eaEdited, eaHead, eaHeadDisk, eaLog, eaBreaks, eaHeadLost,
            eaCrashes>>

Chains == UNION {[1 .. n -> Letters] : n \in 0 .. MaxSeq}

EaTypeOK ==
  /\ {eaChain, eaHead, eaHeadDisk} \subseteq Chains
  /\ {eaEdited, eaBreaks, eaHeadLost} \subseteq BOOLEAN
  /\ \A i \in DOMAIN eaLog : eaLog[i] \in Chains \ {<< >>}
  /\ eaCrashes \in 0 .. MaxCrashes

EaInit ==
  /\ eaChain = << >> /\ eaEdited = FALSE
  /\ eaHead = << >> /\ eaHeadDisk = << >>
  /\ eaLog = << >> /\ eaBreaks = FALSE
  /\ eaHeadLost = FALSE /\ eaCrashes = 0

-----------------------------------------------------------------------------
(* The source, external.                                                   *)

SourceAppends ==
  /\ Len(eaChain) < MaxSeq
  /\ \E x \in Letters : eaChain' = Append(eaChain, x)
  /\ UNCHANGED <<eaEdited, eaHead, eaHeadDisk, eaLog, eaBreaks, eaHeadLost, eaCrashes>>

\* Somebody edits the source's file and computes its hashes anew.
SourceEdited ==
  /\ \E i \in 1 .. Len(eaChain), x \in Letters :
       x # eaChain[i] /\ eaChain' = [eaChain EXCEPT ![i] = x]
  /\ eaEdited' = TRUE
  /\ UNCHANGED <<eaHead, eaHeadDisk, eaLog, eaBreaks, eaHeadLost, eaCrashes>>

\* A record as it is sent: sound, or with a field that no longer fits its hash.
Record(n, sound) ==
  [seq |-> n, hash |-> SubSeq(eaChain, 1, n), previous |-> SubSeq(eaChain, 1, n - 1),
   sound |-> sound]

-----------------------------------------------------------------------------
(* The service.                                                            *)

Follows_AnyPrevious(r, last) == TRUE

\* The link to the head; nothing to compare with before the first record.
Follows(r, last) == last # << >> => r.previous = last

\* A different record under the number accepted last is a rewritten history.
SameNumber(r, last) ==
  IF r.seq = Len(last) /\ r.hash # last THEN "rewritten_history" ELSE "skip"

NextNumber_Skips(r, last) == r.seq = Len(last) + 2

NextNumber(r, last) == r.seq = Len(last) + 1

\* What the loop does with one record when last is the hash accepted last.
Judge(r, last) ==
  IF r.seq <= Len(last) THEN SameNumber(r, last)
  ELSE IF ~NextNumber(r, last) THEN "gap"
  ELSE IF ~Follows(r, last) THEN "previous_hash_mismatch"
  ELSE IF ~r.sound THEN "hash_mismatch"
  ELSE "accept"

\* The batch, up to the first record that is rejected.
Loop(batch) ==
  FoldLeft(LAMBDA acc, r :
             IF acc.rejected THEN acc
             ELSE CASE Judge(r, acc.last) = "accept" ->
                         [acc EXCEPT !.last = r.hash, !.taken = Append(@, r.hash)]
                    [] Judge(r, acc.last) = "skip" -> acc
                    [] OTHER -> [acc EXCEPT !.rejected = TRUE],
           [last |-> eaHead, taken |-> << >>, rejected |-> FALSE], batch)

\* A call of ha_soc.ingest_audit by the Supervisor with the source's secret; any
\* other call changes nothing but the audit log.  The head only advances.
Ingest(batch) ==
  /\ eaLog' = eaLog \o Loop(batch).taken
  /\ eaHead' = IF Len(Loop(batch).last) > Len(eaHead) THEN Loop(batch).last ELSE eaHead
  /\ eaBreaks' = (eaBreaks \/ Loop(batch).rejected)
  /\ UNCHANGED <<eaChain, eaEdited, eaHeadDisk, eaHeadLost, eaCrashes>>

\* Any batch of records of the chain: late, again, out of order or damaged.
SendAny ==
  \E n \in 1 .. Len(eaChain), sound \in BOOLEAN :
    \/ Ingest(<<Record(n, sound)>>)
    \/ \E k \in 1 .. Len(eaChain) : Ingest(<<Record(n, TRUE), Record(k, sound)>>)

\* The source follows the response: it goes on after last_seq.
SendNext ==
  /\ Len(eaChain) > Len(eaHead)
  /\ Ingest(<<Record(Len(eaHead) + 1, TRUE)>>)

HeadSaved ==
  /\ eaHeadDisk # eaHead
  /\ eaHeadDisk' = eaHead
  /\ UNCHANGED <<eaChain, eaEdited, eaHead, eaLog, eaBreaks, eaHeadLost, eaCrashes>>

EaCrash ==
  /\ eaCrashes < MaxCrashes
  /\ eaCrashes' = eaCrashes + 1
  /\ eaHead' = eaHeadDisk
  /\ eaHeadLost' = (eaHeadLost \/ eaHead # eaHeadDisk)
  /\ UNCHANGED <<eaChain, eaEdited, eaHeadDisk, eaLog, eaBreaks>>

EaNext == SourceAppends \/ SourceEdited \/ SendAny \/ SendNext \/ HeadSaved \/ EaCrash

EaSpec == EaInit /\ [][EaNext]_eaVars

-----------------------------------------------------------------------------
(* Properties.                                                             *)

\* The records accepted from a source are one history, each the continuation of
\* the one before, however the source's file was edited in between: two that
\* disagree can only follow a crash that took the head back.
OneHistory ==
  eaHeadLost \/ \A i \in DOMAIN eaLog : /\ Len(eaLog[i]) = i
                                        /\ \A j \in 1 .. i : IsPrefix(eaLog[j], eaLog[i])

\* A source that keeps its history gets all of it accepted.
HistoryArrives == <>[](eaEdited \/ eaHead = eaChain)
=============================================================================
