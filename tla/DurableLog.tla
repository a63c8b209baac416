----------------------------- MODULE DurableLog -----------------------------
(***************************************************************************)
(* What the audit log promises, without numbers, hashes, files and flushes.*)
(* Records are accepted into a queue and move from its front to the end of *)
(* a log that changes in no other way than at its ends: retention takes    *)
(* records from the front.  Only the end of the process costs records that *)
(* wait, but for a leading part of them that was already durable.          *)
(***************************************************************************)
EXTENDS Naturals, Sequences

VARIABLES log, waiting, running

logVars == <<log, waiting, running>>

Start == log \in Seq(Nat) /\ waiting = <<>> /\ running = FALSE

Restart == running' = TRUE /\ UNCHANGED <<log, waiting>>

\* async_log, also of what the log reports about itself.
Accept ==
  /\ running
  /\ UNCHANGED <<log, running>>
  /\ Len(waiting') > Len(waiting)
  /\ SubSeq(waiting', 1, Len(waiting)) = waiting

\* The leading n of the waiting records become durable.
Durable(n) == log' = log \o SubSeq(waiting, 1, n)

Write ==
  /\ running /\ UNCHANGED running
  /\ \E n \in 1 .. Len(waiting) : Durable(n) /\ waiting' = SubSeq(waiting, n + 1, Len(waiting))

Expire ==
  /\ running /\ UNCHANGED <<waiting, running>>
  /\ \E n \in 1 .. Len(log) : log' = SubSeq(log, n + 1, Len(log))

Fail ==
  /\ running' = FALSE
  /\ waiting' = <<>>
  /\ \E n \in 0 .. Len(waiting) : Durable(n)

Step == Restart \/ Accept \/ Write \/ Expire \/ Fail

LogSpec == Start /\ [][Step]_logVars
=============================================================================
