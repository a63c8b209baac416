----------------------------- MODULE ObservePush -----------------------------
(***************************************************************************)
(* The push to Observe of observe_push.py: one cycle at a time collects a  *)
(* snapshot, queues a metrics and a logs payload, keeps the queue within   *)
(* its bounds by merging metrics, and sends from the head.  A reload hands *)
(* the queue to the next pusher while a request of the old one may still   *)
(* be under way.                                                           *)
(*                                                                         *)
(* Metrics are one series: a point is the number of the cycle that took    *)
(* it.  Log records are their dedup keys.  Observe is external: it stores  *)
(* an Idempotency-Key once, and says of a logs payload only whether some   *)
(* of its records were refused.                                            *)
(***************************************************************************)
EXTENDS Naturals, Sequences, FiniteSets, SequencesExt

CONSTANTS
  LogKeys,      \* the log records there can be
  MaxCycles,    \* bound: cycles that find metrics
  MaxQueue,     \* MAX_QUEUE
  MaxSize,      \* MAX_QUEUE_BYTES, in points and records
  MaxPoints,    \* MAX_MERGED_POINTS
  Widths,       \* COMPACT_INTERVALS_SECONDS, in cycles
  Threshold,    \* REJECT_THRESHOLD
  MaxReloads,   \* bound: reloads
  MaxRefusals   \* bound: answers that refuse a payload

ASSUME ObserveAssumption ==
  /\ MaxCycles \in Nat /\ MaxQueue \in Nat \ {0} /\ MaxSize \in Nat \ {0}
  /\ MaxPoints \in Nat \ {0} /\ Threshold \in Nat \ {0}
  /\ MaxReloads \in Nat /\ MaxRefusals \in Nat
  /\ Widths \in Seq(Nat \ {0}) /\ Widths # << >>
  /\ \A i \in 1 .. Len(Widths) - 1 : Widths[i + 1] % Widths[i] = 0

VARIABLES
  obsActive,     \* the pusher has a configuration and its timer runs
  obsPc,         \* what the cycle under the lock is at
  obsCycle,      \* cycles that found metrics
  obsQueue,      \* ObservePusher._queue
  obsLevel,      \* merge intervals already used by this cycle
  obsSource,     \* log records the collector finds
  obsSent,       \* _sent_log_keys
  obsRetried,    \* _partial_retried
  obsWait,       \* _retry_at lies in the future
  obsAuth,       \* _auth_rejected
  obsStreak,     \* _reject_streak, up to Threshold
  obsKeyIssue,   \* the Repairs issue observe_key_rejected
  obsCarry,      \* what a stopped pusher left in hass.data, if anything
  obsOld,        \* request of a stopped pusher still under way
  obsLoss,       \* a payload was dropped (and counted) or discarded
  obsGivenUp,    \* log records reported as abandoned
  obsHeld,       \* log records Observe holds
  obsIds,        \* Idempotency-Keys Observe has seen on metrics
  obsStored,     \* points Observe holds
  obsTwice,      \* a point was stored under two keys
  obsReloads,    \* reloads so far
  obsRefusals    \* refusals so far

cycleVars == <<obsPc, obsCycle, obsQueue, obsLevel, obsSource>>
sendVars == <<obsSent, obsRetried, obsWait, obsAuth, obsStreak, obsKeyIssue>>
serverVars == <<obsHeld, obsIds, obsStored, obsTwice>>
ghostVars == <<obsLoss, obsGivenUp, obsReloads, obsRefusals>>
obsVars == <<obsActive, cycleVars, sendVars, obsCarry, obsOld, ghostVars, serverVars>>

Points == 1 .. MaxCycles

\* A _Payload; the id stands for its Idempotency-Key.
Payload(id, points, keys, merged) ==
  [id |-> id, points |-> points, keys |-> keys, merged |-> merged]

IsMetrics(p) == p.keys = {}

ObsTypeOK ==
  /\ obsActive \in BOOLEAN
  /\ obsPc \in {"idle", "collect", "bounds", "drain", "sending"}
  /\ obsCycle \in 0 .. MaxCycles
  /\ \A i \in DOMAIN obsQueue : /\ obsQueue[i].points \subseteq Points
                                /\ obsQueue[i].keys \subseteq LogKeys
  /\ obsPc \in {"drain", "sending"} => Len(obsQueue) <= MaxQueue
  /\ obsLevel \in 0 .. Len(Widths)
  /\ {obsSource, obsSent, obsRetried, obsGivenUp, obsHeld} \subseteq SUBSET LogKeys
  /\ {obsWait, obsAuth, obsKeyIssue, obsLoss, obsTwice} \subseteq BOOLEAN
  /\ obsStreak \in 0 .. Threshold
  /\ obsStored \subseteq Points
  /\ obsReloads \in 0 .. MaxReloads /\ obsRefusals \in 0 .. MaxRefusals

ObsInit ==
  /\ obsActive = TRUE
  /\ obsPc = "idle"
  /\ obsCycle = 0
  /\ obsQueue = << >>
  /\ obsLevel = 0
  /\ obsSource = {} /\ obsSent = {} /\ obsRetried = {}
  /\ obsWait = FALSE /\ obsAuth = FALSE /\ obsStreak = 0 /\ obsKeyIssue = FALSE
  /\ obsCarry = {} /\ obsOld = {}
  /\ obsLoss = FALSE /\ obsGivenUp = {}
  /\ obsHeld = {} /\ obsIds = {} /\ obsStored = {} /\ obsTwice = FALSE
  /\ obsReloads = 0 /\ obsRefusals = 0

-----------------------------------------------------------------------------
(* One cycle: collect, queue, keep the bounds.                             *)

\* A detection, a repair or a crash bundle appears in the data HA SOC holds;
\* only the collector looks at them.
RecordAppears(k) ==
  /\ obsPc = "collect"
  /\ k \notin obsSource
  /\ obsSource' = obsSource \cup {k}
  /\ UNCHANGED <<obsActive, obsPc, obsCycle, obsQueue, obsLevel, sendVars, obsCarry,
                 obsOld, ghostVars, serverVars>>

\* The timer fires; a tick during a cycle finds the lock taken and is skipped.
PushOnce ==
  /\ obsActive
  /\ obsPc = "idle"
  /\ obsPc' = "collect"
  /\ UNCHANGED <<obsActive, obsCycle, obsQueue, obsLevel, obsSource, sendVars, obsCarry,
                 obsOld, ghostVars, serverVars>>

\* The collector or the mapper raises: the cycle ends, the timer goes on.
CollectFails ==
  /\ obsPc = "collect"
  /\ obsPc' = "idle"
  /\ UNCHANGED <<obsActive, obsCycle, obsQueue, obsLevel, obsSource, sendVars, obsCarry,
                 obsOld, ghostVars, serverVars>>

QueuedLogKeys(queue) == UNION {queue[i].keys : i \in DOMAIN queue}

FreshKeys_UnsentOnly == obsSource \ obsSent

\* Keys Observe has accepted and keys that wait in the queue are left out.
FreshKeys == (obsSource \ obsSent) \ QueuedLogKeys(obsQueue)

CollectAndEnqueue ==
  /\ obsPc = "collect"
  /\ LET more == obsCycle < MaxCycles
         n == obsCycle + 1
         metrics == IF more THEN <<Payload(<<"metrics", n, 0>>, {n}, {}, FALSE)>> ELSE << >>
         logs == IF FreshKeys = {} THEN << >>
                 ELSE <<Payload(<<"logs", n, 0>>, {}, FreshKeys, FALSE)>>
     IN /\ obsQueue' = obsQueue \o metrics \o logs
        /\ obsCycle' = IF more THEN n ELSE obsCycle
  /\ obsPc' = "bounds"
  /\ obsLevel' = 0
  /\ UNCHANGED <<obsActive, obsSource, sendVars, obsCarry, obsOld, ghostVars, serverVars>>

Size(queue) == FoldLeft(LAMBDA n, p : n + Cardinality(p.points) + Cardinality(p.keys), 0, queue)

OverBound(queue) == Len(queue) > MaxQueue \/ Size(queue) > MaxSize

NewestPerInterval_Oldest(points, width) ==
  {t \in points : \A u \in points : u \div width = t \div width => u >= t}

\* The newest point of every interval.
NewestPerInterval(points, width) ==
  {t \in points : \A u \in points : u \div width = t \div width => u <= t}

\* Time-ordered requests of at most MaxPoints points each.
SplitToFit(points, level) ==
  LET count == (Cardinality(points) + MaxPoints - 1) \div MaxPoints
      Rank(t) == Cardinality({u \in points : u < t})
      Chunk(i) == {t \in points : Rank(t) \div MaxPoints = i - 1}
  IN [i \in 1 .. count |-> Payload(<<"merged", obsCycle, 10 * level + i>>, Chunk(i), {}, TRUE)]

Mergeable_Head(queue) == {i \in DOMAIN queue : IsMetrics(queue[i])}

\* The metrics payloads to merge: all but the head, which may have been sent.
Mergeable(queue) == {i \in DOMAIN queue : i > 1 /\ IsMetrics(queue[i])}

\* The merged payloads stand where the first of the merged ones stood.
Compact(queue, level) ==
  LET picked == Mergeable(queue)
      first == CHOOSE i \in picked : \A j \in picked : i <= j
      points == UNION {queue[i].points : i \in picked}
      merged == SplitToFit(NewestPerInterval(points, Widths[level]), level)
      Rest(i) == IF i \in picked THEN << >> ELSE <<queue[i]>>
  IN FlattenSeq([i \in DOMAIN queue |-> IF i = first THEN merged ELSE Rest(i)])

\* The merge runs in the executor, once per interval, until the size fits.
Merge ==
  /\ obsPc = "bounds"
  /\ OverBound(obsQueue)
  /\ obsLevel < Len(Widths)
  /\ Mergeable(obsQueue) # {}
  /\ obsLevel = 0 \/ Size(obsQueue) > MaxSize
  /\ obsLevel' = obsLevel + 1
  /\ obsQueue' = Compact(obsQueue, obsLevel + 1)
  /\ UNCHANGED <<obsActive, obsPc, obsCycle, obsSource, sendVars, obsCarry, obsOld,
                 ghostVars, serverVars>>

\* The oldest payload that is not a merged one, or the oldest.
DropOldest(queue) ==
  LET plain == {i \in DOMAIN queue : ~queue[i].merged}
      victim == IF plain = {} THEN 1 ELSE CHOOSE i \in plain : \A j \in plain : i <= j
  IN RemoveAt(queue, victim)

DropToFit(queue) ==
  FoldLeft(LAMBDA q, p : IF OverBound(q) /\ Len(q) > 1 THEN DropOldest(q) ELSE q, queue, queue)

\* Nothing is left to merge: what still does not fit is dropped and counted.
EnforceBounds ==
  /\ obsPc = "bounds"
  /\ \/ ~OverBound(obsQueue)
     \/ obsLevel = Len(Widths)
     \/ Mergeable(obsQueue) = {}
     \/ obsLevel > 0 /\ Size(obsQueue) <= MaxSize
  /\ obsQueue' = DropToFit(obsQueue)
  /\ obsLoss' = (obsLoss \/ Len(obsQueue') < Len(obsQueue))
  /\ obsPc' = "drain"
  /\ UNCHANGED <<obsActive, obsCycle, obsLevel, obsSource, sendVars, obsCarry, obsOld,
                 obsGivenUp, obsReloads,
                 obsRefusals, serverVars>>

-----------------------------------------------------------------------------
(* Sending.                                                                *)

\* Nothing to send, or not before _retry_at: the cycle is over.
DrainEnds ==
  /\ obsPc = "drain"
  /\ obsQueue = << >> \/ obsWait
  /\ obsPc' = "idle"
  /\ UNCHANGED <<obsActive, obsCycle, obsQueue, obsLevel, obsSource, sendVars, obsCarry,
                 obsOld, ghostVars, serverVars>>

Send ==
  /\ obsPc = "drain"
  /\ obsQueue # << >>
  /\ ~obsWait
  /\ obsPc' = "sending"
  /\ UNCHANGED <<obsActive, obsCycle, obsQueue, obsLevel, obsSource, sendVars, obsCarry,
                 obsOld, ghostVars, serverVars>>

\* Observe takes a request, all but the refused records; a key it has seen is
\* recognised and the points are not stored again.
ServerTakes(p, refused) ==
  /\ obsHeld' = obsHeld \cup (p.keys \ refused)
  /\ IF IsMetrics(p) /\ p.id \notin obsIds
     THEN /\ obsIds' = obsIds \cup {p.id}
          /\ obsStored' = obsStored \cup p.points
          /\ obsTwice' = (obsTwice \/ obsStored \cap p.points # {})
     ELSE UNCHANGED <<obsIds, obsStored, obsTwice>>

NoteLogKeys_Forever(keys, refused) ==
  IF refused = {}
  THEN obsRetried' = obsRetried \ keys /\ obsSent' = obsSent \cup keys /\ UNCHANGED obsGivenUp
  ELSE obsRetried' = obsRetried \cup keys /\ UNCHANGED <<obsSent, obsGivenUp>>

NoteLogKeys_AllSent(keys, refused) ==
  obsSent' = obsSent \cup keys /\ UNCHANGED <<obsRetried, obsGivenUp>>

\* The keys of an accepted payload are remembered.  After a partial refusal
\* they stay unsent for one more try; the second refusal gives up on them.
NoteLogKeys(keys, refused) ==
  LET again == keys \cap obsRetried
  IN IF refused = {}
     THEN /\ obsRetried' = obsRetried \ keys
          /\ obsSent' = obsSent \cup keys
          /\ UNCHANGED obsGivenUp
     ELSE IF again = {}
     THEN /\ obsRetried' = obsRetried \cup keys
          /\ UNCHANGED <<obsSent, obsGivenUp>>
     ELSE /\ obsRetried' = (obsRetried \ again) \cup (keys \ again)
          /\ obsSent' = obsSent \cup again
          /\ obsGivenUp' = obsGivenUp \cup again

\* 200, perhaps with a partialSuccess: the head goes and everything is clear.
Accepted(refused) ==
  /\ obsPc = "sending"
  /\ refused \subseteq Head(obsQueue).keys
  /\ ServerTakes(Head(obsQueue), refused)
  /\ NoteLogKeys(Head(obsQueue).keys, refused)
  /\ obsQueue' = Tail(obsQueue)
  /\ obsPc' = "drain"
  /\ obsWait' = FALSE
  /\ obsStreak' = 0
  /\ obsAuth' = FALSE
  /\ obsKeyIssue' = (obsKeyIssue /\ ~obsAuth)
  /\ UNCHANGED <<obsActive, obsCycle, obsLevel, obsSource, obsCarry, obsOld, obsLoss,
                 obsReloads, obsRefusals>>

\* Another 4xx answer: the payload goes; Threshold of them in a row back off.
Refused ==
  /\ obsPc = "sending"
  /\ obsRefusals < MaxRefusals
  /\ obsRefusals' = obsRefusals + 1
  /\ obsQueue' = Tail(obsQueue)
  /\ obsLoss' = TRUE
  /\ obsStreak' = IF obsStreak < Threshold THEN obsStreak + 1 ELSE obsStreak
  /\ obsWait' = (obsStreak' = Threshold)
  /\ obsPc' = IF obsStreak' = Threshold THEN "idle" ELSE "drain"
  /\ UNCHANGED <<obsActive, obsCycle, obsLevel, obsSource, obsSent, obsRetried, obsAuth,
                 obsKeyIssue, obsCarry, obsOld, obsGivenUp, obsReloads, serverVars>>

\* 401 or 403: the payload goes, a Repairs issue is raised.
Unauthorised ==
  /\ obsPc = "sending"
  /\ obsRefusals < MaxRefusals
  /\ obsRefusals' = obsRefusals + 1
  /\ obsQueue' = Tail(obsQueue)
  /\ obsLoss' = TRUE
  /\ obsAuth' = TRUE
  /\ obsKeyIssue' = TRUE
  /\ obsWait' = TRUE
  /\ obsPc' = "idle"
  /\ UNCHANGED <<obsActive, obsCycle, obsLevel, obsSource, obsSent, obsRetried, obsStreak,
                 obsCarry, obsOld, obsGivenUp, obsReloads, serverVars>>

\* No answer, 408, 429 or 5xx: the head stays for a later try.  Observe may
\* have taken a request whose answer was lost.
TryLater ==
  /\ obsPc = "sending"
  /\ ServerTakes(Head(obsQueue), {}) \/ UNCHANGED serverVars
  /\ obsWait' = TRUE
  /\ obsPc' = "idle"
  /\ UNCHANGED <<obsActive, obsCycle, obsQueue, obsLevel, obsSource, obsSent, obsRetried,
                 obsAuth, obsStreak, obsKeyIssue, obsCarry, obsOld, ghostVars>>

\* The clock reaches _retry_at.
WaitOver ==
  /\ obsWait
  /\ obsWait' = FALSE
  /\ UNCHANGED <<obsActive, cycleVars, obsSent, obsRetried, obsAuth, obsStreak,
                 obsKeyIssue, obsCarry, obsOld, ghostVars, serverVars>>

-----------------------------------------------------------------------------
(* Reload.                                                                 *)

\* async_stop leaves queue and memory behind.  A cycle under way ends without
\* effect, except that a request already sent may still arrive.
StopPusher ==
  /\ obsActive
  /\ obsReloads < MaxReloads
  /\ obsReloads' = obsReloads + 1
  /\ obsActive' = FALSE
  /\ obsCarry' = {[queue |-> obsQueue, sent |-> obsSent, retried |-> obsRetried,
                   wait |-> obsWait /\ ~obsAuth]}
  /\ obsOld' = IF obsPc = "sending" THEN {Head(obsQueue)} ELSE {}
  /\ obsPc' = "idle"
  /\ obsQueue' = << >>
  /\ obsLevel' = 0
  /\ obsSent' = {} /\ obsRetried' = {} /\ obsWait' = FALSE /\ obsAuth' = FALSE /\ obsStreak' = 0
  /\ UNCHANGED <<obsCycle, obsSource, obsKeyIssue, obsLoss, obsGivenUp, obsRefusals, serverVars>>

\* The same destination: the new pusher takes over what the old one left.
StartSame ==
  /\ ~obsActive
  /\ obsActive' = TRUE
  /\ obsCarry' = {}
  /\ \E c \in obsCarry : /\ obsQueue' = c.queue
                         /\ obsSent' = c.sent
                         /\ obsRetried' = c.retried
                         /\ obsWait' = c.wait
  /\ UNCHANGED <<obsPc, obsCycle, obsLevel, obsSource, obsAuth, obsStreak, obsKeyIssue,
                 obsOld, ghostVars, serverVars>>

\* Another URL or host name: what was queued for the old one is discarded.
StartMoved ==
  /\ ~obsActive
  /\ obsCarry # {}
  /\ obsActive' = TRUE
  /\ obsCarry' = {}
  /\ obsLoss' = TRUE
  /\ obsGivenUp' = {} /\ obsHeld' = {} /\ obsIds' = {} /\ obsStored' = {}
  /\ obsOld' = {}
  /\ UNCHANGED <<cycleVars, sendVars, obsTwice, obsReloads, obsRefusals>>

\* The push is turned off: queue and issue go.
StartOff ==
  /\ ~obsActive
  /\ obsCarry # {}
  /\ obsCarry' = {}
  /\ obsLoss' = TRUE
  /\ obsKeyIssue' = FALSE
  /\ UNCHANGED <<obsActive, cycleVars, obsSent, obsRetried, obsWait, obsAuth, obsStreak,
                 obsOld, obsGivenUp, obsReloads, obsRefusals, serverVars>>

\* It is turned on again.
StartFresh ==
  /\ ~obsActive
  /\ obsCarry = {}
  /\ obsActive' = TRUE
  /\ UNCHANGED <<cycleVars, sendVars, obsCarry, obsOld, ghostVars, serverVars>>

\* The request of the stopped pusher arrives, or is lost.
OldArrives ==
  /\ \E p \in obsOld : ServerTakes(p, {}) \/ UNCHANGED serverVars
  /\ obsOld' = {}
  /\ UNCHANGED <<obsActive, cycleVars, sendVars, obsCarry, ghostVars>>

-----------------------------------------------------------------------------
ObsNext ==
  \/ \E k \in LogKeys : RecordAppears(k)
  \/ PushOnce
  \/ CollectFails
  \/ CollectAndEnqueue
  \/ Merge
  \/ EnforceBounds
  \/ DrainEnds
  \/ Send
  \/ \E refused \in SUBSET LogKeys : Accepted(refused)
  \/ Refused
  \/ Unauthorised
  \/ TryLater
  \/ WaitOver
  \/ StopPusher
  \/ StartSame
  \/ StartMoved
  \/ StartOff
  \/ StartFresh
  \/ OldArrives

ObsSpec == ObsInit /\ [][ObsNext]_obsVars

\* A log record the pusher remembers as sent is held by Observe or was
\* reported as given up, whatever was refused, retried, merged or reloaded.
SentIsTaken == obsSent \subseteq obsHeld \cup obsGivenUp

\* No log record waits in two queued payloads.
QueuedOnce ==
  \A i, j \in DOMAIN obsQueue : i # j => obsQueue[i].keys \cap obsQueue[j].keys = {}

\* No point is stored under two Idempotency-Keys: a payload that may have been
\* taken is never merged into another, also across a reload.
StoredOnce == ~obsTwice

\* Unless a payload was dropped and counted, an outage costs resolution only:
\* in the widest interval of every point taken, a point at least as new is
\* stored or waits.
ResolutionOnly ==
  LET waiting(queue) == UNION {queue[i].points : i \in DOMAIN queue}
      kept == obsStored \cup waiting(obsQueue) \cup UNION {waiting(c.queue) : c \in obsCarry}
      widest == Widths[Len(Widths)]
  IN ~obsLoss => \A n \in 1 .. obsCycle :
                   \E t \in kept : t >= n /\ t \div widest = n \div widest

\* No log record is offered for ever: Observe holds it in the end, or it is
\* reported as given up, or the pusher is stopped.
RecordsSettle ==
  \A k \in LogKeys : k \in obsSource ~> (k \in obsHeld \cup obsGivenUp \/ ~obsActive)

\* What the push promises: records are remembered as sent only if they are,
\* wait once, and neither a merge nor a reload stores a point twice or loses
\* more than resolution.
PushExact == ObsTypeOK /\ SentIsTaken /\ QueuedOnce /\ StoredOnce /\ ResolutionOnly
=============================================================================
