--------------------------- MODULE ResourceWatchdog ---------------------------
(***************************************************************************)
(* The resource watchdog of resource_watchdog.py.  Timer ticks share one   *)
(* sample of the containers under a lock, and each evaluates a sample at   *)
(* most once.  An evaluation suspends only while the Supervisor carries    *)
(* out a restart or a stop, and then another tick may evaluate a newer     *)
(* sample.  Breach counters and episodes are in memory, detections in the  *)
(* store.                                                                  *)
(*                                                                         *)
(* Containers are independent of one another, so a stretch of the loop     *)
(* between two suspensions is one simultaneous update of those it covers.  *)
(* The hour of the action budget is one window; episode starts are told    *)
(* apart by a stamp of two values.                                         *)
(***************************************************************************)
EXTENDS Naturals, FiniteSets

CONSTANTS
  Containers,    \* slugs
  Enforced,      \* add-ons whose configured action is restart or stop
  Ticks,         \* timer ticks that may overlap
  Sustained,     \* sustained_samples
  MaxActions,    \* WATCHDOG_MAX_ACTIONS_PER_HOUR
  MaxRestarts    \* bound: restarts of Home Assistant

ASSUME WatchdogAssumption ==
  /\ Enforced \subseteq Containers
  /\ Ticks # {} /\ IsFiniteSet(Ticks)
  /\ Sustained \in Nat \ {0} /\ MaxActions \in Nat \ {0} /\ MaxRestarts \in Nat

VARIABLES
  wdWorld,       \* what a sample would show of each container
  wdSample,      \* last_overview
  wdTaken,       \* a sample has been taken since the start
  wdNew,         \* last_overview_at differs from _evaluated_at
  wdLock,        \* the tick that holds _sample_lock, as a set
  wdTick,        \* what each tick is at
  wdCount,       \* _breach_counts
  wdEpisode,     \* _episodes
  wdDet,         \* the stored detection watchdog_<slug>
  wdActs,        \* _action_times within the hour
  wdIssued,      \* calls to the Supervisor within the hour
  wdDirty,       \* _history_dirty
  wdUnsaved,     \* the ring holds a sample the file does not
  wdSave,        \* the executor job that writes the ring
  wdSaveFailed,  \* a write of the ring failed
  wdRestarts     \* restarts so far

wdMemory == <<wdCount, wdEpisode, wdDet>>
wdRing == <<wdDirty, wdUnsaved, wdSave, wdSaveFailed>>
wdVars == <<wdWorld, wdSample, wdTaken, wdNew, wdLock, wdTick, wdMemory, wdActs, wdIssued,
            wdRing, wdRestarts>>

Seen == {"ok", "over", "stopped", "absent"}
Stamps == {"t1", "t2"}
NoEpisode == "none"
OpenStates == {"open", "ack"}

IdleTick == [pc |-> "idle", sample |-> [c \in Containers |-> "absent"], todo |-> {}, slug |-> {}]

WdTypeOK ==
  /\ wdWorld \in [Containers -> Seen] /\ wdSample \in [Containers -> Seen]
  /\ {wdTaken, wdNew, wdDirty, wdUnsaved, wdSaveFailed} \subseteq BOOLEAN
  /\ wdLock \subseteq Ticks /\ Cardinality(wdLock) <= 1
  /\ \A e \in Ticks : /\ wdTick[e].pc \in {"idle", "fetch", "enforce"}
                      /\ Cardinality(wdTick[e].slug) <= 1
                      /\ wdTick[e].slug \cup wdTick[e].todo \subseteq Containers
  /\ wdCount \in [Containers -> 0 .. Sustained - 1]
  /\ wdEpisode \in [Containers -> Stamps \cup {NoEpisode}]
  /\ wdDet \in [Containers -> [status : OpenStates \cup {"none", "resolved"}, start : Stamps]]
  /\ wdSave \in {"none", "begun", "read", "stale"}
  /\ wdRestarts \in 0 .. MaxRestarts

WdInit ==
  /\ wdWorld = [c \in Containers |-> "ok"]
  /\ wdSample = [c \in Containers |-> "absent"]
  /\ wdTaken = FALSE /\ wdNew = FALSE
  /\ wdLock = {}
  /\ wdTick = [e \in Ticks |-> IdleTick]
  /\ wdCount = [c \in Containers |-> 0]
  /\ wdEpisode = [c \in Containers |-> NoEpisode]
  /\ wdDet = [c \in Containers |-> [status |-> "none", start |-> "t1"]]
  /\ wdActs = [c \in Containers |-> 0] /\ wdIssued = [c \in Containers |-> 0]
  /\ wdDirty = FALSE /\ wdUnsaved = FALSE /\ wdSave = "none" /\ wdSaveFailed = FALSE
  /\ wdRestarts = 0

-----------------------------------------------------------------------------
(* One container in one sample.                                            *)

Trips_Late(c, seen) == seen = "over" /\ wdCount[c] + 1 > Sustained

\* The sample completes a sustained breach.
Trips(c, seen) == seen = "over" /\ wdCount[c] + 1 >= Sustained

ActionBudgetLeft(c) == wdActs[c] < MaxActions

\* The trip calls the Supervisor: the action is not alert and the budget is
\* not used up.
Enforces(c, seen) == Trips(c, seen) /\ c \in Enforced /\ ActionBudgetLeft(c)

CountAfter(c, seen) ==
  IF seen = "over" /\ ~Trips(c, seen) THEN wdCount[c] + 1 ELSE 0

EndEpisode_ByTable(c) ==
  IF wdEpisode[c] # NoEpisode /\ wdDet[c].status \in OpenStates
  THEN [wdDet[c] EXCEPT !.status = "resolved"] ELSE wdDet[c]

\* Decided by the stored detection: the episode table is empty after a restart.
EndEpisode(c) ==
  IF wdDet[c].status \in OpenStates THEN [wdDet[c] EXCEPT !.status = "resolved"] ELSE wdDet[c]

OpenEpisode_TableOnly(c) == wdEpisode[c]

\* The episode a trip belongs to: a breach that was open when this boot began
\* is the same episode.
OpenEpisode(c) ==
  IF wdEpisode[c] = NoEpisode /\ wdDet[c].status \in OpenStates
  THEN wdDet[c].start ELSE wdEpisode[c]

EpisodeAfterTrip(c) ==
  IF OpenEpisode(c) # NoEpisode THEN OpenEpisode(c)
  ELSE CHOOSE t \in Stamps : t # wdDet[c].start

\* The upsert keeps the analyst's state; a new episode opens the row again.
DetAfterTrip(c) ==
  [status |-> IF OpenEpisode(c) = NoEpisode \/ wdDet[c].status = "none" THEN "open"
              ELSE wdDet[c].status,
   start  |-> EpisodeAfterTrip(c)]

\* A stretch of the loop covers the containers of done: an alert trip, another
\* sample over the limit, or a sample that ends the episode.  It may resume
\* with a container whose action was just carried out (tripped), stop at one
\* whose action it calls for (calling), or end, and then the containers of gone
\* are open and not in the overview and those of pruned are not in it either.
Covers(done, sample, tripped, calling, gone, pruned) ==
  LET trip == {c \in done : Trips(c, sample[c])} \cup tripped
      ended == {c \in done : sample[c] # "over"} \cup gone
  IN /\ wdCount' = [c \in Containers |->
           IF c \in done THEN CountAfter(c, sample[c])
           ELSE IF c \in calling \cup gone \cup pruned THEN 0 ELSE wdCount[c]]
     /\ wdEpisode' = [c \in Containers |->
           IF c \in trip THEN EpisodeAfterTrip(c)
           ELSE IF c \in ended THEN NoEpisode ELSE wdEpisode[c]]
     /\ wdDet' = [c \in Containers |->
           IF c \in trip THEN DetAfterTrip(c)
           ELSE IF c \in ended THEN EndEpisode(c) ELSE wdDet[c]]

OpenBreachSlugs == {c \in Containers : wdEpisode[c] # NoEpisode \/ wdDet[c].status \in OpenStates}

-----------------------------------------------------------------------------
(* The ring of samples.                                                    *)

MarkUnsaved == wdUnsaved' = TRUE /\ wdSave' = IF wdSave = "read" THEN "stale" ELSE wdSave

\* The end of an evaluation: every sample dirties the ring, and the interval
\* decides whether this one also starts a write, which clears the flag first.
BeginSave ==
  \/ MarkUnsaved /\ wdDirty' = TRUE /\ UNCHANGED wdSaveFailed
  \/ /\ wdSave = "none"
     /\ wdUnsaved' = TRUE /\ wdSave' = "begun"
     /\ wdDirty' = FALSE
     /\ UNCHANGED wdSaveFailed

DirtyAfterWrite_Cleared == FALSE

\* The write leaves the flag alone: what came in meanwhile set it again.
DirtyAfterWrite == wdDirty

SaveReads ==
  /\ wdSave = "begun"
  /\ wdSave' = "read"
  /\ UNCHANGED <<wdWorld, wdSample, wdTaken, wdNew, wdLock, wdTick, wdMemory, wdActs, wdIssued,
                 wdDirty, wdUnsaved, wdSaveFailed, wdRestarts>>

SaveDone ==
  /\ wdSave \in {"read", "stale"}
  /\ wdUnsaved' = (wdSave = "stale")
  /\ wdDirty' = DirtyAfterWrite
  /\ wdSave' = "none"
  /\ UNCHANGED <<wdWorld, wdSample, wdTaken, wdNew, wdLock, wdTick, wdMemory, wdActs, wdIssued,
                 wdSaveFailed, wdRestarts>>

\* The write raises, or the ring changes size under the executor's iteration.
\* The flag stays cleared until the next sample.
SaveFails ==
  /\ wdSave # "none"
  /\ wdSave' = "none"
  /\ wdSaveFailed' = TRUE
  /\ UNCHANGED <<wdWorld, wdSample, wdTaken, wdNew, wdLock, wdTick, wdMemory, wdActs, wdIssued,
                 wdDirty, wdUnsaved, wdRestarts>>

\* async_flush_history when the entry stops.
FlushHistory ==
  /\ wdDirty /\ wdSave = "none"
  /\ wdDirty' = FALSE /\ wdSave' = "begun"
  /\ UNCHANGED <<wdWorld, wdSample, wdTaken, wdNew, wdLock, wdTick, wdMemory, wdActs, wdIssued,
                 wdUnsaved, wdSaveFailed, wdRestarts>>

-----------------------------------------------------------------------------
(* Ticks.                                                                  *)

\* The loop of tick e runs on until it must call the Supervisor for one of the
\* containers left, or to its end.  A truncated overview cannot say which
\* add-ons are gone and prunes nothing.
RunLoop(e, sample, todo, tripped) ==
  \/ \E c \in todo : \E done \in SUBSET (todo \ {c}) :
       /\ Enforces(c, sample[c])
       /\ \A d \in done : ~Enforces(d, sample[d])
       /\ Covers(done, sample, tripped, {c}, {}, {})
       /\ wdTick' = [wdTick EXCEPT ![e] =
            [pc |-> "enforce", sample |-> sample, todo |-> todo \ (done \cup {c}), slug |-> {c}]]
       /\ MarkUnsaved /\ wdDirty' = TRUE /\ UNCHANGED wdSaveFailed
       /\ wdIssued' = [wdIssued EXCEPT ![c] = @ + 1]
  \/ LET absent == {c \in Containers : sample[c] = "absent"} IN
     \E pruned \in {{}, absent} :
       /\ \A d \in todo : ~Enforces(d, sample[d])
       /\ Covers(todo, sample, tripped, {}, OpenBreachSlugs \cap absent, pruned)
       /\ wdTick' = [wdTick EXCEPT ![e] = IdleTick]
       /\ BeginSave
       /\ UNCHANGED wdIssued

Present(sample) == {c \in Containers : sample[c] # "absent"}

\* A tick finds a sample young enough; one already evaluated is left alone.
ReuseSample(e) ==
  /\ wdTick[e].pc = "idle" /\ wdLock = {}
  /\ wdTaken /\ wdNew
  /\ wdNew' = FALSE
  /\ RunLoop(e, wdSample, Present(wdSample), {})
  /\ UNCHANGED <<wdWorld, wdSample, wdTaken, wdLock, wdActs, wdRestarts>>

BeginFetch(e) ==
  /\ wdTick[e].pc = "idle" /\ wdLock = {}
  /\ wdLock' = {e}
  /\ wdTick' = [wdTick EXCEPT ![e].pc = "fetch"]
  /\ UNCHANGED <<wdWorld, wdSample, wdTaken, wdNew, wdMemory, wdActs, wdIssued, wdRing,
                 wdRestarts>>

\* The sample is remembered and its evaluation begins in the same stretch.
FetchDone(e) ==
  /\ wdTick[e].pc = "fetch"
  /\ wdLock' = {}
  /\ wdSample' = wdWorld /\ wdTaken' = TRUE /\ wdNew' = FALSE
  /\ RunLoop(e, wdWorld, Present(wdWorld), {})
  /\ UNCHANGED <<wdWorld, wdActs, wdRestarts>>

\* The Supervisor is unavailable.
FetchFails(e) ==
  /\ wdTick[e].pc = "fetch"
  /\ wdLock' = {}
  /\ wdTick' = [wdTick EXCEPT ![e] = IdleTick]
  /\ UNCHANGED <<wdWorld, wdSample, wdTaken, wdNew, wdMemory, wdActs, wdIssued, wdRing,
                 wdRestarts>>

\* The Observe push asks for the shared overview and takes a new one.
PushSamples ==
  /\ wdLock = {}
  /\ wdSample' = wdWorld /\ wdTaken' = TRUE /\ wdNew' = TRUE
  /\ UNCHANGED <<wdWorld, wdLock, wdTick, wdMemory, wdActs, wdIssued, wdRing, wdRestarts>>

RecordAction_SuccessOnly(c) == \/ wdActs' = [wdActs EXCEPT ![c] = @ + 1]
                               \/ UNCHANGED wdActs

\* A failed call is an outcome too, and counts.
RecordAction(c) == wdActs' = [wdActs EXCEPT ![c] = @ + 1]

\* The Supervisor answered or failed: the rest of _async_trip, then the loop.
ActionAnswered(e) ==
  /\ wdTick[e].pc = "enforce"
  /\ \A c \in wdTick[e].slug : RecordAction(c)
  /\ RunLoop(e, wdTick[e].sample, wdTick[e].todo, wdTick[e].slug)
  /\ UNCHANGED <<wdWorld, wdSample, wdTaken, wdNew, wdLock, wdRestarts>>

-----------------------------------------------------------------------------
(* The environment.                                                        *)

WorldChanges(c) ==
  /\ \E s \in Seen : s # wdWorld[c] /\ wdWorld' = [wdWorld EXCEPT ![c] = s]
  /\ UNCHANGED <<wdSample, wdTaken, wdNew, wdLock, wdTick, wdMemory, wdActs, wdIssued, wdRing,
                 wdRestarts>>

\* An analyst sets the status of the detection.
AnalystSets(c) ==
  /\ wdDet[c].status # "none"
  /\ \E s \in OpenStates \cup {"resolved"} :
       s # wdDet[c].status /\ wdDet' = [wdDet EXCEPT ![c].status = s]
  /\ UNCHANGED <<wdWorld, wdSample, wdTaken, wdNew, wdLock, wdTick, wdCount, wdEpisode, wdActs,
                 wdIssued, wdRing, wdRestarts>>

\* An hour passes with no action under way: the window starts afresh.
WindowPasses ==
  /\ \A e \in Ticks : wdTick[e].pc # "enforce"
  /\ \E c \in Containers : wdActs[c] > 0
  /\ wdActs' = [c \in Containers |-> 0] /\ wdIssued' = [c \in Containers |-> 0]
  /\ UNCHANGED <<wdWorld, wdSample, wdTaken, wdNew, wdLock, wdTick, wdMemory, wdRing, wdRestarts>>

\* Home Assistant restarts: the ticks and the memory are gone, the detections
\* and the ring's file stay, and the ring is loaded from its file.
WdRestart ==
  /\ wdRestarts < MaxRestarts
  /\ wdRestarts' = wdRestarts + 1
  /\ wdTaken' = FALSE /\ wdNew' = FALSE /\ wdLock' = {}
  /\ wdSample' = [c \in Containers |-> "absent"]
  /\ wdTick' = [e \in Ticks |-> IdleTick]
  /\ wdCount' = [c \in Containers |-> 0]
  /\ wdEpisode' = [c \in Containers |-> NoEpisode]
  /\ wdActs' = [c \in Containers |-> 0] /\ wdIssued' = [c \in Containers |-> 0]
  /\ wdDirty' = FALSE /\ wdUnsaved' = FALSE /\ wdSave' = "none" /\ wdSaveFailed' = FALSE
  /\ UNCHANGED <<wdWorld, wdDet>>

WdNext ==
  \/ \E e \in Ticks : \/ ReuseSample(e) \/ BeginFetch(e) \/ FetchDone(e) \/ FetchFails(e)
                      \/ ActionAnswered(e)
  \/ PushSamples \/ WindowPasses \/ WdRestart
  \/ SaveReads \/ SaveDone \/ SaveFails \/ FlushHistory
  \/ \E c \in Containers : WorldChanges(c) \/ AnalystSets(c)

WdSpec == WdInit /\ [][WdNext]_wdVars

-----------------------------------------------------------------------------
(* Properties.                                                             *)

\* The number of actions on one container within the hour is bounded whatever
\* the ticks do: the budget is read before the Supervisor is called and
\* written after it answers, so ticks that overlap may add one each.
ActionBudget ==
  \A c \in Containers : wdIssued[c] <= MaxActions + Cardinality(Ticks) - 1

\* While a detection stays open its episode start stays the same, over a
\* restart too: Observe sees one log record for one continuous breach.
OneStartPerEpisode ==
  [][\A c \in Containers :
       wdDet[c].status \in OpenStates /\ wdDet'[c].status \in OpenStates
         => wdDet'[c].start = wdDet[c].start]_wdVars

\* A sample that is not in the file is marked for the next write or is being
\* written, unless a write failed: the stop flush does not skip it.
RingReachesFile == wdUnsaved => wdDirty \/ wdSave # "none" \/ wdSaveFailed

\* A container that stays below its limits, stopped or away is not left with an
\* open detection, whichever boot opened it.
BreachEnds ==
  \A c \in Containers :
    <>[](wdWorld[c] # "over") => []<>(wdDet[c].status \notin OpenStates)

\* What the watchdog promises while ticks overlap: bounded actions, one start
\* for one breach, and a history that reaches its file.
EpisodesBounded == [](WdTypeOK /\ ActionBudget /\ RingReachesFile) /\ OneStartPerEpisode
=============================================================================
