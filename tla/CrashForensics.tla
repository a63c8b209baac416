---------------------------- MODULE CrashForensics ----------------------------
(***************************************************************************)
(* Crash forensics (crash_forensics.py): a heartbeat file while Home       *)
(* Assistant runs, a clean-stop marker when it announces its stop, and a   *)
(* check after the start that compares the two as the previous run left    *)
(* them and collects a bundle when the stop was unclean.                   *)
(*                                                                         *)
(* Time stamps are only compared, so the files are the run that wrote the  *)
(* heartbeat, whether a marker exists and which of the two is the newer.   *)
(* What a bundle holds is left out; bundles are named by a time stamp and  *)
(* are numbers in that order.                                              *)
(***************************************************************************)
EXTENDS Naturals, FiniteSets, FiniteSetsExt

CONSTANTS
  MaxRuns,      \* bound: runs of Home Assistant
  MaxBundles    \* MAX_BUNDLES

ASSUME ForensicsAssumption == MaxRuns \in Nat \ {0} /\ MaxBundles \in Nat \ {0}

VARIABLES
  cfRun,        \* number of the run, the _boot_id
  cfInitial,    \* what _async_initial_heartbeat is at
  cfLock,       \* what holds _write_lock
  cfStopping,   \* _stopping
  cfHeart,      \* run of the heartbeat file, 0 without one
  cfMarker,     \* the clean-stop marker exists
  cfNewer,      \* the heartbeat is newer than the marker
  cfPrior,      \* _prior_state, as a set of at most one
  cfCheck,      \* what the check after the start is at
  cfSubject,    \* the run the check is about, 0 for none
  cfDry,        \* an owner's collection of the current boot is under way
  cfBundles,    \* bundle directories
  cfWritten,    \* bundles ever written
  cfRepairs,    \* Repairs issues, by their bundle
  cfClean,      \* runs that wrote their marker at their stop
  cfBeaten,     \* runs that wrote a heartbeat
  cfOvertaken   \* this run wrote before it had read, or could not read

cfFiles == <<cfHeart, cfMarker, cfNewer>>
cfRunState == <<cfRun, cfInitial, cfLock, cfStopping, cfPrior>>
cfCollector == <<cfCheck, cfSubject, cfDry, cfBundles, cfWritten, cfRepairs>>
cfGhosts == <<cfClean, cfBeaten, cfOvertaken>>
cfVars == <<cfRunState, cfFiles, cfCollector, cfGhosts>>

Runs == 1 .. MaxRuns
\* A bundle is named after the last heartbeat of a run, or after a moment of the
\* run before or after that heartbeat.
CrashBundle(run) == 4 * run
DryBundles(run) == {4 * run - 1, 4 * run + 1}

CfTypeOK ==
  /\ cfRun \in Runs /\ cfOvertaken \in BOOLEAN /\ cfStopping \in BOOLEAN
  /\ cfDry \in {"no", "collect", "retain"}
  /\ cfInitial \in {"reading", "read", "done"}
  /\ cfLock \in {"free", "beat", "first", "marker"}
  /\ cfHeart \in 0 .. MaxRuns /\ cfMarker \in BOOLEAN /\ cfNewer \in BOOLEAN
  /\ Cardinality(cfPrior) <= 1
  /\ cfCheck \in {"waiting", "reading", "collect", "retain", "done"}
  /\ cfSubject \in 0 .. MaxRuns
  /\ {cfClean, cfBeaten} \subseteq SUBSET (0 .. MaxRuns)
  /\ {cfBundles, cfWritten, cfRepairs} \subseteq SUBSET (1 .. 4 * MaxRuns + 1)
  /\ cfRun = 1 /\ cfCheck # "retain" /\ cfDry # "retain" => Cardinality(cfBundles) <= MaxBundles

CfInit ==
  /\ cfRun = 1 /\ cfInitial = "reading" /\ cfLock = "free"
  /\ cfStopping = FALSE /\ cfPrior = {}
  /\ cfHeart = 0 /\ cfMarker = FALSE /\ cfNewer = FALSE
  /\ cfCheck = "waiting" /\ cfSubject = 0 /\ cfDry = "no"
  /\ cfBundles = {} /\ cfWritten = {} /\ cfRepairs = {}
  /\ cfClean = {} /\ cfBeaten = {} /\ cfOvertaken = FALSE

-----------------------------------------------------------------------------
(* Heartbeat and marker.                                                   *)

PriorState == [heart |-> cfHeart, marker |-> cfMarker, newer |-> cfNewer]

SnapshotPrior_None == UNCHANGED cfPrior

SnapshotPrior == cfPrior' = {PriorState}

\* The files are read before this run's first heartbeat, which follows.
ReadPriorState ==
  /\ cfInitial = "reading"
  /\ cfInitial' = "read"
  /\ SnapshotPrior
  /\ UNCHANGED <<cfRun, cfLock, cfStopping, cfFiles, cfCollector, cfGhosts>>

ReadPriorFails ==
  /\ cfInitial = "reading"
  /\ cfInitial' = "read"
  /\ cfPrior' = {[heart |-> 0, marker |-> FALSE, newer |-> FALSE]}
  /\ cfOvertaken' = TRUE
  /\ UNCHANGED <<cfRun, cfLock, cfStopping, cfFiles, cfCollector, cfClean, cfBeaten>>

MayBeat_AlsoStopping == cfLock = "free"

\* The lock is free and no stop was announced.
MayBeat == cfLock = "free" /\ ~cfStopping

\* The timer's heartbeat, or the one that follows the snapshot.
BeginHeartbeat(who) ==
  /\ MayBeat
  /\ who = "first" => cfInitial = "read"
  /\ cfLock' = who
  /\ UNCHANGED <<cfRun, cfInitial, cfStopping, cfPrior, cfFiles, cfCollector, cfGhosts>>

InitialAfterBeat == IF cfLock = "first" THEN "done" ELSE cfInitial

\* This run writes while the previous run's files are still to be read.
NoteOvertaken ==
  cfOvertaken' = (cfOvertaken \/ cfInitial = "reading" \/ cfCheck = "reading")

HeartbeatWritten ==
  /\ cfLock \in {"beat", "first"}
  /\ cfHeart' = cfRun /\ cfNewer' = TRUE
  /\ cfLock' = "free" /\ cfInitial' = InitialAfterBeat
  /\ cfBeaten' = cfBeaten \cup {cfRun}
  /\ NoteOvertaken
  /\ UNCHANGED <<cfRun, cfStopping, cfPrior, cfMarker, cfCollector, cfClean>>

HeartbeatFails ==
  /\ cfLock \in {"beat", "first"}
  /\ cfLock' = "free" /\ cfInitial' = InitialAfterBeat
  /\ UNCHANGED <<cfRun, cfStopping, cfPrior, cfFiles, cfCollector, cfGhosts>>

\* The stop event; its handler goes on to wait for the lock.
OnStop ==
  /\ ~cfStopping
  /\ cfStopping' = TRUE
  /\ UNCHANGED <<cfRun, cfInitial, cfLock, cfPrior, cfFiles, cfCollector, cfGhosts>>

\* The marker waits for a heartbeat write already in flight.
BeginMarker ==
  /\ cfStopping /\ cfRun \notin cfClean
  /\ cfLock = "free"
  /\ cfLock' = "marker"
  /\ UNCHANGED <<cfRun, cfInitial, cfStopping, cfPrior, cfFiles, cfCollector, cfGhosts>>

MarkerWritten ==
  /\ cfLock = "marker"
  /\ cfMarker' = TRUE /\ cfNewer' = FALSE
  /\ cfClean' = cfClean \cup {cfRun}
  /\ cfLock' = "free"
  /\ NoteOvertaken
  /\ UNCHANGED <<cfRun, cfInitial, cfStopping, cfPrior, cfHeart, cfCollector, cfBeaten>>

-----------------------------------------------------------------------------
(* The check after the start, and the bundle.                              *)

\* A heartbeat of this very run says nothing about the previous one.
Unclean(prior) ==
  prior.heart \notin {0, cfRun} /\ (~prior.marker \/ prior.newer)

Verdict(prior) ==
  /\ cfSubject' = IF Unclean(prior) THEN prior.heart ELSE 0
  /\ cfCheck' = IF Unclean(prior) THEN "collect" ELSE "done"

\* EVENT_HOMEASSISTANT_STARTED, never after a stop was announced: the snapshot if
\* it was taken, else the files.
OnStarted ==
  /\ ~cfStopping /\ cfCheck = "waiting"
  /\ \/ /\ cfPrior = {}
        /\ cfCheck' = "reading"
        /\ UNCHANGED <<cfSubject>>
     \/ \E prior \in cfPrior : Verdict(prior)
  /\ UNCHANGED <<cfRunState, cfFiles, cfDry, cfBundles, cfWritten, cfRepairs, cfClean, cfBeaten,
                 cfOvertaken>>

CheckReads ==
  /\ cfCheck = "reading"
  /\ Verdict(PriorState)
  /\ UNCHANGED <<cfRunState, cfFiles, cfDry, cfBundles, cfWritten, cfRepairs, cfClean, cfBeaten,
                 cfOvertaken>>

\* Every Supervisor call is best effort; the bundle is written at the end.
CollectBundle ==
  /\ cfCheck = "collect"
  /\ cfBundles' = cfBundles \cup {CrashBundle(cfSubject)}
  /\ cfWritten' = cfWritten \cup {CrashBundle(cfSubject)}
  /\ cfCheck' = "retain"
  /\ UNCHANGED <<cfRunState, cfFiles, cfSubject, cfDry, cfRepairs, cfGhosts>>

BundleFails ==
  /\ cfCheck = "collect"
  /\ cfCheck' = "done"
  /\ UNCHANGED <<cfRunState, cfFiles, cfSubject, cfDry, cfBundles, cfWritten, cfRepairs, cfGhosts>>

\* The newest MAX_BUNDLES in a set of bundles.
NewestBundles_Oldest(bundles) ==
  {b \in bundles : Cardinality({d \in bundles : d < b}) < MaxBundles}

NewestBundles(bundles) ==
  {b \in bundles : Cardinality({d \in bundles : d > b}) < MaxBundles}

EnforceRetention ==
  /\ cfCheck = "retain"
  /\ cfBundles' = NewestBundles(cfBundles)
  /\ cfRepairs' = cfRepairs \cup {CrashBundle(cfSubject)}
  /\ cfCheck' = "done"
  /\ UNCHANGED <<cfRunState, cfFiles, cfSubject, cfDry, cfWritten, cfGhosts>>

\* An owner collects the current boot now: the bundle is named after a foreign
\* heartbeat when the file still holds one, else after the present time.
DryRunBegins ==
  /\ cfDry = "no"
  /\ cfDry' = "collect"
  /\ UNCHANGED <<cfRunState, cfFiles, cfCheck, cfSubject, cfBundles, cfWritten, cfRepairs, cfGhosts>>

DryRunWrites ==
  /\ cfDry = "collect"
  /\ cfDry' = "retain"
  /\ \E b \in IF cfHeart \in {0, cfRun} THEN DryBundles(cfRun) ELSE {CrashBundle(cfHeart)} :
       /\ cfWritten' = cfWritten \cup {b}
       /\ cfBundles' = cfBundles \cup {b}
  /\ UNCHANGED <<cfRunState, cfFiles, cfCheck, cfSubject, cfRepairs, cfGhosts>>

DryRunEnds ==
  /\ cfDry = "retain"
  /\ cfDry' = "no"
  /\ cfBundles' = NewestBundles(cfBundles)
  /\ UNCHANGED <<cfRunState, cfFiles, cfCheck, cfSubject, cfWritten, cfRepairs, cfGhosts>>

-----------------------------------------------------------------------------
(* The end of a run.                                                       *)

\* The process ends, after its stop or by a crash, and the next run starts.  A
\* stop while the entry is not loaded writes no marker either.
NextRun ==
  /\ cfRun < MaxRuns
  /\ cfRun' = cfRun + 1
  /\ cfInitial' = "reading" /\ cfLock' = "free" /\ cfStopping' = FALSE /\ cfPrior' = {}
  /\ cfCheck' = "waiting" /\ cfSubject' = 0 /\ cfDry' = "no" /\ cfOvertaken' = FALSE
  /\ UNCHANGED <<cfFiles, cfBundles, cfWritten, cfRepairs, cfClean, cfBeaten>>

CfNext ==
  \/ ReadPriorState \/ ReadPriorFails
  \/ \E who \in {"beat", "first"} : BeginHeartbeat(who)
  \/ HeartbeatWritten \/ HeartbeatFails
  \/ OnStop \/ BeginMarker \/ MarkerWritten
  \/ OnStarted \/ CheckReads \/ CollectBundle \/ BundleFails \/ EnforceRetention
  \/ DryRunBegins \/ DryRunWrites \/ DryRunEnds
  \/ NextRun

CfSpec == CfInit /\ [][CfNext]_cfVars

-----------------------------------------------------------------------------
(* Properties.                                                             *)

\* A run that wrote its clean-stop marker is never reported as an unclean stop,
\* whatever heartbeat was in flight when the stop was announced.
NoFalseUnclean == cfSubject # 0 => cfSubject \notin cfClean

\* The check does not pass over the previous run when that run wrote a heartbeat
\* and no marker, unless the files could not be read or this run wrote one of
\* them before they were.
CrashIsSeen ==
  cfCheck = "done" /\ cfSubject = 0 /\ cfRun - 1 \in cfBeaten \ cfClean => cfOvertaken

\* The bundle a Repairs issue names is there until MAX_BUNDLES newer ones have
\* been written.
RepairHasBundle ==
  \A b \in cfRepairs :
    b \notin cfBundles => Cardinality({d \in cfWritten : d > b}) >= MaxBundles

\* What the verdict on the previous stop is worth: no clean stop is called a
\* crash, no crash is passed over, and a reported one has its bundle.
StopsJudged == CfTypeOK /\ NoFalseUnclean /\ CrashIsSeen /\ RepairHasBundle
=============================================================================
