----------------------------- MODULE Lifecycle -----------------------------
(***************************************************************************)
(* The config entry of __init__.py: async_setup_entry step by step, the    *)
(* callbacks it leaves with entry.async_on_unload, async_stop_services and *)
(* async_unload_entry, over several attempts and reloads.                  *)
(*                                                                         *)
(* A setup may fail at any of its awaits.  Core then runs the callbacks:   *)
(* the synchronous ones at once, the stop of the services and the flush of *)
(* the store as tasks side by side, for which it waits.                    *)
(***************************************************************************)
EXTENDS Naturals, Sequences, FiniteSets

CONSTANTS
  MaxSetups,       \* bound: attempts to set the entry up
  MaxBadStops,     \* bound: stops that hang or raise, and waits Core gives up
  MaxCommands      \* bound: commands that change the store

ASSUME LifecycleAssumption ==
  /\ MaxSetups \in Nat \ {0}
  /\ MaxBadStops \in Nat
  /\ MaxCommands \in Nat

VARIABLES
  lcEntry,       \* the state of the config entry
  lcGen,         \* the attempt, whose objects a new one never shares
  lcStep,        \* how far async_setup_entry has come
  lcCallbacks,   \* the callbacks registered with async_on_unload
  lcRuntime,     \* the attempt entry.runtime_data belongs to, 0 for none
  lcApi,         \* what is registered with Home Assistant
  lcUp,          \* services with a timer, a listener or a task, by attempt
  lcStop,        \* where async_stop_services stands, by attempt
  lcHung,        \* attempts whose current stop does not come back
  lcLeft,        \* services a stop left half-stopped
  lcFlush,       \* flushes in progress, and the attempt whose store they write
  lcDirty,       \* the store holds a change its file does not
  lcLost,        \* a flush failed
  lcStale,       \* a flush landed on a file a later attempt had read
  lcGaveUp,      \* Core stopped waiting for a clean-up
  lcBad,         \* stops that hung or raised, and waits given up
  lcCommands     \* commands served

lcStops == <<lcStop, lcHung, lcLeft, lcBad>>
lcStore == <<lcFlush, lcDirty, lcLost, lcStale>>
lcSetup == <<lcEntry, lcGen, lcStep, lcCallbacks, lcRuntime, lcApi>>
lcVars == <<lcSetup, lcUp, lcStops, lcStore, lcCommands, lcGaveUp>>

Attempts == 1 .. MaxSetups

\* The services in the order of async_setup_entry.
StartOrder == <<"audit", "syslog", "health", "scanner", "watchdog", "forensics", "observe">>

StopOrder_StoreEarly ==
  <<"terminal", "audit", "syslog", "store", "health", "scanner", "watchdog", "history", "observe">>

\* The stops in the order of async_stop_services.
StopOrder ==
  <<"terminal", "audit", "syslog", "health", "scanner", "watchdog", "history", "observe", "store">>

StopsOver == Len(StopOrder) + 1

SetupSteps == {"load", "secrets", "build", "start", "register", "panel", "platforms", "done"}

LcTypeOK ==
  /\ lcEntry \in {"notLoaded", "setup", "loaded", "platforms", "unloading", "cleaning", "failedUnload"}
  /\ lcGen \in 0 .. MaxSetups
  /\ lcStep \in SetupSteps
  /\ lcCallbacks \subseteq {"flush", "forget", "stop", "unregister", "timers"}
  /\ lcRuntime \in 0 .. lcGen
  /\ lcApi \subseteq {"commands", "services", "panel"}
  /\ lcUp \subseteq Attempts \X ({StartOrder[i] : i \in DOMAIN StartOrder} \cup {"timers"})
  /\ lcStop \in [Attempts -> 0 .. StopsOver]
  /\ lcHung \subseteq Attempts
  /\ lcLeft \subseteq Attempts \X {StopOrder[i] : i \in DOMAIN StopOrder}
  /\ lcFlush \subseteq {"callback", "stop"} \X Attempts
  /\ lcDirty \in BOOLEAN /\ lcLost \in BOOLEAN /\ lcStale \in BOOLEAN /\ lcGaveUp \in BOOLEAN
  /\ lcBad \in 0 .. MaxBadStops
  /\ lcCommands \in 0 .. MaxCommands

LcInit ==
  /\ lcEntry = "notLoaded" /\ lcGen = 0 /\ lcStep = "done"
  /\ lcCallbacks = {} /\ lcRuntime = 0 /\ lcApi = {}
  /\ lcUp = {} /\ lcLeft = {} /\ lcHung = {}
  /\ lcStop = [g \in Attempts |-> 0]
  /\ lcFlush = {}
  /\ lcDirty = FALSE /\ lcLost = FALSE /\ lcStale = FALSE /\ lcGaveUp = FALSE
  /\ lcBad = 0 /\ lcCommands = 0

-----------------------------------------------------------------------------
(* async_setup_entry.                                                      *)

SetupBegins ==
  /\ lcEntry = "notLoaded"
  /\ lcGen < MaxSetups
  /\ lcEntry' = "setup"
  /\ lcGen' = lcGen + 1
  /\ lcStep' = "load"
  /\ UNCHANGED <<lcCallbacks, lcRuntime, lcApi, lcUp, lcStops, lcStore, lcCommands, lcGaveUp>>

SetupAt(step) == lcEntry = "setup" /\ lcStep = step

\* Registered before the first thing that can arm a delayed save.
FlushCallback == {"flush"}

\* The store is read: from here on its memory is what counts.
StoreLoaded ==
  /\ SetupAt("load")
  /\ lcStep' = "secrets"
  /\ lcCallbacks' = FlushCallback
  /\ lcDirty' = FALSE
  /\ UNCHANGED <<lcEntry, lcGen, lcRuntime, lcApi, lcUp, lcStops,
                 lcFlush, lcLost, lcStale, lcCommands, lcGaveUp>>

\* The secrets are moved; a save that failed leaves a delayed one behind.
SecretsMoved ==
  /\ SetupAt("secrets")
  /\ lcStep' = "build"
  /\ lcDirty' \in BOOLEAN
  /\ UNCHANGED <<lcEntry, lcGen, lcCallbacks, lcRuntime, lcApi, lcUp, lcStops,
                 lcFlush, lcLost, lcStale, lcCommands, lcGaveUp>>

RuntimeCallbacks_Late == {"forget"}

\* Registered before any service starts.
RuntimeCallbacks == {"forget", "stop", "unregister"}

\* The objects exist and commands of an earlier setup can reach them.
RuntimeBuilt ==
  /\ SetupAt("build")
  /\ lcStep' = "start"
  /\ lcRuntime' = lcGen
  /\ lcCallbacks' = lcCallbacks \cup RuntimeCallbacks
  /\ UNCHANGED <<lcEntry, lcGen, lcApi, lcUp, lcStops, lcStore, lcCommands, lcGaveUp>>

IsUp(g, s) == <<g, s>> \in lcUp

\* The services start one after the other.
ServiceStarts ==
  /\ SetupAt("start")
  /\ \E i \in DOMAIN StartOrder :
       /\ ~IsUp(lcGen, StartOrder[i])
       /\ \A j \in 1 .. i - 1 : IsUp(lcGen, StartOrder[j])
       /\ lcUp' = lcUp \cup {<<lcGen, StartOrder[i]>>}
       /\ lcStep' = IF i = Len(StartOrder) THEN "register" ELSE "start"
  /\ UNCHANGED <<lcEntry, lcGen, lcCallbacks, lcRuntime, lcApi, lcStops, lcStore, lcCommands, lcGaveUp>>

\* The commands, which are never taken back, and the services of the add-ons.
ApiRegistered ==
  /\ SetupAt("register")
  /\ lcApi' = lcApi \cup {"commands", "services"}
  /\ lcStep' = "panel"
  /\ UNCHANGED <<lcEntry, lcGen, lcCallbacks, lcRuntime, lcUp, lcStops, lcStore, lcCommands, lcGaveUp>>

PanelRegistered ==
  /\ SetupAt("panel")
  /\ lcApi' = lcApi \cup {"panel"}
  /\ lcStep' = "platforms"
  /\ UNCHANGED <<lcEntry, lcGen, lcCallbacks, lcRuntime, lcUp, lcStops, lcStore, lcCommands, lcGaveUp>>

\* The platforms are set up and the timers of the periodic work started.
SetupDone ==
  /\ SetupAt("platforms")
  /\ lcEntry' = "loaded"
  /\ lcStep' = "done"
  /\ lcUp' = lcUp \cup {<<lcGen, "timers">>}
  /\ lcCallbacks' = lcCallbacks \cup {"timers"}
  /\ UNCHANGED <<lcGen, lcRuntime, lcApi, lcStops, lcStore, lcCommands, lcGaveUp>>

-----------------------------------------------------------------------------
(* Core runs the callbacks.                                                *)

\* async_stop_services begins, once in the life of its runtime.
StopsFrom(g) == IF lcStop[g] = 0 THEN [lcStop EXCEPT ![g] = 1] ELSE lcStop

\* One stretch: what is synchronous is done, what is not has begun.
CallbacksRun(callbacks) ==
  /\ lcEntry' = "cleaning"
  /\ lcCallbacks' = {}
  /\ lcRuntime' = IF "forget" \in callbacks THEN 0 ELSE lcRuntime
  /\ lcApi' = IF "unregister" \in callbacks THEN lcApi \cap {"commands"} ELSE lcApi
  /\ lcUp' = lcUp \ {<<lcGen, "timers">>, <<lcGen, "forensics">>}
  /\ lcStop' = IF "stop" \in callbacks THEN StopsFrom(lcGen) ELSE lcStop
  /\ IF "flush" \in callbacks
     THEN lcFlush' = lcFlush \cup {<<"callback", lcGen>>} /\ lcDirty' = FALSE
     ELSE UNCHANGED <<lcFlush, lcDirty>>

SetupFails ==
  /\ lcEntry = "setup"
  /\ CallbacksRun(lcCallbacks)
  /\ lcStep' = "done"
  /\ UNCHANGED <<lcGen, lcHung, lcLeft, lcBad, lcLost, lcStale, lcCommands, lcGaveUp>>

\* The tasks are over.
CleanedUp ==
  /\ lcEntry = "cleaning"
  /\ lcStop[lcGen] \in {0, StopsOver}
  /\ <<"callback", lcGen>> \notin lcFlush
  /\ lcEntry' = "notLoaded"
  /\ UNCHANGED <<lcGen, lcStep, lcCallbacks, lcRuntime, lcApi, lcUp, lcStops, lcStore, lcCommands, lcGaveUp>>

\* Core gives up waiting.  Two budgets add up to its own limit, and a
\* write to the disk has none.
CoreGivesUp ==
  /\ lcEntry = "cleaning"
  /\ \/ {"callback", "stop"} \X {lcGen} \cap lcFlush # {}
     \/ lcGen \in lcHung
  /\ lcBad < MaxBadStops
  /\ lcBad' = lcBad + 1
  /\ lcEntry' = "notLoaded"
  /\ lcGaveUp' = TRUE
  /\ UNCHANGED <<lcGen, lcStep, lcCallbacks, lcRuntime, lcApi, lcUp, lcStop, lcHung, lcLeft, lcStore, lcCommands>>

-----------------------------------------------------------------------------
(* async_unload_entry.                                                     *)

UnloadBegins ==
  /\ lcEntry = "loaded"
  /\ lcEntry' = "platforms"
  /\ UNCHANGED <<lcGen, lcStep, lcCallbacks, lcRuntime, lcApi, lcUp, lcStops, lcStore, lcCommands, lcGaveUp>>

\* A platform that does not unload keeps the entry as it is.
PlatformsStay ==
  /\ lcEntry = "platforms"
  /\ lcEntry' = "failedUnload"
  /\ UNCHANGED <<lcGen, lcStep, lcCallbacks, lcRuntime, lcApi, lcUp, lcStops, lcStore, lcCommands, lcGaveUp>>

PlatformsUnloaded ==
  /\ lcEntry = "platforms"
  /\ lcEntry' = "unloading"
  /\ lcStop' = StopsFrom(lcGen)
  /\ UNCHANGED <<lcGen, lcStep, lcCallbacks, lcRuntime, lcApi, lcUp,
                 lcHung, lcLeft, lcBad, lcStore, lcCommands, lcGaveUp>>

\* Everything is unregistered, and Core runs the callbacks of this entry too.
UnloadDone ==
  /\ lcEntry = "unloading"
  /\ lcStop[lcGen] = StopsOver
  /\ CallbacksRun(lcCallbacks \cup {"unregister"})
  /\ UNCHANGED <<lcGen, lcStep, lcHung, lcLeft, lcBad, lcLost, lcStale, lcCommands, lcGaveUp>>

-----------------------------------------------------------------------------
(* async_stop_services.                                                    *)

Stopping(g) == lcStop[g] \in DOMAIN StopOrder
Current(g) == StopOrder[lcStop[g]]
StopNext(g) == lcStop' = [lcStop EXCEPT ![g] = @ + 1]

\* A stop comes back; that of the audit log moves the mirror of its head, that
\* of the health checks their records, both in the store.
ServiceStops(g) ==
  /\ Stopping(g) /\ g \notin lcHung /\ Current(g) # "store"
  /\ lcUp' = lcUp \ {<<g, Current(g)>>}
  /\ lcDirty' = (lcDirty \/ Current(g) \in {"audit", "health"})
  /\ StopNext(g)
  /\ UNCHANGED <<lcSetup, lcHung, lcLeft, lcBad, lcFlush, lcLost, lcStale, lcCommands, lcGaveUp>>

\* A stop does not come back: a syslog drain, a session that does not close,
\* the last flush of the audit log on a slow disk.
ServiceHangs(g) ==
  /\ Stopping(g) /\ g \notin lcHung /\ Current(g) # "store"
  /\ lcBad < MaxBadStops
  /\ lcBad' = lcBad + 1
  /\ lcHung' = lcHung \cup {g}
  /\ UNCHANGED <<lcSetup, lcUp, lcStop, lcLeft, lcStore, lcCommands, lcGaveUp>>

HasBudget_TerminalOnly(s) == s = "terminal"
HasBudget_Audit(s) == s # "store"

\* Every stop but those that write to the disk.
HasBudget(s) == s \notin {"audit", "store"}

\* The budget runs out: the service is left as it is and the next one stops.
BudgetOver(g) ==
  /\ g \in lcHung /\ HasBudget(Current(g))
  /\ lcHung' = lcHung \ {g}
  /\ lcLeft' = lcLeft \cup {<<g, Current(g)>>}
  /\ StopNext(g)
  /\ UNCHANGED <<lcSetup, lcUp, lcBad, lcStore, lcCommands, lcGaveUp>>

\* The stop of the audit log is waited for as long as its write takes.
WriteOver(g) ==
  /\ g \in lcHung /\ Current(g) = "audit"
  /\ lcHung' = lcHung \ {g}
  /\ UNCHANGED <<lcSetup, lcUp, lcStop, lcLeft, lcBad, lcStore, lcCommands, lcGaveUp>>

\* The exception is logged; the rest still run.
AfterError(g) == StopNext(g)

StopRaises(g) ==
  /\ Stopping(g) /\ g \notin lcHung /\ Current(g) \notin {"audit", "store"}
  /\ lcBad < MaxBadStops
  /\ lcBad' = lcBad + 1
  /\ lcLeft' = lcLeft \cup {<<g, Current(g)>>}
  /\ AfterError(g)
  /\ UNCHANGED <<lcSetup, lcUp, lcHung, lcStore, lcCommands, lcGaveUp>>

\* The last of them is the flush of the store.
LastFlush(g) ==
  /\ Stopping(g) /\ Current(g) = "store"
  /\ <<"stop", g>> \notin lcFlush
  /\ lcFlush' = lcFlush \cup {<<"stop", g>>}
  /\ lcDirty' = IF g = lcGen THEN FALSE ELSE lcDirty
  /\ UNCHANGED <<lcSetup, lcUp, lcStops, lcLost, lcStale, lcCommands, lcGaveUp>>

\* The file is written or, what is logged and not tried again, it is not.
FlushEnds(f, g, ok) ==
  /\ <<f, g>> \in lcFlush
  /\ lcFlush' = lcFlush \ {<<f, g>>}
  /\ lcLost' = (lcLost \/ ~ok)
  /\ lcStale' = (lcStale \/ (ok /\ g < lcGen /\ lcStep # "load"))
  /\ IF f = "stop" THEN StopNext(g) ELSE UNCHANGED lcStop
  /\ UNCHANGED <<lcSetup, lcUp, lcHung, lcLeft, lcBad, lcDirty, lcCommands, lcGaveUp>>

-----------------------------------------------------------------------------
\* A command finds the runtime and changes the store, also while the entry
\* is being set up or unloaded.
Command ==
  /\ lcRuntime # 0
  /\ "commands" \in lcApi
  /\ lcCommands < MaxCommands
  /\ lcCommands' = lcCommands + 1
  /\ lcDirty' = TRUE
  /\ UNCHANGED <<lcSetup, lcUp, lcStops, lcFlush, lcLost, lcStale, lcGaveUp>>

LcNext ==
  \/ SetupBegins \/ StoreLoaded \/ SecretsMoved \/ RuntimeBuilt \/ ServiceStarts
  \/ ApiRegistered \/ PanelRegistered \/ SetupDone \/ SetupFails
  \/ CleanedUp \/ CoreGivesUp
  \/ UnloadBegins \/ PlatformsStay \/ PlatformsUnloaded \/ UnloadDone
  \/ \E g \in Attempts : \/ ServiceStops(g) \/ ServiceHangs(g) \/ BudgetOver(g) \/ WriteOver(g)
                         \/ StopRaises(g) \/ LastFlush(g)
  \/ \E f \in {"callback", "stop"}, g \in Attempts, ok \in BOOLEAN : FlushEnds(f, g, ok)
  \/ Command

LcSpec == LcInit /\ [][LcNext]_lcVars

(* Properties.                                                             *)

\* Wherever a setup failed, and after every unload, nothing of the attempt is
\* left: no runtime to be found, nothing registered but the commands, and no
\* service except one whose stop hung or raised or was not waited for.
NothingLeft ==
  lcEntry = "notLoaded" => /\ lcRuntime = 0
                           /\ lcApi \subseteq {"commands"}
                           /\ lcUp \subseteq lcLeft \/ lcGaveUp

\* A retry never runs beside what it replaces, unless Core gave up waiting:
\* there is one audit log that writes the chain, and no flush of an earlier
\* attempt lands on a store file that a later one has read.
OneGeneration ==
  \/ lcGaveUp
  \/ /\ \A g, h \in Attempts : IsUp(g, "audit") /\ IsUp(h, "audit") => g = h
     /\ ~lcStale

\* What commands and the stops themselves changed in the store is in its file
\* when the entry has come to rest, unless a flush failed or was abandoned.
SavedAtRest == lcEntry = "notLoaded" => ~lcDirty \/ lcLost \/ lcGaveUp

\* An unload or the clean-up after a failed setup ends, whichever stop hangs.
CleanUpEnds == lcEntry \in {"unloading", "cleaning"} ~> lcEntry = "notLoaded"

\* What set-up and shutdown promise: an attempt leaves nothing behind, does not
\* run beside the next one, and the store is written last.
CleanGenerations == LcTypeOK /\ NothingLeft /\ OneGeneration /\ SavedAtRest
=============================================================================
