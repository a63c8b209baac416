----------------------------- MODULE MCServices -----------------------------
(***************************************************************************)
(* The parts of HA SOC that run beside the audit log: terminal sessions,   *)
(* the Observe push, the resource watchdog, crash forensics, the store, the*)
(* external audit ingest, the set-up and shutdown of them all, risk scores,*)
(* login baselines, SSH to devices and the pairing with the probe.         *)
(* They share no state that their models keep, so a behaviour runs one of  *)
(* them, part, and the others stand still at the start.                    *)
(***************************************************************************)
EXTENDS TerminalSessions, ObservePush, ResourceWatchdog, CrashForensics,
        StoreFiles, ExternalAudit, Lifecycle, RiskScores, LoginBaseline, Identities, TLC

CONSTANTS o1, o2, o3, u1, u2

MCUserOf == [o \in Opens |-> IF o = o3 THEN u2 ELSE u1]
MCWidths == <<2, 4>>

\* One administrator who has not logged in for half a year, one ordinary user.
MCAccountOf == [u \in RiskUsers |->
  IF u = "alice" THEN [admin |-> TRUE, login |-> "stale180", tokens |-> 3, old |-> TRUE]
                 ELSE [admin |-> FALSE, login |-> "never", tokens |-> 1, old |-> FALSE]]
MCAlertOf == [d \in Alerts |->
  IF d = "d1" THEN [user |-> "alice", rule |-> "disabled_user", severity |-> "critical"]
              ELSE [user |-> "alice", rule |-> "new_ip_login", severity |-> "medium"]]
MCFlawOf == [f \in Flaws |->
  IF f = "v" THEN [kind |-> "vuln", severity |-> "high"] ELSE [kind |-> "misconfig", severity |-> "medium"]]

CONSTANT Parts                                 \* the parts a run is about

VARIABLE part

allVars == <<part, termVars, obsVars, wdVars, cfVars, stVars, eaVars, lcVars, rsVars, lbVars, sdVars, ppVars>>

ServicesInit ==
  /\ part \in Parts
  /\ TermInit /\ ObsInit /\ WdInit /\ CfInit /\ StInit /\ EaInit /\ LcInit /\ RsInit /\ LbInit /\ SdInit /\ PpInit
  /\ part # "risk" => (\A d \in Alerts : rsAlert[d] = "none") /\ (\A f \in Flaws : rsFlaw[f] = "none")
  /\ part # "ssh" => \A g, h \in Hosts : sdDevice[g] = sdDevice[h] /\ sdDevice[g] = CHOOSE p \in Prints : TRUE
  /\ part # "pairing" => ppUser

TermRuns == part = "terminal" /\ TermNext /\ UNCHANGED <<part, obsVars, wdVars, cfVars, stVars, eaVars, lcVars, rsVars, lbVars, sdVars, ppVars>>
ObsRuns == part = "observe" /\ ObsNext /\ UNCHANGED <<part, termVars, wdVars, cfVars, stVars, eaVars, lcVars, rsVars, lbVars, sdVars, ppVars>>
WdRuns == part = "watchdog" /\ WdNext /\ UNCHANGED <<part, termVars, obsVars, cfVars, stVars, eaVars, lcVars, rsVars, lbVars, sdVars, ppVars>>
CfRuns == part = "forensics" /\ CfNext /\ UNCHANGED <<part, termVars, obsVars, wdVars, stVars, eaVars, lcVars, rsVars, lbVars, sdVars, ppVars>>
StRuns == part = "store" /\ StNext /\ UNCHANGED <<part, termVars, obsVars, wdVars, cfVars, eaVars, lcVars, rsVars, lbVars, sdVars, ppVars>>
EaRuns == part = "external" /\ EaNext /\ UNCHANGED <<part, termVars, obsVars, wdVars, cfVars, stVars, lcVars, rsVars, lbVars, sdVars, ppVars>>
LcRuns == part = "lifecycle" /\ LcNext /\ UNCHANGED <<part, termVars, obsVars, wdVars, cfVars, stVars, eaVars, rsVars, lbVars, sdVars, ppVars>>
RsRuns == part = "risk" /\ RsNext /\ UNCHANGED <<part, termVars, obsVars, wdVars, cfVars, stVars, eaVars, lcVars, lbVars, sdVars, ppVars>>
LbRuns == part = "logins" /\ LbNext /\ UNCHANGED <<part, termVars, obsVars, wdVars, cfVars, stVars, eaVars, lcVars, rsVars, sdVars, ppVars>>
SdRuns == part = "ssh" /\ SdNext /\ UNCHANGED <<part, termVars, obsVars, wdVars, cfVars, stVars, eaVars, lcVars, rsVars, lbVars, ppVars>>
PpRuns == part = "pairing" /\ PpNext /\ UNCHANGED <<part, termVars, obsVars, wdVars, cfVars, stVars, eaVars, lcVars, rsVars, lbVars, sdVars>>

ServicesNext == TermRuns \/ ObsRuns \/ WdRuns \/ CfRuns \/ StRuns \/ EaRuns \/ LcRuns \/ RsRuns \/ LbRuns \/ SdRuns \/ PpRuns

ServicesSpec == ServicesInit /\ [][ServicesNext]_allVars

\* What the scheduler owes: time passes, and a reader that was cancelled or is
\* past its deadline runs, as does the close of its socket.
TermFairness ==
  \A o \in Opens :
    /\ WF_termVars(part = "terminal" /\ DeadlinePasses(o))
    /\ WF_termVars(part = "terminal" /\ ReaderMustEnd(o))
    /\ WF_termVars(part = "terminal" /\ SocketClosed(o))

\* The timer ticks, a cycle goes on and time passes; the collector does not
\* fail for ever, nor does Observe refuse everything, or every logs payload.
ObsFairness ==
  /\ WF_obsVars(part = "observe" /\ PushOnce)
  /\ SF_obsVars(part = "observe" /\ CollectAndEnqueue)
  /\ WF_obsVars(part = "observe" /\ (Merge \/ EnforceBounds))
  /\ WF_obsVars(part = "observe" /\ (DrainEnds \/ Send))
  /\ WF_obsVars(part = "observe" /\ WaitOver)
  /\ WF_obsVars(part = "observe" /\ (Refused \/ Unauthorised \/ TryLater \/ \E refused \in SUBSET LogKeys : Accepted(refused)))
  /\ SF_obsVars(part = "observe" /\ (\E refused \in SUBSET LogKeys : Accepted(refused)))
  /\ SF_obsVars(part = "observe" /\ (\E refused \in SUBSET LogKeys : Accepted(refused) /\ ~IsMetrics(Head(obsQueue))))

\* The timer goes on sampling, the Supervisor does not fail for ever, and it
\* answers the action it was asked for.
WdFairness ==
  \A e \in Ticks : /\ SF_wdVars(part = "watchdog" /\ BeginFetch(e)) /\ SF_wdVars(part = "watchdog" /\ FetchDone(e))
                   /\ WF_wdVars(part = "watchdog" /\ ActionAnswered(e))

\* Timers fire, a write ends one way or the other, and who waits for the lock
\* gets it.
StFairness ==
  /\ \A f \in Files : WF_stVars(part = "store" /\ TimerWrite(f)) /\ WF_stVars(part = "store" /\ (WriteLands(f) \/ WriteFails(f)))
  /\ \A x \in Savers : WF_stVars(part = "store" /\ SaveBegins(x)) /\ WF_stVars(part = "store" /\ SaveFindsNothing(x))
  /\ WF_stVars(part = "store" /\ SetupRing) /\ WF_stVars(part = "store" /\ MigrateSecret) /\ WF_stVars(part = "store" /\ MigrateSave)

\* The source goes on sending what was not acknowledged.
EaFairness == WF_eaVars(part = "external" /\ SendNext)

\* Core goes on once what it waits for is over, a stop that hangs is cut off
\* by its budget, a write to the disk ends.
LcFairness ==
  /\ WF_lcVars(part = "lifecycle" /\ CleanedUp) /\ WF_lcVars(part = "lifecycle" /\ UnloadDone)
  /\ \A g \in Attempts :
       /\ WF_lcVars(part = "lifecycle" /\ ServiceStops(g)) /\ WF_lcVars(part = "lifecycle" /\ BudgetOver(g))
       /\ WF_lcVars(part = "lifecycle" /\ WriteOver(g)) /\ WF_lcVars(part = "lifecycle" /\ LastFlush(g))
       /\ \A f \in {"callback", "stop"} : WF_lcVars(part = "lifecycle" /\ (\E ok \in BOOLEAN : FlushEnds(f, g, ok)))

ServicesLiveSpec ==
  /\ ServicesSpec
  /\ TermFairness
  /\ ObsFairness
  /\ WdFairness
  /\ StFairness
  /\ EaFairness
  /\ LcFairness

\* A cfg gives these sets the same model values, so that one permutation
\* serves every part.
ServicesSymmetry == Permutations(LogKeys \cup Ticks \cup Savers)

\* What leaves and what enters as a record is exact: the push to Observe, and
\* the history accepted from another tool.
DeliveredExactly == PushExact /\ EaTypeOK /\ OneHistory

\* Everything that was begun comes to its end: sessions, breaches and clean-ups
\* end, log records settle, changes reach their files, a history arrives.
ServicesProgress ==
  SessionsEnd /\ RecordsSettle /\ BreachEnds /\ RingSaved /\ MainSaved /\ HistoryArrives /\ CleanUpEnds
=============================================================================
