----------------------------- MODULE MCRecords -----------------------------
(***************************************************************************)
(* The parts of HA SOC that keep records of what they find or change: the  *)
(* UniFi ledger, HACS updates, entity remaps, dashboard files, detections, *)
(* the code scanner, misconfiguration sweeps, vulnerability scans, users.  *)
(* They share no state that their models keep, so a behaviour runs one of  *)
(* them, part, and the others stand still at the start.                    *)
(***************************************************************************)
EXTENDS ConfigLedger, HacsUpdates, UserFiles, DetectionPass, CodeScanner, MisconfigSweep,
        VulnScan, UserAccess, TLC

MCMatchOf == [d \in Devices |-> "match"]

CONSTANT Parts                                 \* the parts a run is about

VARIABLE part

allVars == <<part, lgVars, huVars, erVars, dfVars, dtVars, csVars, mcVars, vsVars, uaVars>>

RecordsInit ==
  /\ part \in Parts
  /\ LgInit /\ HuInit /\ ErInit /\ DfInit /\ DtInit /\ CsInit /\ McInit /\ VsInit /\ UaInit
  /\ part # "hacs" => huPending = {}
  /\ part # "remap" => erTainted = {} /\ \A d \in Documents, a \in Applies : erDoc[d][a] = "old"
  /\ part # "detections" => dtKind = "logins"
  /\ part # "scanner" => \A f \in SourceFiles : csFile[f].content = "clean"
  /\ part # "misconfig" => \A c \in Checks : mcTruth[c] = "clean"

LgRuns == part = "ledger" /\ LgNext /\ UNCHANGED <<part, huVars, erVars, dfVars, dtVars, csVars, mcVars, vsVars, uaVars>>
HuRuns == part = "hacs" /\ HuNext /\ UNCHANGED <<part, lgVars, erVars, dfVars, dtVars, csVars, mcVars, vsVars, uaVars>>
ErRuns == part = "remap" /\ ErNext /\ UNCHANGED <<part, lgVars, huVars, dfVars, dtVars, csVars, mcVars, vsVars, uaVars>>
DfRuns == part = "dashboards" /\ DfNext /\ UNCHANGED <<part, lgVars, huVars, erVars, dtVars, csVars, mcVars, vsVars, uaVars>>
DtRuns == part = "detections" /\ DtNext /\ UNCHANGED <<part, lgVars, huVars, erVars, dfVars, csVars, mcVars, vsVars, uaVars>>
CsRuns == part = "scanner" /\ CsNext /\ UNCHANGED <<part, lgVars, huVars, erVars, dfVars, dtVars, mcVars, vsVars, uaVars>>
McRuns == part = "misconfig" /\ McNext /\ UNCHANGED <<part, lgVars, huVars, erVars, dfVars, dtVars, csVars, vsVars, uaVars>>
VsRuns == part = "vulns" /\ VsNext /\ UNCHANGED <<part, lgVars, huVars, erVars, dfVars, dtVars, csVars, mcVars, uaVars>>
UaRuns == part = "users" /\ UaNext /\ UNCHANGED <<part, lgVars, huVars, erVars, dfVars, dtVars, csVars, mcVars, vsVars>>

RecordsNext == LgRuns \/ HuRuns \/ ErRuns \/ DfRuns \/ DtRuns \/ CsRuns \/ McRuns \/ VsRuns \/ UaRuns

RecordsSpec == RecordsInit /\ [][RecordsNext]_allVars

\* The timer keeps firing and a request is answered or fails.
LgFairness == WF_lgVars(part = "ledger" /\ TickBegins) /\ WF_lgVars(part = "ledger" /\ CollectionRead(NoPanel)) /\ WF_lgVars(part = "ledger" /\ TickRecords)

\* Every call to GitHub or to an update entity ends, and time passes.
HuFairness == WF_huVars(part = "hacs" /\ FlagAges) /\ \A q \in Requests : WF_huVars(part = "hacs" /\ RequestStep(q))

\* Reads and writes of a file end.
ErFairness == \A a \in Applies : WF_erVars(part = "remap" /\ ApplyStep(a))

\* The timer goes on starting sweeps, and what a sweep awaits comes.
McFairness ==
  /\ \A s \in Sweeps :
                    /\ WF_mcVars(part = "misconfig" /\ SweepStarted(s)) /\ WF_mcVars(part = "misconfig" /\ (YamlRead(s) \/ YamlCached(s)))
                    /\ WF_mcVars(part = "misconfig" /\ YamlLoaded(s)) /\ WF_mcVars(part = "misconfig" /\ YamlJudged(s))
                    /\ WF_mcVars(part = "misconfig" /\ (AddonJudged(s) \/ CheckSkipped(s)))
  /\ SF_mcVars(part = "misconfig" /\ (\E s \in Sweeps : AddonJudged(s)))

\* The timer and the loop run on, the lock is handed over, and the NVD does
\* not fail for ever on the same page.
VsFairness ==
  /\ \A s \in VulnScans :
       /\ WF_vsVars(part = "vulns" /\ AskForScan(s)) /\ WF_vsVars(part = "vulns" /\ BeginScan(s))
       /\ WF_vsVars(part = "vulns" /\ PassDevice(s)) /\ WF_vsVars(part = "vulns" /\ AskNvd(s)) /\ WF_vsVars(part = "vulns" /\ PageRefused(s))
       /\ WF_vsVars(part = "vulns" /\ vsScan[s].pc = "next" /\ EndScan(s))
       /\ \A p \in 0 .. Pages - 1 : SF_vsVars(part = "vulns" /\ vsScan[s].page = p /\ PageServed(s))
  /\ \A m \in MatchStrings : WF_vsVars(part = "vulns" /\ FetchExpires(m))

\* The timer runs passes, a pass goes on, days pass.
UaFairness ==
  /\ \A p \in PolicyPasses : WF_uaVars(part = "users" /\ BeginPass(p)) /\ WF_uaVars(part = "users" /\ Enforce(p))
  /\ SF_uaVars(part = "users" /\ NextDay)

RecordsLiveSpec ==
  /\ RecordsSpec
  /\ LgFairness
  /\ HuFairness
  /\ ErFairness
  /\ McFairness
  /\ VsFairness
  /\ UaFairness

\* A cfg gives these sets the same model values, so that one permutation
\* serves every part.
RecordsSymmetry == Permutations(Requests \cup Applies \cup Operators \cup Scans \cup (Accounts \ {AccountOwner})) \cup Permutations(Repos)

\* VulnerableFound where scans run: a device that stays registered gets the
\* findings of its match string although the TTL makes scans pass over it.
ScansFind == part = "vulns" => VulnerableFound

\* PolicyActs where the policy runs: under auto_deactivate no administrator
\* stays active for ever without MFA.
PolicyTakesEffect == part = "users" => PolicyActs

\* What the passes are for happens in the end: drift is recorded, refreshing
\* stays possible, applies end, what is wrong is found, the policy acts.
RecordsProgress ==
  DriftIsRecorded /\ RefreshPossible /\ AppliesEnd /\ FoundInTheEnd /\ ScansFind /\ PolicyTakesEffect
=============================================================================
