---------------------------- MODULE MisconfigSweep ----------------------------
(***************************************************************************)
(* The misconfiguration sweep of health.py: the checks a sweep makes one   *)
(* after another, what they do with an answer they did not get, the table  *)
(* of findings and its mirror in Repairs, statuses an analyst sets, and    *)
(* the pruning of settled rows (store.py).  The first sweep is started by  *)
(* setup in the background; the timer's sweeps share its result while it   *)
(* runs and are not kept apart from one another.                           *)
(*                                                                         *)
(* Two checks stand for the four kinds.  "yaml": the judgement needs the   *)
(* merged YAML, which one sweep loads at most once; a check on files or on *)
(* references leaves its findings alone in the same way when it could not  *)
(* read.  "addon": the judgement needs what the Supervisor serves of an    *)
(* add-on, which may be nothing, or lack the key the check judges by.      *)
(***************************************************************************)
EXTENDS Naturals, FiniteSets

CONSTANTS
  Sweeps,          \* sweeps that may be under way at once
  SetupSweep,      \* the one setup starts
  MaxSetups,       \* bound: times the integration is set up
  MaxTurns,        \* bound: changes of what there is to find
  MaxDecisions     \* bound: statuses set and rows pruned

ASSUME SweepAssumption ==
  /\ SetupSweep \in Sweeps
  /\ {MaxSetups, MaxTurns, MaxDecisions} \subseteq Nat

Checks == {"yaml", "addon"}
Findings == {"yaml", "addon", "unjudged"}     \* "unjudged" is could_not_evaluate
Answers == {"clean", "bad", "unreadable", "unserved", "keyless"}
AnswersOf(c) == IF c = "yaml" THEN {"clean", "bad", "unreadable"}
                ELSE {"clean", "bad", "unserved", "keyless"}

VARIABLES
  mcTruth,         \* check -> what there is to see
  mcTurns,         \* changes of it so far
  mcRow,           \* misconfig_findings: finding -> status
  mcIssue,         \* findings with an issue in Repairs
  mcYaml,          \* _sweep_yaml_state and what was loaded
  mcSweep,         \* what each sweep is at
  mcSetups,        \* setups so far
  mcRan,           \* misconfig_sweep_ran
  mcDecisions,     \* statuses set so far
  mcTold           \* nothing has changed since a sweep that ran alone ended

mcWorld == <<mcTruth, mcTurns>>
mcTable == <<mcRow, mcIssue>>
mcVars == <<mcWorld, mcTable, mcYaml, mcSweep, mcSetups, mcRan, mcDecisions, mcTold>>

NoSweep == [pc |-> "idle", answer |-> "clean", alone |-> TRUE]

McTypeOK ==
  /\ \A c \in Checks : mcTruth[c] \in AnswersOf(c)
  /\ mcSetups \in 0 .. MaxSetups /\ mcTurns \in 0 .. MaxTurns /\ mcDecisions \in 0 .. MaxDecisions
  /\ mcRow \in [Findings -> {"none", "new", "confirmed", "dismissed", "resolved"}]
  /\ mcIssue \subseteq Findings \ {"unjudged"}
  /\ mcYaml \in {"stale"} \cup AnswersOf("yaml")
  /\ \A s \in Sweeps : /\ mcSweep[s].pc \in {"idle", "yaml", "loading", "judged", "addon"}
                       /\ mcSweep[s].answer \in Answers
  /\ {mcRan, mcTold} \subseteq BOOLEAN

McInit ==
  /\ mcTruth \in {[c \in Checks |-> a] : a \in {"clean", "bad"}}
  /\ mcTurns = 0 /\ mcDecisions = 0 /\ mcSetups = 0
  /\ mcRow = [f \in Findings |-> "none"] /\ mcIssue = {}
  /\ mcYaml = "stale"
  /\ mcSweep = [s \in Sweeps |-> NoSweep]
  /\ mcRan = FALSE /\ mcTold = FALSE

SweepAt(s, pc) == mcSweep[s].pc = pc
Sweeping == {s \in Sweeps : ~SweepAt(s, "idle")}
Interfered(sweeps) ==
  [s \in Sweeps |-> IF s \in Sweeping THEN [sweeps[s] EXCEPT !.alone = FALSE] ELSE sweeps[s]]

-----------------------------------------------------------------------------
(* The table and Repairs.                                                  *)

Keeps_Nothing == {}

\* Statuses that survive a pass in which the condition was not seen.
Keeps == {"dismissed", "confirmed"}

Mirrored_Unconditional(f, status) == f # "unjudged"

\* A dismissed row has no issue in Repairs, nor has one that only informs.
Mirrored(f, status) == f # "unjudged" /\ status # "dismissed"

\* async_upsert_finding: the status of a row that is there is kept.
Upserted(f) == IF mcRow[f] = "none" THEN "new" ELSE mcRow[f]

\* _async_finalize_check with _async_resolve_missing: active are the findings
\* of this pass, owned all the findings of the check.
Finalize(owned, active) ==
  /\ mcRow' = [f \in Findings |->
                 CASE f \in active -> Upserted(f)
                   [] f \in owned \ active /\ mcRow[f] \notin Keeps \cup {"none"} -> "resolved"
                   [] OTHER -> mcRow[f]]
  /\ mcIssue' = {f \in Findings :
                   CASE f \in active -> Mirrored(f, Upserted(f))
                     [] f \in owned \ active -> f \in mcIssue /\ mcRow[f] \in Keeps
                     [] OTHER -> f \in mcIssue}

-----------------------------------------------------------------------------
(* A sweep.                                                                *)

MayStart_NotDone(s) == IF s = SetupSweep THEN mcSetups < MaxSetups ELSE mcSetups = 0

\* async_run_misconfig_checks: while setup's sweep runs its result is shared.
MayStart(s) == IF s = SetupSweep THEN mcSetups < MaxSetups ELSE SweepAt(SetupSweep, "idle")

SweepStarted(s) ==
  /\ SweepAt(s, "idle") /\ MayStart(s)
  /\ mcSetups' = IF s = SetupSweep THEN mcSetups + 1 ELSE mcSetups
  /\ mcYaml' = "stale"
  /\ mcSweep' = [Interfered(mcSweep) EXCEPT
                   ![s] = [pc |-> "yaml", answer |-> "clean", alone |-> Sweeping = {}]]
  /\ UNCHANGED <<mcWorld, mcTable, mcRan, mcDecisions, mcTold>>

\* _async_sweep_yaml: loaded already, by this sweep or by another one.
YamlCached(s) ==
  /\ SweepAt(s, "yaml") /\ mcYaml # "stale"
  /\ mcSweep' = [mcSweep EXCEPT ![s].pc = "judged", ![s].answer = mcYaml]
  /\ UNCHANGED <<mcWorld, mcTable, mcYaml, mcSetups, mcRan, mcDecisions, mcTold>>

YamlRead(s) ==
  /\ SweepAt(s, "yaml") /\ mcYaml = "stale"
  /\ mcSweep' = [mcSweep EXCEPT ![s].pc = "loading", ![s].answer = mcTruth["yaml"]]
  /\ UNCHANGED <<mcWorld, mcTable, mcYaml, mcSetups, mcRan, mcDecisions, mcTold>>

YamlLoaded(s) ==
  /\ SweepAt(s, "loading")
  /\ mcYaml' = mcSweep[s].answer
  /\ mcSweep' = [mcSweep EXCEPT ![s].pc = "judged"]
  /\ UNCHANGED <<mcWorld, mcTable, mcSetups, mcRan, mcDecisions, mcTold>>

YamlFinal_FailedIsClean(s) ==
  Finalize({"yaml"}, IF mcSweep[s].answer = "bad" THEN {"yaml"} ELSE {})

\* A failed load is could_not_evaluate: nothing is touched.
YamlFinal(s) ==
  IF mcSweep[s].answer = "unreadable" THEN UNCHANGED mcTable
  ELSE Finalize({"yaml"}, IF mcSweep[s].answer = "bad" THEN {"yaml"} ELSE {})

YamlJudged(s) ==
  /\ SweepAt(s, "judged")
  /\ YamlFinal(s)
  /\ mcSweep' = [mcSweep EXCEPT ![s].pc = "addon"]
  /\ UNCHANGED <<mcWorld, mcYaml, mcSetups, mcRan, mcDecisions, mcTold>>

\* What the check on add-ons reports of one: the finding, that it could not be
\* judged, or nothing at all when the Supervisor served no information on it.
Reported(answer) ==
  CASE answer = "bad" -> {"addon"}
    [] answer = "keyless" -> {"unjudged"}
    [] OTHER -> {}

\* The rest of the sweep reads what is cached and ends it.
AddonJudged(s) ==
  /\ SweepAt(s, "addon")
  /\ Finalize({"addon", "unjudged"}, Reported(mcTruth["addon"]))
  /\ mcRan' = TRUE
  /\ mcTold' = mcSweep[s].alone
  /\ mcSweep' = [mcSweep EXCEPT ![s] = NoSweep]
  /\ UNCHANGED <<mcWorld, mcYaml, mcSetups, mcDecisions>>

\* Nothing is cached for any add-on yet, or a check fails: it touches nothing.
CheckSkipped(s) ==
  /\ SweepAt(s, "addon")
  /\ mcSweep' = [mcSweep EXCEPT ![s] = NoSweep]
  /\ mcRan' = TRUE
  /\ UNCHANGED <<mcWorld, mcTable, mcYaml, mcSetups, mcDecisions, mcTold>>

\* async_stop cancels the sweep of setup at one of its awaits.
SweepCancelled(s) ==
  /\ s = SetupSweep /\ mcSweep[s].pc \in {"loading", "addon"}
  /\ mcSweep' = [mcSweep EXCEPT ![s] = NoSweep]
  /\ UNCHANGED <<mcWorld, mcTable, mcYaml, mcSetups, mcRan, mcDecisions, mcTold>>

-----------------------------------------------------------------------------
(* What happens meanwhile.                                                 *)

TruthTurns(c, a) ==
  /\ mcTurns < MaxTurns /\ mcTurns' = mcTurns + 1
  /\ mcTruth[c] # a /\ mcTruth' = [mcTruth EXCEPT ![c] = a]
  /\ mcSweep' = Interfered(mcSweep) /\ mcTold' = FALSE
  /\ UNCHANGED <<mcTable, mcYaml, mcSetups, mcRan, mcDecisions>>

\* ws_misconfig_set_status: Repairs is left to the next sweep.
Decided(f, status) ==
  /\ mcDecisions < MaxDecisions /\ mcDecisions' = mcDecisions + 1
  /\ mcRow[f] \notin {"none", status}
  /\ mcRow' = [mcRow EXCEPT ![f] = status]
  /\ mcSweep' = Interfered(mcSweep) /\ mcTold' = FALSE
  /\ UNCHANGED <<mcWorld, mcIssue, mcYaml, mcSetups, mcRan>>

\* async_prune_evidence.
RowPruned(f) ==
  /\ mcDecisions < MaxDecisions /\ mcDecisions' = mcDecisions + 1
  /\ mcRow[f] \in {"dismissed", "resolved"}
  /\ mcRow' = [mcRow EXCEPT ![f] = "none"]
  /\ mcSweep' = Interfered(mcSweep) /\ mcTold' = FALSE
  /\ UNCHANGED <<mcWorld, mcIssue, mcYaml, mcSetups, mcRan>>

McNext ==
  \/ \E s \in Sweeps : \/ SweepStarted(s) \/ YamlCached(s) \/ YamlRead(s) \/ YamlLoaded(s)
                       \/ YamlJudged(s) \/ AddonJudged(s) \/ CheckSkipped(s) \/ SweepCancelled(s)
  \/ \E c \in Checks : \E a \in AnswersOf(c) : TruthTurns(c, a)
  \/ \E f \in Findings : \/ RowPruned(f)
                         \/ \E t \in {"new", "confirmed", "dismissed"} : Decided(f, t)

McSpec == McInit /\ [][McNext]_mcVars

-----------------------------------------------------------------------------
(* Properties.                                                             *)

\* After a sweep nothing interfered with, what is wrong has a row and, unless
\* dismissed, an issue in Repairs, and what is right has neither an open row nor
\* an issue, unless an analyst settled it: whatever older sweeps, loads they
\* left in the cache or statuses set since have done.
SweepTells ==
  mcTold => \A c \in Checks :
    /\ mcTruth[c] = "bad" =>
         mcRow[c] # "none" /\ (c \in mcIssue <=> mcRow[c] # "dismissed")
    /\ mcTruth[c] = "clean" => mcRow[c] # "new" /\ (c \in mcIssue => mcRow[c] \in Keeps)

\* While the configuration cannot be read, no sweep resolves what was found in it
\* unless it is judging by what it had read before.
UnreadableIsKept ==
  [][mcTruth["yaml"] = "unreadable" /\ mcRow["yaml"] = "new" /\ mcRow'["yaml"] = "resolved" =>
       \E s \in Sweeps : SweepAt(s, "judged") /\ mcSweep[s].answer = "clean"]_mcVars

\* A sweep never overrules what an analyst settled.
DecisionsStand ==
  [][\A f \in Findings : mcRow[f] \in {"confirmed", "dismissed"} /\ mcRow'[f] # mcRow[f] =>
                           mcDecisions' # mcDecisions]_mcVars

\* What stays wrong is found, and what stays right loses its issue, unless an
\* analyst settled it.
FoundInTheEnd ==
  \A c \in Checks :
    /\ mcTruth[c] = "bad" ~> (mcRow[c] # "none" \/ mcTruth[c] # "bad")
    /\ mcTruth[c] = "clean" ~> (c \notin mcIssue \/ mcRow[c] \in Keeps \cup {"none"} \/ mcTruth[c] # "clean")

\* What a sweep writes down is so, what it could not read it keeps, and what an
\* analyst settled stays settled.
SweepsTrue == [](McTypeOK /\ SweepTells) /\ UnreadableIsKept /\ DecisionsStand
=============================================================================
