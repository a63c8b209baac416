---------------------------- MODULE FirewallTest ----------------------------
(***************************************************************************)
(* The firewall test protocol: Core (firewall.py) proposes a ruleset, the  *)
(* probe add-on's poller script fetches it, applies it to the one chain    *)
(* HA_SOC_RULES and arms a local timer that puts the old rules back unless *)
(* the owner confirms in time.                                             *)
(*                                                                         *)
(* Processes: Core (each handler is one step, it never awaits), the poller *)
(* (the run script, and the finish script s6 runs after it), and one       *)
(* disowned timer per applied test.  The add-on's processes share files    *)
(* under /data: the current-test file, one resolved marker and one chain   *)
(* snapshot per test.  Every read and write of a file, every flush and     *)
(* every load of the chain is a step of its own.  A call to Core happens   *)
(* in one step, or is lost together with its answer: nothing is retried.   *)
(* A rejected caller (wrong probe secret) sees exactly a lost call.        *)
(***************************************************************************)
EXTENDS Naturals, Sequences, FiniteSets

CONSTANTS MaxTests,        \* how many tests are ever proposed
          MaxHistory,      \* _MAX_HISTORY
          MaxFaults        \* bound on crashes of Core and stops of the add-on

ASSUME FirewallAssumption == /\ MaxTests \in Nat \ {0}
                             /\ MaxHistory \in Nat \ {0}
                             /\ MaxFaults \in Nat

VARIABLES
  pending,      \* Core: fw["pending"]
  history,      \* Core: fw["history"]
  saved,        \* Core: what the store file holds of the two
  lastId,       \* Core: uuid4 is modelled as the next unused number
  chain,        \* host: whose rules HA_SOC_RULES holds
  cur,          \* /data: the current-test file, NoTest when empty
  marker,       \* /data: tests with a resolved marker
  backup,       \* /data: chain snapshot per test
  poller,       \* the run script, or the finish script after it
  timer,        \* the background timers
  coreCrashes, stops,
  confirmed,    \* history: tests the owner confirmed
  torn          \* history: a kill cut a revert between its marker and its load

coreVars  == <<pending, history, saved, lastId, coreCrashes, confirmed>>
fileVars  == <<cur, marker, backup>>
addonVars == <<chain, fileVars, poller, timer, stops, torn>>
vars      == <<coreVars, addonVars>>

NoTest == 0
Base   == 0                        \* the rules in force before the first test
Tests  == 1..MaxTests

Statuses == {"testing", "confirmed", "reverted", "expired_unreported"}
Records  == [id : Tests, status : Statuses, applied : BOOLEAN, lapsed : BOOLEAN]
NoPending == [id |-> NoTest, status |-> "reverted", applied |-> FALSE, lapsed |-> FALSE]
Archives == [id : Tests,
             status : {"confirmed", "reverted", "discarded_unreported"}]

RevertPcs == {"rCheck", "rTouch", "rFlush", "rLoad", "rReport"}
ApplyPcs  == {"aBackup", "aWrite", "aFlush", "aLoad", "aArm"}
PollerPcs == {"down", "start", "finish", "top", "poll", "got", "sleep", "clear",
              "jTouch", "jReport", "xFlush", "xLoad", "xTouch", "xReport",
              "cCheck", "cTouch", "cReport"} \cup RevertPcs \cup ApplyPcs
TimerPcs  == {"none", "asleep"} \cup RevertPcs

FaultsLeft == coreCrashes + stops < MaxFaults

-----------------------------------------------------------------------------
(* Core.  Archive, the report path and the answer to a poll are operators  *)
(* because the poll's handler itself calls the report path.                *)

KeepLast(all) ==
  SubSeq(all, (IF Len(all) > MaxHistory THEN Len(all) - MaxHistory + 1 ELSE 1), Len(all))

Archive(status) ==
  /\ history' = KeepLast(Append(history, [id |-> pending.id, status |-> status]))
  /\ pending' = NoPending

Keep == UNCHANGED <<pending, history>>

(* The add-on's report is the last word: it overrides the status Core      *)
(* recorded, and a report about any other test changes nothing.            *)
ReportFromAddon(id, status) ==
  IF pending.id = id THEN Archive(status) ELSE Keep

(* The command for a poll that says it holds `held`: [act, id].            *)
Command(held) ==
  IF \/ pending = NoPending
     \/ held \notin {NoTest, pending.id}
     \/ held = NoTest /\ pending.status = "expired_unreported"
  THEN [act |-> "none", id |-> NoTest]
  ELSE IF pending.status = "testing" /\ ~pending.applied
       THEN [act |-> "apply", id |-> pending.id]
       ELSE IF held = pending.id /\ pending.status \in {"confirmed", "reverted"}
            THEN [act |-> IF pending.status = "confirmed" THEN "confirm" ELSE "revert",
                  id |-> pending.id]
            ELSE [act |-> "none", id |-> NoTest]

\* Mutant: a lapsed window is enough, the add-on may still hold the test.
NextCommand_AnyPoll(held) ==
  IF pending.status = "expired_unreported"
  THEN Archive("reverted")
  ELSE IF Command(held).act = "apply"
       THEN /\ pending' = [pending EXCEPT !.applied = TRUE, !.lapsed = FALSE]
            /\ UNCHANGED history
       ELSE Keep

NextCommand(held) ==
  CASE held = NoTest /\ pending.status = "expired_unreported"
         -> Archive("reverted")
    [] Command(held).act = "apply"
         -> /\ pending' = [pending EXCEPT !.applied = TRUE, !.lapsed = FALSE]
            /\ UNCHANGED history
    [] OTHER -> Keep

CoreOnly == UNCHANGED addonVars

Propose ==
  /\ pending = NoPending
  /\ lastId < MaxTests
  /\ lastId' = lastId + 1
  /\ pending' = [id |-> lastId + 1, status |-> "testing",
                 applied |-> FALSE, lapsed |-> FALSE]
  /\ UNCHANGED <<history, saved, coreCrashes, confirmed>> /\ CoreOnly

Undecided == pending.status \in {"testing", "expired_unreported"}

\* Mutant: the confirmation already archives the test.
Confirm_Archives ==
  /\ pending # NoPending /\ Undecided
  /\ pending' = [pending EXCEPT !.status = "confirmed"]
  /\ history' = Append(history, [id |-> pending.id, status |-> "confirmed"])
  /\ confirmed' = confirmed \cup {pending.id}
  /\ UNCHANGED <<saved, lastId, coreCrashes>> /\ CoreOnly

(* Intent only: nothing reaches the add-on before its next poll.           *)
Confirm ==
  /\ pending # NoPending /\ Undecided
  /\ pending' = [pending EXCEPT !.status = "confirmed"]
  /\ confirmed' = confirmed \cup {pending.id}
  /\ UNCHANGED <<history, saved, lastId, coreCrashes>> /\ CoreOnly

\* Mutant: a test already confirmed can still be cancelled.
Cancel_AnyStatus ==
  /\ pending # NoPending
  /\ pending' = [pending EXCEPT !.status = "reverted"]
  /\ UNCHANGED <<history, saved, lastId, coreCrashes, confirmed>> /\ CoreOnly

Cancel ==
  /\ pending # NoPending /\ Undecided
  /\ pending' = [pending EXCEPT !.status = "reverted"]
  /\ UNCHANGED <<history, saved, lastId, coreCrashes, confirmed>> /\ CoreOnly

(* The clock passes expires_at.                                            *)
WindowLapses ==
  /\ pending # NoPending /\ ~pending.lapsed
  /\ pending' = [pending EXCEPT !.lapsed = TRUE]
  /\ UNCHANGED <<history, saved, lastId, coreCrashes, confirmed>> /\ CoreOnly

LazilyExpired == IF pending.status = "testing" /\ pending.lapsed
                 THEN [pending EXCEPT !.status = "expired_unreported"]
                 ELSE pending

(* The panel reads the status; only a read relabels a lapsed test.         *)
GetStatus ==
  /\ pending' = LazilyExpired
  /\ pending' # pending
  /\ UNCHANGED <<history, saved, lastId, coreCrashes, confirmed>> /\ CoreOnly

\* Mutant: the record is archived with the status it happened to have.
DiscardPending_KeepsStatus ==
  /\ pending # NoPending /\ pending.lapsed
  /\ Archive(pending.status)
  /\ UNCHANGED <<saved, lastId, coreCrashes, confirmed>> /\ CoreOnly

DiscardPending ==
  /\ pending # NoPending /\ pending.lapsed
  /\ Archive("discarded_unreported")
  /\ UNCHANGED <<saved, lastId, coreCrashes, confirmed>> /\ CoreOnly

(* The debounced save reaches the disk.  The file is read by a restart     *)
(* after a crash only, so saves after the last crash are left out.         *)
Save ==
  /\ FaultsLeft
  /\ saved # [pending |-> pending, history |-> history]
  /\ saved' = [pending |-> pending, history |-> history]
  /\ UNCHANGED <<pending, history, lastId, coreCrashes, confirmed>> /\ CoreOnly

(* Core dies inside the debounce window and comes back with the file.      *)
CoreCrash ==
  /\ FaultsLeft
  /\ coreCrashes' = coreCrashes + 1
  /\ pending' = saved.pending
  /\ history' = saved.history
  /\ UNCHANGED <<saved, lastId, confirmed>> /\ CoreOnly

-----------------------------------------------------------------------------
(* revert_test and report_resolution, run by the poller, the finish script *)
(* and the timers alike.  Each operator is one step of the process at `pc`.*)

Quiet == UNCHANGED coreVars

(* curl to ingest_probe_result: Core handles it, or it never arrives.      *)
SendReport(id, status) ==
  /\ ReportFromAddon(id, status) \/ Keep
  /\ UNCHANGED <<saved, lastId, coreCrashes, confirmed>>

(* What revert_test does at each of its steps, and the next one.           *)
AfterCheck(id) == IF id \in marker THEN "done" ELSE "rTouch"

RevertEffect(pc, id) ==
  CASE pc = "rCheck"  -> UNCHANGED <<chain, fileVars>> /\ Quiet
    [] pc = "rTouch"  -> marker' = marker \cup {id}
                         /\ UNCHANGED <<chain, cur, backup>> /\ Quiet
    [] pc = "rFlush"  -> chain' = {} /\ UNCHANGED fileVars /\ Quiet
    [] pc = "rLoad"   -> chain' = chain \cup backup[id]
                         /\ UNCHANGED fileVars /\ Quiet
    [] pc = "rReport" -> SendReport(id, "reverted") /\ UNCHANGED <<chain, fileVars>>

RevertNext(pc, id) ==
  CASE pc = "rCheck"  -> AfterCheck(id)
    [] pc = "rTouch"  -> "rFlush"
    [] pc = "rFlush"  -> "rLoad"
    [] pc = "rLoad"   -> "rReport"
    [] pc = "rReport" -> "done"

-----------------------------------------------------------------------------
(* The timers.                                                             *)

TimerFires(t) ==
  /\ timer[t] = "asleep"
  /\ timer' = [timer EXCEPT ![t] = "rCheck"]
  /\ UNCHANGED <<chain, fileVars, poller, stops, torn>> /\ Quiet

TimerStep(t) ==
  LET next == RevertNext(timer[t], t)
  IN  /\ timer[t] \in RevertPcs
      /\ RevertEffect(timer[t], t)
      /\ timer' = [timer EXCEPT ![t] = IF next = "done" THEN "none" ELSE next]
      /\ UNCHANGED <<poller, stops, torn>>

(* Timing assumption: the local part of revert_test (a few iptables lines) *)
(* is over before the poller, having seen its marker, has polled Core and  *)
(* validated a new ruleset field by field.  The code does not enforce it.  *)
RevertsSettled == \A t \in Tests : timer[t] \notin {"rTouch", "rFlush", "rLoad"}

-----------------------------------------------------------------------------
(* The poller.  poller.ret is where the present command, the start-up      *)
(* recovery or the finish script goes once the test is dealt with.         *)

At(pc) == poller.pc = pc
Goto(pc) == poller' = [poller EXCEPT !.pc = pc]
Idle == UNCHANGED <<timer, stops, torn>>
NoFiles == UNCHANGED <<chain, fileVars>>

Start ==
  /\ At("down")
  /\ poller' = [pc |-> "start", id |-> NoTest, ret |-> "top"]
  /\ NoFiles /\ Idle /\ Quiet

\* Mutant: start-up only clears the file, trusting a timer that died.
StartRecovery_ClearsOnly ==
  /\ At("start")
  /\ poller' = [poller EXCEPT !.pc = "clear", !.id = cur]
  /\ NoFiles /\ Idle /\ Quiet

(* An unresolved test left in the file is reverted; the file is cleared.   *)
StartRecovery ==
  /\ At("start")
  /\ poller' = [poller EXCEPT !.pc = IF cur # NoTest /\ cur \notin marker
                                     THEN "rCheck" ELSE "clear",
                              !.id = cur]
  /\ NoFiles /\ Idle /\ Quiet

(* The finish script reverts an unresolved test and clears the file then.  *)
Finish ==
  /\ At("finish")
  /\ poller' = [poller EXCEPT !.pc = IF cur # NoTest /\ cur \notin marker
                                     THEN "rCheck" ELSE "down",
                              !.id = cur]
  /\ NoFiles /\ Idle /\ Quiet

PollerReverts ==
  LET next == RevertNext(poller.pc, poller.id)
  IN  /\ poller.pc \in RevertPcs
      /\ RevertEffect(poller.pc, poller.id)
      /\ Goto(IF next = "done" THEN "clear" ELSE next)
      /\ Idle

Clear ==
  /\ At("clear")
  /\ cur' = NoTest
  /\ Goto(poller.ret)
  /\ UNCHANGED <<chain, marker, backup>> /\ Idle /\ Quiet

\* Mutant: a test the timer resolved stays in the file.
Top_KeepsResolved ==
  /\ At("top")
  /\ poller' = [pc |-> "poll", id |-> cur, ret |-> "sleep"]
  /\ NoFiles /\ Idle /\ Quiet

(* Top of the loop: a resolved id is dropped from the file.  poller.id is  *)
(* the id the poll will carry.                                             *)
Top ==
  LET held == IF cur \in marker THEN NoTest ELSE cur
  IN  /\ At("top")
      /\ cur' = held
      /\ poller' = [pc |-> "poll", id |-> held, ret |-> "sleep"]
      /\ UNCHANGED <<chain, marker, backup>> /\ Idle /\ Quiet

PollDelivered ==
  LET cmd == Command(poller.id)
  IN  /\ At("poll")
      /\ NextCommand(poller.id)
      /\ poller' = [poller EXCEPT
                      !.pc = CASE cmd.act = "apply"   -> "got"
                               [] cmd.act = "confirm" -> "cCheck"
                               [] cmd.act = "revert"  -> "rCheck"
                               [] OTHER               -> "sleep",
                      !.id = cmd.id]
      /\ UNCHANGED <<saved, lastId, coreCrashes, confirmed>> /\ NoFiles /\ Idle

(* The request is lost, or Core handled it and the answer is lost.         *)
PollLost ==
  /\ At("poll")
  /\ Keep \/ NextCommand(poller.id)
  /\ Goto("sleep")
  /\ UNCHANGED <<saved, lastId, coreCrashes, confirmed>> /\ NoFiles /\ Idle

Wake ==
  /\ At("sleep")
  /\ Goto("top")
  /\ NoFiles /\ Idle /\ Quiet

(* apply: a fresh read of the file refuses a second armed test; a command  *)
(* the add-on's own validation refuses is marked and reported reverted.    *)
Got ==
  /\ At("got")
  /\ IF cur # NoTest /\ cur \notin marker
     THEN Goto("sleep")
     ELSE \E pc \in {"aBackup", "jTouch"} : Goto(pc)
  /\ NoFiles /\ Idle /\ Quiet

Backup ==
  /\ At("aBackup") /\ RevertsSettled
  /\ \/ /\ backup' = [backup EXCEPT ![poller.id] = chain]
        /\ Goto("aWrite")
     \/ UNCHANGED backup /\ Goto("jTouch")                  \* backup_failed
  /\ UNCHANGED <<chain, cur, marker>> /\ Idle /\ Quiet

WriteCurrent ==
  /\ At("aWrite")
  /\ cur' = poller.id
  /\ Goto("aFlush")
  /\ UNCHANGED <<chain, marker, backup>> /\ Idle /\ Quiet

Flush ==
  /\ poller.pc \in {"aFlush", "xFlush"}
  /\ chain' = {}
  /\ Goto(IF At("aFlush") THEN "aLoad" ELSE "xLoad")
  /\ UNCHANGED fileVars /\ Idle /\ Quiet

(* A rule that fails stops the apply with any prefix of the rules in.      *)
Load ==
  /\ At("aLoad")
  /\ \/ chain' = chain \cup {poller.id} /\ Goto("aArm")
     \/ chain' \in {chain, chain \cup {poller.id}} /\ Goto("xFlush")
  /\ UNCHANGED fileVars /\ Idle /\ Quiet

\* Mutant: the rules are applied and no timer is armed.
Arm_NoTimer ==
  /\ At("aArm")
  /\ Goto("sleep")
  /\ NoFiles /\ Idle /\ Quiet

(* A timer still about for the same test finds the marker as the new one   *)
(* would, so one process stands for both.                                  *)
Arm ==
  /\ At("aArm")
  /\ timer' = [timer EXCEPT ![poller.id] = IF @ = "none" THEN "asleep" ELSE @]
  /\ Goto("sleep")
  /\ UNCHANGED <<stops, torn>> /\ NoFiles /\ Quiet

Restore ==
  /\ At("xLoad")
  /\ chain' = chain \cup backup[poller.id]
  /\ Goto("xTouch")
  /\ UNCHANGED fileVars /\ Idle /\ Quiet

ConfirmCheck ==
  /\ At("cCheck")
  /\ Goto(IF poller.id \in marker THEN "clear" ELSE "cTouch")
  /\ NoFiles /\ Idle /\ Quiet

\* Mutant: a confirmed test is reported but not marked, its timer runs on.
Touch_ConfirmUnmarked ==
  /\ poller.pc \in {"cTouch", "jTouch", "xTouch"}
  /\ marker' = IF At("cTouch") THEN marker ELSE marker \cup {poller.id}
  /\ Goto(CASE At("cTouch") -> "cReport" [] At("jTouch") -> "jReport"
            [] At("xTouch") -> "xReport")
  /\ UNCHANGED <<chain, cur, backup>> /\ Idle /\ Quiet

Touch ==
  /\ poller.pc \in {"cTouch", "jTouch", "xTouch"}
  /\ marker' = marker \cup {poller.id}
  /\ Goto(CASE At("cTouch") -> "cReport" [] At("jTouch") -> "jReport"
            [] At("xTouch") -> "xReport")
  /\ UNCHANGED <<chain, cur, backup>> /\ Idle /\ Quiet

(* A refused test never wrote the file, so its report is the end of it.    *)
Report ==
  /\ poller.pc \in {"cReport", "jReport", "xReport"}
  /\ SendReport(poller.id, IF At("cReport") THEN "confirmed" ELSE "reverted")
  /\ Goto(IF At("jReport") THEN "sleep" ELSE "clear")
  /\ NoFiles /\ Idle

-----------------------------------------------------------------------------
(* Stops.  s6 runs the finish script when the run script ends, by a stop   *)
(* signal at a checkpoint or by a crash anywhere; the timers are disowned  *)
(* and live on.  A kill of the container ends every process at once.       *)

CutsRevert(pc) == pc \in {"rFlush", "rLoad"}

PollerExit ==
  /\ FaultsLeft
  /\ ~At("down") /\ poller.ret # "down"
  /\ stops' = stops + 1
  /\ torn' = (torn \/ CutsRevert(poller.pc))
  /\ poller' = [pc |-> "finish", id |-> NoTest, ret |-> "down"]
  /\ UNCHANGED timer /\ NoFiles /\ Quiet

ContainerKill ==
  /\ FaultsLeft
  /\ stops' = stops + 1
  /\ torn' = (torn \/ CutsRevert(poller.pc) \/ \E t \in Tests : CutsRevert(timer[t]))
  /\ poller' = [pc |-> "down", id |-> NoTest, ret |-> "down"]
  /\ timer' = [t \in Tests |-> "none"]
  /\ NoFiles /\ Quiet

-----------------------------------------------------------------------------
Init ==
  /\ pending = NoPending /\ history = <<>>
  /\ saved = [pending |-> NoPending, history |-> <<>>]
  /\ lastId = 0 /\ coreCrashes = 0 /\ confirmed = {}
  /\ chain = {Base} /\ cur = NoTest /\ marker = {}
  /\ backup = [t \in Tests |-> {}]
  /\ poller = [pc |-> "down", id |-> NoTest, ret |-> "down"]
  /\ timer = [t \in Tests |-> "none"]
  /\ stops = 0 /\ torn = FALSE

CoreNext == \/ Propose \/ Confirm \/ Cancel \/ WindowLapses \/ GetStatus
            \/ DiscardPending \/ Save \/ CoreCrash

PollerNext == \/ Start \/ StartRecovery \/ Finish \/ PollerReverts \/ Clear
              \/ Top \/ PollDelivered \/ PollLost \/ Wake
              \/ Got \/ Backup \/ WriteCurrent \/ Flush \/ Load \/ Arm \/ Restore
              \/ ConfirmCheck \/ Touch \/ Report

TimerNext(t) == TimerFires(t) \/ TimerStep(t)

Next == \/ CoreNext \/ PollerNext \/ \E t \in Tests : TimerNext(t)
        \/ PollerExit \/ ContainerKill

Spec == Init /\ [][Next]_vars

(* The add-on's processes run and s6 restarts the script.  Nothing is      *)
(* assumed of Core or of the channel: every call may be lost for ever.     *)
AddonSpec == /\ Spec
             /\ WF_vars(PollerNext)
             /\ \A t \in Tests : WF_vars(TimerNext(t))

(* Core's side of a working channel: the clock runs, the open panel reads  *)
(* the status, and a poller that keeps polling gets through in the end.    *)
ChannelWorks == /\ WF_vars(WindowLapses)
                /\ WF_vars(GetStatus)
                /\ SF_vars(PollDelivered)

-----------------------------------------------------------------------------
(* Core's record, the files, the processes and the chain have their types. *)
TypeOK ==
  /\ pending \in Records \cup {NoPending}
  /\ history \in Seq(Archives) /\ Len(history) <= MaxHistory
  /\ saved.pending \in Records \cup {NoPending}
  /\ saved.history \in Seq(Archives)
  /\ lastId \in 0..MaxTests
  /\ chain \subseteq Tests \cup {Base}
  /\ cur \in Tests \cup {NoTest}
  /\ marker \subseteq Tests /\ confirmed \subseteq Tests
  /\ backup \in [Tests -> SUBSET (Tests \cup {Base})]
  /\ poller \in [pc : PollerPcs, id : Tests \cup {NoTest},
                 ret : {"top", "sleep", "down"}]
  /\ timer \in [Tests -> TimerPcs]
  /\ coreCrashes \in 0..MaxFaults /\ stops \in 0..MaxFaults
  /\ torn \in BOOLEAN

Reverting(t) == \/ CutsRevert(timer[t])
                \/ poller.id = t /\ CutsRevert(poller.pc)

Outstanding(t) == (cur = t /\ t \notin marker) \/ Reverting(t)

(* Rules nobody confirmed are in the chain only while their test is still  *)
(* open in the add-on's files or a process is putting the old rules back,  *)
(* through every race of timer, poller and finish script, every lost call  *)
(* and every stop that does not cut a revert in two.                       *)
UnconfirmedIsTemporary ==
  coreCrashes = 0 /\ ~torn =>
    \A t \in chain \ (confirmed \cup {Base}) : Outstanding(t)

(* A test archived as reverted has no rule left in the chain once no       *)
(* process is still reverting it, whichever of the add-on's report, the    *)
(* empty poll after the window and a late confirm came first.              *)
RevertedIsGone ==
  coreCrashes = 0 /\ ~torn =>
    \A i \in 1..Len(history) :
      history[i].status = "reverted" /\ history[i].id \in chain
        => Reverting(history[i].id)

(* One test at a time, at the host: while a test is armed and unresolved   *)
(* the poller is not applying another, whatever Core forgot in a crash.    *)
OneTestAtATime ==
  \A t \in Tests :
    timer[t] = "asleep" /\ t \notin marker
      => ~(poller.pc \in {"aFlush", "aLoad", "aArm"} /\ poller.id # t)

(* A test enters the history once: intent never archives, and the report   *)
(* after an empty poll or a discard finds nothing to archive.              *)
ArchivedOnce ==
  \A i, j \in 1..Len(history) : history[i].id = history[j].id => i = j

(* What a step may never do: a decided test changes its mind, or a pending *)
(* test goes without an archive entry, except through a crash of Core.     *)
PendingOnlyArchived ==
  [][pending # NoPending /\ coreCrashes' = coreCrashes
       => \/ /\ pending'.id = pending.id
             /\ pending.status \in {"confirmed", "reverted"}
                  => pending'.status = pending.status
          \/ /\ pending' = NoPending
             /\ history' # <<>> /\ history'[Len(history')].id = pending.id]_vars

(* Unconfirmed rules go away by the add-on's own means: the property is    *)
(* checked with every call to Core allowed to be lost.                     *)
RevertsWithoutCore ==
  \A t \in Tests :
    (t \in chain /\ t \notin confirmed)
      ~> (t \notin chain \/ t \in confirmed \/ coreCrashes > 0 \/ torn)

(* An undecided test does not hold Core's single slot for ever: with the   *)
(* channel working it is archived, whichever call was lost on the way.     *)
PendingResolves ==
  ChannelWorks => ((pending # NoPending /\ Undecided)
                     ~> (pending = NoPending \/ ~Undecided))

(* The chain at the host is what the records say: unconfirmed rules have   *)
(* their revert outstanding, and reverted ones are gone.                   *)
RulesTrue == UnconfirmedIsTemporary /\ RevertedIsGone

(* Core's slot and history are exact: a test leaves the slot only into the *)
(* history, and enters it once.                                            *)
HistoryExact == [](TypeOK /\ ArchivedOnce) /\ PendingOnlyArchived

(* Tests come to an end, at the host without Core, and in Core's slot with *)
(* a channel that works.                                                   *)
TestsEnd == RevertsWithoutCore /\ PendingResolves

=============================================================================
