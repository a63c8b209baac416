--------------------------- MODULE FirewallProofs ---------------------------
(***************************************************************************)
(* For any number of tests and faults and any length of the history: what  *)
(* Core keeps of a firewall test is exact, one test at a time is applied   *)
(* at the host, and the chain holds what the records say.                  *)
(***************************************************************************)
EXTENDS FirewallTest, SequenceTheorems, TLAPS

(* Core.  A test has one place, pending or one entry of the history, and   *)
(* so it has in the file that a crash brings back.                         *)
SlotRecs == Records \cup {NoPending}

Exact(p, h) ==
  /\ p \in SlotRecs /\ p.id \in 0..lastId
  /\ h \in Seq(Archives) /\ Len(h) <= MaxHistory
  /\ \A i \in 1..Len(h) : h[i].id \in 1..lastId /\ h[i].id # p.id
  /\ \A i, j \in 1..Len(h) : h[i].id = h[j].id => i = j

CoreInv ==
  /\ lastId \in 0..MaxTests
  /\ Exact(pending, history)
  /\ saved \in [pending : SlotRecs, history : Seq(Archives)]
  /\ Exact(saved.pending, saved.history)
  /\ confirmed \subseteq 1..lastId

(* The add-on.  What the poller holds at a step, and the armed test is the *)
(* one in the file.                                                        *)
XPcs == {"xFlush", "xLoad", "xTouch", "xReport"}
CPcs == {"cCheck", "cTouch", "cReport"}
JPcs == {"jTouch", "jReport"}
Busy == RevertPcs \cup ApplyPcs \cup XPcs \cup CPcs \cup JPcs \cup {"got"}

AddonShape ==
  /\ chain \subseteq Tests \cup {Base}
  /\ cur \in Tests \cup {NoTest}
  /\ marker \subseteq Tests
  /\ backup \in [Tests -> SUBSET (Tests \cup {Base})]
  /\ poller \in [pc : PollerPcs, id : Tests \cup {NoTest}, ret : {"top", "sleep", "down"}]
  /\ timer \in [Tests -> TimerPcs]
  /\ coreCrashes \in Nat /\ stops \in Nat /\ coreCrashes + stops <= MaxFaults
  /\ torn \in BOOLEAN

PollerHolds ==
  /\ poller.pc \in Busy => poller.id \in Tests
  /\ poller.pc \in RevertPcs \cup XPcs \cup CPcs \cup {"aFlush", "aLoad", "aArm", "poll"}
       => cur = poller.id
  /\ poller.pc \in {"aBackup", "aWrite", "clear"} => cur = NoTest \/ cur \in marker
  /\ poller.pc \in {"rFlush", "rLoad", "rReport", "xReport", "cReport"} => poller.id \in marker

ArmedIsCurrent == \A t \in Tests : timer[t] = "asleep" /\ t \notin marker => cur = t

AddonInv == AddonShape /\ PollerHolds /\ ArmedIsCurrent

(* The chain.                                                              *)
Rev(t) == \E i \in 1..Len(history) : history[i].id = t /\ history[i].status = "reverted"

NotApplied(t) == t > lastId \/ (pending.id = t /\ ~pending.applied)

Fresh(t) == timer[t] = "none" /\ t \notin marker /\ ~Rev(t)

Final(t) ==
  /\ t \in marker /\ t \in confirmed /\ ~Rev(t)
  /\ timer[t] \in {"none", "asleep", "rCheck"}
  /\ poller.id = t => poller.pc \notin Busy \ ({"rCheck"} \cup CPcs)

DecidedOnce == pending # NoPending => (pending.id \in confirmed <=> pending.status = "confirmed")
MarkedFirst == \A t \in Tests : timer[t] \in {"rFlush", "rLoad", "rReport"} => t \in marker
UntouchedYet == \A t \in Tests : NotApplied(t) => Fresh(t) /\ t \notin chain /\ cur # t /\ poller.id # t
AppliesFresh ==
  /\ \A t \in Tests : poller.id = t /\ poller.pc \in ApplyPcs \cup {"got", "jTouch", "xFlush", "xLoad", "xTouch"}
       => Fresh(t)
  /\ poller.pc \in {"got", "aBackup", "aWrite", "jTouch", "jReport"} => poller.id \notin chain
ConfirmsConfirmed == poller.pc \in CPcs => poller.id \in confirmed
ReportsGone ==
  /\ \A t \in Tests : timer[t] \in {"rLoad", "rReport"} => t \notin chain
  /\ poller.pc \in {"rLoad", "rReport", "xLoad", "xTouch", "xReport"} => poller.id \notin chain
BackupsFinal == \A s, t \in Tests : t \in backup[s] => Final(t)
ChainAccounted ==
  \A t \in Tests : t \in chain =>
    \/ cur = t /\ t \notin marker /\ ~Rev(t)
    \/ Reverting(t)
    \/ t \in marker /\ t \in confirmed /\ ~Rev(t)

RulesInv ==
  /\ DecidedOnce /\ MarkedFirst /\ UntouchedYet /\ AppliesFresh /\ ConfirmsConfirmed
  /\ ReportsGone /\ BackupsFinal /\ ChainAccounted

Calm == coreCrashes = 0 /\ ~torn

FirewallInv == CoreInv /\ AddonInv /\ (Calm => RulesInv)

-----------------------------------------------------------------------------
(* Core's part.                                                            *)

(* What a step may do to a pending test, unless Core crashes.              *)
PendingStep ==
  pending # NoPending /\ coreCrashes' = coreCrashes
    => \/ /\ pending'.id = pending.id
          /\ pending.status \in {"confirmed", "reverted"} => pending'.status = pending.status
       \/ /\ pending' = NoPending
          /\ history' # <<>> /\ history'[Len(history')].id = pending.id

(* The history keeps its last entries: all, or all but the first.          *)
LEMMA KeepLastType ==
  ASSUME NEW all \in Seq(Archives), NEW n \in 1..(MaxHistory + 1), n = Len(all)
  PROVE  \E d \in {0, 1}, m \in 1..MaxHistory :
           /\ m = n - d
           /\ KeepLast(all) \in Seq(Archives) /\ Len(KeepLast(all)) = m
           /\ \A i \in 1..m : i + d \in 1..n /\ KeepLast(all)[i] = all[i + d]
<1>1. PICK lo \in {1, 2} : lo = IF n > MaxHistory THEN n - MaxHistory + 1 ELSE 1
  BY FirewallAssumption
<1>2. PICK d \in {0, 1}, m \in 1..MaxHistory : d = lo - 1 /\ m = n - d /\ m = n - lo + 1 /\ lo <= n
  BY <1>1, FirewallAssumption
<1>3. \A i \in lo..n : all[i] \in Archives
  OBVIOUS
<1>4. KeepLast(all) = SubSeq(all, lo, n)
  BY <1>1 DEF KeepLast
<1>5. /\ SubSeq(all, lo, n) \in Seq(Archives)
      /\ Len(SubSeq(all, lo, n)) = (IF lo <= n THEN n - lo + 1 ELSE 0)
      /\ \A i \in 1..(n - lo + 1) : SubSeq(all, lo, n)[i] = all[lo + i - 1]
  BY <1>3, SubSeqProperties
<1>6. \A i \in 1..m : lo + i - 1 = i + d /\ i + d \in 1..n
  BY <1>2
<1>7. /\ KeepLast(all) \in Seq(Archives) /\ Len(KeepLast(all)) = m
      /\ \A i \in 1..m : i + d \in 1..n /\ KeepLast(all)[i] = all[i + d]
  BY <1>2, <1>4, <1>5, <1>6
<1>. QED
  BY <1>2, <1>7

(* What the history g is after e was archived into h: its entries are e    *)
(* and old ones, each test once.                                           *)
IsArchive(h, e, g) ==
  /\ g \in Seq(Archives) /\ Len(g) \in 1..MaxHistory /\ g[Len(g)] = e
  /\ \A i \in 1..Len(g) : g[i] = e \/ \E j \in 1..Len(h) : g[i] = h[j]
  /\ \A i, j \in 1..Len(g) : g[i].id = g[j].id => i = j

LEMMA ArchiveExact ==
  ASSUME NEW h \in Seq(Archives), Len(h) <= MaxHistory,
         \A i, j \in 1..Len(h) : h[i].id = h[j].id => i = j,
         NEW e \in Archives, \A i \in 1..Len(h) : h[i].id # e.id,
         NEW g, g = KeepLast(Append(h, e))
  PROVE  IsArchive(h, e, g)
<1>1. PICK n \in Nat : n = Len(h) /\ n <= MaxHistory
  OBVIOUS
<1>2. PICK all : all = Append(h, e)
  OBVIOUS
<1>3. /\ all \in Seq(Archives) /\ Len(all) = n + 1 /\ n + 1 \in 1..(MaxHistory + 1)
      /\ \A i \in 1..(n + 1) : all[i] = IF i = n + 1 THEN e ELSE h[i]
  BY <1>1, <1>2, FirewallAssumption
<1>4. PICK d \in {0, 1}, m \in 1..MaxHistory :
        /\ m = n + 1 - d
        /\ KeepLast(all) \in Seq(Archives) /\ Len(KeepLast(all)) = m
        /\ \A i \in 1..m : i + d \in 1..(n + 1) /\ KeepLast(all)[i] = all[i + d]
  BY <1>3, KeepLastType
<1>5. g \in Seq(Archives) /\ Len(g) = m /\ \A i \in 1..m : i + d \in 1..(n + 1) /\ g[i] = all[i + d]
  <2>1. g = KeepLast(all)
    BY <1>2
  <2>. QED
    BY <1>4, <2>1
<1>6. \A i \in 1..m : i + d = n + 1 => g[i] = e
  BY <1>3, <1>5
<1>7. \A i \in 1..m : i + d # n + 1 => i + d \in 1..n /\ g[i] = h[i + d]
  BY <1>3, <1>5
<1>8. m + d = n + 1 /\ g[m] = e
  BY <1>4, <1>6
<1>9. \A i \in 1..m : g[i] = e \/ \E j \in 1..n : g[i] = h[j]
  BY <1>6, <1>7
<1>10. ASSUME NEW i \in 1..m, NEW j \in 1..m, g[i].id = g[j].id PROVE i = j
  <2>1. CASE i + d = n + 1 /\ j + d = n + 1
    BY <2>1
  <2>2. CASE i + d = n + 1 /\ j + d # n + 1
    BY <1>1, <1>6, <1>7, <1>10, <2>2
  <2>3. CASE i + d # n + 1 /\ j + d = n + 1
    BY <1>1, <1>6, <1>7, <1>10, <2>3
  <2>4. CASE i + d # n + 1 /\ j + d # n + 1
    <3>1. i + d \in 1..n /\ j + d \in 1..n /\ g[i] = h[i + d] /\ g[j] = h[j + d]
      BY <1>7, <2>4
    <3>2. i + d = j + d
      BY <1>1, <1>10, <3>1
    <3>. QED
      BY <3>2
  <2>. QED
    BY <2>1, <2>2, <2>3, <2>4
<1>. QED
  BY <1>1, <1>5, <1>8, <1>9, <1>10 DEF IsArchive

(* Archiving empties the slot, keeps the history exact and adds one entry. *)
LEMMA ArchiveKeeps ==
  ASSUME Exact(pending, history), pending # NoPending, lastId' = lastId, lastId \in 0..MaxTests,
         NEW s \in {"confirmed", "reverted", "discarded_unreported"}, Archive(s)
  PROVE  /\ Exact(pending, history)' /\ pending' = NoPending
         /\ history' # <<>> /\ history'[Len(history')].id = pending.id
         /\ \A t \in Tests : Rev(t)' => Rev(t) \/ (t = pending.id /\ s = "reverted")
<1>1. pending \in Records /\ pending.id \in 1..lastId
  BY DEF Exact, SlotRecs, Records, Tests, NoPending
<1>2. [id |-> pending.id, status |-> s] \in Archives
  BY <1>1 DEF Archives, Records
<1>3. PICK e \in Archives : e = [id |-> pending.id, status |-> s]
  BY <1>2
<1>4. e.id = pending.id /\ e.status = s
  BY <1>3
<1>5. pending' = NoPending /\ NoPending \in SlotRecs /\ NoPending.id = 0
  BY DEF Archive, SlotRecs, NoPending, NoTest
<1>6. /\ history' \in Seq(Archives) /\ Len(history') \in 1..MaxHistory /\ history'[Len(history')] = e
      /\ \A i \in 1..Len(history') : history'[i] = e \/ \E j \in 1..Len(history) : history'[i] = history[j]
      /\ \A i, j \in 1..Len(history') : history'[i].id = history'[j].id => i = j
  <2>1. history' = KeepLast(Append(history, e))
    BY <1>3 DEF Archive
  <2>2. /\ history \in Seq(Archives) /\ Len(history) <= MaxHistory
        /\ \A i, j \in 1..Len(history) : history[i].id = history[j].id => i = j
        /\ \A i \in 1..Len(history) : history[i].id # e.id
    BY <1>4 DEF Exact
  <2>3. IsArchive(history, e, history')
    BY <2>1, <2>2, ArchiveExact
  <2>. QED
    BY <2>1, <2>2, <2>3 DEF IsArchive
<1>7. \A i \in 1..Len(history') : history'[i].id \in 1..lastId
  BY <1>1, <1>4, <1>6 DEF Exact
<1>8. \A t \in Tests : Rev(t)' => Rev(t) \/ (t = pending.id /\ s = "reverted")
  BY <1>4, <1>6 DEF Rev
<1>9. history' # <<>> /\ history'[Len(history')].id = pending.id
  BY <1>4, <1>6
<1>10. Exact(pending, history)'
  <2>1. \A i \in 1..Len(history') : history'[i].id \in 1..lastId' /\ history'[i].id # pending'.id
    BY <1>5, <1>7
  <2>2. pending' \in SlotRecs /\ pending'.id \in 0..lastId' /\ Len(history') <= MaxHistory
    BY <1>5, <1>6, FirewallAssumption
  <2>. QED
    BY <1>6, <2>1, <2>2 DEF Exact
<1>. QED
  BY <1>5, <1>8, <1>9, <1>10
(* A pending test that only changes its fields.                            *)
Relabels ==
  /\ pending \in Records /\ pending' \in Records
  /\ pending'.id = pending.id /\ history' = history
  /\ pending.status \in {"confirmed", "reverted"} => pending'.status = pending.status

(* A poll is answered without a trace, marks the test as handed out, or    *)
(* archives one whose window has lapsed and which the add-on does not hold.*)
LEMMA PollCases ==
  ASSUME CoreInv, NEW held \in Tests \cup {NoTest}, NextCommand(held)
  PROVE  \/ Keep /\ Command(held).act # "apply"
         \/ /\ Relabels /\ pending.status = "testing" /\ ~pending.applied /\ pending'.applied
            /\ pending'.status = "testing"
            /\ Command(held) = [act |-> "apply", id |-> pending.id]
         \/ /\ held = NoTest /\ pending.status = "expired_unreported" /\ pending \in Records
            /\ Archive("reverted")
<1>1. pending \in SlotRecs
  BY DEF CoreInv, Exact
<1>2. CASE held = NoTest /\ pending.status = "expired_unreported"
  <2>1. pending # NoPending
    BY <1>2 DEF NoPending
  <2>2. pending \in Records
    BY <1>1, <2>1 DEF SlotRecs
  <2>3. Command(held) = [act |-> "none", id |-> NoTest]
    BY <1>2 DEF Command
  <2>4. Archive("reverted")
    BY <1>2, <2>3 DEF NextCommand
  <2>. QED
    BY <1>2, <2>2, <2>4
<1>3. CASE ~(held = NoTest /\ pending.status = "expired_unreported") /\ Command(held).act = "apply"
  <2>1. /\ pending # NoPending /\ pending.status = "testing" /\ ~pending.applied
        /\ Command(held) = [act |-> "apply", id |-> pending.id]
    BY <1>3 DEF Command
  <2>2. pending \in Records
    BY <1>1, <2>1 DEF SlotRecs
  <2>3. pending' = [pending EXCEPT !.applied = TRUE, !.lapsed = FALSE] /\ history' = history
    BY <1>3 DEF NextCommand
  <2>4. pending' \in Records /\ pending'.id = pending.id /\ pending'.status = pending.status /\ pending'.applied
    BY <2>2, <2>3 DEF Records
  <2>. QED
    BY <2>1, <2>2, <2>3, <2>4 DEF Relabels
<1>4. CASE ~(held = NoTest /\ pending.status = "expired_unreported") /\ Command(held).act # "apply"
  BY <1>4 DEF NextCommand
<1>. QED
  BY <1>2, <1>3, <1>4

(* A report that arrives archives the test it is about, if that is pending.*)
LEMMA ReportCases ==
  ASSUME CoreInv, NEW id \in Tests, NEW status, SendReport(id, status)
  PROVE  /\ UNCHANGED <<saved, lastId, coreCrashes, confirmed>>
         /\ Keep \/ (pending.id = id /\ pending \in Records /\ Archive(status))
<1>1. pending \in SlotRecs
  BY DEF CoreInv, Exact
<1>2. pending.id = id => pending \in Records
  BY <1>1 DEF SlotRecs, NoPending, NoTest, Tests
<1>. QED
  BY <1>2 DEF SendReport, ReportFromAddon

(* What a step may do to the slot and the history keeps Core's invariant   *)
(* and lets no test out of the slot but into the history.                  *)
LEMMA CoreMoves ==
  ASSUME CoreInv, UNCHANGED <<saved, lastId, coreCrashes>>, confirmed' \subseteq 1..lastId,
         \/ Keep
         \/ Relabels
         \/ \E s \in {"confirmed", "reverted", "discarded_unreported"} :
              pending \in Records /\ Archive(s)
  PROVE  CoreInv' /\ PendingStep
<1>1. Exact(saved.pending, saved.history)'
  BY DEF CoreInv, Exact
<1>2. Exact(pending, history)' /\ PendingStep
  <2>1. CASE Keep
    <3>1. pending' = pending /\ history' = history
      BY <2>1 DEF Keep
    <3>. QED
      BY <3>1 DEF CoreInv, Exact, PendingStep
  <2>2. CASE Relabels
    <3>1. pending' \in SlotRecs /\ pending'.id \in 0..lastId' /\ pending # NoPending
      BY <2>2 DEF CoreInv, Exact, Relabels, SlotRecs, Records, NoPending, NoTest, Tests
    <3>. QED
      BY <2>2, <3>1 DEF CoreInv, Exact, PendingStep, Relabels
  <2>3. ASSUME NEW s \in {"confirmed", "reverted", "discarded_unreported"}, pending \in Records, Archive(s)
        PROVE  Exact(pending, history)' /\ PendingStep
    <3>1. pending # NoPending
      BY <2>3 DEF Records, NoPending, NoTest, Tests
    <3>. QED
      BY <2>3, <3>1, ArchiveKeeps DEF CoreInv, PendingStep
  <2>. QED
    BY <2>1, <2>2, <2>3
<1>. QED
  BY <1>1, <1>2 DEF CoreInv
(* The owner's and the clock's steps relabel the pending test.             *)
LEMMA RelabelSteps ==
  ASSUME CoreInv, Confirm \/ Cancel \/ WindowLapses \/ GetStatus
  PROVE  /\ Relabels /\ UNCHANGED <<saved, lastId, coreCrashes>> /\ CoreOnly
         /\ confirmed' \subseteq 1..lastId /\ pending'.applied = pending.applied
         /\ \/ confirmed' = confirmed /\ (pending'.status = "confirmed" <=> pending.status = "confirmed")
            \/ confirmed' = confirmed \cup {pending.id} /\ pending'.status = "confirmed"
<1>1. pending \in SlotRecs /\ pending.id \in 0..lastId /\ confirmed \subseteq 1..lastId
  BY DEF CoreInv, Exact
<1>2. ASSUME pending # NoPending PROVE pending \in Records /\ pending.id \in 1..lastId
  BY <1>1, <1>2 DEF SlotRecs, Records, Tests
<1>3. CASE Confirm
  BY <1>1, <1>2, <1>3 DEF Confirm, Undecided, Relabels, Records, Statuses
<1>4. CASE Cancel
  BY <1>1, <1>2, <1>4 DEF Cancel, Undecided, Relabels, Records, Statuses
<1>5. CASE WindowLapses
  BY <1>1, <1>2, <1>5 DEF WindowLapses, Relabels, Records
<1>6. CASE GetStatus
  <2>1. pending.status = "testing" /\ pending' = [pending EXCEPT !.status = "expired_unreported"]
    BY <1>6 DEF GetStatus, LazilyExpired
  <2>2. pending # NoPending
    BY <2>1 DEF NoPending
  <2>. QED
    BY <1>1, <1>2, <1>6, <2>1, <2>2 DEF GetStatus, Relabels, Records, Statuses
<1>. QED
  BY <1>3, <1>4, <1>5, <1>6

(* Every step keeps Core's invariant.                                      *)
LEMMA CoreStep == CoreInv /\ AddonInv /\ [Next]_vars => CoreInv' /\ PendingStep
<1> SUFFICES ASSUME CoreInv, AddonInv, [Next]_vars PROVE CoreInv' /\ PendingStep
  OBVIOUS
<1>0. confirmed \subseteq 1..lastId /\ lastId \in 0..MaxTests /\ MaxTests \in Nat
  BY FirewallAssumption DEF CoreInv
<1>1. ASSUME Keep, UNCHANGED <<saved, lastId, coreCrashes, confirmed>> PROVE CoreInv' /\ PendingStep
  BY <1>0, <1>1, CoreMoves
<1>quiet. ASSUME Quiet PROVE CoreInv' /\ PendingStep
  BY <1>1, <1>quiet DEF Quiet, coreVars, Keep
<1>report. ASSUME NEW id \in Tests, NEW status \in {"confirmed", "reverted"}, SendReport(id, status)
           PROVE  CoreInv' /\ PendingStep
  BY <1>0, <1>report, ReportCases, CoreMoves
<1>poll. ASSUME NextCommand(poller.id), UNCHANGED <<saved, lastId, coreCrashes, confirmed>>
         PROVE  CoreInv' /\ PendingStep
  <2>1. poller.id \in Tests \cup {NoTest}
    BY DEF AddonInv, AddonShape
  <2>. QED
    BY <1>0, <1>poll, <2>1, PollCases, CoreMoves
<1>2. CASE Propose
  <2>1. /\ pending = NoPending /\ lastId' = lastId + 1 /\ lastId' \in 1..MaxTests
        /\ pending' = [id |-> lastId + 1, status |-> "testing", applied |-> FALSE, lapsed |-> FALSE]
        /\ UNCHANGED <<history, saved, coreCrashes, confirmed>>
    BY <1>0, <1>2 DEF Propose
  <2>2. pending' \in Records /\ pending'.id = lastId'
    BY <2>1 DEF Records, Tests, Statuses
  <2>3. Exact(pending, history)'
    <3>1. \A i \in 1..Len(history) : history[i].id \in 1..lastId
      BY DEF CoreInv, Exact
    <3>. QED
      BY <1>0, <2>1, <2>2, <3>1 DEF CoreInv, Exact, SlotRecs
  <2>4. Exact(saved.pending, saved.history)'
    BY <1>0, <2>1 DEF CoreInv, Exact
  <2>. QED
    BY <1>0, <2>1, <2>3, <2>4 DEF CoreInv, PendingStep
<1>3. CASE Confirm \/ Cancel \/ WindowLapses \/ GetStatus
  BY <1>3, RelabelSteps, CoreMoves
<1>4. CASE DiscardPending
  <2>1. pending \in Records
    BY <1>4 DEF DiscardPending, CoreInv, Exact, SlotRecs
  <2>. QED
    BY <1>0, <1>4, <2>1, CoreMoves DEF DiscardPending
<1>5. CASE Save
  <2>1. /\ UNCHANGED <<pending, history, lastId, coreCrashes, confirmed>>
        /\ saved' = [pending |-> pending, history |-> history]
    BY <1>5 DEF Save
  <2>2. saved' \in [pending : SlotRecs, history : Seq(Archives)] /\ saved'.pending = pending /\ saved'.history = history
    BY <2>1 DEF CoreInv, Exact
  <2>. QED
    BY <2>1, <2>2 DEF CoreInv, Exact, PendingStep
<1>6. CASE CoreCrash
  <2>1. /\ UNCHANGED <<saved, lastId, confirmed>> /\ pending' = saved.pending /\ history' = saved.history
        /\ coreCrashes' = coreCrashes + 1
    BY <1>6 DEF CoreCrash
  <2>2. coreCrashes' # coreCrashes
    BY <2>1 DEF AddonInv, AddonShape
  <2>. QED
    BY <2>1, <2>2 DEF CoreInv, Exact, PendingStep
<1>7. CASE PollerNext
  <2>1. CASE \/ Start \/ StartRecovery \/ Finish \/ Clear \/ Top \/ Wake \/ Got \/ Backup \/ WriteCurrent
             \/ Flush \/ Load \/ Arm \/ Restore \/ ConfirmCheck \/ Touch
    BY <1>quiet, <2>1 DEF Start, StartRecovery, Finish, Clear, Top, Wake, Got, Backup, WriteCurrent, Flush,
                          Load, Arm, Restore, ConfirmCheck, Touch
  <2>2. CASE PollDelivered \/ PollLost
    BY <1>1, <1>poll, <2>2 DEF PollDelivered, PollLost
  <2>3. CASE Report
    <3>1. poller.id \in Tests
      BY <2>3 DEF Report, AddonInv, PollerHolds, Busy, XPcs, CPcs, JPcs
    <3>. QED
      BY <1>report, <2>3, <3>1 DEF Report
  <2>4. CASE PollerReverts
    <3>1. poller.id \in Tests
      BY <2>4 DEF PollerReverts, AddonInv, PollerHolds, Busy
    <3>2. Quiet \/ SendReport(poller.id, "reverted")
      BY <2>4 DEF PollerReverts, RevertEffect, RevertPcs
    <3>. QED
      BY <1>quiet, <1>report, <3>1, <3>2
  <2>. QED
    BY <1>7, <2>1, <2>2, <2>3, <2>4 DEF PollerNext
<1>8. ASSUME NEW t \in Tests, TimerNext(t) PROVE CoreInv' /\ PendingStep
  <2>1. Quiet \/ SendReport(t, "reverted")
    BY <1>8 DEF TimerNext, TimerFires, TimerStep, RevertEffect, RevertPcs
  <2>. QED
    BY <1>quiet, <1>report, <2>1
<1>9. CASE PollerExit \/ ContainerKill \/ UNCHANGED vars
  BY <1>quiet, <1>9 DEF PollerExit, ContainerKill, vars, Quiet
<1>. QED
  BY <1>2, <1>3, <1>4, <1>5, <1>6, <1>7, <1>8, <1>9 DEF Next, CoreNext
-----------------------------------------------------------------------------
(* The add-on's part.                                                      *)

PollerRecs == [pc : PollerPcs, id : Tests \cup {NoTest}, ret : {"top", "sleep", "down"}]

LEMMA GotoMoves ==
  ASSUME poller \in PollerRecs, NEW pc \in PollerPcs, Goto(pc)
  PROVE  poller' \in PollerRecs /\ poller'.pc = pc /\ poller'.id = poller.id /\ poller'.ret = poller.ret
BY DEF Goto, PollerRecs

(* A step of the poller that changes no timer and no bound keeps the       *)
(* add-on's invariant if it keeps the poller's own part.                   *)
LEMMA PollerMoves ==
  ASSUME AddonInv, UNCHANGED <<coreCrashes, stops, torn, timer>>, poller' \in PollerRecs,
         chain' \subseteq Tests \cup {Base}, cur' \in Tests \cup {NoTest},
         marker' \subseteq Tests, marker \subseteq marker',
         backup' \in [Tests -> SUBSET (Tests \cup {Base})],
         cur' = cur \/ cur = NoTest \/ cur \in marker,
         PollerHolds'
  PROVE  AddonInv'
<1>1. AddonShape'
  BY DEF AddonInv, AddonShape, PollerRecs
<1>2. ArmedIsCurrent'
  BY DEF AddonInv, AddonShape, ArmedIsCurrent, NoTest, Tests
<1>. QED
  BY <1>1, <1>2 DEF AddonInv

(* The five steps of a revert, run by the process that is at pc.           *)
LEMMA RevertCases ==
  ASSUME NEW pc \in RevertPcs, NEW id \in Tests, RevertEffect(pc, id)
  PROVE  \/ pc = "rCheck" /\ UNCHANGED <<chain, fileVars>> /\ Quiet
              /\ RevertNext(pc, id) = (IF id \in marker THEN "done" ELSE "rTouch")
         \/ pc = "rTouch" /\ marker' = marker \cup {id} /\ UNCHANGED <<chain, cur, backup>> /\ Quiet
              /\ RevertNext(pc, id) = "rFlush"
         \/ pc = "rFlush" /\ chain' = {} /\ UNCHANGED fileVars /\ Quiet /\ RevertNext(pc, id) = "rLoad"
         \/ pc = "rLoad" /\ chain' = chain \cup backup[id] /\ UNCHANGED fileVars /\ Quiet
              /\ RevertNext(pc, id) = "rReport"
         \/ pc = "rReport" /\ SendReport(id, "reverted") /\ UNCHANGED <<chain, fileVars>>
              /\ RevertNext(pc, id) = "done"
BY DEF RevertPcs, RevertEffect, RevertNext, AfterCheck

LEMMA PollerStepKeeps == AddonInv /\ CoreInv /\ PollerNext => AddonInv'
<1> SUFFICES ASSUME AddonInv, CoreInv, PollerNext PROVE AddonInv'
  OBVIOUS
<1> USE DEF PollerPcs, RevertPcs, ApplyPcs, XPcs, CPcs, JPcs, Busy, NoTest
<1>0. /\ chain \subseteq Tests \cup {Base} /\ cur \in Tests \cup {NoTest} /\ marker \subseteq Tests
      /\ backup \in [Tests -> SUBSET (Tests \cup {Base})] /\ poller \in PollerRecs /\ PollerHolds
      /\ 0 \notin Tests
  BY DEF AddonInv, AddonShape, PollerRecs, Tests
<1>id. poller.pc \in PollerPcs /\ poller.id \in Tests \cup {NoTest}
  BY <1>0 DEF PollerRecs
<1>start. CASE Start
  <2>1. poller' \in PollerRecs /\ poller'.pc = "start"
    BY <1>start DEF Start, PollerRecs
  <2>. QED
    BY <1>0, <1>start, <2>1, PollerMoves DEF Start, NoFiles, fileVars, Idle, Quiet, coreVars, PollerHolds
<1>recover. CASE StartRecovery \/ Finish
  <2>1. /\ poller' \in PollerRecs /\ poller'.id = cur
        /\ \/ poller'.pc = "rCheck" /\ cur # NoTest /\ cur \notin marker
           \/ poller'.pc = "clear" /\ (cur = NoTest \/ cur \in marker)
           \/ poller'.pc = "down"
    BY <1>0, <1>recover DEF StartRecovery, Finish, PollerRecs
  <2>2. UNCHANGED <<chain, cur, marker, backup, coreCrashes, timer, stops, torn>>
    BY <1>recover DEF StartRecovery, Finish, NoFiles, fileVars, Idle, Quiet, coreVars
  <2>. QED
    BY <1>0, <2>1, <2>2, PollerMoves DEF PollerHolds
<1>clear. CASE Clear
  <2>1. poller' \in PollerRecs /\ poller'.pc \in {"top", "sleep", "down"}
    BY <1>0, <1>clear DEF Clear, Goto, PollerRecs
  <2>2. UNCHANGED <<chain, marker, backup, coreCrashes, timer, stops, torn>> /\ cur' = NoTest
        /\ (cur = NoTest \/ cur \in marker)
    BY <1>0, <1>clear DEF Clear, At, Idle, Quiet, coreVars, PollerHolds
  <2>. QED
    BY <1>0, <2>1, <2>2, PollerMoves DEF PollerHolds
<1>top. CASE Top
  <2>1. /\ poller' \in PollerRecs /\ poller'.pc = "poll" /\ poller'.id = cur'
        /\ \/ cur' = cur
           \/ cur' = NoTest /\ cur \in marker
    BY <1>0, <1>top DEF Top, PollerRecs
  <2>2. UNCHANGED <<chain, marker, backup, coreCrashes, timer, stops, torn>>
    BY <1>top DEF Top, Idle, Quiet, coreVars
  <2>. QED
    BY <1>0, <2>1, <2>2, PollerMoves DEF PollerHolds
<1>poll. CASE PollDelivered
  <2>1. poller.pc = "poll" /\ cur = poller.id
    BY <1>0, <1>poll DEF PollDelivered, At, PollerHolds
  <2>2. \/ Command(poller.id) = [act |-> "none", id |-> NoTest]
        \/ Command(poller.id) = [act |-> "apply", id |-> pending.id] /\ pending # NoPending
        \/ \E a \in {"confirm", "revert"} :
             Command(poller.id) = [act |-> a, id |-> pending.id] /\ pending # NoPending /\ poller.id = pending.id
    BY DEF Command
  <2>3. pending # NoPending => pending.id \in Tests
    BY DEF CoreInv, Exact, SlotRecs, Records
  <2>4. /\ poller' \in PollerRecs
        /\ \/ poller'.pc = "sleep"
           \/ poller'.pc = "got" /\ poller'.id \in Tests
           \/ poller'.pc \in {"cCheck", "rCheck"} /\ poller'.id = poller.id /\ poller.id \in Tests
    <3>1. PICK p, c :
            /\ poller' = [poller EXCEPT !.pc = p, !.id = c]
            /\ p = (CASE Command(poller.id).act = "apply"   -> "got"
                     [] Command(poller.id).act = "confirm" -> "cCheck"
                     [] Command(poller.id).act = "revert"  -> "rCheck"
                     [] OTHER                              -> "sleep")
            /\ c = Command(poller.id).id
      BY <1>poll DEF PollDelivered
    <3>2. \/ p = "sleep" /\ c = NoTest
          \/ p = "got" /\ c \in Tests
          \/ p \in {"cCheck", "rCheck"} /\ c = poller.id /\ c \in Tests
      BY <2>2, <2>3, <3>1
    <3>. QED
      BY <1>0, <3>1, <3>2 DEF PollerRecs
  <2>5. UNCHANGED <<chain, cur, marker, backup, coreCrashes, timer, stops, torn>>
    BY <1>poll DEF PollDelivered, NoFiles, fileVars, Idle
  <2>. QED
    BY <1>0, <2>1, <2>4, <2>5, PollerMoves DEF PollerHolds
<1>lost. CASE PollLost \/ Wake
  <2>1. poller' \in PollerRecs /\ poller'.pc \in {"sleep", "top"}
    BY <1>0, <1>lost, GotoMoves DEF PollLost, Wake
  <2>2. UNCHANGED <<chain, cur, marker, backup, coreCrashes, timer, stops, torn>>
    BY <1>lost DEF PollLost, Wake, NoFiles, fileVars, Idle, Quiet, coreVars
  <2>. QED
    BY <1>0, <2>1, <2>2, PollerMoves DEF PollerHolds
<1>got. CASE Got
  <2>1. /\ poller' \in PollerRecs /\ poller'.id = poller.id /\ poller.pc = "got"
        /\ \/ poller'.pc = "sleep"
           \/ poller'.pc \in {"aBackup", "jTouch"} /\ (cur = NoTest \/ cur \in marker)
    BY <1>0, <1>got, GotoMoves DEF Got, At
  <2>2. UNCHANGED <<chain, cur, marker, backup, coreCrashes, timer, stops, torn>>
    BY <1>got DEF Got, NoFiles, fileVars, Idle, Quiet, coreVars
  <2>. QED
    BY <1>0, <2>1, <2>2, PollerMoves DEF PollerHolds
<1>backup. CASE Backup
  <2>1. /\ poller' \in PollerRecs /\ poller'.id = poller.id /\ poller.pc = "aBackup"
        /\ poller'.pc \in {"aWrite", "jTouch"}
    BY <1>0, <1>backup, GotoMoves DEF Backup, At
  <2>2. /\ UNCHANGED <<chain, cur, marker, coreCrashes, timer, stops, torn>>
        /\ backup' = backup \/ backup' = [backup EXCEPT ![poller.id] = chain]
    BY <1>backup DEF Backup, Idle, Quiet, coreVars
  <2>3. backup' \in [Tests -> SUBSET (Tests \cup {Base})]
    BY <1>0, <2>2
  <2>. QED
    BY <1>0, <2>1, <2>2, <2>3, PollerMoves DEF PollerHolds
<1>write. CASE WriteCurrent
  <2>1. poller' \in PollerRecs /\ poller'.id = poller.id /\ poller.pc = "aWrite" /\ poller'.pc = "aFlush"
    BY <1>0, <1>write, GotoMoves DEF WriteCurrent, At
  <2>2. UNCHANGED <<chain, marker, backup, coreCrashes, timer, stops, torn>> /\ cur' = poller.id
    BY <1>write DEF WriteCurrent, Idle, Quiet, coreVars
  <2>. QED
    BY <1>0, <2>1, <2>2, PollerMoves DEF PollerHolds
<1>chain. CASE Flush \/ Load \/ Restore
  <2>1. /\ poller' \in PollerRecs /\ poller'.id = poller.id
        /\ poller.pc \in {"aFlush", "aLoad", "xFlush", "xLoad"}
        /\ poller'.pc \in {"aLoad", "xLoad", "aArm", "xFlush", "xTouch"}
    BY <1>0, <1>chain, GotoMoves DEF Flush, Load, Restore, At
  <2>2. /\ UNCHANGED <<cur, marker, backup, coreCrashes, timer, stops, torn>>
        /\ chain' \subseteq chain \cup {poller.id} \cup backup[poller.id]
    BY <1>chain DEF Flush, Load, Restore, fileVars, Idle, Quiet, coreVars
  <2>3. poller.id \in Tests
    BY <1>0, <2>1 DEF PollerHolds
  <2>4. chain' \subseteq Tests \cup {Base}
    BY <1>0, <2>2, <2>3
  <2>. QED
    BY <1>0, <2>1, <2>2, <2>4, PollerMoves DEF PollerHolds
<1>check. CASE ConfirmCheck
  <2>1. /\ poller' \in PollerRecs /\ poller'.id = poller.id /\ poller.pc = "cCheck"
        /\ \/ poller'.pc = "clear" /\ poller.id \in marker
           \/ poller'.pc = "cTouch"
    BY <1>0, <1>check, GotoMoves DEF ConfirmCheck, At
  <2>2. UNCHANGED <<chain, cur, marker, backup, coreCrashes, timer, stops, torn>>
    BY <1>check DEF ConfirmCheck, NoFiles, fileVars, Idle, Quiet, coreVars
  <2>. QED
    BY <1>0, <2>1, <2>2, PollerMoves DEF PollerHolds
<1>touch. CASE Touch
  <2>1. /\ poller' \in PollerRecs /\ poller'.id = poller.id
        /\ \/ poller.pc = "cTouch" /\ poller'.pc = "cReport"
           \/ poller.pc = "jTouch" /\ poller'.pc = "jReport"
           \/ poller.pc = "xTouch" /\ poller'.pc = "xReport"
    BY <1>0, <1>touch, GotoMoves DEF Touch, At
  <2>2. /\ UNCHANGED <<chain, cur, backup, coreCrashes, timer, stops, torn>>
        /\ marker' = marker \cup {poller.id}
    BY <1>touch DEF Touch, Idle, Quiet, coreVars
  <2>3. poller.id \in Tests
    BY <1>0, <2>1 DEF PollerHolds
  <2>. QED
    BY <1>0, <2>1, <2>2, <2>3, PollerMoves DEF PollerHolds
<1>report. CASE Report
  <2>1. /\ poller' \in PollerRecs /\ poller'.id = poller.id
        /\ \/ poller.pc \in {"cReport", "xReport"} /\ poller'.pc = "clear"
           \/ poller.pc = "jReport" /\ poller'.pc = "sleep"
    BY <1>0, <1>report, GotoMoves DEF Report, At
  <2>2. UNCHANGED <<chain, cur, marker, backup, coreCrashes, timer, stops, torn>>
    BY <1>report DEF Report, SendReport, NoFiles, fileVars, Idle
  <2>. QED
    BY <1>0, <2>1, <2>2, PollerMoves DEF PollerHolds
<1>revert. CASE PollerReverts
  <2>1. poller.pc \in RevertPcs /\ poller.id \in Tests /\ RevertEffect(poller.pc, poller.id) /\ cur = poller.id
    BY <1>0, <1>revert DEF PollerReverts, PollerHolds
  <2>2. /\ UNCHANGED <<cur, backup, coreCrashes, timer, stops, torn>>
        /\ chain' \subseteq chain \cup backup[poller.id]
        /\ marker' \subseteq marker \cup {poller.id} /\ marker \subseteq marker'
    BY <1>revert, <2>1, RevertCases DEF PollerReverts, Idle, Quiet, coreVars, fileVars, SendReport
  <2>3. /\ poller' \in PollerRecs /\ poller'.id = poller.id
        /\ \/ poller'.pc = "clear" /\ poller.id \in marker
           \/ poller'.pc = "rTouch"
           \/ poller'.pc \in {"rFlush", "rLoad", "rReport"} /\ poller.id \in marker'
    <3>1. Goto(IF RevertNext(poller.pc, poller.id) = "done" THEN "clear" ELSE RevertNext(poller.pc, poller.id))
      BY <1>revert DEF PollerReverts
    <3>2. \/ RevertNext(poller.pc, poller.id) = "done" /\ poller.id \in marker
          \/ RevertNext(poller.pc, poller.id) = "rTouch"
          \/ RevertNext(poller.pc, poller.id) \in {"rFlush", "rLoad", "rReport"} /\ poller.id \in marker'
      BY <1>0, <2>1, RevertCases DEF PollerHolds, fileVars
    <3>. QED
      BY <1>0, <3>1, <3>2, GotoMoves
  <2>4. chain' \subseteq Tests \cup {Base} /\ marker' \subseteq Tests
    BY <1>0, <2>1, <2>2
  <2>. QED
    BY <1>0, <2>1, <2>2, <2>3, <2>4, PollerMoves DEF PollerHolds
<1>arm. CASE Arm
  <2>1. /\ poller' \in PollerRecs /\ poller'.id = poller.id /\ poller.pc = "aArm" /\ poller'.pc = "sleep"
        /\ poller.id \in Tests /\ cur = poller.id
    BY <1>0, <1>arm, GotoMoves DEF Arm, At, PollerHolds
  <2>2. /\ UNCHANGED <<chain, cur, marker, backup, coreCrashes, stops, torn>>
        /\ \E pc \in {timer[poller.id], "asleep"} : timer' = [timer EXCEPT ![poller.id] = pc]
    BY <1>arm DEF Arm, NoFiles, fileVars, Quiet, coreVars
  <2>3. timer' \in [Tests -> TimerPcs] /\ \A t \in Tests : t # poller.id => timer'[t] = timer[t]
    BY <2>1, <2>2 DEF AddonInv, AddonShape, TimerPcs
  <2>4. AddonShape'
    BY <2>1, <2>2, <2>3 DEF AddonInv, AddonShape, PollerRecs
  <2>5. PollerHolds'
    BY <2>1, <2>2 DEF PollerHolds
  <2>6. ArmedIsCurrent'
    BY <2>1, <2>2, <2>3 DEF AddonInv, ArmedIsCurrent
  <2>. QED
    BY <2>4, <2>5, <2>6 DEF AddonInv
<1>. QED
  BY <1>start, <1>recover, <1>clear, <1>top, <1>poll, <1>lost, <1>got, <1>backup, <1>write, <1>chain,
     <1>check, <1>touch, <1>report, <1>revert, <1>arm DEF PollerNext
(* Every step keeps the add-on's invariant.                                *)
LEMMA AddonStep == AddonInv /\ CoreInv /\ [Next]_vars => AddonInv'
<1> SUFFICES ASSUME AddonInv, CoreInv, [Next]_vars PROVE AddonInv'
  OBVIOUS
<1> USE DEF RevertPcs, TimerPcs
<1>1. ASSUME UNCHANGED <<chain, fileVars, poller, timer, stops, torn>>,
             coreCrashes' \in Nat, coreCrashes' + stops <= MaxFaults
      PROVE  AddonInv'
  BY <1>1 DEF AddonInv, AddonShape, PollerHolds, ArmedIsCurrent, fileVars
<1>2. CASE CoreNext \/ UNCHANGED vars
  <2>1. UNCHANGED <<chain, fileVars, poller, timer, stops, torn>>
    BY <1>2 DEF CoreNext, Propose, Confirm, Cancel, WindowLapses, GetStatus, DiscardPending, Save,
                CoreCrash, CoreOnly, addonVars, vars
  <2>2. coreCrashes' \in Nat /\ coreCrashes' + stops <= MaxFaults
    BY <1>2, FirewallAssumption
       DEF CoreNext, Propose, Confirm, Cancel, WindowLapses, GetStatus, DiscardPending, Save,
           CoreCrash, FaultsLeft, vars, coreVars, AddonInv, AddonShape
  <2>. QED
    BY <1>1, <2>1, <2>2
<1>3. CASE PollerNext
  BY <1>3, PollerStepKeeps
<1>4. ASSUME NEW t \in Tests, TimerNext(t) PROVE AddonInv'
  <2>0. timer \in [Tests -> TimerPcs] /\ marker \subseteq Tests
        /\ backup \in [Tests -> SUBSET (Tests \cup {Base})] /\ chain \subseteq Tests \cup {Base}
    BY DEF AddonInv, AddonShape
  <2>1. UNCHANGED <<cur, backup, poller, stops, torn, coreCrashes>>
        /\ chain' \subseteq chain \cup backup[t] /\ marker' \subseteq marker \cup {t} /\ marker \subseteq marker'
    <3>1. CASE TimerFires(t)
      BY <3>1 DEF TimerFires, fileVars, Quiet, coreVars
    <3>2. CASE TimerStep(t)
      BY <3>2, RevertCases DEF TimerStep, fileVars, Quiet, coreVars, SendReport
    <3>. QED
      BY <1>4, <3>1, <3>2 DEF TimerNext
  <2>2. \E pc \in RevertPcs \cup {"none"} : timer' = [timer EXCEPT ![t] = pc]
    <3>1. CASE TimerFires(t)
      BY <3>1 DEF TimerFires
    <3>2. CASE TimerStep(t)
      BY <3>2, RevertCases DEF TimerStep
    <3>. QED
      BY <1>4, <3>1, <3>2 DEF TimerNext
  <2>3. timer' \in [Tests -> TimerPcs] /\ \A u \in Tests : timer'[u] = "asleep" => timer[u] = "asleep"
    BY <2>0, <2>2
  <2>4. AddonShape'
    BY <2>0, <2>1, <2>3 DEF AddonInv, AddonShape
  <2>5. PollerHolds'
    BY <2>1 DEF AddonInv, PollerHolds
  <2>6. ArmedIsCurrent'
    BY <2>1, <2>3 DEF AddonInv, ArmedIsCurrent
  <2>. QED
    BY <2>4, <2>5, <2>6 DEF AddonInv
<1>5. CASE PollerExit \/ ContainerKill
  <2>1. /\ UNCHANGED <<chain, cur, marker, backup, coreCrashes>>
        /\ timer' = timer \/ timer' = [t \in Tests |-> "none"]
    BY <1>5 DEF PollerExit, ContainerKill, NoFiles, fileVars, Quiet, coreVars
  <2>2. poller' \in PollerRecs /\ poller'.pc \in {"finish", "down"}
    BY <1>5 DEF PollerExit, ContainerKill, PollerRecs, PollerPcs, NoTest
  <2>3. stops' \in Nat /\ coreCrashes + stops' <= MaxFaults /\ torn' \in BOOLEAN
    <3>1. stops' = stops + 1 /\ FaultsLeft
      BY <1>5 DEF PollerExit, ContainerKill
    <3>2. torn' \in BOOLEAN
      BY <1>5, Zenon DEF PollerExit, ContainerKill
    <3>. QED
      BY <3>1, <3>2, FirewallAssumption DEF FaultsLeft, AddonInv, AddonShape
  <2>4. AddonShape'
    BY <2>1, <2>2, <2>3 DEF AddonInv, AddonShape, PollerRecs
  <2>5. PollerHolds'
    BY <2>2 DEF PollerHolds, Busy, ApplyPcs, XPcs, CPcs, JPcs
  <2>6. ArmedIsCurrent'
    BY <2>1 DEF AddonInv, ArmedIsCurrent
  <2>. QED
    BY <2>4, <2>5, <2>6 DEF AddonInv
<1>. QED
  BY <1>2, <1>3, <1>4, <1>5 DEF Next

(* Everything starts at rest.                                              *)
LEMMA FirewallInit == Init => CoreInv /\ AddonInv
<1> SUFFICES ASSUME Init PROVE CoreInv /\ AddonInv
  OBVIOUS
<1> USE FirewallAssumption DEF Init
<1>1. NoPending \in SlotRecs /\ NoPending.id = 0
  BY DEF SlotRecs, NoPending, NoTest
<1>2. Exact(pending, history) /\ Exact(saved.pending, saved.history)
  BY <1>1 DEF Exact
<1>3. CoreInv
  <2>1. saved \in [pending : SlotRecs, history : Seq(Archives)] /\ lastId \in 0..MaxTests /\ confirmed \subseteq 1..lastId
    BY <1>1
  <2>. QED
    BY <1>2, <2>1 DEF CoreInv
<1>4. AddonShape
  <2>1. chain \subseteq Tests \cup {Base} /\ cur \in Tests \cup {NoTest} /\ marker \subseteq Tests
    OBVIOUS
  <2>2. backup \in [Tests -> SUBSET (Tests \cup {Base})] /\ timer \in [Tests -> TimerPcs]
    BY DEF TimerPcs
  <2>3. poller \in [pc : PollerPcs, id : Tests \cup {NoTest}, ret : {"top", "sleep", "down"}]
    BY DEF PollerPcs
  <2>4. coreCrashes \in Nat /\ stops \in Nat /\ coreCrashes + stops <= MaxFaults
    OBVIOUS
  <2>5. torn \in BOOLEAN
    BY Zenon
  <2>. QED
    BY <2>1, <2>2, <2>3, <2>4, <2>5 DEF AddonShape
<1>5. PollerHolds /\ ArmedIsCurrent
  BY DEF PollerHolds, ArmedIsCurrent, Busy, RevertPcs, ApplyPcs, XPcs, CPcs, JPcs
<1>. QED
  BY <1>3, <1>4, <1>5 DEF AddonInv

LEMMA BothHold == Spec => [](CoreInv /\ AddonInv)
<1>1. CoreInv /\ AddonInv /\ [Next]_vars => (CoreInv /\ AddonInv)'
  BY CoreStep, AddonStep
<1>. QED
  BY FirewallInit, <1>1, PTL DEF Spec

LEMMA TypesFollow == CoreInv /\ AddonInv => TypeOK /\ ArchivedOnce
<1> SUFFICES ASSUME CoreInv, AddonInv PROVE TypeOK /\ ArchivedOnce
  OBVIOUS
<1>1. ArchivedOnce
  BY DEF CoreInv, Exact, ArchivedOnce
<1>2. confirmed \subseteq Tests
  BY FirewallAssumption DEF CoreInv, Tests
<1>3. coreCrashes \in 0..MaxFaults /\ stops \in 0..MaxFaults
  BY FirewallAssumption DEF AddonInv, AddonShape
<1>4. TypeOK
  BY <1>2, <1>3 DEF CoreInv, Exact, SlotRecs, AddonInv, AddonShape, TypeOK
<1>. QED
  BY <1>1, <1>4

(* Core's slot and history stay exact through every lost call, late report *)
(* and crash: a test leaves the slot only into the history, a decision     *)
(* stands, and no test is archived twice (FirewallManager._archive,        *)
(* report_from_addon, next_command).                                       *)
THEOREM HistoryHolds == Spec => HistoryExact
<1>1. CoreInv /\ AddonInv /\ [Next]_vars => [PendingStep]_vars
  BY CoreStep
<1>2. Spec => [](TypeOK /\ ArchivedOnce)
  BY BothHold, TypesFollow, PTL
<1>3. Spec => [][PendingStep]_vars
  BY BothHold, <1>1, PTL DEF Spec
<1>4. [][PendingStep]_vars => PendingOnlyArchived
  BY DEF PendingStep, PendingOnlyArchived
<1>. QED
  BY <1>2, <1>3, <1>4, PTL DEF HistoryExact

(* While a test is armed at the host and unresolved, the poller is not     *)
(* applying another, whatever Core forgot in a crash (the run script).     *)
THEOREM OneTestHolds == Spec => []OneTestAtATime
<1>1. CoreInv /\ AddonInv => OneTestAtATime
  BY DEF AddonInv, PollerHolds, ArmedIsCurrent, OneTestAtATime
<1>. QED
  BY BothHold, <1>1, PTL
-----------------------------------------------------------------------------
(* The chain's part.  One lemma per kind of step, one step per conjunct.   *)

(* The poller moves on without touching anything.                          *)
LEMMA ControlKeeps ==
  ASSUME CoreInv, AddonInv, RulesInv,
         UNCHANGED <<chain, cur, marker, backup, timer, pending, history, lastId, confirmed>>,
         poller.pc \notin {"rFlush", "rLoad"},
         \/ poller'.pc \notin Busy /\ poller'.id \in {poller.id, cur, NoTest}
         \/ poller'.pc = "rCheck" /\ poller'.id = cur /\ cur \notin marker
         \/ poller'.pc = "rTouch" /\ poller'.id = poller.id /\ poller.id \notin marker
         \/ poller'.pc \in {"aBackup", "jTouch"} /\ poller'.id = poller.id /\ poller.pc = "got"
         \/ poller'.pc = "cTouch" /\ poller'.id = poller.id /\ poller.pc = "cCheck"
  PROVE  RulesInv'
<1> USE DEF PollerPcs, RevertPcs, ApplyPcs, XPcs, CPcs, JPcs, Busy, NoTest
<1>0. poller \in PollerRecs /\ PollerHolds /\ timer \in [Tests -> TimerPcs] /\ 0 \notin Tests
  BY DEF AddonInv, AddonShape, PollerRecs, Tests
<1>3. \A t \in Tests : Rev(t)' => Rev(t)
  BY DEF Rev
<1>4. DecidedOnce' /\ MarkedFirst' /\ ConfirmsConfirmed'
  BY <1>0, <1>3 DEF RulesInv, DecidedOnce, MarkedFirst, ConfirmsConfirmed
<1>5. UntouchedYet'
  BY <1>0, <1>3 DEF RulesInv, UntouchedYet, Fresh, NotApplied
<1>6. AppliesFresh'
  BY <1>0, <1>3 DEF RulesInv, AppliesFresh, Fresh
<1>7. ReportsGone'
  BY <1>0, <1>3 DEF RulesInv, ReportsGone
<1>8. BackupsFinal'
  BY <1>0, <1>3 DEF RulesInv, BackupsFinal, Final
<1>9. ChainAccounted'
  BY <1>0, <1>3 DEF RulesInv, ChainAccounted, Reverting, CutsRevert
<1>. QED
  BY <1>4, <1>5, <1>6, <1>7, <1>8, <1>9 DEF RulesInv

(* The poller drops a resolved test from the file, or enters a new one.    *)
LEMMA CurrentKeeps ==
  ASSUME CoreInv, AddonInv, RulesInv,
         UNCHANGED <<chain, marker, backup, timer, pending, history, lastId, confirmed>>,
         poller.pc \notin {"rFlush", "rLoad"},
         \/ /\ poller'.pc \notin Busy /\ poller'.id \in {poller.id, cur'}
            /\ cur' \in {cur, NoTest} /\ (cur' = cur \/ cur = NoTest \/ cur \in marker)
         \/ /\ poller.pc = "aWrite" /\ poller'.pc = "aFlush" /\ poller'.id = poller.id /\ cur' = poller.id
  PROVE  RulesInv'
<1> USE DEF PollerPcs, RevertPcs, ApplyPcs, XPcs, CPcs, JPcs, Busy, NoTest
<1>0. poller \in PollerRecs /\ PollerHolds /\ timer \in [Tests -> TimerPcs] /\ 0 \notin Tests
  BY DEF AddonInv, AddonShape, PollerRecs, Tests
<1>3. \A t \in Tests : Rev(t)' => Rev(t)
  BY DEF Rev
<1>4. DecidedOnce' /\ MarkedFirst' /\ ConfirmsConfirmed'
  BY <1>0, <1>3 DEF RulesInv, DecidedOnce, MarkedFirst, ConfirmsConfirmed
<1>5. UntouchedYet'
  BY <1>0, <1>3 DEF RulesInv, UntouchedYet, Fresh, NotApplied, PollerHolds
<1>6. AppliesFresh'
  BY <1>0, <1>3 DEF RulesInv, AppliesFresh, Fresh
<1>7. ReportsGone'
  BY <1>0, <1>3 DEF RulesInv, ReportsGone
<1>8. BackupsFinal'
  BY <1>0, <1>3 DEF RulesInv, BackupsFinal, Final
<1>9. ChainAccounted'
  BY <1>0, <1>3 DEF RulesInv, ChainAccounted, Reverting, CutsRevert, PollerHolds
<1>. QED
  BY <1>4, <1>5, <1>6, <1>7, <1>8, <1>9 DEF RulesInv

(* The chain is saved while no revert is at work on it.                    *)
LEMMA BackupKeeps ==
  ASSUME CoreInv, AddonInv, RulesInv,
         UNCHANGED <<chain, cur, marker, timer, pending, history, lastId, confirmed>>,
         poller.pc = "aBackup", RevertsSettled, poller'.id = poller.id, poller'.pc \in {"aWrite", "jTouch"},
         backup' = backup \/ backup' = [backup EXCEPT ![poller.id] = chain]
  PROVE  RulesInv'
<1> USE DEF PollerPcs, RevertPcs, ApplyPcs, XPcs, CPcs, JPcs, Busy, NoTest
<1>0. poller \in PollerRecs /\ PollerHolds /\ timer \in [Tests -> TimerPcs] /\ 0 \notin Tests
  BY DEF AddonInv, AddonShape, PollerRecs, Tests
<1>3. \A t \in Tests : Rev(t)' => Rev(t)
  BY DEF Rev
<1>1. ASSUME NEW t \in Tests, t \in chain PROVE Final(t)
  BY <1>0, <1>1 DEF RulesInv, AppliesFresh, ReportsGone, ChainAccounted, Reverting, CutsRevert,
                    RevertsSettled, PollerHolds, Final, TimerPcs
<1>2. backup \in [Tests -> SUBSET (Tests \cup {Base})] /\ poller.id \in Tests
  BY <1>0 DEF AddonInv, AddonShape, PollerHolds
<1>20. \A s, t \in Tests : t \in backup'[s] => Final(t)
  BY <1>1, <1>2 DEF RulesInv, BackupsFinal
<1>4. DecidedOnce' /\ MarkedFirst' /\ ConfirmsConfirmed'
  BY <1>0, <1>3, <1>20 DEF RulesInv, DecidedOnce, MarkedFirst, ConfirmsConfirmed
<1>5. UntouchedYet'
  BY <1>0, <1>3, <1>20 DEF RulesInv, UntouchedYet, Fresh, NotApplied
<1>6. AppliesFresh'
  BY <1>0, <1>3, <1>20 DEF RulesInv, AppliesFresh, Fresh
<1>7. ReportsGone'
  BY <1>0, <1>3, <1>20 DEF RulesInv, ReportsGone
<1>8. BackupsFinal'
  BY <1>0, <1>3, <1>20 DEF RulesInv, BackupsFinal, Final, AppliesFresh, Fresh
<1>9. ChainAccounted'
  BY <1>0, <1>3, <1>20 DEF RulesInv, ChainAccounted, Reverting, CutsRevert
<1>. QED
  BY <1>4, <1>5, <1>6, <1>7, <1>8, <1>9 DEF RulesInv

(* The poller marks its test as resolved.                                  *)
LEMMA TouchKeeps ==
  ASSUME CoreInv, AddonInv, RulesInv,
         UNCHANGED <<chain, cur, backup, timer, pending, history, lastId, confirmed>>,
         marker' = marker \cup {poller.id}, poller'.id = poller.id,
         \/ poller.pc = "cTouch" /\ poller'.pc = "cReport"
         \/ poller.pc = "jTouch" /\ poller'.pc = "jReport"
         \/ poller.pc = "xTouch" /\ poller'.pc = "xReport"
         \/ poller.pc = "rTouch" /\ poller'.pc = "rFlush"
  PROVE  RulesInv'
<1> USE DEF PollerPcs, RevertPcs, ApplyPcs, XPcs, CPcs, JPcs, Busy, NoTest
<1>0. poller \in PollerRecs /\ PollerHolds /\ timer \in [Tests -> TimerPcs] /\ 0 \notin Tests
  BY DEF AddonInv, AddonShape, PollerRecs, Tests
<1>3. \A t \in Tests : Rev(t)' => Rev(t)
  BY DEF Rev
<1>4. DecidedOnce' /\ MarkedFirst' /\ ConfirmsConfirmed'
  BY <1>0, <1>3 DEF RulesInv, DecidedOnce, MarkedFirst, ConfirmsConfirmed
<1>5. UntouchedYet'
  BY <1>0, <1>3 DEF RulesInv, UntouchedYet, Fresh, NotApplied
<1>6. AppliesFresh'
  BY <1>0, <1>3 DEF RulesInv, AppliesFresh, Fresh
<1>7. ReportsGone'
  BY <1>0, <1>3 DEF RulesInv, ReportsGone
<1>8. BackupsFinal'
  BY <1>0, <1>3 DEF RulesInv, BackupsFinal, Final
<1>9. ChainAccounted'
  BY <1>0, <1>3 DEF RulesInv, ChainAccounted, Reverting, CutsRevert, AppliesFresh, ReportsGone, ConfirmsConfirmed
<1>. QED
  BY <1>4, <1>5, <1>6, <1>7, <1>8, <1>9 DEF RulesInv

(* The poller empties the chain.                                           *)
LEMMA FlushKeeps ==
  ASSUME CoreInv, AddonInv, RulesInv,
         UNCHANGED <<cur, marker, backup, timer, pending, history, lastId, confirmed>>, chain' = {}, poller'.id = poller.id,
         \/ poller.pc = "aFlush" /\ poller'.pc = "aLoad"
         \/ poller.pc = "xFlush" /\ poller'.pc = "xLoad"
         \/ poller.pc = "rFlush" /\ poller'.pc = "rLoad"
  PROVE  RulesInv'
<1> USE DEF PollerPcs, RevertPcs, ApplyPcs, XPcs, CPcs, JPcs, Busy, NoTest
<1>0. poller \in PollerRecs /\ PollerHolds /\ timer \in [Tests -> TimerPcs] /\ 0 \notin Tests
  BY DEF AddonInv, AddonShape, PollerRecs, Tests
<1>3. \A t \in Tests : Rev(t)' => Rev(t)
  BY DEF Rev
<1>4. DecidedOnce' /\ MarkedFirst' /\ ConfirmsConfirmed'
  BY <1>0, <1>3 DEF RulesInv, DecidedOnce, MarkedFirst, ConfirmsConfirmed
<1>5. UntouchedYet'
  BY <1>0, <1>3 DEF RulesInv, UntouchedYet, Fresh, NotApplied
<1>6. AppliesFresh'
  BY <1>0, <1>3 DEF RulesInv, AppliesFresh, Fresh
<1>7. ReportsGone'
  BY <1>0, <1>3 DEF RulesInv, ReportsGone
<1>8. BackupsFinal'
  BY <1>0, <1>3 DEF RulesInv, BackupsFinal, Final
<1>9. ChainAccounted'
  BY <1>0, <1>3 DEF RulesInv, ChainAccounted, Reverting, CutsRevert
<1>. QED
  BY <1>4, <1>5, <1>6, <1>7, <1>8, <1>9 DEF RulesInv

(* The poller loads the rules of its test, or some of them.                *)
LEMMA LoadKeeps ==
  ASSUME CoreInv, AddonInv, RulesInv,
         UNCHANGED <<cur, marker, backup, timer, pending, history, lastId, confirmed>>, poller'.id = poller.id,
         poller.pc = "aLoad", poller'.pc \in {"aArm", "xFlush"}, chain' \in {chain, chain \cup {poller.id}}
  PROVE  RulesInv'
<1> USE DEF PollerPcs, RevertPcs, ApplyPcs, XPcs, CPcs, JPcs, Busy, NoTest
<1>0. poller \in PollerRecs /\ PollerHolds /\ timer \in [Tests -> TimerPcs] /\ 0 \notin Tests
  BY DEF AddonInv, AddonShape, PollerRecs, Tests
<1>3. \A t \in Tests : Rev(t)' => Rev(t)
  BY DEF Rev
<1>4. DecidedOnce' /\ MarkedFirst' /\ ConfirmsConfirmed'
  BY <1>0, <1>3 DEF RulesInv, DecidedOnce, MarkedFirst, ConfirmsConfirmed
<1>5. UntouchedYet'
  BY <1>0, <1>3 DEF RulesInv, UntouchedYet, Fresh, NotApplied
<1>6. AppliesFresh'
  BY <1>0, <1>3 DEF RulesInv, AppliesFresh, Fresh
<1>7. ReportsGone'
  BY <1>0, <1>3 DEF RulesInv, ReportsGone, AppliesFresh, Fresh
<1>8. BackupsFinal'
  BY <1>0, <1>3 DEF RulesInv, BackupsFinal, Final
<1>9. ChainAccounted'
  BY <1>0, <1>3 DEF RulesInv, ChainAccounted, Reverting, CutsRevert, AppliesFresh, Fresh, PollerHolds
<1>. QED
  BY <1>4, <1>5, <1>6, <1>7, <1>8, <1>9 DEF RulesInv

(* The poller loads what it had saved.                                     *)
LEMMA RestoreKeeps ==
  ASSUME CoreInv, AddonInv, RulesInv,
         UNCHANGED <<cur, marker, backup, timer, pending, history, lastId, confirmed>>, poller'.id = poller.id, poller.id \in Tests,
         chain' = chain \cup backup[poller.id],
         \/ poller.pc = "xLoad" /\ poller'.pc = "xTouch"
         \/ poller.pc = "rLoad" /\ poller'.pc = "rReport"
  PROVE  RulesInv'
<1> USE DEF PollerPcs, RevertPcs, ApplyPcs, XPcs, CPcs, JPcs, Busy, NoTest
<1>0. poller \in PollerRecs /\ PollerHolds /\ timer \in [Tests -> TimerPcs] /\ 0 \notin Tests
  BY DEF AddonInv, AddonShape, PollerRecs, Tests
<1>3. \A t \in Tests : Rev(t)' => Rev(t)
  BY DEF Rev
<1>1. \A t \in Tests : t \in backup[poller.id] => Final(t)
  BY DEF RulesInv, BackupsFinal
<1>2. poller.id \notin backup[poller.id] /\ poller.id \notin chain
  BY <1>1 DEF RulesInv, ReportsGone, Final
<1>4. DecidedOnce' /\ MarkedFirst' /\ ConfirmsConfirmed'
  BY <1>0, <1>1, <1>2, <1>3 DEF RulesInv, DecidedOnce, MarkedFirst, ConfirmsConfirmed
<1>5. UntouchedYet'
  BY <1>0, <1>1, <1>2, <1>3 DEF RulesInv, UntouchedYet, Fresh, NotApplied, Final
<1>6. AppliesFresh'
  BY <1>0, <1>1, <1>2, <1>3 DEF RulesInv, AppliesFresh, Fresh
<1>7. ReportsGone'
  BY <1>0, <1>1, <1>2, <1>3 DEF RulesInv, ReportsGone, Final
<1>8. BackupsFinal'
  BY <1>0, <1>1, <1>2, <1>3 DEF RulesInv, BackupsFinal, Final
<1>9. ChainAccounted'
  BY <1>0, <1>1, <1>2, <1>3 DEF RulesInv, ChainAccounted, Reverting, CutsRevert, Final
<1>. QED
  BY <1>4, <1>5, <1>6, <1>7, <1>8, <1>9 DEF RulesInv

(* The poller arms the timer of its test.                                  *)
LEMMA ArmKeeps ==
  ASSUME CoreInv, AddonInv, RulesInv,
         UNCHANGED <<chain, cur, marker, backup, pending, history, lastId, confirmed>>, poller'.id = poller.id,
         poller.pc = "aArm", poller'.pc = "sleep", poller.id \in Tests,
         timer' = [timer EXCEPT ![poller.id] = IF @ = "none" THEN "asleep" ELSE @]
  PROVE  RulesInv'
<1> USE DEF PollerPcs, RevertPcs, ApplyPcs, XPcs, CPcs, JPcs, Busy, NoTest
<1>0. poller \in PollerRecs /\ PollerHolds /\ timer \in [Tests -> TimerPcs] /\ 0 \notin Tests
  BY DEF AddonInv, AddonShape, PollerRecs, Tests
<1>3. \A t \in Tests : Rev(t)' => Rev(t)
  BY DEF Rev
<1>1. timer[poller.id] = "none"
  BY DEF RulesInv, AppliesFresh, Fresh
<1>2. timer' = [timer EXCEPT ![poller.id] = "asleep"]
  BY <1>1
<1>4. DecidedOnce' /\ MarkedFirst' /\ ConfirmsConfirmed'
  BY <1>0, <1>1, <1>2, <1>3 DEF RulesInv, DecidedOnce, MarkedFirst, ConfirmsConfirmed
<1>5. UntouchedYet'
  BY <1>0, <1>1, <1>2, <1>3 DEF RulesInv, UntouchedYet, Fresh, NotApplied
<1>6. AppliesFresh'
  BY <1>0, <1>1, <1>2, <1>3 DEF RulesInv, AppliesFresh, Fresh
<1>7. ReportsGone'
  BY <1>0, <1>1, <1>2, <1>3 DEF RulesInv, ReportsGone
<1>8. BackupsFinal'
  BY <1>0, <1>1, <1>2, <1>3 DEF RulesInv, BackupsFinal, Final
<1>9. ChainAccounted'
  BY <1>0, <1>1, <1>2, <1>3 DEF RulesInv, ChainAccounted, Reverting, CutsRevert
<1>. QED
  BY <1>4, <1>5, <1>6, <1>7, <1>8, <1>9 DEF RulesInv

(* Every process ends while none is between a revert's marker and its load. *)
LEMMA KillKeeps ==
  ASSUME CoreInv, AddonInv, RulesInv,
         UNCHANGED <<chain, cur, marker, backup, pending, history, lastId, confirmed>>, poller'.id = NoTest, poller'.pc = "down",
         poller.pc \notin {"rFlush", "rLoad"}, \A t \in Tests : timer[t] \notin {"rFlush", "rLoad"},
         timer' = [t \in Tests |-> "none"]
  PROVE  RulesInv'
<1> USE DEF PollerPcs, RevertPcs, ApplyPcs, XPcs, CPcs, JPcs, Busy, NoTest
<1>0. poller \in PollerRecs /\ PollerHolds /\ timer \in [Tests -> TimerPcs] /\ 0 \notin Tests
  BY DEF AddonInv, AddonShape, PollerRecs, Tests
<1>3. \A t \in Tests : Rev(t)' => Rev(t)
  BY DEF Rev
<1>4. DecidedOnce' /\ MarkedFirst' /\ ConfirmsConfirmed'
  BY <1>0, <1>3 DEF RulesInv, DecidedOnce, MarkedFirst, ConfirmsConfirmed
<1>5. UntouchedYet'
  BY <1>0, <1>3 DEF RulesInv, UntouchedYet, Fresh, NotApplied
<1>6. AppliesFresh'
  BY <1>0, <1>3 DEF RulesInv, AppliesFresh, Fresh
<1>7. ReportsGone'
  BY <1>0, <1>3 DEF RulesInv, ReportsGone
<1>8. BackupsFinal'
  BY <1>0, <1>3 DEF RulesInv, BackupsFinal, Final
<1>9. ChainAccounted'
  BY <1>0, <1>3 DEF RulesInv, ChainAccounted, Reverting, CutsRevert
<1>. QED
  BY <1>4, <1>5, <1>6, <1>7, <1>8, <1>9 DEF RulesInv

(* A step of a timer.                                                      *)
LEMMA TimerKeeps ==
  ASSUME CoreInv, AddonInv, RulesInv,
         NEW u \in Tests, NEW pc, timer' = [timer EXCEPT ![u] = pc],
         UNCHANGED <<cur, backup, poller, pending, history, lastId, confirmed>>,
         \/ /\ timer[u] = "asleep" /\ pc = "rCheck" /\ UNCHANGED <<chain, marker>>
         \/ /\ timer[u] = "rCheck" /\ UNCHANGED <<chain, marker>>
            /\ pc = IF u \in marker THEN "none" ELSE "rTouch"
         \/ timer[u] = "rTouch" /\ pc = "rFlush" /\ marker' = marker \cup {u} /\ UNCHANGED chain
         \/ timer[u] = "rFlush" /\ pc = "rLoad" /\ chain' = {} /\ UNCHANGED marker
         \/ timer[u] = "rLoad" /\ pc = "rReport" /\ chain' = chain \cup backup[u] /\ UNCHANGED marker
  PROVE  RulesInv'
<1> USE DEF PollerPcs, RevertPcs, ApplyPcs, XPcs, CPcs, JPcs, Busy, NoTest
<1>0. poller \in PollerRecs /\ PollerHolds /\ timer \in [Tests -> TimerPcs] /\ 0 \notin Tests
  BY DEF AddonInv, AddonShape, PollerRecs, Tests
<1>3. \A t \in Tests : Rev(t)' => Rev(t)
  BY DEF Rev
<1>1. \A t \in Tests : t \in backup[u] => Final(t)
  BY DEF RulesInv, BackupsFinal
<1>2. /\ timer'[u] = pc /\ \A t \in Tests : t # u => timer'[t] = timer[t]
  BY <1>0
<1>4. DecidedOnce' /\ MarkedFirst' /\ ConfirmsConfirmed'
  BY <1>0, <1>1, <1>2, <1>3 DEF RulesInv, DecidedOnce, MarkedFirst, ConfirmsConfirmed
<1>5. UntouchedYet'
  BY <1>0, <1>1, <1>2, <1>3 DEF RulesInv, UntouchedYet, Fresh, NotApplied, Final
<1>6. AppliesFresh'
  BY <1>0, <1>1, <1>2, <1>3 DEF RulesInv, AppliesFresh, Fresh, Final, PollerHolds, MarkedFirst
<1>7. ReportsGone'
  BY <1>0, <1>1, <1>2, <1>3 DEF RulesInv, ReportsGone, Final, Fresh, AppliesFresh, PollerHolds
<1>8. BackupsFinal'
  BY <1>0, <1>1, <1>2, <1>3 DEF RulesInv, BackupsFinal, Final
<1>9. ChainAccounted'
  BY <1>0, <1>1, <1>2, <1>3 DEF RulesInv, ChainAccounted, Reverting, CutsRevert, Final, ReportsGone
<1>. QED
  BY <1>4, <1>5, <1>6, <1>7, <1>8, <1>9 DEF RulesInv

(* The poller reports how its test ended.                                  *)
LEMMA PollerReportKeeps ==
  ASSUME CoreInv, AddonInv, RulesInv,
         UNCHANGED <<chain, cur, marker, backup, timer, lastId, confirmed>>,
         poller'.id = poller.id, poller'.pc \in {"sleep", "clear"},
         poller.pc \in {"cReport", "jReport", "xReport", "rReport"},
         pending' = pending \/ pending' = NoPending,
         \A t \in Tests : Rev(t)' => Rev(t) \/ (t = poller.id /\ poller.pc # "cReport")
  PROVE  RulesInv'
<1> USE DEF PollerPcs, RevertPcs, ApplyPcs, XPcs, CPcs, JPcs, Busy, NoTest
<1>0. poller \in PollerRecs /\ PollerHolds /\ timer \in [Tests -> TimerPcs] /\ 0 \notin Tests
  BY DEF AddonInv, AddonShape, PollerRecs, Tests
<1>4. DecidedOnce' /\ MarkedFirst' /\ ConfirmsConfirmed'
  BY <1>0 DEF RulesInv, DecidedOnce, MarkedFirst, ConfirmsConfirmed
<1>5. UntouchedYet'
  BY <1>0 DEF RulesInv, UntouchedYet, Fresh, NotApplied, NoPending
<1>6. AppliesFresh'
  BY <1>0 DEF RulesInv, AppliesFresh, Fresh
<1>7. ReportsGone'
  BY <1>0 DEF RulesInv, ReportsGone
<1>8. BackupsFinal'
  BY <1>0 DEF RulesInv, BackupsFinal, Final
<1>9. ChainAccounted'
  BY <1>0 DEF RulesInv, ChainAccounted, Reverting, CutsRevert, AppliesFresh, ReportsGone
<1>. QED
  BY <1>4, <1>5, <1>6, <1>7, <1>8, <1>9 DEF RulesInv

(* A timer reports its revert.                                             *)
LEMMA TimerReportKeeps ==
  ASSUME CoreInv, AddonInv, RulesInv,
         UNCHANGED <<chain, cur, marker, backup, poller, lastId, confirmed>>,
         NEW u \in Tests, timer[u] = "rReport", timer' = [timer EXCEPT ![u] = "none"],
         pending' = pending \/ pending' = NoPending,
         \A t \in Tests : Rev(t)' => Rev(t) \/ t = u
  PROVE  RulesInv'
<1> USE DEF PollerPcs, RevertPcs, ApplyPcs, XPcs, CPcs, JPcs, Busy, NoTest
<1>0. poller \in PollerRecs /\ PollerHolds /\ timer \in [Tests -> TimerPcs] /\ 0 \notin Tests
  BY DEF AddonInv, AddonShape, PollerRecs, Tests
<1>4. DecidedOnce' /\ MarkedFirst' /\ ConfirmsConfirmed'
  BY <1>0 DEF RulesInv, DecidedOnce, MarkedFirst, ConfirmsConfirmed
<1>5. UntouchedYet'
  BY <1>0 DEF RulesInv, UntouchedYet, Fresh, NotApplied, NoPending
<1>6. AppliesFresh'
  BY <1>0 DEF RulesInv, AppliesFresh, Fresh
<1>7. ReportsGone'
  BY <1>0 DEF RulesInv, ReportsGone
<1>8. BackupsFinal'
  BY <1>0 DEF RulesInv, BackupsFinal, Final
<1>9. ChainAccounted'
  BY <1>0 DEF RulesInv, ChainAccounted, Reverting, CutsRevert, ReportsGone
<1>. QED
  BY <1>4, <1>5, <1>6, <1>7, <1>8, <1>9 DEF RulesInv

(* A poll, with its answer or without it.                                  *)
LEMMA PollKeeps ==
  ASSUME CoreInv, AddonInv, RulesInv,
         UNCHANGED <<chain, cur, marker, backup, timer, lastId, confirmed>>,
         poller.pc = "poll",
         \/ /\ UNCHANGED <<pending, history>>
            /\ \/ poller'.pc = "sleep" /\ poller'.id \in {poller.id, NoTest}
               \/ poller'.pc = "rCheck" /\ poller'.id = poller.id
               \/ /\ poller'.pc = "cCheck" /\ poller'.id = poller.id
                  /\ pending # NoPending /\ pending.id = poller.id /\ pending.status = "confirmed"
         \/ /\ Relabels /\ pending.status = "testing" /\ ~pending.applied /\ pending'.applied
            /\ pending'.status = "testing"
            /\ \/ poller'.pc = "sleep" /\ poller'.id \in {poller.id, NoTest}
               \/ poller'.pc = "got" /\ poller'.id = pending.id
         \/ /\ poller.id = NoTest /\ pending.status = "expired_unreported" /\ pending \in Records
            /\ poller'.pc = "sleep" /\ poller'.id \in {poller.id, NoTest}
            /\ pending' = NoPending
            /\ \A t \in Tests : Rev(t)' => Rev(t) \/ t = pending.id
  PROVE  RulesInv'
<1> USE DEF PollerPcs, RevertPcs, ApplyPcs, XPcs, CPcs, JPcs, Busy, NoTest
<1>0. poller \in PollerRecs /\ PollerHolds /\ timer \in [Tests -> TimerPcs] /\ 0 \notin Tests
  BY DEF AddonInv, AddonShape, PollerRecs, Tests
<1>1. pending \in Records => pending # NoPending /\ pending.id \in Tests /\ pending.id <= lastId
  BY DEF CoreInv, Exact, Records, NoPending, Tests
<1>2. \A t \in Tests : Rev(t)' => Rev(t) \/ (t = pending.id /\ t \notin confirmed /\ poller.id = NoTest /\ pending' = NoPending)
  BY <1>1 DEF RulesInv, DecidedOnce, Rev, Relabels
<1>3. \A t \in Tests : NotApplied(t)' => NotApplied(t) /\ (pending \in Records => t # pending.id \/ UNCHANGED pending)
  BY <1>0, <1>1 DEF NotApplied, Relabels, NoPending, CoreInv, Tests
<1>4. DecidedOnce' /\ MarkedFirst' /\ ConfirmsConfirmed'
  BY <1>0, <1>1, <1>2, <1>3 DEF RulesInv, DecidedOnce, MarkedFirst, ConfirmsConfirmed, Relabels, PollerHolds
<1>10. poller'.pc = "got" =>
          /\ poller'.id = pending.id /\ pending.id \in Tests /\ pending' # pending /\ pending \in Records
          /\ NotApplied(pending.id) /\ pending' # NoPending
  BY <1>1 DEF Relabels, NotApplied, NoPending, Records, Tests
<1>5. UntouchedYet'
  <2>1. ASSUME NEW t \in Tests, NotApplied(t)' PROVE ~Rev(t)' /\ poller'.id # t
    <3>1. NotApplied(t) /\ ~Rev(t) /\ poller.id # t /\ 0 # t
      BY <1>0, <1>3, <2>1 DEF RulesInv, UntouchedYet, Fresh
    <3>2. ~Rev(t)'
      BY <1>1, <1>2, <2>1, <3>1 DEF NotApplied, NoPending, CoreInv, Tests
    <3>3. poller'.pc = "got" => t # pending.id
      BY <1>3, <1>10, <2>1
    <3>4. poller'.pc = "got" \/ poller'.id \in {poller.id, NoTest}
      OBVIOUS
    <3>. QED
      BY <1>10, <3>1, <3>2, <3>3, <3>4
  <2>. QED
    BY <1>3, <2>1 DEF RulesInv, UntouchedYet, Fresh
<1>6. AppliesFresh'
  <2>1. ASSUME poller'.pc = "got" PROVE Fresh(pending.id) /\ pending.id \notin chain /\ \A t \in Tests : t = pending.id => ~Rev(t)'
    <3>1. Fresh(pending.id) /\ pending.id \notin chain
      BY <1>10, <2>1 DEF RulesInv, UntouchedYet
    <3>. QED
      BY <1>2, <1>10, <2>1, <3>1 DEF Fresh
  <2>2. poller'.pc \notin ApplyPcs \cup {"jTouch", "xFlush", "xLoad", "xTouch", "jReport"}
    OBVIOUS
  <2>. QED
    BY <1>0, <1>2, <1>10, <2>1, <2>2 DEF AppliesFresh, Fresh
<1>7. ReportsGone'
  BY <1>0, <1>1, <1>2, <1>3 DEF RulesInv, ReportsGone
<1>8. BackupsFinal'
  BY <1>0, <1>1, <1>2, <1>3 DEF RulesInv, BackupsFinal, Final, UntouchedYet, NotApplied, Fresh, Relabels
<1>9. ChainAccounted'
  BY <1>0, <1>1, <1>2, <1>3 DEF RulesInv, ChainAccounted, Reverting, CutsRevert, PollerHolds
<1>. QED
  BY <1>4, <1>5, <1>6, <1>7, <1>8, <1>9 DEF RulesInv

(* A step of Core alone.                                                   *)
LEMMA CoreKeeps ==
  ASSUME CoreInv, AddonInv, RulesInv,
         UNCHANGED <<chain, cur, marker, backup, timer, poller>>,
         confirmed \subseteq confirmed', DecidedOnce',
         \A t \in Tests : NotApplied(t)' => NotApplied(t),
         \A t \in Tests : Rev(t)' => Rev(t)
  PROVE  RulesInv'
<1> USE DEF PollerPcs, RevertPcs, ApplyPcs, XPcs, CPcs, JPcs, Busy, NoTest
<1>0. poller \in PollerRecs /\ PollerHolds /\ timer \in [Tests -> TimerPcs] /\ 0 \notin Tests
  BY DEF AddonInv, AddonShape, PollerRecs, Tests
<1>4. DecidedOnce' /\ MarkedFirst' /\ ConfirmsConfirmed'
  BY <1>0 DEF RulesInv, DecidedOnce, MarkedFirst, ConfirmsConfirmed
<1>5. UntouchedYet'
  BY <1>0 DEF RulesInv, UntouchedYet, Fresh, NotApplied
<1>6. AppliesFresh'
  BY <1>0 DEF RulesInv, AppliesFresh, Fresh
<1>7. ReportsGone'
  BY <1>0 DEF RulesInv, ReportsGone
<1>8. BackupsFinal'
  BY <1>0 DEF RulesInv, BackupsFinal, Final
<1>9. ChainAccounted'
  BY <1>0 DEF RulesInv, ChainAccounted, Reverting, CutsRevert
<1>. QED
  BY <1>4, <1>5, <1>6, <1>7, <1>8, <1>9 DEF RulesInv


(* Without a crash of Core and a torn revert, every step keeps the chain's *)
(* part.                                                                   *)
LEMMA CoreStepKeeps == ASSUME CoreInv, AddonInv, RulesInv, Calm, Calm', CoreNext PROVE RulesInv'
<1>0. /\ pending \in SlotRecs /\ pending.id \in 0..lastId /\ lastId \in 0..MaxTests /\ MaxTests \in Nat
      /\ confirmed \subseteq 1..lastId /\ DecidedOnce
  BY FirewallAssumption DEF CoreInv, Exact, RulesInv
<1>1. NoPending.id = 0 /\ 0 \notin Tests /\ \A r \in Records : r # NoPending /\ r.id \in Tests
  BY DEF NoPending, NoTest, Tests, Records
<1>2. UNCHANGED <<chain, cur, marker, backup, timer, poller>>
  BY DEF CoreNext, Propose, Confirm, Cancel, WindowLapses, GetStatus, DiscardPending, Save, CoreCrash,
         CoreOnly, addonVars, fileVars
<1>3. CASE Propose
  <2>1. /\ pending = NoPending /\ lastId' = lastId + 1 /\ UNCHANGED <<history, confirmed>>
        /\ pending' = [id |-> lastId + 1, status |-> "testing", applied |-> FALSE, lapsed |-> FALSE]
    BY <1>3 DEF Propose
  <2>2. DecidedOnce'
    BY <1>0, <2>1 DEF DecidedOnce
  <2>3. \A t \in Tests : NotApplied(t)' => NotApplied(t)
    BY <1>0, <2>1 DEF NotApplied, Tests
  <2>4. \A t \in Tests : Rev(t)' => Rev(t)
    BY <2>1 DEF Rev
  <2>. QED
    BY <1>2, <2>1, <2>2, <2>3, <2>4, CoreKeeps
<1>4. CASE Confirm \/ Cancel \/ WindowLapses \/ GetStatus
  <2>1. /\ Relabels /\ lastId' = lastId /\ pending'.applied = pending.applied
        /\ \/ confirmed' = confirmed /\ (pending'.status = "confirmed" <=> pending.status = "confirmed")
           \/ confirmed' = confirmed \cup {pending.id} /\ pending'.status = "confirmed"
    BY <1>4, RelabelSteps
  <2>2. DecidedOnce'
    BY <1>0, <1>1, <2>1 DEF DecidedOnce, Relabels
  <2>3. \A t \in Tests : NotApplied(t)' => NotApplied(t)
    BY <2>1 DEF NotApplied, Relabels
  <2>4. \A t \in Tests : Rev(t)' => Rev(t)
    BY <2>1 DEF Rev, Relabels
  <2>. QED
    BY <1>2, <2>1, <2>2, <2>3, <2>4, CoreKeeps
<1>5. CASE DiscardPending
  <2>1. pending # NoPending /\ Archive("discarded_unreported") /\ UNCHANGED <<lastId, confirmed>>
    BY <1>5 DEF DiscardPending
  <2>2. pending' = NoPending /\ \A t \in Tests : Rev(t)' => Rev(t)
    BY <1>0, <2>1, ArchiveKeeps DEF CoreInv
  <2>3. DecidedOnce'
    BY <2>2 DEF DecidedOnce
  <2>4. \A t \in Tests : NotApplied(t)' => NotApplied(t)
    BY <1>1, <2>1, <2>2 DEF NotApplied
  <2>. QED
    BY <1>2, <2>1, <2>2, <2>3, <2>4, CoreKeeps
<1>6. CASE Save
  <2>1. UNCHANGED <<pending, history, lastId, confirmed>>
    BY <1>6 DEF Save
  <2>2. DecidedOnce'
    BY <1>0, <2>1 DEF DecidedOnce
  <2>3. \A t \in Tests : (NotApplied(t)' => NotApplied(t)) /\ (Rev(t)' => Rev(t))
    BY <2>1 DEF NotApplied, Rev
  <2>. QED
    BY <1>2, <2>1, <2>2, <2>3, CoreKeeps
<1>7. CASE CoreCrash
  BY <1>7 DEF CoreCrash, Calm
<1>. QED
  BY <1>3, <1>4, <1>5, <1>6, <1>7 DEF CoreNext

(* A report that arrives or not adds no reverted entry but its own.        *)
LEMMA ReportAdds ==
  ASSUME CoreInv, NEW id \in Tests, NEW s \in {"confirmed", "reverted"}, SendReport(id, s)
  PROVE  /\ UNCHANGED <<lastId, confirmed>> /\ (pending' = pending \/ pending' = NoPending)
         /\ \A t \in Tests : Rev(t)' => Rev(t) \/ (t = id /\ s = "reverted")
<1>1. UNCHANGED <<saved, lastId, coreCrashes, confirmed>> /\ (Keep \/ (pending.id = id /\ pending \in Records /\ Archive(s)))
  BY ReportCases
<1>2. CASE Keep
  BY <1>1, <1>2 DEF Keep, Rev
<1>3. CASE pending.id = id /\ pending \in Records /\ Archive(s)
  <2>1. pending # NoPending
    BY <1>3 DEF Records, NoPending, NoTest, Tests
  <2>. QED
    BY <1>1, <1>3, <2>1, ArchiveKeeps DEF CoreInv
<1>. QED
  BY <1>1, <1>2, <1>3

LEMMA TimerStepKeeps ==
  ASSUME CoreInv, AddonInv, RulesInv, NEW u \in Tests, TimerNext(u) PROVE RulesInv'
<1>1. CASE TimerFires(u)
  BY <1>1, TimerKeeps DEF TimerFires, fileVars, Quiet, coreVars
<1>2. CASE TimerStep(u)
  <2>1. timer[u] \in RevertPcs /\ RevertEffect(timer[u], u) /\ UNCHANGED poller
    BY <1>2 DEF TimerStep
  <2>2. CASE timer[u] = "rReport"
    <3>1. SendReport(u, "reverted") /\ UNCHANGED <<chain, cur, marker, backup>> /\ RevertNext(timer[u], u) = "done"
      BY <2>1, <2>2, RevertCases DEF fileVars
    <3>2. timer' = [timer EXCEPT ![u] = "none"]
      BY <1>2, <3>1 DEF TimerStep
    <3>3. /\ UNCHANGED <<lastId, confirmed>> /\ (pending' = pending \/ pending' = NoPending)
          /\ \A t \in Tests : Rev(t)' => Rev(t) \/ t = u
      BY <3>1, ReportAdds
    <3>. QED
      BY <2>1, <2>2, <3>1, <3>2, <3>3, TimerReportKeeps
  <2>3. CASE timer[u] # "rReport"
    <3>1. PICK pc : /\ pc = IF RevertNext(timer[u], u) = "done" THEN "none" ELSE RevertNext(timer[u], u)
                    /\ timer' = [timer EXCEPT ![u] = pc]
      BY <1>2 DEF TimerStep
    <3>2. UNCHANGED <<cur, backup, poller, pending, history, lastId, confirmed>>
      BY <2>1, <2>3, RevertCases DEF fileVars, Quiet, coreVars
    <3>3. \/ /\ timer[u] = "rCheck" /\ UNCHANGED <<chain, marker>>
             /\ pc = IF u \in marker THEN "none" ELSE "rTouch"
          \/ timer[u] = "rTouch" /\ pc = "rFlush" /\ marker' = marker \cup {u} /\ UNCHANGED chain
          \/ timer[u] = "rFlush" /\ pc = "rLoad" /\ chain' = {} /\ UNCHANGED marker
          \/ timer[u] = "rLoad" /\ pc = "rReport" /\ chain' = chain \cup backup[u] /\ UNCHANGED marker
      BY <2>1, <2>3, <3>1, RevertCases DEF fileVars
    <3>. QED
      BY <3>1, <3>2, <3>3, TimerKeeps
  <2>. QED
    BY <2>2, <2>3
<1>. QED
  BY <1>1, <1>2 DEF TimerNext

(* Stops that cut no revert.                                               *)
LEMMA StopKeeps ==
  ASSUME CoreInv, AddonInv, RulesInv, Calm', PollerExit \/ ContainerKill PROVE RulesInv'
<1>1. CASE PollerExit
  <2>1. poller.pc \notin {"rFlush", "rLoad"}
    BY <1>1, Zenon DEF PollerExit, Calm, CutsRevert
  <2>2. poller'.pc = "finish" /\ poller'.id = NoTest
    BY <1>1 DEF PollerExit
  <2>3. poller'.pc \notin Busy
    BY <2>2 DEF Busy, RevertPcs, ApplyPcs, XPcs, CPcs, JPcs
  <2>. QED
    BY <1>1, <2>1, <2>2, <2>3, ControlKeeps DEF PollerExit, NoFiles, fileVars, Quiet, coreVars
<1>2. CASE ContainerKill
  <2>1. poller.pc \notin {"rFlush", "rLoad"} /\ \A t \in Tests : timer[t] \notin {"rFlush", "rLoad"}
    BY <1>2, Zenon DEF ContainerKill, Calm, CutsRevert
  <2>2. poller'.pc = "down" /\ poller'.id = NoTest
    BY <1>2 DEF ContainerKill
  <2>. QED
    BY <1>2, <2>1, <2>2, KillKeeps DEF ContainerKill, NoFiles, fileVars, Quiet, coreVars
<1>. QED
  BY <1>1, <1>2

(* A poll, with its answer or without it.                                  *)
LEMMA PollStepKeeps ==
  ASSUME CoreInv, AddonInv, RulesInv, PollDelivered \/ PollLost PROVE RulesInv'
<1>0. poller \in PollerRecs /\ poller.pc = "poll" /\ poller.id \in Tests \cup {NoTest} /\ NoTest = 0 /\ 0 \notin Tests
  BY DEF AddonInv, AddonShape, PollerRecs, PollDelivered, PollLost, At, NoTest, Tests
<1>1. UNCHANGED <<chain, cur, marker, backup, timer, lastId, confirmed>>
  BY DEF PollDelivered, PollLost, NoFiles, fileVars, Idle
<1>2. ASSUME pending \in Records, Archive("reverted"), lastId' = lastId
      PROVE  pending' = NoPending /\ \A t \in Tests : Rev(t)' => Rev(t) \/ t = pending.id
  <2>1. pending # NoPending
    BY <1>2 DEF Records, NoPending, NoTest, Tests
  <2>. QED
    BY <1>2, <2>1, ArchiveKeeps DEF CoreInv
<1>3. CASE PollLost
  <2>1. poller'.pc = "sleep" /\ poller'.id = poller.id
    BY <1>0, <1>3, GotoMoves DEF PollLost, PollerPcs
  <2>2. CASE Keep
    BY <1>0, <1>1, <2>1, <2>2, PollKeeps DEF Keep
  <2>3. CASE NextCommand(poller.id)
    <3>1. \/ Keep
          \/ /\ Relabels /\ pending.status = "testing" /\ ~pending.applied /\ pending'.applied
             /\ pending'.status = "testing"
          \/ /\ poller.id = NoTest /\ pending.status = "expired_unreported" /\ pending \in Records
             /\ Archive("reverted")
      BY <1>0, <2>3, PollCases
    <3>. QED
      BY <1>0, <1>1, <1>2, <2>1, <3>1, PollKeeps DEF Keep
  <2>. QED
    BY <1>3, <2>2, <2>3 DEF PollLost
<1>4. CASE PollDelivered
  <2>1. PICK p, c, a :
          /\ poller' = [poller EXCEPT !.pc = p, !.id = c] /\ a = Command(poller.id).act
          /\ p = (CASE a = "apply"   -> "got"
                   [] a = "confirm" -> "cCheck"
                   [] a = "revert"  -> "rCheck"
                   [] OTHER         -> "sleep")
          /\ c = Command(poller.id).id
    BY <1>4 DEF PollDelivered
  <2>2. poller'.pc = p /\ poller'.id = c
    BY <1>0, <2>1 DEF PollerRecs
  <2>3. /\ \/ a = "none" /\ c = NoTest
           \/ a = "apply" /\ c = pending.id
           \/ a = "confirm" /\ c = poller.id /\ pending # NoPending /\ poller.id = pending.id /\ pending.status = "confirmed"
           \/ a = "revert" /\ c = poller.id
        /\ poller.id = NoTest /\ pending.status = "expired_unreported" => a = "none"
    BY <2>1 DEF Command
  <2>4. /\ a = "none" => p = "sleep"
        /\ a = "apply" => p = "got"
        /\ a = "confirm" => p = "cCheck"
        /\ a = "revert" => p = "rCheck"
    BY <2>1
  <2>5. \/ Keep /\ a # "apply"
        \/ /\ Relabels /\ pending.status = "testing" /\ ~pending.applied /\ pending'.applied
           /\ pending'.status = "testing" /\ a = "apply"
        \/ /\ poller.id = NoTest /\ pending.status = "expired_unreported" /\ pending \in Records
           /\ Archive("reverted")
    BY <1>0, <1>4, <2>1, PollCases DEF PollDelivered
  <2>. QED
    BY <1>0, <1>1, <1>2, <2>2, <2>3, <2>4, <2>5, PollKeeps DEF Keep
<1>. QED
  BY <1>3, <1>4

LEMMA PollerRevertKeeps ==
  ASSUME CoreInv, AddonInv, RulesInv, PollerReverts PROVE RulesInv'
<1> USE DEF PollerPcs, RevertPcs
<1>0. poller \in PollerRecs /\ poller.pc \in RevertPcs /\ poller.id \in Tests /\ cur = poller.id
  BY DEF AddonInv, AddonShape, PollerHolds, PollerRecs, PollerReverts, Busy
<1>1. RevertEffect(poller.pc, poller.id) /\ UNCHANGED timer
  BY DEF PollerReverts, Idle
<1>2. PICK pc : /\ pc = IF RevertNext(poller.pc, poller.id) = "done" THEN "clear" ELSE RevertNext(poller.pc, poller.id)
                /\ Goto(pc)
  BY DEF PollerReverts
<1>3. pc \in PollerPcs
  BY <1>0, <1>1, <1>2, RevertCases
<1>4. poller'.pc = pc /\ poller'.id = poller.id
  BY <1>0, <1>2, <1>3, GotoMoves
<1>5. CASE poller.pc = "rReport"
  <2>1. SendReport(poller.id, "reverted") /\ UNCHANGED <<chain, cur, marker, backup>> /\ pc = "clear"
    BY <1>0, <1>1, <1>2, <1>5, RevertCases DEF fileVars
  <2>2. /\ UNCHANGED <<lastId, confirmed>> /\ (pending' = pending \/ pending' = NoPending)
        /\ \A t \in Tests : Rev(t)' => Rev(t) \/ (t = poller.id /\ poller.pc # "cReport")
    BY <1>0, <1>5, <2>1, ReportAdds
  <2>. QED
    BY <1>1, <1>4, <1>5, <2>1, <2>2, PollerReportKeeps
<1>6. CASE poller.pc # "rReport"
  <2>1. UNCHANGED <<cur, backup, pending, history, lastId, confirmed>>
    BY <1>0, <1>1, <1>6, RevertCases DEF fileVars, Quiet, coreVars
  <2>2. CASE poller.pc = "rCheck"
    <3>1. UNCHANGED <<chain, marker>> /\ pc = IF poller.id \in marker THEN "clear" ELSE "rTouch"
      BY <1>0, <1>1, <1>2, <2>2, RevertCases DEF fileVars
    <3>2. "clear" \notin Busy
      BY DEF Busy, ApplyPcs, XPcs, CPcs, JPcs
    <3>. QED
      BY <1>1, <1>4, <2>1, <2>2, <3>1, <3>2, ControlKeeps
  <2>3. CASE poller.pc = "rTouch"
    BY <1>0, <1>1, <1>2, <1>4, <2>1, <2>3, RevertCases, TouchKeeps
  <2>4. CASE poller.pc = "rFlush"
    BY <1>0, <1>1, <1>2, <1>4, <2>1, <2>4, RevertCases, FlushKeeps DEF fileVars
  <2>5. CASE poller.pc = "rLoad"
    BY <1>0, <1>1, <1>2, <1>4, <2>1, <2>5, RevertCases, RestoreKeeps DEF fileVars
  <2>. QED
    BY <1>0, <1>6, <2>2, <2>3, <2>4, <2>5
<1>. QED
  BY <1>5, <1>6

LEMMA PollerStepKeepsRules ==
  ASSUME CoreInv, AddonInv, RulesInv, PollerNext PROVE RulesInv'
<1> USE DEF PollerPcs, RevertPcs, ApplyPcs, XPcs, CPcs, JPcs, Busy, NoTest
<1>0. poller \in PollerRecs /\ PollerHolds /\ cur \in Tests \cup {NoTest} /\ 0 \notin Tests
  BY DEF AddonInv, AddonShape, PollerRecs, Tests
<1>start. CASE Start \/ StartRecovery \/ Finish
  <2>1. /\ poller.pc \in {"down", "start", "finish"}
        /\ \/ poller'.pc = "rCheck" /\ poller'.id = cur /\ cur \notin marker
           \/ poller'.pc \in {"start", "clear", "down"} /\ poller'.id \in {cur, NoTest}
    <3>1. CASE Start
      BY <3>1 DEF Start, At
    <3>2. CASE StartRecovery \/ Finish
      BY <1>0, <3>2 DEF StartRecovery, Finish, At, PollerRecs
    <3>. QED
      BY <1>start, <3>1, <3>2
  <2>. QED
    BY <1>start, <2>1, ControlKeeps DEF Start, StartRecovery, Finish, NoFiles, fileVars, Idle, Quiet, coreVars
<1>clear. CASE Clear \/ Top
  <2>1. /\ poller.pc \in {"clear", "top"}
        /\ cur' \in {cur, NoTest} /\ (cur' = cur \/ cur = NoTest \/ cur \in marker)
        /\ poller'.pc \in {"top", "sleep", "down", "poll"} /\ poller'.id \in {poller.id, cur'}
    BY <1>0, <1>clear DEF Clear, Top, At, Goto, PollerRecs, PollerHolds
  <2>. QED
    BY <1>clear, <2>1, CurrentKeeps DEF Clear, Top, Idle, Quiet, coreVars
<1>poll. CASE PollDelivered \/ PollLost
  BY <1>poll, PollStepKeeps
<1>wake. CASE Wake \/ Got \/ ConfirmCheck
  <2>1. /\ poller.pc \in {"sleep", "got", "cCheck"} /\ poller'.id = poller.id
        /\ \/ poller'.pc \in {"top", "sleep", "clear"}
           \/ poller'.pc \in {"aBackup", "jTouch"} /\ poller.pc = "got"
           \/ poller'.pc = "cTouch" /\ poller.pc = "cCheck"
    BY <1>0, <1>wake, GotoMoves DEF Wake, Got, ConfirmCheck, At
  <2>. QED
    BY <1>wake, <2>1, ControlKeeps DEF Wake, Got, ConfirmCheck, NoFiles, fileVars, Idle, Quiet, coreVars
<1>backup. CASE Backup
  <2>1. /\ poller.pc = "aBackup" /\ poller'.id = poller.id /\ poller'.pc \in {"aWrite", "jTouch"}
        /\ (backup' = backup \/ backup' = [backup EXCEPT ![poller.id] = chain])
    BY <1>0, <1>backup, GotoMoves DEF Backup, At
  <2>. QED
    BY <1>backup, <2>1, BackupKeeps DEF Backup, Idle, Quiet, coreVars
<1>write. CASE WriteCurrent
  <2>1. poller.pc = "aWrite" /\ poller'.pc = "aFlush" /\ poller'.id = poller.id /\ cur' = poller.id
    BY <1>0, <1>write, GotoMoves DEF WriteCurrent, At
  <2>. QED
    BY <1>write, <2>1, CurrentKeeps DEF WriteCurrent, Idle, Quiet, coreVars
<1>flush. CASE Flush
  <2>1. /\ poller'.id = poller.id
        /\ \/ poller.pc = "aFlush" /\ poller'.pc = "aLoad"
           \/ poller.pc = "xFlush" /\ poller'.pc = "xLoad"
    BY <1>0, <1>flush, GotoMoves DEF Flush, At
  <2>. QED
    BY <1>flush, <2>1, FlushKeeps DEF Flush, fileVars, Idle, Quiet, coreVars
<1>load. CASE Load
  <2>1. poller.pc = "aLoad" /\ poller'.id = poller.id /\ poller'.pc \in {"aArm", "xFlush"}
    BY <1>0, <1>load, GotoMoves DEF Load, At
  <2>. QED
    BY <1>load, <2>1, LoadKeeps DEF Load, fileVars, Idle, Quiet, coreVars
<1>restore. CASE Restore
  <2>1. poller.pc = "xLoad" /\ poller'.id = poller.id /\ poller'.pc = "xTouch" /\ poller.id \in Tests
    BY <1>0, <1>restore, GotoMoves DEF Restore, At, PollerHolds
  <2>. QED
    BY <1>restore, <2>1, RestoreKeeps DEF Restore, fileVars, Idle, Quiet, coreVars
<1>arm. CASE Arm
  <2>1. poller.pc = "aArm" /\ poller'.id = poller.id /\ poller'.pc = "sleep" /\ poller.id \in Tests
    BY <1>0, <1>arm, GotoMoves DEF Arm, At, PollerHolds
  <2>. QED
    BY <1>arm, <2>1, ArmKeeps DEF Arm, NoFiles, fileVars, Quiet, coreVars
<1>touch. CASE Touch
  <2>1. /\ poller'.id = poller.id
        /\ \/ poller.pc = "cTouch" /\ poller'.pc = "cReport"
           \/ poller.pc = "jTouch" /\ poller'.pc = "jReport"
           \/ poller.pc = "xTouch" /\ poller'.pc = "xReport"
    BY <1>0, <1>touch, GotoMoves DEF Touch, At
  <2>. QED
    BY <1>touch, <2>1, TouchKeeps DEF Touch, Idle, Quiet, coreVars
<1>report. CASE Report
  <2>1. /\ poller.pc \in {"cReport", "jReport", "xReport"} /\ poller'.id = poller.id
        /\ poller'.pc \in {"sleep", "clear"} /\ poller.id \in Tests
    BY <1>0, <1>report, GotoMoves DEF Report, At, PollerHolds
  <2>2. SendReport(poller.id, IF At("cReport") THEN "confirmed" ELSE "reverted")
    BY <1>report DEF Report
  <2>3. /\ UNCHANGED <<lastId, confirmed>> /\ (pending' = pending \/ pending' = NoPending)
        /\ \A t \in Tests : Rev(t)' => Rev(t) \/ (t = poller.id /\ poller.pc # "cReport")
    <3>1. CASE poller.pc = "cReport"
      BY <2>1, <2>2, <3>1, ReportAdds DEF At
    <3>2. CASE poller.pc # "cReport"
      BY <2>1, <2>2, <3>2, ReportAdds DEF At
    <3>. QED
      BY <3>1, <3>2
  <2>. QED
    BY <1>report, <2>1, <2>3, PollerReportKeeps DEF Report, NoFiles, fileVars, Idle
<1>revert. CASE PollerReverts
  BY <1>revert, PollerRevertKeeps
<1>. QED
  BY <1>start, <1>clear, <1>poll, <1>wake, <1>backup, <1>write, <1>flush, <1>load, <1>restore, <1>arm,
     <1>touch, <1>report, <1>revert DEF PollerNext

(* The inductive invariant of the whole.                                   *)
LEMMA FirewallStep == FirewallInv /\ [Next]_vars => FirewallInv'
<1> SUFFICES ASSUME FirewallInv, [Next]_vars PROVE FirewallInv'
  OBVIOUS
<1>0. CoreInv /\ AddonInv /\ (Calm => RulesInv)
  BY DEF FirewallInv
<1>1. CoreInv' /\ AddonInv'
  BY <1>0, CoreStep, AddonStep
<1>2. ASSUME Calm' PROVE RulesInv'
  <2>1. Calm
    <3>1. coreCrashes' = 0 /\ ~torn' /\ coreCrashes \in Nat
      BY <1>0, <1>2 DEF Calm, AddonInv, AddonShape
    <3>2. coreCrashes' = coreCrashes \/ coreCrashes' = coreCrashes + 1
      BY DEF Next, CoreNext, Propose, Confirm, Cancel, WindowLapses, GetStatus, DiscardPending, Save, CoreCrash,
             PollerNext, Start, StartRecovery, Finish, PollerReverts, Clear, Top, PollDelivered, PollLost, Wake,
             Got, Backup, WriteCurrent, Flush, Load, Arm, Restore, ConfirmCheck, Touch, Report, TimerNext,
             TimerFires, TimerStep, RevertEffect, SendReport, PollerExit, ContainerKill, Quiet, coreVars, vars,
             RevertPcs
    <3>3. torn => torn'
      BY Zenon DEF Next, CoreNext, Propose, Confirm, Cancel, WindowLapses, GetStatus, DiscardPending, Save, CoreCrash,
             PollerNext, Start, StartRecovery, Finish, PollerReverts, Clear, Top, PollDelivered, PollLost, Wake,
             Got, Backup, WriteCurrent, Flush, Load, Arm, Restore, ConfirmCheck, Touch, Report, TimerNext,
             TimerFires, TimerStep, PollerExit, ContainerKill, Idle, CoreOnly, addonVars, vars
    <3>. QED
      BY <3>1, <3>2, <3>3 DEF Calm
  <2>2. CASE UNCHANGED vars
    <3>1. UNCHANGED <<chain, cur, marker, backup, timer, poller, pending, history, lastId, confirmed>>
      BY <2>2 DEF vars, coreVars, addonVars, fileVars
    <3>2. DecidedOnce' /\ \A t \in Tests : (NotApplied(t)' => NotApplied(t)) /\ (Rev(t)' => Rev(t))
      BY <1>0, <2>1, <3>1 DEF RulesInv, DecidedOnce, NotApplied, Rev
    <3>. QED
      BY <1>0, <2>1, <3>1, <3>2, CoreKeeps
  <2>3. CASE CoreNext
    BY <1>0, <1>2, <2>1, <2>3, CoreStepKeeps
  <2>4. CASE PollerNext
    BY <1>0, <2>1, <2>4, PollerStepKeepsRules
  <2>5. ASSUME NEW t \in Tests, TimerNext(t) PROVE RulesInv'
    BY <1>0, <2>1, <2>5, TimerStepKeeps
  <2>6. CASE PollerExit \/ ContainerKill
    BY <1>0, <1>2, <2>1, <2>6, StopKeeps
  <2>. QED
    BY <2>2, <2>3, <2>4, <2>5, <2>6 DEF Next
<1>. QED
  BY <1>1, <1>2 DEF FirewallInv

LEMMA FirewallInits == Init => FirewallInv
<1> SUFFICES ASSUME Init PROVE FirewallInv
  OBVIOUS
<1>1. CoreInv /\ AddonInv
  BY FirewallInit
<1>2. 0 \notin Tests /\ \A t \in Tests : ~Rev(t) /\ timer[t] = "none" /\ backup[t] = {}
  BY DEF Init, Rev, Tests
<1>3. RulesInv
  BY <1>2 DEF Init, RulesInv, DecidedOnce, MarkedFirst, UntouchedYet, AppliesFresh, ConfirmsConfirmed,
              ReportsGone, BackupsFinal, ChainAccounted, Fresh, ApplyPcs, CPcs, NoTest, Base
<1>. QED
  BY <1>1, <1>3 DEF FirewallInv

(* The chain at the host is what the records say, unless Core crashed or a *)
(* kill cut a revert in two: rules nobody confirmed are there only while   *)
(* their revert is outstanding, and a test archived as reverted has none   *)
(* left (the poller's apply, confirm and revert, the timers, finish).      *)
THEOREM RulesHold == Spec => []RulesTrue
<1>1. FirewallInv => RulesTrue
  <2> SUFFICES ASSUME FirewallInv PROVE RulesTrue
    OBVIOUS
  <2>1. Calm => RulesInv
    BY DEF FirewallInv
  <2>2. chain \subseteq Tests \cup {Base} /\ \A i \in 1..Len(history) : history[i].id \in Tests
    <3>1. chain \subseteq Tests \cup {Base}
      BY DEF FirewallInv, AddonInv, AddonShape
    <3>2. \A i \in 1..Len(history) : history[i].id \in 1..lastId
      BY DEF FirewallInv, CoreInv, Exact
    <3>3. lastId \in 0..MaxTests
      BY DEF FirewallInv, CoreInv
    <3>. QED
      BY <3>1, <3>2, <3>3, FirewallAssumption DEF Tests
  <2>3. UnconfirmedIsTemporary
    BY <2>1, <2>2 DEF Calm, RulesInv, ChainAccounted, UnconfirmedIsTemporary, Outstanding
  <2>4. RevertedIsGone
    BY <2>1, <2>2 DEF Calm, RulesInv, ChainAccounted, RevertedIsGone, Rev
  <2>. QED
    BY <2>3, <2>4 DEF RulesTrue
<1>. QED
  BY FirewallInits, FirewallStep, <1>1, PTL DEF Spec
=============================================================================
