--------------------------- MODULE ServicesProofs ---------------------------
(***************************************************************************)
(* The services that run beside the audit log.  For any number of calls,   *)
(* users and limits the terminal's promises hold; wherever a set-up fails, *)
(* its attempt leaves nothing behind; for any number of runs of Home       *)
(* Assistant, a clean stop is not called a crash and a crash is not passed *)
(* over; for any number of containers the watchdog keeps to its budget of  *)
(* actions; and what a pusher remembers as sent was taken.                 *)
(***************************************************************************)
EXTENDS TerminalSessions, Lifecycle, CrashForensics, ResourceWatchdog, ObservePush,
        FiniteSetTheorems, SequenceTheorems, TLAPS

\* What a session has in the audit log while it is in a phase.
LogOf(p) ==
  IF p = "closed" THEN <<"open", "close">>
  ELSE IF p \in {"open", "closing"} THEN <<"open">> ELSE << >>

\* A set of calls that may be in flight or open at the same time.
Within(S) ==
  /\ IsFiniteSet(S)
  /\ Cardinality(S) <= MaxTotal
  /\ \A u \in Users : Cardinality({o \in S : UserOf[o] = u}) <= MaxPerUser

SessionShape ==
  /\ termPhase \in [Opens -> Phases]
  /\ termGone \subseteq Opens /\ termCancel \subseteq Opens /\ termExpired \subseteq Opens
  /\ termOwners \in Seq(Opens)

SessionLogs ==
  /\ termLog \in [Opens -> Seq({"open", "close"})]
  /\ \A o \in Opens : termLog[o] = LogOf(termPhase[o])

RunShape ==
  /\ termRun \in [Runners -> {"idle", "lookup", "sent"}]
  /\ termOwed \in [Runners -> Nat]
  /\ RunsRecorded

PairShape ==
  /\ termSecret \in Secrets \cup {NoSecret}
  /\ termForgets \in 0 .. MaxForgets
  /\ termForeign = FALSE

StopShape ==
  /\ termStop \in {"running", "closing", "audit stopped"}
  /\ termTodo \subseteq Opens /\ termWait \subseteq Opens
  /\ termBudget \in BOOLEAN
  /\ termStop = "audit stopped" => termWait = {}

TermInv == SessionShape /\ SessionLogs /\ Within(Counted) /\ RunShape /\ PairShape /\ StopShape

(* The invariant says what the runs check.                                 *)
LEMMA TermInvImplies == TermInv => SessionsKept
<1> SUFFICES ASSUME TermInv PROVE SessionsKept
  OBVIOUS
<1>1. TermTypeOK
  BY DEF TermInv, SessionShape, SessionLogs, RunShape, PairShape, StopShape, TermTypeOK
<1>2. SessionLimits
  BY DEF TermInv, Within, Counted, SessionLimits
<1>3. ClosedIsRecorded
  BY DEF TermInv, SessionLogs, LogOf, StopShape, ClosedIsRecorded
<1>4. RunsRecorded /\ TranscriptIsOwn
  BY DEF TermInv, RunShape, PairShape, TranscriptIsOwn
<1>. QED
  BY <1>1, <1>2, <1>3, <1>4 DEF SessionsKept

(* Fewer calls in flight stay within the limits.                           *)
LEMMA WithinSubset ==
  ASSUME NEW S, Within(S), NEW T \in SUBSET S
  PROVE  Within(T)
<1>1. IsFiniteSet(T) /\ Cardinality(T) <= MaxTotal
  <2>1. Cardinality(S) \in Nat /\ Cardinality(T) \in Nat /\ Cardinality(T) <= Cardinality(S) /\ IsFiniteSet(T)
    BY FS_Subset, FS_CardinalityType DEF Within
  <2>. QED
    BY <2>1, TermAssumption DEF Within
<1>2. ASSUME NEW u \in Users PROVE Cardinality({o \in T : UserOf[o] = u}) <= MaxPerUser
  <2> DEFINE A == {o \in S : UserOf[o] = u}
             B == {o \in T : UserOf[o] = u}
  <2>1. A \in SUBSET S /\ B \in SUBSET A
    OBVIOUS
  <2> HIDE DEF A, B
  <2>2. IsFiniteSet(A)
    BY <2>1, FS_Subset DEF Within
  <2>3. Cardinality(A) \in Nat /\ Cardinality(B) \in Nat /\ Cardinality(B) <= Cardinality(A)
    BY <2>1, <2>2, FS_Subset, FS_CardinalityType
  <2>4. Cardinality(A) <= MaxPerUser
    BY DEF Within, A
  <2>. QED
    BY <2>3, <2>4, TermAssumption DEF B
<1>. QED
  BY <1>1, <1>2 DEF Within

(* A call that found a slot free may take it.                              *)
LEMMA WithinAdd ==
  ASSUME NEW S, Within(S), NEW o \in Opens,
         Cardinality({p \in S : UserOf[p] = UserOf[o]}) < MaxPerUser,
         Cardinality(S) < MaxTotal
  PROVE  Within(S \cup {o})
<1>1. IsFiniteSet(S \cup {o}) /\ Cardinality(S \cup {o}) <= MaxTotal
  <2>1. /\ Cardinality(S) \in Nat /\ IsFiniteSet(S \cup {o})
        /\ Cardinality(S \cup {o}) = IF o \in S THEN Cardinality(S) ELSE Cardinality(S) + 1
    BY FS_AddElement, FS_CardinalityType DEF Within
  <2>. QED
    BY <2>1, TermAssumption
<1>2. ASSUME NEW u \in Users PROVE Cardinality({p \in S \cup {o} : UserOf[p] = u}) <= MaxPerUser
  <2> DEFINE A == {p \in S : UserOf[p] = u}
  <2>0. A \in SUBSET S
    OBVIOUS
  <2>1. CASE u = UserOf[o]
    <3>1. {p \in S \cup {o} : UserOf[p] = u} = A \cup {o} /\ Cardinality(A) < MaxPerUser
      BY <2>1
    <3> HIDE DEF A
    <3>2. IsFiniteSet(A)
      BY <2>0, FS_Subset DEF Within
    <3>3. /\ Cardinality(A) \in Nat
          /\ Cardinality(A \cup {o}) = IF o \in A THEN Cardinality(A) ELSE Cardinality(A) + 1
      BY <3>2, FS_AddElement, FS_CardinalityType
    <3>. QED
      BY <3>1, <3>3, TermAssumption
  <2>2. CASE u # UserOf[o]
    <3>1. {p \in S \cup {o} : UserOf[p] = u} = A
      BY <2>2
    <3>. QED
      BY <3>1 DEF Within
  <2>. QED
    BY <2>1, <2>2
<1>. QED
  BY <1>1, <1>2 DEF Within

LEMMA TermInitInv == TermInit => TermInv
<1> SUFFICES ASSUME TermInit PROVE TermInv
  OBVIOUS
<1> USE TermAssumption
<1>1. SessionShape /\ SessionLogs
  BY DEF TermInit, SessionShape, SessionLogs, Phases, LogOf
<1>2. Within(Counted)
  <2>1. Counted = {}
    BY DEF TermInit, Counted, Sessions, Opening
  <2>2. \A u \in Users : {o \in Counted : UserOf[o] = u} = {}
    BY <2>1
  <2>. QED
    BY <2>1, <2>2, FS_EmptySet DEF Within
<1>3. RunShape
  BY DEF TermInit, RunShape, RunsRecorded
<1>4. PairShape
  BY DEF TermInit, PairShape
<1>5. StopShape
  BY DEF TermInit, StopShape
<1>. QED
  BY <1>1, <1>2, <1>3, <1>4, <1>5 DEF TermInv

(* A call or a session that changes phase, other than by reserving a slot, *)
(* takes none.                                                             *)
LEMMA NoNewSlot ==
  ASSUME TermInv, NEW o \in Opens, NEW p \in Phases,
         termPhase' = [termPhase EXCEPT ![o] = p],
         p \in {"info", "connect", "open"} => termPhase[o] \in {"info", "connect", "open"}
  PROVE  Within(Counted')
<1>1. Counted' \in SUBSET Counted
  BY DEF TermInv, SessionShape, Counted, Sessions, Opening
<1>. QED
  BY <1>1, WithinSubset DEF TermInv

(* A record appended to one record.                                        *)
LEMMA AppendToOne ==
  ASSUME NEW T, NEW a \in T, NEW b \in T
  PROVE  Append(<<a>>, b) = <<a, b>>
<1>1. <<a, b>> \in Seq(T) /\ Append(<<a>>, b) \in Seq(T)
  OBVIOUS
<1>2. Len(Append(<<a>>, b)) = 2 /\ Len(<<a, b>>) = 2
  OBVIOUS
<1>3. Append(<<a>>, b)[1] = a /\ Append(<<a>>, b)[2] = b
  OBVIOUS
<1>4. \A i \in 1 .. 2 : Append(<<a>>, b)[i] = <<a, b>>[i]
  BY <1>3
<1>. QED
  BY <1>1, <1>2, <1>4, SeqEqual

(* A session's log follows its phase.                                      *)
LEMMA LogFollows ==
  ASSUME TermInv, NEW o \in Opens, NEW p \in Phases,
         termPhase' = [termPhase EXCEPT ![o] = p],
         \/ UNCHANGED termLog /\ LogOf(p) = LogOf(termPhase[o])
         \/ termLog' = [termLog EXCEPT ![o] = LogOf(p)]
  PROVE  SessionLogs'
<1>1. LogOf(p) \in Seq({"open", "close"})
  <2>1. <<"open", "close">> \in Seq({"open", "close"})
    OBVIOUS
  <2>2. <<"open">> \in Seq({"open", "close"})
    OBVIOUS
  <2>3. << >> \in Seq({"open", "close"})
    OBVIOUS
  <2>. QED
    BY <2>1, <2>2, <2>3, Zenon DEF LogOf
<1>2. termPhase \in [Opens -> Phases] /\ termLog \in [Opens -> Seq({"open", "close"})]
      /\ \A q \in Opens : termLog[q] = LogOf(termPhase[q])
  BY DEF TermInv, SessionShape, SessionLogs
<1>. QED
  BY <1>1, <1>2 DEF SessionLogs

(* Every step keeps the invariant.                                         *)
LEMMA TermStep == TermInv /\ [TermNext]_termVars => TermInv'
<1> SUFFICES ASSUME TermInv, [TermNext]_termVars PROVE TermInv'
  OBVIOUS
<1>runs. ASSUME UNCHANGED runVars PROVE RunShape'
  BY <1>runs DEF TermInv, RunShape, RunsRecorded, runVars
<1>pair. ASSUME UNCHANGED <<pairVars, termForeign>> PROVE PairShape'
  BY <1>pair DEF TermInv, PairShape, pairVars
<1>stop. ASSUME UNCHANGED stopVars PROVE StopShape'
  BY <1>stop DEF TermInv, StopShape, stopVars
<1>slots. ASSUME UNCHANGED termPhase PROVE Within(Counted')
  BY <1>slots DEF TermInv, Counted, Sessions, Opening
<1>logs. ASSUME UNCHANGED <<termPhase, termLog>> PROVE SessionLogs'
  BY <1>logs DEF TermInv, SessionLogs
<1>sess. ASSUME UNCHANGED sessionVars PROVE SessionShape' /\ SessionLogs' /\ Within(Counted')
  BY <1>sess, <1>slots, <1>logs DEF TermInv, SessionShape, sessionVars
<1>1. ASSUME NEW o \in Opens, AsyncOpen(o) PROVE TermInv'
  <2>1. CASE SlotFree(o)
    <3>1. termPhase' = [termPhase EXCEPT ![o] = "info"] /\ termPhase[o] = "idle" /\ UNCHANGED termLog
      BY <1>1, <2>1 DEF AsyncOpen
    <3>2. Within(Counted')
      <4>1. Within(Counted \cup {o})
        BY <2>1, WithinAdd DEF TermInv, SlotFree
      <4>2. Counted' = Counted \cup {o}
        BY <3>1 DEF TermInv, SessionShape, Counted, Sessions, Opening
      <4>. QED
        BY <4>1, <4>2
    <3>3. SessionLogs'
      BY <3>1, LogFollows DEF LogOf, Phases
    <3>4. SessionShape'
      BY <1>1, <3>1 DEF AsyncOpen, TermInv, SessionShape, Phases
    <3>. QED
      BY <1>1, <1>runs, <1>pair, <1>stop, <3>2, <3>3, <3>4 DEF AsyncOpen, TermInv
  <2>2. CASE ~SlotFree(o)
    <3>1. termPhase' = [termPhase EXCEPT ![o] = "refused"] /\ termPhase[o] = "idle" /\ UNCHANGED termLog
      BY <1>1, <2>2 DEF AsyncOpen
    <3>2. Within(Counted') /\ SessionLogs'
      BY <3>1, NoNewSlot, LogFollows DEF LogOf, Phases
    <3>3. SessionShape'
      BY <1>1, <3>1 DEF AsyncOpen, TermInv, SessionShape, Phases
    <3>. QED
      BY <1>1, <1>runs, <1>pair, <1>stop, <3>2, <3>3 DEF AsyncOpen, TermInv
  <2>. QED
    BY <2>1, <2>2
<1>2. ASSUME NEW o \in Opens, OpenLookup(o) \/ ConnectFails(o) PROVE TermInv'
  <2>1. PICK p \in {"refused", "connect"} : termPhase' = [termPhase EXCEPT ![o] = p]
    BY <1>2 DEF OpenLookup, ConnectFails
  <2>2. termPhase[o] \in {"info", "connect"} /\ UNCHANGED <<termGone, termCancel, termExpired, termLog, termOwners>>
    BY <1>2 DEF OpenLookup, ConnectFails
  <2>3. Within(Counted') /\ SessionLogs'
    BY <2>1, <2>2, NoNewSlot, LogFollows DEF LogOf, Phases
  <2>4. SessionShape'
    BY <2>1, <2>2 DEF TermInv, SessionShape, Phases
  <2>. QED
    BY <1>2, <1>runs, <1>pair, <1>stop, <2>3, <2>4 DEF OpenLookup, ConnectFails, TermInv
<1>3. ASSUME NEW o \in Opens, OpenConnected(o) PROVE TermInv'
  <2>1. /\ termPhase' = [termPhase EXCEPT ![o] = "open"] /\ termPhase[o] = "connect"
        /\ termLog' = [termLog EXCEPT ![o] = <<"open">>]
    <3>1. termLog[o] = << >>
      BY <1>3 DEF OpenConnected, TermInv, SessionLogs, LogOf
    <3>. QED
      BY <1>3, <3>1 DEF OpenConnected
  <2>2. Within(Counted') /\ SessionLogs'
    BY <2>1, NoNewSlot, LogFollows DEF LogOf, Phases
  <2>3. termOwners' \in Seq(Opens)
    <3>1. Remember(termOwners, o) \in Seq(Opens)
      BY TermAssumption DEF Remember, TermInv, SessionShape
    <3>. QED
      BY <1>3, <3>1 DEF OpenConnected
  <2>4. SessionShape'
    BY <1>3, <2>1, <2>3 DEF OpenConnected, TermInv, SessionShape, Phases
  <2>. QED
    BY <1>3, <1>runs, <1>pair, <1>stop, <2>2, <2>4 DEF OpenConnected, TermInv
<1>4. ASSUME NEW o \in Opens, DeadlinePasses(o) \/ Frame(o) \/ UserCloses(o) \/ BrowserGone(o)
      PROVE  TermInv'
  <2>1. UNCHANGED <<termPhase, termLog, termOwners, runVars, pairVars, stopVars, termForeign>>
    BY <1>4 DEF DeadlinePasses, Frame, UserCloses, BrowserGone
  <2>2. termGone' \subseteq Opens /\ termCancel' \subseteq Opens /\ termExpired' \subseteq Opens
    BY <1>4 DEF DeadlinePasses, Frame, AfterFrame, UserCloses, BrowserGone, RequestClose, TermInv, SessionShape
  <2>3. SessionShape'
    BY <2>1, <2>2 DEF TermInv, SessionShape
  <2>. QED
    BY <1>runs, <1>pair, <1>stop, <1>slots, <1>logs, <2>1, <2>3 DEF TermInv
<1>5. ASSUME NEW o \in Opens, ReaderEnds(o) PROVE TermInv'
  <2>1. /\ termPhase' = [termPhase EXCEPT ![o] = "closing"] /\ termPhase[o] = "open"
        /\ UNCHANGED <<termLog, termOwners>>
    BY <1>5 DEF ReaderEnds, Sessions
  <2>2. Within(Counted') /\ SessionLogs'
    BY <2>1, NoNewSlot, LogFollows DEF LogOf, Phases
  <2>3. SessionShape'
    BY <1>5, <2>1 DEF ReaderEnds, TermInv, SessionShape, Phases
  <2>. QED
    BY <1>5, <1>runs, <1>pair, <1>stop, <2>2, <2>3 DEF ReaderEnds, TermInv
<1>close. ASSUME NEW o \in Opens, termPhase[o] = "closing",
                 termPhase' = [termPhase EXCEPT ![o] = "closed"], CloseRecord(o)
          PROVE  Within(Counted') /\ SessionLogs' /\ termPhase' \in [Opens -> Phases]
  <2>1. termLog' = [termLog EXCEPT ![o] = <<"open", "close">>]
    <3>1. termLog[o] = <<"open">>
      BY <1>close DEF TermInv, SessionLogs, LogOf
    <3>2. Append(<<"open">>, "close") = <<"open", "close">>
      BY AppendToOne, "open" \in {"open", "close"}, "close" \in {"open", "close"}
    <3>. QED
      BY <1>close, <3>1, <3>2, Zenon DEF CloseRecord
  <2>. QED
    BY <1>close, <2>1, NoNewSlot, LogFollows DEF LogOf, Phases, TermInv, SessionShape
<1>6. ASSUME NEW o \in Opens, SocketClosed(o) PROVE TermInv'
  <2>1. Within(Counted') /\ SessionLogs' /\ termPhase' \in [Opens -> Phases]
    BY <1>6, <1>close DEF SocketClosed
  <2>2. SessionShape'
    BY <1>6, <2>1 DEF SocketClosed, TermInv, SessionShape
  <2>. QED
    BY <1>6, <1>runs, <1>pair, <1>stop, <2>1, <2>2 DEF SocketClosed, TermInv
<1>7. ASSUME NEW o \in Opens, CloseNext(o) PROVE TermInv'
  <2>1. UNCHANGED <<termPhase, termGone, termExpired, termLog, termOwners, runVars, pairVars, termForeign>>
    BY <1>7 DEF CloseNext
  <2>2. termCancel' \subseteq Opens /\ termTodo' \subseteq Opens /\ termWait' \subseteq Opens
    BY <1>7 DEF CloseNext, RequestClose, TermInv, SessionShape, StopShape
  <2>3. SessionShape'
    BY <2>1, <2>2 DEF TermInv, SessionShape
  <2>4. StopShape'
    BY <1>7, <2>2 DEF CloseNext, TermInv, StopShape
  <2>. QED
    BY <1>runs, <1>pair, <1>slots, <1>logs, <2>1, <2>3, <2>4 DEF TermInv
<1>8. ASSUME StopBegins \/ CloseAwaited \/ AuditStops PROVE TermInv'
  <2>1. UNCHANGED <<sessionVars, runVars, pairVars, termForeign>>
    BY <1>8 DEF StopBegins, CloseAwaited, AuditStops
  <2>2. StopShape'
    BY <1>8 DEF StopBegins, CloseAwaited, AuditStops, TermInv, StopShape, Sessions
  <2>. QED
    BY <1>runs, <1>pair, <1>sess, <2>1, <2>2 DEF TermInv
<1>9. ASSUME BudgetExpires PROVE TermInv'
  <2>1. StopShape'
    BY <1>9 DEF BudgetExpires, TermInv, StopShape
  <2>2. PICK o \in termWait :
          IF termPhase[o] = "closing" THEN Interrupt(o) ELSE UNCHANGED <<termPhase, termLog>>
    BY <1>9 DEF BudgetExpires
  <2>3. o \in Opens
    BY DEF TermInv, StopShape
  <2>4. Within(Counted') /\ SessionLogs' /\ termPhase' \in [Opens -> Phases]
    <3>1. CASE termPhase[o] = "closing"
      BY <2>2, <2>3, <3>1, <1>close DEF Interrupt
    <3>2. CASE termPhase[o] # "closing"
      BY <2>2, <3>2, <1>slots, <1>logs DEF TermInv, SessionShape
    <3>. QED
      BY <3>1, <3>2
  <2>5. SessionShape'
    BY <1>9, <2>4 DEF BudgetExpires, TermInv, SessionShape
  <2>. QED
    BY <1>9, <1>runs, <1>pair, <2>1, <2>4, <2>5 DEF BudgetExpires, TermInv
<1>10. ASSUME NEW u \in Runners, AsyncRun(u) \/ RunRefused(u) \/ RunSent(u) \/ RunEnds(u)
       PROVE  TermInv'
  <2>1. UNCHANGED <<sessionVars, pairVars, stopVars, termForeign>>
    BY <1>10 DEF AsyncRun, RunRefused, RunSent, RunEnds
  <2>2. RunShape'
    <3>1. CASE AsyncRun(u) \/ RunRefused(u)
      BY <3>1 DEF AsyncRun, RunRefused, TermInv, RunShape, RunsRecorded
    <3>2. CASE RunSent(u)
      BY <3>2 DEF RunSent, TermInv, RunShape, RunsRecorded
    <3>3. CASE RunEnds(u)
      BY <3>3 DEF RunEnds, AuditRun, TermInv, RunShape, RunsRecorded
    <3>. QED
      BY <1>10, <3>1, <3>2, <3>3
  <2>. QED
    BY <1>sess, <1>pair, <1>stop, <2>1, <2>2 DEF TermInv
<1>11. ASSUME NEW u \in Users, NEW o \in Opens, AsyncTranscript(u, o) PROVE TermInv'
  <2>1. UNCHANGED <<sessionVars, runVars, pairVars, stopVars>>
    BY <1>11 DEF AsyncTranscript
  <2>2. termForeign' = FALSE
    BY <1>11 DEF AsyncTranscript, MayRead, TermInv, PairShape
  <2>3. PairShape'
    BY <2>1, <2>2 DEF TermInv, PairShape, pairVars
  <2>. QED
    BY <1>sess, <1>runs, <1>stop, <2>1, <2>3 DEF TermInv
<1>12. ASSUME (\E s \in Secrets : PairTerminal(s)) \/ ForgetPairing PROVE TermInv'
  <2>1. UNCHANGED <<sessionVars, runVars, stopVars>>
    BY <1>12 DEF PairTerminal, ForgetPairing
  <2>2. PairShape'
    BY <1>12, TermAssumption DEF PairTerminal, ForgetPairing, TermInv, PairShape
  <2>. QED
    BY <1>sess, <1>runs, <1>stop, <2>1, <2>2 DEF TermInv
<1>13. CASE UNCHANGED termVars
  BY <1>13, <1>sess, <1>runs, <1>pair, <1>stop DEF TermInv, termVars
<1>. QED
  BY <1>1, <1>2, <1>3, <1>4, <1>5, <1>6, <1>7, <1>8, <1>9, <1>10, <1>11, <1>12, <1>13 DEF TermNext

(* However many opens wait for the app at the same time, and wherever the  *)
(* stop budget cuts a close: the limits hold, a closed session and a run   *)
(* that left Core have their records, transcripts stay private             *)
(* (TerminalSessions.async_open, _finish, async_run, async_transcript).    *)
THEOREM SessionsHold == TermSpec => []SessionsKept
<1>1. TermSpec => []TermInv
  BY TermInitInv, TermStep, PTL DEF TermSpec
<1>. QED
  BY <1>1, TermInvImplies, PTL

-----------------------------------------------------------------------------
(***************************************************************************)
(* Set-up and shutdown.                                                    *)
(***************************************************************************)
Runnable == {"audit", "syslog", "health", "scanner", "watchdog", "forensics", "observe", "timers"}
Stoppable == {"terminal", "audit", "syslog", "health", "scanner", "watchdog", "history", "observe", "store"}

LcShape ==
  /\ lcEntry \in {"notLoaded", "setup", "loaded", "platforms", "unloading", "cleaning", "failedUnload"}
  /\ lcGen \in 0 .. MaxSetups /\ lcStep \in SetupSteps
  /\ lcCallbacks \subseteq {"flush", "forget", "stop", "unregister", "timers"}
  /\ lcRuntime \in 0 .. lcGen
  /\ lcApi \subseteq {"commands", "services", "panel"}
  /\ lcUp \subseteq Attempts \X Runnable
  /\ lcStop \in [Attempts -> 0 .. 10]
  /\ lcHung \subseteq Attempts /\ lcLeft \subseteq Attempts \X Stoppable
  /\ lcFlush \subseteq {"callback", "stop"} \X Attempts
  /\ lcDirty \in BOOLEAN /\ lcLost \in BOOLEAN /\ lcStale \in BOOLEAN /\ lcGaveUp \in BOOLEAN
  /\ lcBad \in 0 .. MaxBadStops /\ lcCommands \in 0 .. MaxCommands

Early == lcEntry = "setup" /\ lcStep \in {"load", "secrets", "build"}
Late == \/ lcEntry = "setup" /\ lcStep \in {"start", "register", "panel", "platforms"}
        \/ lcEntry \in {"loaded", "platforms", "failedUnload", "unloading"}

\* What can be found from outside at each state of the entry.
EntrySound ==
  /\ lcEntry = "setup" => lcStep # "done"
  /\ lcEntry # "notLoaded" => lcGen # 0
  /\ ~Late => lcRuntime = 0 /\ lcApi \subseteq {"commands"}
  /\ Early => lcCallbacks = IF lcStep = "load" THEN {} ELSE {"flush"}
  /\ Late => {"flush", "forget", "stop", "unregister"} \subseteq lcCallbacks
  /\ lcEntry \in {"notLoaded", "cleaning"} => lcCallbacks = {}

NothingUp(g) == \A s \in Runnable : <<g, s>> \notin lcUp

\* Nothing runs of an attempt not made yet.
Unmade ==
  \A g \in Attempts : g > lcGen =>
    lcStop[g] = 0 /\ NothingUp(g) /\ <<"callback", g>> \notin lcFlush

\* What the stops of every attempt have done so far.
StopsSound ==
  \A g \in Attempts :
    /\ g \in lcHung => lcStop[g] \in 1 .. 8
    /\ <<"stop", g>> \in lcFlush => lcStop[g] = 9
    /\ <<g, "audit">> \notin lcLeft
    /\ \A i \in 1 .. 9 : i < lcStop[g] /\ <<g, StopOrder[i]>> \in lcUp => <<g, StopOrder[i]>> \in lcLeft

\* What holds of the attempt under way.
CurrentSound ==
  \A g \in Attempts : g = lcGen =>
    /\ lcEntry \in {"setup", "loaded", "platforms", "failedUnload"} => lcStop[g] = 0
    /\ lcEntry \in {"setup", "loaded", "platforms", "failedUnload", "unloading"} => <<"callback", g>> \notin lcFlush
    /\ Early => NothingUp(g)
    /\ lcEntry = "cleaning" => /\ <<g, "timers">> \notin lcUp /\ <<g, "forensics">> \notin lcUp
                               /\ lcStop[g] = 0 => NothingUp(g)

Rested(g) == g < lcGen \/ (g = lcGen /\ lcEntry = "notLoaded")

\* What a clean-up that was waited for leaves.
SettledSound ==
  ~lcGaveUp =>
    /\ ~lcStale
    /\ \A g \in Attempts : Rested(g) =>
         /\ lcStop[g] \in {0, 10} /\ <<"callback", g>> \notin lcFlush
         /\ \A s \in Runnable : <<g, s>> \in lcUp => <<g, s>> \in lcLeft

\* A change that no flush has taken.
DirtySound ==
  lcDirty /\ ~lcLost /\ ~lcGaveUp =>
    /\ lcEntry # "notLoaded" /\ (lcEntry = "setup" => lcStep # "load")
    /\ lcEntry = "cleaning" => lcStop[lcGen] \in 1 .. 9 /\ <<"stop", lcGen>> \notin lcFlush

LcInv == LcShape /\ EntrySound /\ Unmade /\ StopsSound /\ CurrentSound /\ SettledSound /\ DirtySound

(* The orders of the starts and of the stops. *)
LEMMA Orders ==
  /\ Len(StopOrder) = 9 /\ DOMAIN StopOrder = 1 .. 9 /\ StopsOver = 10
  /\ \A i \in 1 .. 9 : StopOrder[i] \in Stoppable /\ (StopOrder[i] = "store" <=> i = 9)
  /\ \A s \in Runnable \ {"timers", "forensics"} : \E i \in 1 .. 9 : StopOrder[i] = s
  /\ {StopOrder[i] : i \in DOMAIN StopOrder} = Stoppable
  /\ {StartOrder[i] : i \in DOMAIN StartOrder} \cup {"timers"} = Runnable
  /\ \A i \in DOMAIN StartOrder : StartOrder[i] \in Runnable
<1>1. Len(StopOrder) = 9 /\ DOMAIN StopOrder = 1 .. 9
  BY DEF StopOrder
<1>2. /\ StopOrder[1] = "terminal" /\ StopOrder[2] = "audit" /\ StopOrder[3] = "syslog"
      /\ StopOrder[4] = "health" /\ StopOrder[5] = "scanner" /\ StopOrder[6] = "watchdog"
      /\ StopOrder[7] = "history" /\ StopOrder[8] = "observe" /\ StopOrder[9] = "store"
  BY DEF StopOrder
<1>3. ASSUME NEW i \in 1 .. 9 PROVE i \in {1, 2, 3, 4, 5, 6, 7, 8, 9}
  OBVIOUS
<1>4. \A i \in 1 .. 9 : StopOrder[i] \in Stoppable /\ (StopOrder[i] = "store" <=> i = 9)
  BY <1>2, <1>3 DEF Stoppable
<1>5. \A s \in Runnable \ {"timers", "forensics"} : \E i \in 1 .. 9 : StopOrder[i] = s
  <2>1. {1, 2, 3, 4, 5, 6, 7, 8, 9} \subseteq 1 .. 9
    OBVIOUS
  <2>. QED
    BY <1>2, <2>1 DEF Runnable
<1>6. {StopOrder[i] : i \in 1 .. 9} = Stoppable
  <2>1. \A s \in Stoppable : \E i \in 1 .. 9 : StopOrder[i] = s
    <3>1. {1, 2, 3, 4, 5, 6, 7, 8, 9} \subseteq 1 .. 9
      OBVIOUS
    <3>. QED
      BY <1>2, <3>1 DEF Stoppable
  <2>. QED
    BY <1>4, <2>1
<1>7. DOMAIN StartOrder = 1 .. 7
  BY DEF StartOrder
<1>8. /\ StartOrder[1] = "audit" /\ StartOrder[2] = "syslog" /\ StartOrder[3] = "health"
      /\ StartOrder[4] = "scanner" /\ StartOrder[5] = "watchdog" /\ StartOrder[6] = "forensics"
      /\ StartOrder[7] = "observe"
  BY DEF StartOrder
<1>9. \A i \in 1 .. 7 : StartOrder[i] \in Runnable
  <2>1. ASSUME NEW i \in 1 .. 7 PROVE i \in {1, 2, 3, 4, 5, 6, 7}
    OBVIOUS
  <2>. QED
    BY <1>8, <2>1 DEF Runnable
<1>10. \A s \in Runnable \ {"timers"} : \E i \in 1 .. 7 : StartOrder[i] = s
  <2>1. {1, 2, 3, 4, 5, 6, 7} \subseteq 1 .. 7
    OBVIOUS
  <2>. QED
    BY <1>8, <2>1 DEF Runnable
<1>11. {StartOrder[i] : i \in 1 .. 7} \cup {"timers"} = Runnable
  BY <1>9, <1>10 DEF Runnable
<1>. QED
  BY <1>1, <1>4, <1>5, <1>6, <1>7, <1>9, <1>11 DEF StopsOver

(* Attempts are counted. *)
LEMMA GenerationsCount == LcInv => lcGen \in Nat /\ Attempts \subseteq Nat
BY LifecycleAssumption DEF LcInv, LcShape, Attempts

(* A stop under way is one of the attempt at hand, unless Core gave up. *)
LEMMA StopsAreCurrent ==
  ASSUME LcInv, NEW g \in Attempts, lcStop[g] \in 1 .. 9, ~lcGaveUp
  PROVE  g = lcGen /\ lcEntry \in {"unloading", "cleaning"}
<1>1. lcStop[g] # 0 /\ lcStop[g] # 10
  OBVIOUS
<1>2. ~(g > lcGen) /\ ~Rested(g)
  BY <1>1 DEF LcInv, Unmade, SettledSound
<1>3. g = lcGen /\ lcEntry # "notLoaded"
  BY <1>2, GenerationsCount DEF Rested
<1>4. ~(lcEntry \in {"setup", "loaded", "platforms", "failedUnload"})
  BY <1>1, <1>3 DEF LcInv, CurrentSound
<1>. QED
  BY <1>3, <1>4 DEF LcInv, LcShape

(* An attempt under way is one of the attempts, and is not at rest. *)
LEMMA UnderWay ==
  LcInv /\ lcEntry # "notLoaded" => lcGen \in Attempts /\ ~Rested(lcGen)
<1>1. LcInv /\ lcEntry # "notLoaded" => lcGen \in 1 .. MaxSetups
  BY LifecycleAssumption DEF LcInv, LcShape, EntrySound
<1>. QED
  BY <1>1, GenerationsCount DEF Attempts, Rested

(* The invariant says what the run checks. *)
LEMMA LcInvImplies == LcInv => CleanGenerations
<1> SUFFICES ASSUME LcInv PROVE CleanGenerations
  OBVIOUS
<1>1. LcTypeOK
  BY Orders DEF LcInv, LcShape, LcTypeOK
<1>2. lcUp \subseteq lcLeft \/ lcGaveUp \/ lcEntry # "notLoaded"
  <2> SUFFICES ASSUME ~lcGaveUp, lcEntry = "notLoaded", NEW g \in Attempts, NEW s \in Runnable,
                      <<g, s>> \in lcUp
               PROVE  <<g, s>> \in lcLeft
    BY DEF LcInv, LcShape
  <2>1. ~(g > lcGen)
    BY DEF LcInv, Unmade, NothingUp
  <2>2. g \in Nat /\ lcGen \in Nat
    BY LifecycleAssumption DEF Attempts, LcInv, LcShape
  <2>3. Rested(g)
    BY <2>1, <2>2 DEF Rested
  <2>. QED
    BY <2>3 DEF LcInv, SettledSound
<1>3. NothingLeft
  BY <1>2 DEF LcInv, EntrySound, Late, NothingLeft
<1>4. OneGeneration
  <2> SUFFICES ASSUME ~lcGaveUp
               PROVE  ~lcStale /\ \A g, h \in Attempts : IsUp(g, "audit") /\ IsUp(h, "audit") => g = h
    BY DEF OneGeneration
  <2>1. ASSUME NEW g \in Attempts, IsUp(g, "audit") PROVE g = lcGen
    <3>1. ~(g > lcGen) /\ ~Rested(g)
      BY <2>1 DEF LcInv, Unmade, NothingUp, SettledSound, StopsSound, IsUp, Runnable
    <3>2. g \in Nat /\ lcGen \in Nat
      BY LifecycleAssumption DEF Attempts, LcInv, LcShape
    <3>. QED
      BY <3>1, <3>2 DEF Rested
  <2>. QED
    BY <2>1 DEF LcInv, SettledSound
<1>5. SavedAtRest
  BY DEF LcInv, DirtySound, SavedAtRest
<1>. QED
  BY <1>1, <1>3, <1>4, <1>5 DEF CleanGenerations

LEMMA LcInit_Inv == LcInit => LcInv
<1> SUFFICES ASSUME LcInit PROVE LcInv
  OBVIOUS
<1> USE LifecycleAssumption DEF LcInit
<1>1. LcShape
  <2>1. /\ 0 \in 0 .. MaxSetups /\ 0 \in 0 .. 0 /\ 0 \in 0 .. 10
        /\ 0 \in 0 .. MaxBadStops /\ 0 \in 0 .. MaxCommands
    OBVIOUS
  <2>2. lcStop \in [Attempts -> 0 .. 10]
    BY <2>1
  <2>. QED
    BY <2>1, <2>2 DEF LcShape, SetupSteps
<1>2. EntrySound
  BY DEF EntrySound, Late, Early
<1>3. Unmade
  BY DEF Unmade, NothingUp
<1>4. StopsSound
  BY DEF StopsSound
<1>5. CurrentSound
  BY DEF CurrentSound, Early, NothingUp
<1>6. SettledSound
  BY DEF SettledSound, Rested
<1>7. DirtySound
  BY DEF DirtySound
<1>. QED
  BY <1>1, <1>2, <1>3, <1>4, <1>5, <1>6, <1>7 DEF LcInv

LEMMA LcSetupBegins == ASSUME LcInv, SetupBegins PROVE LcInv'
<1> USE LifecycleAssumption DEF SetupBegins, lcStops, lcStore, lcSetup, LcInv
<1>1. LcShape'
  BY DEF LcShape, SetupSteps, Attempts
<1>2. EntrySound'
  BY DEF EntrySound, Early, Late, LcShape
<1>3. Unmade'
  BY DEF Unmade, NothingUp, Attempts, LcShape
<1>4. StopsSound'
  BY DEF StopsSound, LcShape, CurrentSound, EntrySound, Early, NothingUp
<1>5. CurrentSound'
  BY DEF CurrentSound, Early, NothingUp, Attempts, LcShape, Unmade, EntrySound, Late
<1>6. SettledSound'
  <2>1. ASSUME NEW g \in Attempts, Rested(g)' PROVE Rested(g)
    BY <2>1, GenerationsCount DEF Rested
  <2>2. lcGaveUp' = lcGaveUp /\ lcStale' = lcStale /\ lcStop' = lcStop /\ lcFlush' = lcFlush
        /\ lcUp' = lcUp /\ lcLeft' = lcLeft
    OBVIOUS
  <2>. QED
    BY <2>1, <2>2 DEF SettledSound
<1>7. DirtySound'
  BY DEF DirtySound, LcShape, EntrySound, StopsSound, CurrentSound, SettledSound, Rested
<1>. QED
  BY <1>1, <1>2, <1>3, <1>4, <1>5, <1>6, <1>7 DEF LcInv

LEMMA LcStoreLoaded == ASSUME LcInv, StoreLoaded PROVE LcInv'
<1> USE LifecycleAssumption DEF StoreLoaded, SetupAt, FlushCallback, lcStops, lcStore, lcSetup, LcInv
<1>1. LcShape'
  BY DEF LcShape, SetupSteps, Attempts
<1>2. EntrySound'
  BY DEF EntrySound, Early, Late, LcShape
<1>3. Unmade'
  BY DEF Unmade, NothingUp, Attempts, LcShape
<1>4. StopsSound'
  BY DEF StopsSound, LcShape, CurrentSound, EntrySound, Early, NothingUp
<1>5. CurrentSound'
  BY DEF CurrentSound, Early, NothingUp, Attempts, LcShape, Unmade, EntrySound, Late
<1>6. SettledSound'
  BY DEF SettledSound, Rested, Attempts, LcShape, StopsSound, CurrentSound, EntrySound, Unmade
<1>7. DirtySound'
  BY DEF DirtySound, LcShape, EntrySound, StopsSound, CurrentSound, SettledSound, Rested
<1>. QED
  BY <1>1, <1>2, <1>3, <1>4, <1>5, <1>6, <1>7 DEF LcInv

LEMMA LcSecretsMoved == ASSUME LcInv, SecretsMoved PROVE LcInv'
<1> USE LifecycleAssumption DEF SecretsMoved, SetupAt, lcStops, lcStore, lcSetup, LcInv
<1>1. LcShape'
  BY DEF LcShape, SetupSteps, Attempts
<1>2. EntrySound'
  BY DEF EntrySound, Early, Late, LcShape
<1>3. Unmade'
  BY DEF Unmade, NothingUp, Attempts, LcShape
<1>4. StopsSound'
  BY DEF StopsSound, LcShape, CurrentSound, EntrySound, Early, NothingUp
<1>5. CurrentSound'
  BY DEF CurrentSound, Early, NothingUp, Attempts, LcShape, Unmade, EntrySound, Late
<1>6. SettledSound'
  BY DEF SettledSound, Rested, Attempts, LcShape, StopsSound, CurrentSound, EntrySound, Unmade
<1>7. DirtySound'
  BY DEF DirtySound, LcShape, EntrySound, StopsSound, CurrentSound, SettledSound, Rested
<1>. QED
  BY <1>1, <1>2, <1>3, <1>4, <1>5, <1>6, <1>7 DEF LcInv

LEMMA LcRuntimeBuilt == ASSUME LcInv, RuntimeBuilt PROVE LcInv'
<1> USE LifecycleAssumption DEF RuntimeBuilt, SetupAt, RuntimeCallbacks, lcStops, lcStore, lcSetup, LcInv
<1>1. LcShape'
  BY DEF LcShape, SetupSteps, Attempts
<1>2. EntrySound'
  BY DEF EntrySound, Early, Late, LcShape
<1>3. Unmade'
  BY DEF Unmade, NothingUp, Attempts, LcShape
<1>4. StopsSound'
  BY DEF StopsSound, LcShape, CurrentSound, EntrySound, Early, NothingUp
<1>5. CurrentSound'
  BY DEF CurrentSound, Early, NothingUp, Attempts, LcShape, Unmade, EntrySound, Late
<1>6. SettledSound'
  BY DEF SettledSound, Rested, Attempts, LcShape, StopsSound, CurrentSound, EntrySound, Unmade
<1>7. DirtySound'
  BY DEF DirtySound, LcShape, EntrySound, StopsSound, CurrentSound, SettledSound, Rested
<1>. QED
  BY <1>1, <1>2, <1>3, <1>4, <1>5, <1>6, <1>7 DEF LcInv

LEMMA LcServiceStarts == ASSUME LcInv, ServiceStarts PROVE LcInv'
<1> USE LifecycleAssumption DEF ServiceStarts, SetupAt, IsUp, lcStops, lcStore, lcSetup, LcInv
<1>8. lcGen \in Attempts /\ ~Rested(lcGen) /\ lcStop[lcGen] = 0
  BY UnderWay DEF CurrentSound
<1>9. /\ lcGaveUp' = lcGaveUp /\ lcStale' = lcStale /\ lcStop' = lcStop /\ lcFlush' = lcFlush
      /\ lcLeft' = lcLeft /\ lcHung' = lcHung /\ lcGen' = lcGen /\ lcRuntime' = lcRuntime
      /\ lcBad' = lcBad /\ lcDirty' = lcDirty /\ lcLost' = lcLost /\ lcCommands' = lcCommands
  OBVIOUS
<1>10. PICK s \in Runnable : lcUp' = lcUp \cup {<<lcGen, s>>}
  BY Orders
<1>11. /\ lcEntry = "setup" /\ lcStep = "start" /\ lcEntry' = "setup" /\ lcStep' \in {"start", "register"}
       /\ lcCallbacks' = lcCallbacks /\ lcApi' = lcApi
  OBVIOUS
<1> HIDE DEF ServiceStarts
<1>1. LcShape'
  BY <1>8, <1>9, <1>10, <1>11 DEF LcShape, SetupSteps
<1>2. EntrySound'
  BY <1>9, <1>11 DEF EntrySound, Early, Late, LcShape
<1>3. Unmade'
  <2> SUFFICES ASSUME NEW h \in Attempts, h > lcGen
               PROVE  lcStop[h] = 0 /\ NothingUp(h)' /\ <<"callback", h>> \notin lcFlush
    BY <1>9 DEF Unmade
  <2>1. h # lcGen
    BY GenerationsCount
  <2>. QED
    BY <1>10, <2>1 DEF Unmade, NothingUp
<1>4. StopsSound'
  <2> SUFFICES ASSUME NEW h \in Attempts, NEW i \in 1 .. 9, i < lcStop[h], <<h, StopOrder[i]>> \in lcUp'
               PROVE  <<h, StopOrder[i]>> \in lcLeft
    BY <1>9 DEF StopsSound
  <2>1. ~(i < 0)
    OBVIOUS
  <2>2. h # lcGen
    BY <1>8, <2>1
  <2>3. <<h, StopOrder[i]>> \in lcUp
    BY <1>10, <2>2
  <2>. QED
    BY <2>3 DEF StopsSound
<1>5. CurrentSound'
  BY <1>9, <1>10, <1>11 DEF CurrentSound, Early
<1>6. SettledSound'
  <2> SUFFICES ASSUME ~lcGaveUp, NEW h \in Attempts, Rested(h)'
               PROVE  /\ ~lcStale /\ lcStop[h] \in {0, 10} /\ <<"callback", h>> \notin lcFlush
                      /\ \A t \in Runnable : <<h, t>> \in lcUp' => <<h, t>> \in lcLeft
    <3>1. ~lcGaveUp => ~lcStale
      BY DEF SettledSound
    <3>. QED
      BY <1>9, <3>1 DEF SettledSound
  <2>1. Rested(h) /\ h # lcGen
    BY <1>8, <1>9, <1>11 DEF Rested
  <2>. QED
    BY <1>10, <2>1 DEF SettledSound
<1>7. DirtySound'
  BY <1>9, <1>11 DEF DirtySound
<1>. QED
  BY <1>1, <1>2, <1>3, <1>4, <1>5, <1>6, <1>7 DEF LcInv

LEMMA LcApiRegistered == ASSUME LcInv, ApiRegistered PROVE LcInv'
<1> USE LifecycleAssumption DEF ApiRegistered, SetupAt, lcStops, lcStore, lcSetup, LcInv
<1>1. LcShape'
  BY DEF LcShape, SetupSteps, Attempts
<1>2. EntrySound'
  BY DEF EntrySound, Early, Late, LcShape
<1>3. Unmade'
  BY DEF Unmade, NothingUp, Attempts, LcShape
<1>4. StopsSound'
  BY DEF StopsSound, LcShape, CurrentSound, EntrySound, Early, NothingUp
<1>5. CurrentSound'
  BY DEF CurrentSound, Early, NothingUp, Attempts, LcShape, Unmade, EntrySound, Late
<1>6. SettledSound'
  BY DEF SettledSound, Rested, Attempts, LcShape, StopsSound, CurrentSound, EntrySound, Unmade
<1>7. DirtySound'
  BY DEF DirtySound, LcShape, EntrySound, StopsSound, CurrentSound, SettledSound, Rested
<1>. QED
  BY <1>1, <1>2, <1>3, <1>4, <1>5, <1>6, <1>7 DEF LcInv

LEMMA LcPanelRegistered == ASSUME LcInv, PanelRegistered PROVE LcInv'
<1> USE LifecycleAssumption DEF PanelRegistered, SetupAt, lcStops, lcStore, lcSetup, LcInv
<1>1. LcShape'
  BY DEF LcShape, SetupSteps, Attempts
<1>2. EntrySound'
  BY DEF EntrySound, Early, Late, LcShape
<1>3. Unmade'
  BY DEF Unmade, NothingUp, Attempts, LcShape
<1>4. StopsSound'
  BY DEF StopsSound, LcShape, CurrentSound, EntrySound, Early, NothingUp
<1>5. CurrentSound'
  BY DEF CurrentSound, Early, NothingUp, Attempts, LcShape, Unmade, EntrySound, Late
<1>6. SettledSound'
  BY DEF SettledSound, Rested, Attempts, LcShape, StopsSound, CurrentSound, EntrySound, Unmade
<1>7. DirtySound'
  BY DEF DirtySound, LcShape, EntrySound, StopsSound, CurrentSound, SettledSound, Rested
<1>. QED
  BY <1>1, <1>2, <1>3, <1>4, <1>5, <1>6, <1>7 DEF LcInv

LEMMA LcSetupDone == ASSUME LcInv, SetupDone PROVE LcInv'
<1> USE LifecycleAssumption DEF SetupDone, SetupAt, lcStops, lcStore, lcSetup, LcInv
<1>8. lcGen \in Attempts /\ ~Rested(lcGen) /\ lcStop[lcGen] = 0
  BY UnderWay DEF CurrentSound
<1>9. /\ lcGaveUp' = lcGaveUp /\ lcStale' = lcStale /\ lcStop' = lcStop /\ lcFlush' = lcFlush
      /\ lcLeft' = lcLeft /\ lcHung' = lcHung /\ lcGen' = lcGen /\ lcRuntime' = lcRuntime
      /\ lcBad' = lcBad /\ lcDirty' = lcDirty /\ lcLost' = lcLost /\ lcCommands' = lcCommands
  OBVIOUS
<1>10. lcUp' = lcUp \cup {<<lcGen, "timers">>} /\ "timers" \in Runnable
  BY DEF Runnable
<1>11. /\ lcEntry = "setup" /\ lcEntry' = "loaded" /\ lcStep' = "done"
       /\ lcCallbacks' = lcCallbacks \cup {"timers"} /\ lcApi' = lcApi
  OBVIOUS
<1>1. LcShape'
  BY <1>8, <1>9, <1>10, <1>11 DEF LcShape, SetupSteps
<1>2. EntrySound'
  BY DEF EntrySound, Early, Late, LcShape
<1>3. Unmade'
  BY DEF Unmade, NothingUp, Attempts, LcShape
<1>4. StopsSound'
  <2> SUFFICES ASSUME NEW h \in Attempts, NEW i \in 1 .. 9, i < lcStop[h], <<h, StopOrder[i]>> \in lcUp'
               PROVE  <<h, StopOrder[i]>> \in lcLeft
    BY <1>9 DEF StopsSound
  <2>1. ~(i < 0)
    OBVIOUS
  <2>2. h # lcGen
    BY <1>8, <2>1
  <2>3. <<h, StopOrder[i]>> \in lcUp
    BY <1>10, <2>2
  <2>. QED
    BY <2>3 DEF StopsSound
<1>5. CurrentSound'
  BY DEF CurrentSound, Early, NothingUp, Attempts, LcShape, Unmade, EntrySound, Late
<1>6. SettledSound'
  <2> SUFFICES ASSUME ~lcGaveUp, NEW h \in Attempts, Rested(h)'
               PROVE  /\ ~lcStale /\ lcStop[h] \in {0, 10} /\ <<"callback", h>> \notin lcFlush
                      /\ \A t \in Runnable : <<h, t>> \in lcUp' => <<h, t>> \in lcLeft
    <3>1. ~lcGaveUp => ~lcStale
      BY DEF SettledSound
    <3>. QED
      BY <1>9, <3>1 DEF SettledSound
  <2>1. Rested(h) /\ h # lcGen
    BY <1>8, <1>9, <1>11 DEF Rested
  <2>. QED
    BY <1>10, <2>1 DEF SettledSound
<1>7. DirtySound'
  BY DEF DirtySound, LcShape, EntrySound, StopsSound, CurrentSound, SettledSound, Rested
<1>. QED
  BY <1>1, <1>2, <1>3, <1>4, <1>5, <1>6, <1>7 DEF LcInv

(* Core runs the callbacks, and the clean-up has begun. *)
LEMMA CallbacksStart ==
  ASSUME LcInv, lcGen \in Attempts, ~Rested(lcGen), lcEntry # "cleaning",
         lcEntry' = "cleaning", lcCallbacks' = {}, lcRuntime' = 0,
         lcApi' \subseteq lcApi, lcApi' \subseteq {"commands"}, lcStep' \in {lcStep, "done"},
         lcUp' = lcUp \ {<<lcGen, "timers">>, <<lcGen, "forensics">>},
         lcFlush' \in {lcFlush, lcFlush \cup {<<"callback", lcGen>>}},
         lcGen' = lcGen, lcHung' = lcHung, lcLeft' = lcLeft, lcBad' = lcBad, lcLost' = lcLost,
         lcStale' = lcStale, lcGaveUp' = lcGaveUp, lcCommands' = lcCommands,
         NEW n \in 0 .. 10, lcStop' = [lcStop EXCEPT ![lcGen] = n],
         n = lcStop[lcGen] \/ (lcStop[lcGen] = 0 /\ n = 1),
         n = 0 => NothingUp(lcGen),
         lcDirty' \in BOOLEAN, lcDirty' => lcLost \/ lcGaveUp
  PROVE  LcInv'
<1>1. lcStop \in [Attempts -> 0 .. 10]
  BY DEF LcInv, LcShape
<1>2. lcStop'[lcGen] = n /\ \A h \in Attempts \ {lcGen} : lcStop'[h] = lcStop[h]
  BY <1>1
<1>3. LcShape'
  <2>1. lcStop' \in [Attempts -> 0 .. 10]
    BY <1>1
  <2>2. lcFlush' \subseteq {"callback", "stop"} \X Attempts
    BY DEF LcInv, LcShape
  <2>3. lcRuntime' \in 0 .. lcGen'
    BY GenerationsCount
  <2>. QED
    BY <2>1, <2>2, <2>3 DEF LcInv, LcShape, SetupSteps
<1>4. EntrySound'
  <2>1. lcGen # 0
    BY DEF LcInv, LcShape, EntrySound, Attempts
  <2>. QED
    BY <2>1 DEF EntrySound, Early, Late
<1>5. Unmade'
  <2> SUFFICES ASSUME NEW h \in Attempts, h > lcGen
               PROVE  lcStop'[h] = 0 /\ NothingUp(h)' /\ <<"callback", h>> \notin lcFlush'
    BY DEF Unmade
  <2>1. h # lcGen
    BY GenerationsCount
  <2>. QED
    BY <1>2, <2>1 DEF LcInv, Unmade, NothingUp
<1>6. StopsSound'
  <2> SUFFICES ASSUME NEW h \in Attempts
               PROVE  /\ h \in lcHung => lcStop'[h] \in 1 .. 8
                      /\ <<"stop", h>> \in lcFlush' => lcStop'[h] = 9
                      /\ <<h, "audit">> \notin lcLeft
                      /\ \A i \in 1 .. 9 : i < lcStop'[h] /\ <<h, StopOrder[i]>> \in lcUp'
                                          => <<h, StopOrder[i]>> \in lcLeft
    BY DEF StopsSound
  <2>1. /\ h \in lcHung => lcStop[h] \in 1 .. 8
        /\ <<"stop", h>> \in lcFlush => lcStop[h] = 9
        /\ <<h, "audit">> \notin lcLeft
        /\ \A i \in 1 .. 9 : i < lcStop[h] /\ <<h, StopOrder[i]>> \in lcUp => <<h, StopOrder[i]>> \in lcLeft
    BY DEF LcInv, StopsSound
  <2>2. <<"stop", h>> \in lcFlush' => <<"stop", h>> \in lcFlush
    OBVIOUS
  <2>3. CASE lcStop'[h] = lcStop[h]
    BY <2>1, <2>2, <2>3
  <2>4. CASE lcStop'[h] # lcStop[h]
    <3>1. lcStop[h] = 0 /\ lcStop'[h] = 1
      BY <1>2, <2>4
    <3>2. \A i \in 1 .. 9 : ~(i < 1)
      OBVIOUS
    <3>. QED
      BY <2>1, <2>2, <3>1, <3>2
  <2>. QED
    BY <2>3, <2>4
<1>7. CurrentSound'
  BY <1>2 DEF CurrentSound, NothingUp, Early
<1>8. SettledSound'
  <2> SUFFICES ASSUME ~lcGaveUp, NEW h \in Attempts, Rested(h)'
               PROVE  /\ ~lcStale /\ lcStop'[h] \in {0, 10} /\ <<"callback", h>> \notin lcFlush'
                      /\ \A t \in Runnable : <<h, t>> \in lcUp' => <<h, t>> \in lcLeft
    <3>1. ~lcGaveUp => ~lcStale
      BY DEF LcInv, SettledSound
    <3>. QED
      BY <3>1 DEF SettledSound
  <2>1. Rested(h) /\ h # lcGen
    BY DEF Rested
  <2>2. /\ ~lcStale /\ lcStop[h] \in {0, 10} /\ <<"callback", h>> \notin lcFlush
        /\ \A t \in Runnable : <<h, t>> \in lcUp => <<h, t>> \in lcLeft
    BY <2>1 DEF LcInv, SettledSound
  <2>. QED
    BY <1>2, <2>1, <2>2
<1>9. DirtySound'
  BY DEF DirtySound
<1>. QED
  BY <1>3, <1>4, <1>5, <1>6, <1>7, <1>8, <1>9 DEF LcInv

LEMMA LcSetupFails == ASSUME LcInv, SetupFails PROVE LcInv'
<1>1. /\ lcEntry = "setup" /\ lcGen \in Attempts /\ ~Rested(lcGen) /\ lcStop[lcGen] = 0
      /\ lcStop \in [Attempts -> 0 .. 10]
  BY UnderWay DEF SetupFails, LcInv, LcShape, CurrentSound
<1>2. /\ lcEntry' = "cleaning" /\ lcCallbacks' = {} /\ lcApi' \subseteq lcApi /\ lcStep' = "done"
      /\ lcUp' = lcUp \ {<<lcGen, "timers">>, <<lcGen, "forensics">>}
      /\ lcFlush' \in {lcFlush, lcFlush \cup {<<"callback", lcGen>>}}
      /\ lcGen' = lcGen /\ lcHung' = lcHung /\ lcLeft' = lcLeft /\ lcBad' = lcBad /\ lcLost' = lcLost
      /\ lcStale' = lcStale /\ lcGaveUp' = lcGaveUp /\ lcCommands' = lcCommands
  BY DEF SetupFails, CallbacksRun
<1>3. CASE Early
  <2>1. /\ lcRuntime' = 0 /\ lcApi' \subseteq {"commands"} /\ lcStop' = lcStop
        /\ lcDirty' = (lcDirty /\ lcStep = "load")
    BY <1>3 DEF SetupFails, CallbacksRun, LcInv, LcShape, EntrySound, Early, Late
  <2>2. NothingUp(lcGen)
    BY <1>1, <1>3 DEF LcInv, CurrentSound
  <2>3. lcDirty' \in BOOLEAN /\ (lcDirty' => lcLost \/ lcGaveUp)
    BY <1>1, <2>1 DEF LcInv, LcShape, DirtySound
  <2>4. lcStop' = [lcStop EXCEPT ![lcGen] = 0] /\ 0 \in 0 .. 10
    BY <1>1, <2>1
  <2>. QED
    BY <1>1, <1>2, <2>1, <2>2, <2>3, <2>4, CallbacksStart
<1>4. CASE ~Early
  <2>1. {"flush", "forget", "stop", "unregister"} \subseteq lcCallbacks
    BY <1>1, <1>4 DEF LcInv, LcShape, EntrySound, Early, Late, SetupSteps
  <2>2. /\ lcRuntime' = 0 /\ lcApi' \subseteq {"commands"} /\ lcDirty' = FALSE
        /\ lcStop' = [lcStop EXCEPT ![lcGen] = 1] /\ 1 \in 0 .. 10
    BY <1>1, <2>1 DEF SetupFails, CallbacksRun, StopsFrom
  <2>3. 1 # 0
    OBVIOUS
  <2>4. lcEntry # "cleaning" /\ lcDirty' \in BOOLEAN /\ (lcDirty' => lcLost \/ lcGaveUp)
    BY <1>1, <2>2
  <2>. QED
    BY <1>1, <1>2, <2>2, <2>3, <2>4, CallbacksStart
<1>. QED
  BY <1>3, <1>4

LEMMA LcCleanedUp == ASSUME LcInv, CleanedUp PROVE LcInv'
<1> USE LifecycleAssumption DEF CleanedUp, lcStops, lcStore, lcSetup, LcInv
<1>1. LcShape'
  BY DEF LcShape, SetupSteps, Attempts
<1>2. EntrySound'
  BY DEF EntrySound, Early, Late, LcShape
<1>3. Unmade'
  BY DEF Unmade, NothingUp, Attempts, LcShape
<1>4. StopsSound'
  BY DEF StopsSound, LcShape, CurrentSound, EntrySound, Early, NothingUp
<1>5. CurrentSound'
  BY DEF CurrentSound, Early, NothingUp, Attempts, LcShape, Unmade, EntrySound, Late
<1>6. SettledSound'
  <2> SUFFICES ASSUME ~lcGaveUp, NEW h \in Attempts, Rested(h)'
               PROVE  /\ ~lcStale /\ lcStop[h] \in {0, 10} /\ <<"callback", h>> \notin lcFlush
                      /\ \A t \in Runnable : <<h, t>> \in lcUp => <<h, t>> \in lcLeft
    <3>1. ~lcGaveUp => ~lcStale
      BY DEF SettledSound
    <3>. QED
      BY <3>1 DEF SettledSound
  <2>1. CASE Rested(h)
    BY <2>1 DEF SettledSound
  <2>2. CASE ~Rested(h)
    <3>1. h = lcGen /\ lcStop[h] \in {0, 10} /\ <<"callback", h>> \notin lcFlush
      BY <2>2, Orders DEF Rested
    <3>2. ASSUME NEW t \in Runnable, <<h, t>> \in lcUp PROVE <<h, t>> \in lcLeft
      <4>1. lcStop[h] # 0 /\ t \notin {"timers", "forensics"}
        BY <3>1, <3>2 DEF CurrentSound, NothingUp
      <4>2. PICK i \in 1 .. 9 : StopOrder[i] = t
        BY <4>1, Orders
      <4>3. i < lcStop[h]
        BY <3>1, <4>1
      <4>. QED
        BY <3>2, <4>2, <4>3 DEF StopsSound
    <3>. QED
      BY <3>1, <3>2 DEF SettledSound
  <2>. QED
    BY <2>1, <2>2
<1>7. DirtySound'
  <2>1. lcStop[lcGen] \notin 1 .. 9
    BY Orders
  <2>. QED
    BY <2>1 DEF DirtySound
<1>. QED
  BY <1>1, <1>2, <1>3, <1>4, <1>5, <1>6, <1>7 DEF LcInv

LEMMA LcCoreGivesUp == ASSUME LcInv, CoreGivesUp PROVE LcInv'
<1> USE LifecycleAssumption DEF CoreGivesUp, lcStops, lcStore, lcSetup, LcInv
<1>1. LcShape'
  BY DEF LcShape, SetupSteps, Attempts
<1>2. EntrySound'
  BY DEF EntrySound, Early, Late, LcShape
<1>3. Unmade'
  BY DEF Unmade, NothingUp, Attempts, LcShape
<1>4. StopsSound'
  BY DEF StopsSound, LcShape, CurrentSound, EntrySound, Early, NothingUp
<1>5. CurrentSound'
  BY DEF CurrentSound, Early, NothingUp, Attempts, LcShape, Unmade, EntrySound, Late
<1>6. SettledSound'
  BY DEF SettledSound, Rested, Attempts, LcShape, StopsSound, CurrentSound, EntrySound, Unmade
<1>7. DirtySound'
  BY DEF DirtySound, LcShape, EntrySound, StopsSound, CurrentSound, SettledSound, Rested
<1>. QED
  BY <1>1, <1>2, <1>3, <1>4, <1>5, <1>6, <1>7 DEF LcInv

LEMMA LcUnloadBegins == ASSUME LcInv, UnloadBegins PROVE LcInv'
<1> USE LifecycleAssumption DEF UnloadBegins, lcStops, lcStore, lcSetup, LcInv
<1>1. LcShape'
  BY DEF LcShape, SetupSteps, Attempts
<1>2. EntrySound'
  BY DEF EntrySound, Early, Late, LcShape
<1>3. Unmade'
  BY DEF Unmade, NothingUp, Attempts, LcShape
<1>4. StopsSound'
  BY DEF StopsSound, LcShape, CurrentSound, EntrySound, Early, NothingUp
<1>5. CurrentSound'
  BY DEF CurrentSound, Early, NothingUp, Attempts, LcShape, Unmade, EntrySound, Late
<1>6. SettledSound'
  BY DEF SettledSound, Rested, Attempts, LcShape, StopsSound, CurrentSound, EntrySound, Unmade
<1>7. DirtySound'
  BY DEF DirtySound, LcShape, EntrySound, StopsSound, CurrentSound, SettledSound, Rested
<1>. QED
  BY <1>1, <1>2, <1>3, <1>4, <1>5, <1>6, <1>7 DEF LcInv

LEMMA LcPlatformsStay == ASSUME LcInv, PlatformsStay PROVE LcInv'
<1> USE LifecycleAssumption DEF PlatformsStay, lcStops, lcStore, lcSetup, LcInv
<1>1. LcShape'
  BY DEF LcShape, SetupSteps, Attempts
<1>2. EntrySound'
  BY DEF EntrySound, Early, Late, LcShape
<1>3. Unmade'
  BY DEF Unmade, NothingUp, Attempts, LcShape
<1>4. StopsSound'
  BY DEF StopsSound, LcShape, CurrentSound, EntrySound, Early, NothingUp
<1>5. CurrentSound'
  BY DEF CurrentSound, Early, NothingUp, Attempts, LcShape, Unmade, EntrySound, Late
<1>6. SettledSound'
  BY DEF SettledSound, Rested, Attempts, LcShape, StopsSound, CurrentSound, EntrySound, Unmade
<1>7. DirtySound'
  BY DEF DirtySound, LcShape, EntrySound, StopsSound, CurrentSound, SettledSound, Rested
<1>. QED
  BY <1>1, <1>2, <1>3, <1>4, <1>5, <1>6, <1>7 DEF LcInv

LEMMA LcPlatformsUnloaded == ASSUME LcInv, PlatformsUnloaded PROVE LcInv'
<1> USE LifecycleAssumption DEF PlatformsUnloaded, StopsFrom, lcStops, lcStore, lcSetup, LcInv
<1>8. lcGen \in Attempts /\ ~Rested(lcGen) /\ lcStop[lcGen] = 0
  BY UnderWay DEF CurrentSound
<1>9. /\ lcStop \in [Attempts -> 0 .. 10] /\ lcStop' = [lcStop EXCEPT ![lcGen] = 1]
      /\ lcGaveUp' = lcGaveUp /\ lcStale' = lcStale /\ lcFlush' = lcFlush /\ lcUp' = lcUp
      /\ lcLeft' = lcLeft /\ lcHung' = lcHung /\ lcGen' = lcGen
  BY <1>8 DEF LcShape
<1>10. lcStop'[lcGen] = 1 /\ \A h \in Attempts \ {lcGen} : lcStop'[h] = lcStop[h]
  BY <1>8, <1>9
<1>1. LcShape'
  <2>1. 1 \in 0 .. 10
    OBVIOUS
  <2>2. lcStop' \in [Attempts -> 0 .. 10]
    BY <1>9, <2>1
  <2>. QED
    BY <2>2 DEF LcShape
<1>2. EntrySound'
  BY DEF EntrySound, Early, Late, LcShape
<1>3. Unmade'
  BY DEF Unmade, NothingUp, Attempts, LcShape
<1>4. StopsSound'
  <2> SUFFICES ASSUME NEW h \in Attempts
               PROVE  /\ h \in lcHung => lcStop'[h] \in 1 .. 8
                      /\ <<"stop", h>> \in lcFlush => lcStop'[h] = 9
                      /\ \A i \in 1 .. 9 : i < lcStop'[h] /\ <<h, StopOrder[i]>> \in lcUp
                                          => <<h, StopOrder[i]>> \in lcLeft
    BY <1>9 DEF StopsSound
  <2>1. /\ h \in lcHung => lcStop[h] \in 1 .. 8
        /\ <<"stop", h>> \in lcFlush => lcStop[h] = 9
        /\ \A i \in 1 .. 9 : i < lcStop[h] /\ <<h, StopOrder[i]>> \in lcUp => <<h, StopOrder[i]>> \in lcLeft
    BY DEF StopsSound
  <2>2. \A i \in 1 .. 9 : ~(i < 1)
    OBVIOUS
  <2>. QED
    BY <1>8, <1>10, <2>1, <2>2
<1>5. CurrentSound'
  BY DEF CurrentSound, Early, NothingUp, Attempts, LcShape, Unmade, EntrySound, Late
<1>6. SettledSound'
  <2> SUFFICES ASSUME ~lcGaveUp, NEW h \in Attempts, Rested(h)'
               PROVE  /\ ~lcStale /\ lcStop'[h] \in {0, 10} /\ <<"callback", h>> \notin lcFlush
                      /\ \A t \in Runnable : <<h, t>> \in lcUp => <<h, t>> \in lcLeft
    <3>1. ~lcGaveUp => ~lcStale
      BY DEF SettledSound
    <3>. QED
      BY <1>9, <3>1 DEF SettledSound
  <2>1. Rested(h) /\ h # lcGen
    BY <1>8, <1>9 DEF Rested
  <2>. QED
    BY <1>10, <2>1 DEF SettledSound
<1>7. DirtySound'
  BY DEF DirtySound, LcShape, EntrySound, StopsSound, CurrentSound, SettledSound, Rested
<1>. QED
  BY <1>1, <1>2, <1>3, <1>4, <1>5, <1>6, <1>7 DEF LcInv

LEMMA LcUnloadDone == ASSUME LcInv, UnloadDone PROVE LcInv'
<1>1. /\ lcEntry = "unloading" /\ lcGen \in Attempts /\ ~Rested(lcGen) /\ lcStop[lcGen] = 10
      /\ lcStop \in [Attempts -> 0 .. 10]
  BY UnderWay, Orders DEF UnloadDone, LcInv, LcShape
<1>2. /\ lcEntry' = "cleaning" /\ lcCallbacks' = {} /\ lcApi' \subseteq lcApi /\ lcStep' = lcStep
      /\ lcUp' = lcUp \ {<<lcGen, "timers">>, <<lcGen, "forensics">>}
      /\ lcFlush' \in {lcFlush, lcFlush \cup {<<"callback", lcGen>>}}
      /\ lcGen' = lcGen /\ lcHung' = lcHung /\ lcLeft' = lcLeft /\ lcBad' = lcBad /\ lcLost' = lcLost
      /\ lcStale' = lcStale /\ lcGaveUp' = lcGaveUp /\ lcCommands' = lcCommands
  BY DEF UnloadDone, CallbacksRun
<1>3. {"flush", "forget", "stop", "unregister"} \subseteq lcCallbacks
  BY <1>1 DEF LcInv, EntrySound, Late
<1>4. lcRuntime' = 0 /\ lcApi' \subseteq {"commands"} /\ lcDirty' = FALSE /\ lcStop' = lcStop
  BY <1>1, <1>3 DEF UnloadDone, CallbacksRun, StopsFrom
<1>5. lcStop' = [lcStop EXCEPT ![lcGen] = 10] /\ 10 \in 0 .. 10
  BY <1>1, <1>4
<1>6. 10 # 0
  OBVIOUS
<1>7. lcEntry # "cleaning" /\ lcDirty' \in BOOLEAN /\ (lcDirty' => lcLost \/ lcGaveUp)
  BY <1>1, <1>4
<1>. QED
  BY <1>1, <1>2, <1>4, <1>5, <1>6, <1>7, CallbacksStart

(* A step of the stops of one attempt. *)
LEMMA StopMoves ==
  ASSUME LcInv, LcShape', NEW g \in Attempts, NEW i \in 1 .. 9, lcStop[g] = i,
         lcEntry' = lcEntry, lcGen' = lcGen, lcStep' = lcStep, lcCallbacks' = lcCallbacks,
         lcRuntime' = lcRuntime, lcApi' = lcApi, lcGaveUp' = lcGaveUp,
         \/ lcStop' = lcStop
         \/ /\ lcStop' = [lcStop EXCEPT ![g] = i + 1]
            /\ g \notin lcHung' /\ <<"stop", g>> \notin lcFlush'
            /\ <<g, StopOrder[i]>> \in lcUp' => <<g, StopOrder[i]>> \in lcLeft',
         lcUp' \subseteq lcUp, lcLeft \subseteq lcLeft',
         \A h \in Attempts : <<h, "audit">> \in lcLeft' => <<h, "audit">> \in lcLeft,
         lcHung' \subseteq lcHung \cup {g}, g \in lcHung' => i <= 8,
         \A h \in Attempts : <<"callback", h>> \in lcFlush' => <<"callback", h>> \in lcFlush,
         \A h \in Attempts : <<"stop", h>> \in lcFlush' => <<"stop", h>> \in lcFlush \/ (h = g /\ i = 9),
         ~lcGaveUp /\ ~lcStale => ~lcStale',
         DirtySound'
  PROVE  LcInv'
<1>1. lcStop \in [Attempts -> 0 .. 10]
  BY DEF LcInv, LcShape
<1>2. /\ \A h \in Attempts \ {g} : lcStop'[h] = lcStop[h]
      /\ lcStop'[g] \in {i, i + 1} /\ i + 1 \in 2 .. 10
  BY <1>1
<1>3. EntrySound'
  BY DEF LcInv, EntrySound, Early, Late
<1>4. Unmade'
  <2> SUFFICES ASSUME NEW h \in Attempts, h > lcGen
               PROVE  lcStop'[h] = 0 /\ NothingUp(h)' /\ <<"callback", h>> \notin lcFlush'
    BY DEF Unmade
  <2>1. lcStop[h] = 0 /\ NothingUp(h) /\ <<"callback", h>> \notin lcFlush
    BY DEF LcInv, Unmade
  <2>. QED
    BY <1>2, <2>1 DEF NothingUp
<1>5. StopsSound'
  <2> SUFFICES ASSUME NEW h \in Attempts
               PROVE  /\ h \in lcHung' => lcStop'[h] \in 1 .. 8
                      /\ <<"stop", h>> \in lcFlush' => lcStop'[h] = 9
                      /\ <<h, "audit">> \notin lcLeft'
                      /\ \A j \in 1 .. 9 : j < lcStop'[h] /\ <<h, StopOrder[j]>> \in lcUp'
                                          => <<h, StopOrder[j]>> \in lcLeft'
    BY DEF StopsSound
  <2>1. /\ h \in lcHung => lcStop[h] \in 1 .. 8
        /\ <<"stop", h>> \in lcFlush => lcStop[h] = 9
        /\ <<h, "audit">> \notin lcLeft
        /\ \A j \in 1 .. 9 : j < lcStop[h] /\ <<h, StopOrder[j]>> \in lcUp => <<h, StopOrder[j]>> \in lcLeft
    BY DEF LcInv, StopsSound
  <2>2. CASE h # g
    BY <1>2, <2>1, <2>2
  <2>3. CASE h = g
    <3>1. CASE lcStop' = lcStop
      BY <2>1, <2>3, <3>1
    <3>2. CASE lcStop' # lcStop
      <4>1. /\ lcStop'[g] = i + 1 /\ g \notin lcHung' /\ <<"stop", g>> \notin lcFlush'
            /\ <<g, StopOrder[i]>> \in lcUp' => <<g, StopOrder[i]>> \in lcLeft'
        BY <1>1, <3>2
      <4>2. ASSUME NEW j \in 1 .. 9, j < i + 1, <<g, StopOrder[j]>> \in lcUp'
            PROVE  <<g, StopOrder[j]>> \in lcLeft'
        <5>1. j = i \/ j < i
          BY <4>2
        <5>. QED
          BY <2>1, <2>3, <4>1, <4>2, <5>1
      <4>. QED
        BY <2>1, <2>3, <4>1, <4>2
    <3>. QED
      BY <3>1, <3>2
  <2>. QED
    BY <2>2, <2>3
<1>6. CurrentSound'
  <2> SUFFICES ASSUME NEW h \in Attempts, h = lcGen
               PROVE  /\ lcEntry \in {"setup", "loaded", "platforms", "failedUnload"} => lcStop'[h] = 0
                      /\ lcEntry \in {"setup", "loaded", "platforms", "failedUnload", "unloading"} =>
                           <<"callback", h>> \notin lcFlush'
                      /\ Early => NothingUp(h)'
                      /\ lcEntry = "cleaning" => /\ <<h, "timers">> \notin lcUp' /\ <<h, "forensics">> \notin lcUp'
                                                 /\ lcStop'[h] = 0 => NothingUp(h)'
    BY DEF CurrentSound, Early
  <2>1. /\ lcEntry \in {"setup", "loaded", "platforms", "failedUnload"} => lcStop[h] = 0
        /\ lcEntry \in {"setup", "loaded", "platforms", "failedUnload", "unloading"} =>
             <<"callback", h>> \notin lcFlush
        /\ Early => NothingUp(h)
        /\ lcEntry = "cleaning" => /\ <<h, "timers">> \notin lcUp /\ <<h, "forensics">> \notin lcUp
                                   /\ lcStop[h] = 0 => NothingUp(h)
    BY DEF LcInv, CurrentSound
  <2>2. NothingUp(h) => NothingUp(h)'
    BY DEF NothingUp
  <2>3. lcStop'[h] = 0 <=> lcStop[h] = 0
    BY <1>2
  <2>. QED
    BY <2>1, <2>2, <2>3
<1>7. SettledSound'
  <2> SUFFICES ASSUME ~lcGaveUp
               PROVE  /\ ~lcStale'
                      /\ \A h \in Attempts : Rested(h) =>
                           /\ lcStop'[h] \in {0, 10} /\ <<"callback", h>> \notin lcFlush'
                           /\ \A s \in Runnable : <<h, s>> \in lcUp' => <<h, s>> \in lcLeft'
    BY DEF SettledSound, Rested
  <2>1. ~Rested(g)
    BY StopsAreCurrent, GenerationsCount DEF Rested
  <2>. QED
    BY <1>2, <2>1 DEF LcInv, SettledSound
<1>. QED
  BY <1>3, <1>4, <1>5, <1>6, <1>7 DEF LcInv

(* Where a stop stands, and what its service is called. *)
LEMMA StopAt ==
  ASSUME LcInv, NEW g \in Attempts, Stopping(g) \/ g \in lcHung \/ <<"stop", g>> \in lcFlush
  PROVE  /\ lcStop[g] \in 1 .. 9 /\ Current(g) = StopOrder[lcStop[g]]
         /\ Current(g) \in Stoppable /\ (Current(g) = "store" <=> lcStop[g] = 9)
<1>1. CASE Stopping(g)
  BY <1>1, Orders DEF Stopping, Current
<1>2. CASE g \in lcHung
  <2>1. lcStop[g] \in 1 .. 8
    BY <1>2 DEF LcInv, StopsSound
  <2>2. lcStop[g] \in 1 .. 9
    BY <2>1
  <2>. QED
    BY <2>2, Orders DEF Current
<1>3. CASE <<"stop", g>> \in lcFlush
  <2>1. lcStop[g] = 9
    BY <1>3 DEF LcInv, StopsSound
  <2>2. 9 \in 1 .. 9
    OBVIOUS
  <2>. QED
    BY <2>1, <2>2, Orders DEF Current
<1>. QED
  BY <1>1, <1>2, <1>3

LEMMA LcServiceStops == ASSUME LcInv, NEW g \in Attempts, ServiceStops(g) PROVE LcInv'
<1>1. PICK i \in 1 .. 9 : i = lcStop[g] /\ Current(g) = StopOrder[i] /\ (Current(g) = "store" <=> i = 9)
                         /\ Current(g) \in Stoppable
  BY StopAt DEF ServiceStops
<1>2. /\ lcEntry' = lcEntry /\ lcGen' = lcGen /\ lcStep' = lcStep /\ lcCallbacks' = lcCallbacks
      /\ lcRuntime' = lcRuntime /\ lcApi' = lcApi /\ lcGaveUp' = lcGaveUp /\ lcCommands' = lcCommands
  BY DEF ServiceStops, lcSetup
<1>3. /\ i # 9 /\ g \notin lcHung /\ lcUp' = lcUp \ {<<g, StopOrder[i]>>}
      /\ lcDirty' \in BOOLEAN /\ lcStop' = [lcStop EXCEPT ![g] = i + 1]
      /\ lcHung' = lcHung /\ lcLeft' = lcLeft /\ lcBad' = lcBad
      /\ lcFlush' = lcFlush /\ lcLost' = lcLost /\ lcStale' = lcStale
  BY <1>1 DEF ServiceStops, Current, StopNext, LcInv, LcShape, lcStops, lcStore
<1>4. LcShape'
  BY <1>1, <1>2, <1>3, LifecycleAssumption DEF LcInv, LcShape
<1>5. DirtySound'
  <2> SUFFICES ASSUME lcDirty', ~lcLost', ~lcGaveUp'
               PROVE  /\ lcEntry' # "notLoaded" /\ (lcEntry' = "setup" => lcStep' # "load")
                      /\ lcEntry' = "cleaning" => lcStop'[lcGen'] \in 1 .. 9 /\ <<"stop", lcGen'>> \notin lcFlush'
    BY DEF DirtySound
  <2>1. g = lcGen /\ lcEntry \in {"unloading", "cleaning"}
    BY <1>1, <1>2, StopsAreCurrent
  <2>2. i + 1 \in 1 .. 9 /\ lcStop'[g] = i + 1
    BY <1>1, <1>3 DEF LcInv, LcShape
  <2>3. <<"stop", g>> \notin lcFlush'
    BY <1>1, <1>3 DEF LcInv, StopsSound
  <2>. QED
    BY <1>2, <2>1, <2>2, <2>3
<1>. QED
  BY <1>1, <1>2, <1>3, <1>4, <1>5, StopMoves DEF LcInv, StopsSound

LEMMA LcServiceHangs == ASSUME LcInv, NEW g \in Attempts, ServiceHangs(g) PROVE LcInv'
<1>1. PICK i \in 1 .. 9 : i = lcStop[g] /\ Current(g) = StopOrder[i] /\ (Current(g) = "store" <=> i = 9)
                         /\ Current(g) \in Stoppable
  BY StopAt DEF ServiceHangs
<1>2. /\ lcEntry' = lcEntry /\ lcGen' = lcGen /\ lcStep' = lcStep /\ lcCallbacks' = lcCallbacks
      /\ lcRuntime' = lcRuntime /\ lcApi' = lcApi /\ lcGaveUp' = lcGaveUp /\ lcCommands' = lcCommands
  BY DEF ServiceHangs, lcSetup
<1>3. /\ i # 9 /\ lcHung' = lcHung \cup {g} 
      /\ lcUp' = lcUp /\ lcStop' = lcStop /\ lcLeft' = lcLeft
      /\ lcFlush' = lcFlush /\ lcDirty' = lcDirty /\ lcLost' = lcLost /\ lcStale' = lcStale
  BY <1>1 DEF ServiceHangs, Current, lcStops, lcStore
<1>0. lcBad' \in 0 .. MaxBadStops
  BY LifecycleAssumption DEF ServiceHangs, LcInv, LcShape
<1>4. LcShape'
  BY <1>1, <1>2, <1>3, <1>0 DEF LcInv, LcShape
<1>5. DirtySound'
  <2> SUFFICES ASSUME lcDirty', ~lcLost', ~lcGaveUp'
               PROVE  /\ lcEntry' # "notLoaded" /\ (lcEntry' = "setup" => lcStep' # "load")
                      /\ lcEntry' = "cleaning" => lcStop'[lcGen'] \in 1 .. 9 /\ <<"stop", lcGen'>> \notin lcFlush'
    BY DEF DirtySound
  <2>1. g = lcGen /\ lcEntry \in {"unloading", "cleaning"}
    BY <1>1, <1>2, StopsAreCurrent
  <2>2. lcStop'[g] = i /\ <<"stop", g>> \notin lcFlush'
    BY <1>1, <1>3 DEF LcInv, StopsSound
  <2>. QED
    BY <1>1, <1>2, <2>1, <2>2
<1>6. i <= 8
  BY <1>3
<1>. QED
  BY <1>1, <1>2, <1>3, <1>4, <1>5, <1>6, StopMoves

LEMMA LcBudgetOver == ASSUME LcInv, NEW g \in Attempts, BudgetOver(g) PROVE LcInv'
<1>1. PICK i \in 1 .. 9 : i = lcStop[g] /\ Current(g) = StopOrder[i] /\ (Current(g) = "store" <=> i = 9)
                         /\ Current(g) \in Stoppable
  BY StopAt DEF BudgetOver
<1>2. /\ lcEntry' = lcEntry /\ lcGen' = lcGen /\ lcStep' = lcStep /\ lcCallbacks' = lcCallbacks
      /\ lcRuntime' = lcRuntime /\ lcApi' = lcApi /\ lcGaveUp' = lcGaveUp /\ lcCommands' = lcCommands
  BY DEF BudgetOver, lcSetup
<1>3. /\ i # 9 /\ lcHung' = lcHung \ {g} /\ StopOrder[i] # "audit"
      /\ lcLeft' = lcLeft \cup {<<g, StopOrder[i]>>} /\ lcStop' = [lcStop EXCEPT ![g] = i + 1]
      /\ lcUp' = lcUp /\ lcBad' = lcBad
      /\ lcFlush' = lcFlush /\ lcDirty' = lcDirty /\ lcLost' = lcLost /\ lcStale' = lcStale
  BY <1>1 DEF BudgetOver, Current, StopNext, HasBudget, lcStops, lcStore
<1>4. LcShape'
  BY <1>1, <1>2, <1>3 DEF LcInv, LcShape
<1>5. DirtySound'
  <2> SUFFICES ASSUME lcDirty', ~lcLost', ~lcGaveUp'
               PROVE  /\ lcEntry' # "notLoaded" /\ (lcEntry' = "setup" => lcStep' # "load")
                      /\ lcEntry' = "cleaning" => lcStop'[lcGen'] \in 1 .. 9 /\ <<"stop", lcGen'>> \notin lcFlush'
    BY DEF DirtySound
  <2>1. g = lcGen /\ lcEntry \in {"unloading", "cleaning"}
    BY <1>1, <1>2, StopsAreCurrent
  <2>2. i + 1 \in 1 .. 9 /\ lcStop'[g] = i + 1
    BY <1>1, <1>3 DEF LcInv, LcShape
  <2>3. <<"stop", g>> \notin lcFlush'
    BY <1>1, <1>3 DEF LcInv, StopsSound
  <2>. QED
    BY <1>2, <2>1, <2>2, <2>3
<1>. QED
  BY <1>1, <1>2, <1>3, <1>4, <1>5, StopMoves DEF LcInv, StopsSound

LEMMA LcWriteOver == ASSUME LcInv, NEW g \in Attempts, WriteOver(g) PROVE LcInv'
<1>1. PICK i \in 1 .. 9 : i = lcStop[g] /\ Current(g) = StopOrder[i] /\ (Current(g) = "store" <=> i = 9)
                         /\ Current(g) \in Stoppable
  BY StopAt DEF WriteOver
<1>2. /\ lcEntry' = lcEntry /\ lcGen' = lcGen /\ lcStep' = lcStep /\ lcCallbacks' = lcCallbacks
      /\ lcRuntime' = lcRuntime /\ lcApi' = lcApi /\ lcGaveUp' = lcGaveUp /\ lcCommands' = lcCommands
  BY DEF WriteOver, lcSetup
<1>3. /\ i # 9 /\ lcHung' = lcHung \ {g}
      /\ lcUp' = lcUp /\ lcStop' = lcStop /\ lcLeft' = lcLeft /\ lcBad' = lcBad
      /\ lcFlush' = lcFlush /\ lcDirty' = lcDirty /\ lcLost' = lcLost /\ lcStale' = lcStale
  BY <1>1 DEF WriteOver, Current, lcStops, lcStore
<1>4. LcShape'
  BY <1>1, <1>2, <1>3 DEF LcInv, LcShape
<1>5. DirtySound'
  <2> SUFFICES ASSUME lcDirty', ~lcLost', ~lcGaveUp'
               PROVE  /\ lcEntry' # "notLoaded" /\ (lcEntry' = "setup" => lcStep' # "load")
                      /\ lcEntry' = "cleaning" => lcStop'[lcGen'] \in 1 .. 9 /\ <<"stop", lcGen'>> \notin lcFlush'
    BY DEF DirtySound
  <2>1. g = lcGen /\ lcEntry \in {"unloading", "cleaning"}
    BY <1>1, <1>2, StopsAreCurrent
  <2>2. lcStop'[g] = i /\ <<"stop", g>> \notin lcFlush'
    BY <1>1, <1>3 DEF LcInv, StopsSound
  <2>. QED
    BY <1>1, <1>2, <2>1, <2>2
<1>. QED
  BY <1>1, <1>2, <1>3, <1>4, <1>5, StopMoves DEF LcInv, StopsSound

LEMMA LcStopRaises == ASSUME LcInv, NEW g \in Attempts, StopRaises(g) PROVE LcInv'
<1>1. PICK i \in 1 .. 9 : i = lcStop[g] /\ Current(g) = StopOrder[i] /\ (Current(g) = "store" <=> i = 9)
                         /\ Current(g) \in Stoppable
  BY StopAt DEF StopRaises
<1>2. /\ lcEntry' = lcEntry /\ lcGen' = lcGen /\ lcStep' = lcStep /\ lcCallbacks' = lcCallbacks
      /\ lcRuntime' = lcRuntime /\ lcApi' = lcApi /\ lcGaveUp' = lcGaveUp /\ lcCommands' = lcCommands
  BY DEF StopRaises, lcSetup
<1>3. /\ i # 9 /\ g \notin lcHung /\ lcHung' = lcHung /\ StopOrder[i] # "audit" 
      /\ lcLeft' = lcLeft \cup {<<g, StopOrder[i]>>} /\ lcStop' = [lcStop EXCEPT ![g] = i + 1]
      /\ lcUp' = lcUp
      /\ lcFlush' = lcFlush /\ lcDirty' = lcDirty /\ lcLost' = lcLost /\ lcStale' = lcStale
  BY <1>1 DEF StopRaises, Current, StopNext, AfterError, lcStops, lcStore
<1>0. lcBad' \in 0 .. MaxBadStops
  BY LifecycleAssumption DEF StopRaises, LcInv, LcShape
<1>4. LcShape'
  BY <1>1, <1>2, <1>3, <1>0 DEF LcInv, LcShape
<1>5. DirtySound'
  <2> SUFFICES ASSUME lcDirty', ~lcLost', ~lcGaveUp'
               PROVE  /\ lcEntry' # "notLoaded" /\ (lcEntry' = "setup" => lcStep' # "load")
                      /\ lcEntry' = "cleaning" => lcStop'[lcGen'] \in 1 .. 9 /\ <<"stop", lcGen'>> \notin lcFlush'
    BY DEF DirtySound
  <2>1. g = lcGen /\ lcEntry \in {"unloading", "cleaning"}
    BY <1>1, <1>2, StopsAreCurrent
  <2>2. i + 1 \in 1 .. 9 /\ lcStop'[g] = i + 1
    BY <1>1, <1>3 DEF LcInv, LcShape
  <2>3. <<"stop", g>> \notin lcFlush'
    BY <1>1, <1>3 DEF LcInv, StopsSound
  <2>. QED
    BY <1>2, <2>1, <2>2, <2>3
<1>. QED
  BY <1>1, <1>2, <1>3, <1>4, <1>5, StopMoves DEF LcInv, StopsSound

LEMMA LcLastFlush == ASSUME LcInv, NEW g \in Attempts, LastFlush(g) PROVE LcInv'
<1>1. PICK i \in 1 .. 9 : i = lcStop[g] /\ Current(g) = StopOrder[i] /\ (Current(g) = "store" <=> i = 9)
                         /\ Current(g) \in Stoppable
  BY StopAt DEF LastFlush
<1>2. /\ lcEntry' = lcEntry /\ lcGen' = lcGen /\ lcStep' = lcStep /\ lcCallbacks' = lcCallbacks
      /\ lcRuntime' = lcRuntime /\ lcApi' = lcApi /\ lcGaveUp' = lcGaveUp /\ lcCommands' = lcCommands
  BY DEF LastFlush, lcSetup
<1>3. /\ i = 9 /\ lcFlush' = lcFlush \cup {<<"stop", g>>} /\ lcDirty' \in BOOLEAN
      /\ (g = lcGen => lcDirty' = FALSE)
      /\ lcUp' = lcUp /\ lcStop' = lcStop /\ lcHung' = lcHung /\ lcLeft' = lcLeft /\ lcBad' = lcBad
      /\ lcLost' = lcLost /\ lcStale' = lcStale
  BY <1>1 DEF LastFlush, Current, LcInv, LcShape, lcStops, lcStore
<1>4. LcShape'
  BY <1>1, <1>2, <1>3 DEF LcInv, LcShape
<1>5. DirtySound'
  <2> SUFFICES ASSUME lcDirty', ~lcLost', ~lcGaveUp'
               PROVE  /\ lcEntry' # "notLoaded" /\ (lcEntry' = "setup" => lcStep' # "load")
                      /\ lcEntry' = "cleaning" => lcStop'[lcGen'] \in 1 .. 9 /\ <<"stop", lcGen'>> \notin lcFlush'
    BY DEF DirtySound
  <2>1. g = lcGen /\ lcEntry \in {"unloading", "cleaning"}
    BY <1>1, <1>2, StopsAreCurrent
  <2>. QED
    BY <1>3, <2>1
<1>6. g \notin lcHung
  <2>1. 9 \notin 1 .. 8
    OBVIOUS
  <2>. QED
    BY <1>1, <1>3, <2>1 DEF LcInv, StopsSound
<1>. QED
  BY <1>1, <1>2, <1>3, <1>4, <1>5, <1>6, StopMoves

LEMMA LcStopFlushEnds ==
  ASSUME LcInv, NEW g \in Attempts, NEW ok \in BOOLEAN, FlushEnds("stop", g, ok) PROVE LcInv'
<1>0. lcStop[g] = 9
  BY DEF FlushEnds, LcInv, StopsSound
<1>1. lcStop[g] = 9 /\ g \notin lcHung /\ 9 \in 1 .. 9
  <2>1. 9 \notin 1 .. 8 /\ 9 \in 1 .. 9
    OBVIOUS
  <2>. QED
    BY <1>0, <2>1 DEF LcInv, StopsSound
<1>2. /\ lcEntry' = lcEntry /\ lcGen' = lcGen /\ lcStep' = lcStep /\ lcCallbacks' = lcCallbacks
      /\ lcRuntime' = lcRuntime /\ lcApi' = lcApi /\ lcGaveUp' = lcGaveUp /\ lcCommands' = lcCommands
  BY DEF FlushEnds, lcSetup
<1>3. /\ <<"stop", g>> \in lcFlush /\ lcFlush' = lcFlush \ {<<"stop", g>>}
      /\ lcStop' = [lcStop EXCEPT ![g] = 9 + 1]
      /\ lcLost' = (lcLost \/ ~ok) /\ lcStale' \in BOOLEAN
      /\ (g = lcGen => lcStale' = lcStale)
      /\ lcUp' = lcUp /\ lcHung' = lcHung /\ lcLeft' = lcLeft /\ lcBad' = lcBad /\ lcDirty' = lcDirty
  BY <1>1, GenerationsCount DEF FlushEnds, StopNext, LcInv, LcShape
<1>4. LcShape'
  <2>1. lcStop' \in [Attempts -> 0 .. 10]
    BY <1>3 DEF LcInv, LcShape
  <2>2. lcLost' \in BOOLEAN
    BY <1>3
  <2>. QED
    BY <1>2, <1>3, <2>1, <2>2 DEF LcInv, LcShape
<1>5. ~lcGaveUp => g = lcGen /\ lcEntry \in {"unloading", "cleaning"}
  BY <1>1, StopsAreCurrent
<1>6. DirtySound'
  BY <1>2, <1>3, <1>5 DEF LcInv, DirtySound
<1>7. StopOrder[9] = "store" /\ <<g, "store">> \notin lcUp
  BY Orders DEF LcInv, LcShape, Runnable
<1>. QED
  BY <1>1, <1>2, <1>3, <1>4, <1>5, <1>6, <1>7, StopMoves

LEMMA LcCallbackFlushEnds ==
  ASSUME LcInv, NEW g \in Attempts, NEW ok \in BOOLEAN, FlushEnds("callback", g, ok) PROVE LcInv'
<1>1. /\ lcEntry' = lcEntry /\ lcGen' = lcGen /\ lcStep' = lcStep /\ lcCallbacks' = lcCallbacks
      /\ lcRuntime' = lcRuntime /\ lcApi' = lcApi /\ lcGaveUp' = lcGaveUp /\ lcCommands' = lcCommands
  BY DEF FlushEnds, lcSetup
<1>2. /\ <<"callback", g>> \in lcFlush /\ lcFlush' = lcFlush \ {<<"callback", g>>}
      /\ lcLost' = (lcLost \/ ~ok) /\ lcStale' \in BOOLEAN
      /\ (~(g < lcGen) => lcStale' = lcStale)
      /\ lcStop' = lcStop /\ lcUp' = lcUp /\ lcHung' = lcHung /\ lcLeft' = lcLeft
      /\ lcBad' = lcBad /\ lcDirty' = lcDirty
  BY DEF FlushEnds, LcInv, LcShape
<1>3. LcShape'
  <2>1. lcLost' \in BOOLEAN
    BY <1>2
  <2>. QED
    BY <1>1, <1>2, <2>1 DEF LcInv, LcShape
<1>4. EntrySound'
  BY <1>1 DEF LcInv, EntrySound, Early, Late
<1>5. Unmade'
  BY <1>1, <1>2 DEF LcInv, Unmade, NothingUp
<1>6. StopsSound'
  BY <1>2 DEF LcInv, StopsSound
<1>7. CurrentSound'
  BY <1>1, <1>2 DEF LcInv, CurrentSound, Early, NothingUp
<1>8. SettledSound'
  <2>1. ~lcGaveUp => ~(g < lcGen)
    BY <1>2 DEF LcInv, SettledSound, Rested
  <2>. QED
    BY <1>1, <1>2, <2>1 DEF LcInv, SettledSound, Rested
<1>9. DirtySound'
  BY <1>1, <1>2 DEF LcInv, DirtySound
<1>. QED
  BY <1>3, <1>4, <1>5, <1>6, <1>7, <1>8, <1>9 DEF LcInv

LEMMA LcCommand == ASSUME LcInv, Command PROVE LcInv'
<1>1. /\ lcEntry' = lcEntry /\ lcGen' = lcGen /\ lcStep' = lcStep /\ lcCallbacks' = lcCallbacks
      /\ lcRuntime' = lcRuntime /\ lcApi' = lcApi /\ lcGaveUp' = lcGaveUp
      /\ lcStop' = lcStop /\ lcUp' = lcUp /\ lcHung' = lcHung /\ lcLeft' = lcLeft
      /\ lcBad' = lcBad /\ lcFlush' = lcFlush /\ lcLost' = lcLost /\ lcStale' = lcStale
      /\ lcDirty' = TRUE /\ lcRuntime # 0 /\ lcCommands' \in 0 .. MaxCommands
  BY LifecycleAssumption DEF Command, lcSetup, lcStops, LcInv, LcShape
<1>2. LcShape'
  BY <1>1 DEF LcInv, LcShape
<1>3. EntrySound'
  BY <1>1 DEF LcInv, EntrySound, Early, Late
<1>4. Unmade'
  BY <1>1 DEF LcInv, Unmade, NothingUp
<1>5. StopsSound'
  BY <1>1 DEF LcInv, StopsSound
<1>6. CurrentSound'
  BY <1>1 DEF LcInv, CurrentSound, Early, NothingUp
<1>7. SettledSound'
  BY <1>1 DEF LcInv, SettledSound, Rested
<1>8. DirtySound'
  <2>1. Late
    BY <1>1 DEF LcInv, EntrySound
  <2>. QED
    BY <1>1, <2>1 DEF DirtySound, Late
<1>. QED
  BY <1>2, <1>3, <1>4, <1>5, <1>6, <1>7, <1>8 DEF LcInv

LEMMA LcStep == LcInv /\ [LcNext]_lcVars => LcInv'
<1> SUFFICES ASSUME LcInv, [LcNext]_lcVars PROVE LcInv'
  OBVIOUS
<1>1. CASE UNCHANGED lcVars
  <2>1. LcShape' /\ EntrySound' /\ Unmade'
    BY <1>1 DEF lcVars, lcSetup, lcStops, lcStore, LcInv, LcShape, EntrySound, Early, Late, Unmade, NothingUp
  <2>2. StopsSound' /\ CurrentSound'
    BY <1>1 DEF lcVars, lcSetup, lcStops, lcStore, LcInv, StopsSound, CurrentSound, Early, NothingUp
  <2>3. SettledSound' /\ DirtySound'
    BY <1>1 DEF lcVars, lcSetup, lcStops, lcStore, LcInv, SettledSound, Rested, DirtySound
  <2>. QED
    BY <2>1, <2>2, <2>3 DEF LcInv
<1>2. ASSUME NEW g \in Attempts,
             \/ ServiceStops(g) \/ ServiceHangs(g) \/ BudgetOver(g) \/ WriteOver(g)
             \/ StopRaises(g) \/ LastFlush(g)
      PROVE  LcInv'
  BY <1>2, LcServiceStops, LcServiceHangs, LcBudgetOver, LcWriteOver, LcStopRaises, LcLastFlush
<1>3. ASSUME NEW f \in {"callback", "stop"}, NEW g \in Attempts, NEW ok \in BOOLEAN, FlushEnds(f, g, ok)
      PROVE  LcInv'
  BY <1>3, LcStopFlushEnds, LcCallbackFlushEnds
<1>. QED
  BY <1>1, <1>2, <1>3, LcSetupBegins, LcStoreLoaded, LcSecretsMoved, LcRuntimeBuilt, LcServiceStarts,
     LcApiRegistered, LcPanelRegistered, LcSetupDone, LcSetupFails, LcCleanedUp, LcCoreGivesUp,
     LcUnloadBegins, LcPlatformsStay, LcPlatformsUnloaded, LcUnloadDone, LcCommand DEF LcNext

(***************************************************************************)
(* An attempt at set-up leaves nothing behind and is not beside the next   *)
(* one unless Core stopped waiting for it, and what was changed in the     *)
(* store is in its file when the entry rests, wherever a set-up fails and  *)
(* whichever stop hangs or raises.                                         *)
(***************************************************************************)
THEOREM LifecycleHolds == LcSpec => []CleanGenerations
<1>1. LcSpec => []LcInv
  BY LcInit_Inv, LcStep, PTL DEF LcSpec
<1>. QED
  BY <1>1, LcInvImplies, PTL

-----------------------------------------------------------------------------
(***************************************************************************)
(* Crash forensics.                                                        *)
(***************************************************************************)
BundleNames == 1 .. 4 * MaxRuns + 1
PriorRecs == [heart : 0 .. MaxRuns, marker : BOOLEAN, newer : BOOLEAN]

CfShape ==
  /\ cfRun \in Runs /\ cfOvertaken \in BOOLEAN /\ cfStopping \in BOOLEAN
  /\ cfDry \in {"no", "collect", "retain"}
  /\ cfInitial \in {"reading", "read", "done"}
  /\ cfLock \in {"free", "beat", "first", "marker"}
  /\ cfHeart \in 0 .. cfRun /\ cfMarker \in BOOLEAN /\ cfNewer \in BOOLEAN
  /\ cfPrior = {} \/ \E p \in PriorRecs : cfPrior = {p}
  /\ cfCheck \in {"waiting", "reading", "collect", "retain", "done"}
  /\ cfSubject \in 0 .. MaxRuns
  /\ cfClean \subseteq 1 .. cfRun /\ cfBeaten \subseteq 1 .. cfRun
  /\ cfBundles \subseteq cfWritten /\ cfWritten \subseteq BundleNames /\ cfRepairs \subseteq cfWritten

\* A snapshot or the files themselves call no clean stop unclean.
TellsNoFalse(p) == p.heart \notin {0, cfRun} /\ (~p.marker \/ p.newer) => p.heart \notin cfClean

\* ... and show the heartbeat of a previous run that crashed.
ShowsCrash(p) == cfRun - 1 \in cfBeaten \ cfClean => p.heart = cfRun - 1 /\ p.newer

\* The files and the snapshot taken of them.
FilesSound ==
  /\ cfRun \in cfClean => cfStopping /\ cfLock = "free"
  /\ cfLock = "marker" => cfStopping
  /\ cfHeart # 0 /\ (~cfMarker \/ cfNewer) => cfHeart \notin cfClean
  /\ cfRun \in cfBeaten \ cfClean => cfHeart = cfRun /\ cfNewer
  /\ cfRun \notin cfBeaten \cup cfClean => ShowsCrash(PriorState)
  /\ \A p \in cfPrior : p.heart <= cfRun /\ TellsNoFalse(p)

\* Before the files were read nothing was written over them, or it is noted.
ReadInTime ==
  /\ cfInitial = "reading" <=> cfPrior = {}
  /\ cfLock = "first" => cfInitial # "reading"
  /\ ~cfOvertaken =>
       /\ cfInitial = "reading" \/ cfCheck = "reading" => cfRun \notin cfBeaten \cup cfClean
       /\ \A p \in cfPrior : ShowsCrash(p)
       /\ cfCheck = "done" /\ cfSubject = 0 => cfRun - 1 \notin cfBeaten \ cfClean

\* What the check is about, and what it left on the disk.
CheckSound ==
  /\ cfSubject < cfRun /\ cfSubject \notin cfClean
  /\ cfCheck \in {"collect", "retain"} => cfSubject # 0
  /\ cfRun = 1 => cfSubject = 0
  /\ cfCheck = "retain" => CrashBundle(cfSubject) \in cfWritten

Newer(S, b) == {d \in S : d > b}

\* A bundle that is gone made room for newer ones.
BundlesSound ==
  /\ \A b \in cfWritten \ cfBundles : Cardinality(Newer(cfWritten, b)) >= MaxBundles
  /\ cfRun = 1 /\ cfDry # "retain" => Cardinality(cfBundles) <= MaxBundles

CfInv == CfShape /\ FilesSound /\ ReadInTime /\ CheckSound /\ BundlesSound

LEMMA NamesFinite ==
  ASSUME NEW S \in SUBSET BundleNames
  PROVE  IsFiniteSet(S) /\ Cardinality(S) \in Nat
<1>1. IsFiniteSet(BundleNames)
  <2>1. 1 \in Int /\ 4 * MaxRuns + 1 \in Int
    BY ForensicsAssumption
  <2>. QED
    BY <2>1, FS_Interval DEF BundleNames
<1>2. IsFiniteSet(S)
  BY <1>1, FS_Subset
<1>. QED
  BY <1>2, FS_CardinalityType

(* A bundle of a run has a name. *)
LEMMA NamesOfRuns ==
  ASSUME NEW run \in Runs
  PROVE  CrashBundle(run) \in BundleNames /\ DryBundles(run) \subseteq BundleNames
<1>1. run \in Nat /\ 1 <= run /\ run <= MaxRuns /\ MaxRuns \in Nat
  BY ForensicsAssumption DEF Runs
<1>2. {4 * run, 4 * run - 1, 4 * run + 1} \subseteq BundleNames
  BY <1>1 DEF BundleNames
<1>. QED
  BY <1>2 DEF CrashBundle, DryBundles

(* Retention keeps no more than its limit: the bundles it keeps have        *)
(* different numbers of newer ones, each less than the limit.               *)
LEMMA RetentionBounds ==
  ASSUME NEW S \in SUBSET BundleNames
  PROVE  /\ NewestBundles(S) \subseteq S
         /\ Cardinality(NewestBundles(S)) <= MaxBundles
         /\ \A b \in S \ NewestBundles(S) : Cardinality(Newer(S, b)) >= MaxBundles
<1> DEFINE T == NewestBundles(S)
           rank == [b \in T |-> Cardinality(Newer(S, b))]
<1>1. T = {b \in S : Cardinality(Newer(S, b)) < MaxBundles}
  BY DEF NewestBundles, Newer
<1>2. ASSUME NEW b \in S PROVE IsFiniteSet(Newer(S, b)) /\ Cardinality(Newer(S, b)) \in Nat
  <2>1. Newer(S, b) \in SUBSET BundleNames
    BY DEF Newer
  <2>. QED
    BY <2>1, NamesFinite
<1>3. \A b \in S \ T : Cardinality(Newer(S, b)) >= MaxBundles
  BY <1>1, <1>2, ForensicsAssumption
<1>4. S \subseteq Nat
  BY DEF BundleNames
<1>5. ASSUME NEW a \in T, NEW b \in T, a < b PROVE rank[a] # rank[b]
  <2>1. a \in S /\ b \in S /\ a \in Nat /\ b \in Nat
    BY <1>1, <1>4
  <2>2. Newer(S, b) \in SUBSET Newer(S, a) /\ b \in Newer(S, a) /\ b \notin Newer(S, b)
    <3>1. \A d \in S : d > b => d > a
      BY <1>4, <1>5, <2>1
    <3>2. b > a /\ ~(b > b)
      BY <1>5, <2>1
    <3>. QED
      BY <2>1, <3>1, <3>2 DEF Newer
  <2>3. Newer(S, a) # Newer(S, b)
    BY <2>2
  <2>4. Cardinality(Newer(S, a)) # Cardinality(Newer(S, b))
    BY <1>2, <2>1, <2>2, <2>3, FS_Subset
  <2>. QED
    BY <2>4
<1>6. rank \in [T -> 0 .. MaxBundles - 1]
  <2>1. \A b \in T : Cardinality(Newer(S, b)) \in 0 .. MaxBundles - 1
    BY <1>1, <1>2, ForensicsAssumption
  <2>. QED
    BY <2>1
<1>7. T \subseteq Nat
  BY <1>1, <1>4
<1>8. \A a, b \in T : rank[a] = rank[b] => a = b
  <2> HIDE DEF T, rank
  <2>1. ASSUME NEW a \in T, NEW b \in T, a # b PROVE a < b \/ b < a
    BY <1>7, <2>1
  <2>. QED
    BY <1>5, <2>1
<1>9. rank \in Injection(T, 0 .. MaxBundles - 1)
  <2> HIDE DEF T, rank
  <2>. QED
    BY <1>6, <1>8 DEF Injection, IsInjective
<1>10. IsFiniteSet(0 .. MaxBundles - 1) /\ Cardinality(0 .. MaxBundles - 1) = MaxBundles
  <2>1. 0 \in Int /\ MaxBundles - 1 \in Int /\ ~(0 > MaxBundles - 1) /\ (MaxBundles - 1) - 0 + 1 = MaxBundles
    BY ForensicsAssumption
  <2>. QED
    BY <2>1, FS_Interval
<1>11. Cardinality(T) <= MaxBundles
  <2> HIDE DEF T, rank
  <2>. QED
    BY <1>9, <1>10, FS_Injection
<1>. QED
  BY <1>1, <1>3, <1>11

(* More bundles written leave no fewer newer ones. *)
LEMMA NewerGrows ==
  ASSUME NEW S \in SUBSET BundleNames, NEW T \in SUBSET S, NEW b, Cardinality(Newer(T, b)) >= MaxBundles
  PROVE  Cardinality(Newer(S, b)) >= MaxBundles
<1>1. Newer(T, b) \in SUBSET Newer(S, b) /\ Newer(S, b) \in SUBSET BundleNames /\ Newer(T, b) \in SUBSET BundleNames
  BY DEF Newer
<1>2. PICK m, n \in Nat : /\ m = Cardinality(Newer(T, b)) /\ n = Cardinality(Newer(S, b))
                          /\ IsFiniteSet(Newer(S, b))
  BY <1>1, NamesFinite
<1>3. m <= n
  BY <1>1, <1>2, FS_Subset
<1>. QED
  BY <1>2, <1>3, ForensicsAssumption

(* The invariant says what the run checks. *)
LEMMA CfInvImplies == CfInv => StopsJudged
<1> SUFFICES ASSUME CfInv PROVE StopsJudged
  OBVIOUS
<1>1. Cardinality(cfPrior) <= 1
  <2>1. Cardinality({}) <= 1 /\ \A p : Cardinality({p}) <= 1
    BY FS_EmptySet, FS_Singleton
  <2>. QED
    BY <2>1 DEF CfInv, CfShape
<1>2. cfHeart \in 0 .. MaxRuns /\ 1 .. cfRun \subseteq 0 .. MaxRuns
  BY ForensicsAssumption DEF CfInv, CfShape, Runs
<1>3. CfTypeOK
  BY <1>1, <1>2 DEF CfInv, CfShape, BundlesSound, CfTypeOK, BundleNames
<1>4. NoFalseUnclean
  BY DEF CfInv, CheckSound, NoFalseUnclean
<1>5. CrashIsSeen
  BY DEF CfInv, ReadInTime, CrashIsSeen
<1>6. RepairHasBundle
  BY DEF CfInv, CfShape, BundlesSound, RepairHasBundle, Newer
<1>. QED
  BY <1>3, <1>4, <1>5, <1>6 DEF StopsJudged

LEMMA CfInit_Inv == CfInit => CfInv
<1> SUFFICES ASSUME CfInit PROVE CfInv
  OBVIOUS
<1> USE DEF CfInit
<1>1. CfShape
  <2>1. 1 \in Runs /\ 0 \in 0 .. 1 /\ 0 \in 0 .. MaxRuns
    BY ForensicsAssumption DEF Runs
  <2>. QED
    BY <2>1 DEF CfShape
<1>2. FilesSound /\ ReadInTime /\ CheckSound
  BY DEF FilesSound, ReadInTime, CheckSound, ShowsCrash
<1>3. BundlesSound
  BY FS_EmptySet, ForensicsAssumption DEF BundlesSound
<1>. QED
  BY <1>1, <1>2, <1>3 DEF CfInv

(* What a check and a run that only read leave of the files. *)
LEMMA FilesStand ==
  ASSUME CfInv, cfRun' = cfRun, UNCHANGED cfFiles, cfClean' = cfClean, cfBeaten' = cfBeaten,
         cfPrior' = cfPrior, cfLock' = cfLock, cfStopping' = cfStopping
  PROVE  FilesSound'
BY DEF CfInv, FilesSound, TellsNoFalse, ShowsCrash, PriorState, cfFiles

LEMMA BundlesStand ==
  ASSUME CfInv, cfRun' = cfRun, cfDry' = cfDry, cfBundles' = cfBundles, cfWritten' = cfWritten
  PROVE  BundlesSound'
BY DEF CfInv, BundlesSound

LEMMA CheckStands ==
  ASSUME CfInv, cfRun' = cfRun, cfSubject' = cfSubject, cfCheck' = cfCheck, cfClean' = cfClean,
         cfWritten \subseteq cfWritten'
  PROVE  CheckSound'
BY DEF CfInv, CheckSound

(* The files are read, or cannot be. *)
LEMMA ReadPrior ==
  ASSUME CfInv, ReadPriorState \/ ReadPriorFails PROVE CfInv'
<1>1. /\ cfInitial = "reading" /\ cfInitial' = "read" /\ cfPrior = {}
      /\ cfRun' = cfRun /\ cfLock' = cfLock /\ cfStopping' = cfStopping /\ UNCHANGED cfFiles
      /\ cfCheck' = cfCheck /\ cfSubject' = cfSubject /\ cfDry' = cfDry /\ cfBundles' = cfBundles
      /\ cfWritten' = cfWritten /\ cfRepairs' = cfRepairs /\ cfClean' = cfClean /\ cfBeaten' = cfBeaten
  BY DEF ReadPriorState, ReadPriorFails, cfCollector, cfGhosts, CfInv, ReadInTime
<1>2. PICK p \in PriorRecs :
        /\ cfPrior' = {p} /\ p.heart <= cfRun /\ TellsNoFalse(p)
        /\ \/ p = PriorState /\ cfOvertaken' = cfOvertaken
           \/ cfOvertaken' = TRUE
  <2>1. CASE ReadPriorState
    <3>1. PriorState \in PriorRecs /\ PriorState.heart <= cfRun
      BY ForensicsAssumption DEF PriorState, PriorRecs, CfInv, CfShape, Runs
    <3>2. TellsNoFalse(PriorState)
      BY DEF PriorState, TellsNoFalse, CfInv, FilesSound
    <3>. QED
      BY <2>1, <3>1, <3>2 DEF ReadPriorState, SnapshotPrior, cfGhosts
  <2>2. CASE ReadPriorFails
    <3>1. [heart |-> 0, marker |-> FALSE, newer |-> FALSE] \in PriorRecs /\ 0 <= cfRun
      BY ForensicsAssumption DEF PriorRecs, CfInv, CfShape, Runs
    <3>. QED
      BY <2>2, <3>1 DEF ReadPriorFails, TellsNoFalse
  <2>. QED
    BY <2>1, <2>2
<1>3. CfShape'
  <2>1. cfOvertaken' \in BOOLEAN
    BY <1>2 DEF CfInv, CfShape
  <2>. QED
    BY <1>1, <1>2, <2>1 DEF CfInv, CfShape, cfFiles
<1>4. FilesSound'
  BY <1>1, <1>2 DEF CfInv, FilesSound, TellsNoFalse, ShowsCrash, PriorState, cfFiles
<1>5. ReadInTime'
  <2>1. ~cfOvertaken' => p = PriorState /\ ~cfOvertaken /\ cfRun \notin cfBeaten \cup cfClean
    BY <1>1, <1>2 DEF CfInv, CfShape, ReadInTime
  <2>2. ~cfOvertaken' => ShowsCrash(p)
    BY <2>1 DEF CfInv, FilesSound
  <2>. QED
    BY <1>1, <1>2, <2>1, <2>2 DEF CfInv, ReadInTime, ShowsCrash
<1>6. CheckSound'
  BY <1>1, CheckStands
<1>7. BundlesSound'
  BY <1>1, BundlesStand
<1>. QED
  BY <1>3, <1>4, <1>5, <1>6, <1>7 DEF CfInv

(* The lock is taken, or a heartbeat is given up, or the stop announced. *)
LEMMA LockMoves ==
  ASSUME CfInv,
         \/ \E who \in {"beat", "first"} : BeginHeartbeat(who)
         \/ HeartbeatFails \/ OnStop \/ BeginMarker
  PROVE  CfInv'
<1>1. /\ cfRun' = cfRun /\ cfPrior' = cfPrior /\ UNCHANGED cfFiles /\ cfCheck' = cfCheck
      /\ cfSubject' = cfSubject /\ cfDry' = cfDry /\ cfBundles' = cfBundles /\ cfWritten' = cfWritten
      /\ cfRepairs' = cfRepairs /\ cfClean' = cfClean /\ cfBeaten' = cfBeaten
      /\ cfOvertaken' = cfOvertaken
  BY DEF BeginHeartbeat, HeartbeatFails, OnStop, BeginMarker, cfCollector, cfGhosts
<1>2. /\ cfLock' \in {"free", "beat", "first", "marker"} /\ cfStopping' \in BOOLEAN
      /\ cfInitial' \in {"reading", "read", "done"}
      /\ cfInitial' = cfInitial \/ (cfInitial' = "done" /\ cfLock = "first")
  BY DEF BeginHeartbeat, HeartbeatFails, OnStop, BeginMarker, InitialAfterBeat, CfInv, CfShape
<1>3. CfShape'
  BY <1>1, <1>2 DEF CfInv, CfShape, cfFiles
<1>4. (cfRun \in cfClean => cfStopping' /\ cfLock' = "free") /\ (cfLock' = "marker" => cfStopping')
  BY DEF BeginHeartbeat, MayBeat, HeartbeatFails, OnStop, BeginMarker, CfInv, FilesSound
<1>5. FilesSound'
  BY <1>1, <1>4 DEF CfInv, FilesSound, TellsNoFalse, ShowsCrash, PriorState, cfFiles
<1>6. ReadInTime'
  <2>1. cfInitial' = "reading" <=> cfInitial = "reading"
    BY <1>2 DEF CfInv, ReadInTime
  <2>2. cfLock' = "first" => cfInitial' # "reading"
    BY DEF BeginHeartbeat, HeartbeatFails, OnStop, BeginMarker, CfInv, ReadInTime
  <2>. QED
    BY <1>1, <2>1, <2>2 DEF CfInv, ReadInTime, ShowsCrash
<1>7. CheckSound'
  BY <1>1, CheckStands
<1>8. BundlesSound'
  BY <1>1, BundlesStand
<1>. QED
  BY <1>3, <1>5, <1>6, <1>7, <1>8 DEF CfInv

LEMMA CfHeartbeatWritten == ASSUME CfInv, HeartbeatWritten PROVE CfInv'
<1>1. /\ cfRun' = cfRun /\ cfPrior' = cfPrior /\ cfCheck' = cfCheck
      /\ cfSubject' = cfSubject /\ cfDry' = cfDry /\ cfBundles' = cfBundles /\ cfWritten' = cfWritten
      /\ cfRepairs' = cfRepairs /\ cfClean' = cfClean /\ cfStopping' = cfStopping
      /\ cfMarker' = cfMarker /\ cfHeart' = cfRun /\ cfNewer' = TRUE /\ cfLock' = "free"
      /\ cfBeaten' = cfBeaten \cup {cfRun} /\ cfLock \in {"beat", "first"}
      /\ cfInitial' = InitialAfterBeat
      /\ cfOvertaken' = (cfOvertaken \/ cfInitial = "reading" \/ cfCheck = "reading")
  BY DEF HeartbeatWritten, NoteOvertaken, cfCollector
<1>2. cfRun \notin cfClean
  BY <1>1 DEF CfInv, FilesSound
<1>3. cfRun \in Nat /\ cfRun - 1 # cfRun /\ cfRun \in 0 .. cfRun /\ cfRun \in 1 .. cfRun
  BY ForensicsAssumption DEF CfInv, CfShape, Runs
<1>4. cfInitial' \in {"reading", "read", "done"} /\ (cfInitial' = "reading" <=> cfInitial = "reading")
  BY <1>1 DEF InitialAfterBeat, CfInv, CfShape, ReadInTime
<1>5. CfShape'
  <2>1. cfBeaten' \subseteq 1 .. cfRun
    BY <1>1, <1>3 DEF CfInv, CfShape
  <2>2. cfOvertaken' \in BOOLEAN
    BY <1>1
  <2>. QED
    BY <1>1, <1>3, <1>4, <2>1, <2>2 DEF CfInv, CfShape
<1>6. FilesSound'
  BY <1>1, <1>2 DEF CfInv, FilesSound, TellsNoFalse
<1>7. ReadInTime'
  <2>1. cfRun - 1 \in cfBeaten' <=> cfRun - 1 \in cfBeaten
    BY <1>1, <1>3
  <2>2. ~cfOvertaken' => ~cfOvertaken /\ cfInitial # "reading" /\ cfCheck # "reading"
    BY <1>1
  <2>. QED
    BY <1>1, <1>4, <2>1, <2>2 DEF CfInv, ReadInTime, ShowsCrash
<1>8. CheckSound'
  BY <1>1, CheckStands
<1>9. BundlesSound'
  BY <1>1, BundlesStand
<1>. QED
  BY <1>5, <1>6, <1>7, <1>8, <1>9 DEF CfInv

LEMMA CfMarkerWritten == ASSUME CfInv, MarkerWritten PROVE CfInv'
<1>1. /\ cfRun' = cfRun /\ cfPrior' = cfPrior /\ cfCheck' = cfCheck /\ cfInitial' = cfInitial
      /\ cfSubject' = cfSubject /\ cfDry' = cfDry /\ cfBundles' = cfBundles /\ cfWritten' = cfWritten
      /\ cfRepairs' = cfRepairs /\ cfBeaten' = cfBeaten /\ cfStopping' = cfStopping
      /\ cfHeart' = cfHeart /\ cfMarker' = TRUE /\ cfNewer' = FALSE /\ cfLock' = "free"
      /\ cfClean' = cfClean \cup {cfRun} /\ cfLock = "marker"
      /\ cfOvertaken' = (cfOvertaken \/ cfInitial = "reading" \/ cfCheck = "reading")
  BY DEF MarkerWritten, NoteOvertaken, cfCollector
<1>2. cfRun \in Nat /\ cfRun - 1 # cfRun /\ cfRun \in 1 .. cfRun /\ ~(cfRun < cfRun)
  BY ForensicsAssumption DEF CfInv, CfShape, Runs
<1>3. CfShape'
  <2>1. cfClean' \subseteq 1 .. cfRun
    BY <1>1, <1>2 DEF CfInv, CfShape
  <2>2. cfOvertaken' \in BOOLEAN
    BY <1>1
  <2>. QED
    BY <1>1, <2>1, <2>2 DEF CfInv, CfShape
<1>4. FilesSound'
  <2>1. cfStopping
    BY <1>1 DEF CfInv, FilesSound
  <2>2. \A p \in cfPrior : p.heart <= cfRun /\ (p.heart \notin {0, cfRun} /\ (~p.marker \/ p.newer) => p.heart \notin cfClean')
    BY <1>1 DEF CfInv, FilesSound, TellsNoFalse
  <2>. QED
    BY <1>1, <2>1, <2>2 DEF FilesSound, TellsNoFalse
<1>5. ReadInTime'
  <2>1. cfRun - 1 \in cfClean' <=> cfRun - 1 \in cfClean
    BY <1>1, <1>2
  <2>2. ~cfOvertaken' => ~cfOvertaken /\ cfInitial # "reading" /\ cfCheck # "reading"
    BY <1>1
  <2>. QED
    BY <1>1, <2>1, <2>2 DEF CfInv, ReadInTime, ShowsCrash
<1>6. CheckSound'
  <2>1. cfSubject # cfRun
    BY <1>2 DEF CfInv, CheckSound
  <2>. QED
    BY <1>1, <2>1 DEF CfInv, CheckSound
<1>7. BundlesSound'
  BY <1>1, BundlesStand
<1>. QED
  BY <1>3, <1>4, <1>5, <1>6, <1>7 DEF CfInv

(* A verdict on what the files showed. *)
LEMMA VerdictSound ==
  ASSUME CfInv, NEW prior, prior.heart \in 0 .. MaxRuns, prior.heart <= cfRun, TellsNoFalse(prior),
         ~cfOvertaken => ShowsCrash(prior), Verdict(prior)
  PROVE  /\ cfSubject' \in 0 .. MaxRuns /\ cfCheck' \in {"collect", "done"}
         /\ cfSubject' < cfRun /\ cfSubject' \notin cfClean
         /\ cfCheck' = "collect" => cfSubject' # 0
         /\ cfRun = 1 => cfSubject' = 0
         /\ ~cfOvertaken /\ cfCheck' = "done" /\ cfSubject' = 0 => cfRun - 1 \notin cfBeaten \ cfClean
<1>1. cfRun \in Nat /\ cfRun >= 1 /\ cfRun - 1 # cfRun /\ 0 \in 0 .. MaxRuns
  BY ForensicsAssumption DEF CfInv, CfShape, Runs
<1>2. cfClean \subseteq 1 .. cfRun /\ cfBeaten \subseteq 1 .. cfRun /\ 0 \notin 1 .. cfRun
  BY DEF CfInv, CfShape
<1>3. CASE Unclean(prior)
  <2>1. cfSubject' = prior.heart /\ cfCheck' = "collect" /\ prior.heart \notin {0, cfRun}
        /\ prior.heart \notin cfClean
    BY <1>3 DEF Verdict, Unclean, TellsNoFalse
  <2>2. prior.heart < cfRun /\ (cfRun = 1 => prior.heart = 0)
    BY <1>1, <2>1
  <2>. QED
    BY <2>1, <2>2
<1>4. CASE ~Unclean(prior)
  <2>1. cfSubject' = 0 /\ cfCheck' = "done"
    BY <1>4 DEF Verdict
  <2>2. ~cfOvertaken => cfRun - 1 \notin cfBeaten \ cfClean
    <3>1. SUFFICES ASSUME ~cfOvertaken, cfRun - 1 \in cfBeaten \ cfClean PROVE FALSE
      OBVIOUS
    <3>2. prior.heart = cfRun - 1 /\ prior.newer
      BY <3>1 DEF ShowsCrash
    <3>3. cfRun - 1 # 0
      BY <1>2, <3>1
    <3>. QED
      BY <1>1, <1>4, <3>2, <3>3 DEF Unclean
  <2>. QED
    BY <1>1, <1>2, <2>1, <2>2
<1>. QED
  BY <1>3, <1>4

(* The check goes on, with a verdict or towards one. *)
LEMMA CfJudges == ASSUME CfInv, OnStarted \/ CheckReads PROVE CfInv'
<1>1. /\ UNCHANGED cfRunState /\ UNCHANGED cfFiles /\ cfDry' = cfDry /\ cfBundles' = cfBundles
      /\ cfWritten' = cfWritten /\ cfRepairs' = cfRepairs /\ cfClean' = cfClean
      /\ cfBeaten' = cfBeaten /\ cfOvertaken' = cfOvertaken
  BY DEF OnStarted, CheckReads
<1>2. /\ cfRun' = cfRun /\ cfInitial' = cfInitial /\ cfLock' = cfLock /\ cfStopping' = cfStopping
      /\ cfPrior' = cfPrior /\ cfHeart' = cfHeart /\ cfMarker' = cfMarker /\ cfNewer' = cfNewer
  BY <1>1 DEF cfRunState, cfFiles
<1>3. FilesSound'
  BY <1>1, <1>2, FilesStand
<1>4. BundlesSound'
  BY <1>1, <1>2, BundlesStand
<1>5. CASE cfPrior = {} /\ cfCheck = "waiting" /\ cfCheck' = "reading" /\ cfSubject' = cfSubject
  <2>1. CfShape'
    BY <1>1, <1>2, <1>5 DEF CfInv, CfShape
  <2>2. ReadInTime'
    BY <1>1, <1>2, <1>5 DEF CfInv, ReadInTime, ShowsCrash
  <2>3. CheckSound'
    BY <1>1, <1>2, <1>5 DEF CfInv, CheckSound
  <2>. QED
    BY <1>3, <1>4, <2>1, <2>2, <2>3 DEF CfInv
<1>6. ASSUME NEW prior, prior.heart \in 0 .. MaxRuns, prior.heart <= cfRun, TellsNoFalse(prior),
             ~cfOvertaken => ShowsCrash(prior), Verdict(prior)
      PROVE  CfInv'
  <2>1. /\ cfSubject' \in 0 .. MaxRuns /\ cfCheck' \in {"collect", "done"}
        /\ cfSubject' < cfRun /\ cfSubject' \notin cfClean
        /\ cfCheck' = "collect" => cfSubject' # 0
        /\ cfRun = 1 => cfSubject' = 0
        /\ ~cfOvertaken /\ cfCheck' = "done" /\ cfSubject' = 0 => cfRun - 1 \notin cfBeaten \ cfClean
    BY <1>6, VerdictSound
  <2>2. CfShape'
    BY <1>1, <1>2, <2>1 DEF CfInv, CfShape
  <2>3. ReadInTime'
    BY <1>1, <1>2, <2>1 DEF CfInv, ReadInTime, ShowsCrash
  <2>4. CheckSound'
    BY <1>1, <1>2, <2>1 DEF CheckSound
  <2>. QED
    BY <1>3, <1>4, <2>2, <2>3, <2>4 DEF CfInv
<1>7. ASSUME NEW prior \in cfPrior, Verdict(prior) PROVE CfInv'
  <2>1. prior.heart \in 0 .. MaxRuns /\ prior.heart <= cfRun /\ TellsNoFalse(prior)
    BY DEF CfInv, CfShape, FilesSound, PriorRecs
  <2>2. ~cfOvertaken => ShowsCrash(prior)
    BY DEF CfInv, ReadInTime
  <2>. QED
    BY <1>6, <1>7, <2>1, <2>2
<1>8. ASSUME CheckReads PROVE CfInv'
  <2>1. PriorState.heart \in 0 .. MaxRuns /\ PriorState.heart <= cfRun
    BY ForensicsAssumption DEF PriorState, CfInv, CfShape, Runs
  <2>2. TellsNoFalse(PriorState)
    BY DEF PriorState, TellsNoFalse, CfInv, FilesSound
  <2>3. ~cfOvertaken => ShowsCrash(PriorState)
    BY <1>8 DEF CheckReads, CfInv, ReadInTime, FilesSound
  <2>. QED
    BY <1>6, <1>8, <2>1, <2>2, <2>3 DEF CheckReads
<1>. QED
  BY <1>5, <1>7, <1>8 DEF OnStarted

(* A bundle is written, kept or let go. *)
LEMMA BundleAdded ==
  ASSUME CfInv, NEW b \in BundleNames,
         cfBundles' = cfBundles \cup {b}, cfWritten' = cfWritten \cup {b}, cfRun' = cfRun
  PROVE  /\ cfBundles' \subseteq cfWritten' /\ cfWritten' \subseteq BundleNames
         /\ cfWritten \subseteq cfWritten' /\ b \in cfWritten'
         /\ \A d \in cfWritten' \ cfBundles' : Cardinality(Newer(cfWritten', d)) >= MaxBundles
<1>1. cfBundles' \subseteq cfWritten' /\ cfWritten' \subseteq BundleNames /\ cfWritten \subseteq cfWritten'
  BY DEF CfInv, CfShape
<1>2. ASSUME NEW d \in cfWritten' \ cfBundles' PROVE Cardinality(Newer(cfWritten', d)) >= MaxBundles
  <2>1. Cardinality(Newer(cfWritten, d)) >= MaxBundles
    BY DEF CfInv, BundlesSound
  <2>2. cfWritten \in SUBSET cfWritten' /\ cfWritten' \in SUBSET BundleNames
    BY <1>1
  <2>. QED
    BY <2>1, <2>2, NewerGrows
<1>. QED
  BY <1>1, <1>2

LEMMA BundlesKept ==
  ASSUME CfInv, cfBundles' = NewestBundles(cfBundles), cfWritten' = cfWritten
  PROVE  /\ cfBundles' \subseteq cfWritten' /\ Cardinality(cfBundles') <= MaxBundles
         /\ \A d \in cfWritten' \ cfBundles' : Cardinality(Newer(cfWritten', d)) >= MaxBundles
<1>1. cfBundles \in SUBSET cfWritten /\ cfWritten \in SUBSET BundleNames /\ cfBundles \in SUBSET BundleNames
  BY DEF CfInv, CfShape
<1>2. /\ cfBundles' \subseteq cfBundles /\ Cardinality(cfBundles') <= MaxBundles
      /\ \A d \in cfBundles \ cfBundles' : Cardinality(Newer(cfBundles, d)) >= MaxBundles
  BY <1>1, RetentionBounds
<1>3. ASSUME NEW d \in cfWritten \ cfBundles' PROVE Cardinality(Newer(cfWritten, d)) >= MaxBundles
  <2>1. CASE d \in cfBundles
    BY <1>1, <1>2, <2>1, NewerGrows
  <2>2. CASE d \notin cfBundles
    BY <2>2 DEF CfInv, BundlesSound
  <2>. QED
    BY <2>1, <2>2
<1>. QED
  BY <1>1, <1>2, <1>3

(* What a step of the collector leaves of a run. *)
LEMMA RunStands ==
  ASSUME CfInv, UNCHANGED cfRunState, UNCHANGED cfFiles, UNCHANGED cfGhosts
  PROVE  /\ FilesSound'
         /\ cfRun' = cfRun /\ cfInitial' = cfInitial /\ cfLock' = cfLock /\ cfStopping' = cfStopping
         /\ cfPrior' = cfPrior /\ cfHeart' = cfHeart /\ cfMarker' = cfMarker /\ cfNewer' = cfNewer
         /\ cfClean' = cfClean /\ cfBeaten' = cfBeaten /\ cfOvertaken' = cfOvertaken
BY FilesStand DEF cfRunState, cfFiles, cfGhosts

LEMMA CfCollectBundle == ASSUME CfInv, CollectBundle PROVE CfInv'
<1>1. /\ UNCHANGED cfRunState /\ UNCHANGED cfFiles /\ UNCHANGED cfGhosts
      /\ cfCheck = "collect" /\ cfCheck' = "retain" /\ cfSubject' = cfSubject /\ cfDry' = cfDry
      /\ cfRepairs' = cfRepairs /\ cfBundles' = cfBundles \cup {CrashBundle(cfSubject)}
      /\ cfWritten' = cfWritten \cup {CrashBundle(cfSubject)}
  BY DEF CollectBundle
<1>2. /\ FilesSound'
      /\ cfRun' = cfRun /\ cfInitial' = cfInitial /\ cfLock' = cfLock /\ cfStopping' = cfStopping
      /\ cfPrior' = cfPrior /\ cfHeart' = cfHeart /\ cfMarker' = cfMarker /\ cfNewer' = cfNewer
      /\ cfClean' = cfClean /\ cfBeaten' = cfBeaten /\ cfOvertaken' = cfOvertaken
  BY <1>1, RunStands
<1>3. cfSubject # 0 /\ cfSubject \in Runs /\ cfRun # 1
  BY <1>1, ForensicsAssumption DEF CfInv, CfShape, CheckSound, Runs
<1>4. PICK b \in BundleNames : b = CrashBundle(cfSubject)
  BY <1>3, NamesOfRuns
<1>5. /\ cfBundles' \subseteq cfWritten' /\ cfWritten' \subseteq BundleNames
      /\ cfWritten \subseteq cfWritten' /\ b \in cfWritten'
      /\ \A d \in cfWritten' \ cfBundles' : Cardinality(Newer(cfWritten', d)) >= MaxBundles
  BY <1>1, <1>2, <1>4, BundleAdded
<1>6. CfShape'
  BY <1>1, <1>2, <1>5 DEF CfInv, CfShape
<1>7. ReadInTime'
  BY <1>1, <1>2 DEF CfInv, ReadInTime, ShowsCrash
<1>8. CheckSound'
  BY <1>1, <1>2, <1>3, <1>4, <1>5 DEF CfInv, CheckSound, CrashBundle
<1>9. BundlesSound'
  BY <1>2, <1>3, <1>5 DEF BundlesSound
<1>. QED
  BY <1>2, <1>6, <1>7, <1>8, <1>9 DEF CfInv

LEMMA CfBundleFails == ASSUME CfInv, BundleFails PROVE CfInv'
<1>1. /\ UNCHANGED cfRunState /\ UNCHANGED cfFiles /\ UNCHANGED cfGhosts
      /\ cfCheck = "collect" /\ cfCheck' = "done" /\ cfSubject' = cfSubject /\ cfDry' = cfDry
      /\ cfRepairs' = cfRepairs /\ cfBundles' = cfBundles /\ cfWritten' = cfWritten
  BY DEF BundleFails
<1>2. /\ FilesSound'
      /\ cfRun' = cfRun /\ cfInitial' = cfInitial /\ cfLock' = cfLock /\ cfStopping' = cfStopping
      /\ cfPrior' = cfPrior /\ cfHeart' = cfHeart /\ cfMarker' = cfMarker /\ cfNewer' = cfNewer
      /\ cfClean' = cfClean /\ cfBeaten' = cfBeaten /\ cfOvertaken' = cfOvertaken
  BY <1>1, RunStands
<1>3. cfSubject # 0
  BY <1>1 DEF CfInv, CheckSound
<1>4. CfShape'
  BY <1>1, <1>2 DEF CfInv, CfShape
<1>5. ReadInTime'
  BY <1>1, <1>2, <1>3 DEF CfInv, ReadInTime, ShowsCrash
<1>6. CheckSound'
  BY <1>1, <1>2 DEF CfInv, CheckSound
<1>7. BundlesSound'
  BY <1>1, <1>2, BundlesStand
<1>. QED
  BY <1>2, <1>4, <1>5, <1>6, <1>7 DEF CfInv

LEMMA CfEnforceRetention == ASSUME CfInv, EnforceRetention PROVE CfInv'
<1>1. /\ UNCHANGED cfRunState /\ UNCHANGED cfFiles /\ UNCHANGED cfGhosts
      /\ cfCheck = "retain" /\ cfCheck' = "done" /\ cfSubject' = cfSubject /\ cfDry' = cfDry
      /\ cfRepairs' = cfRepairs \cup {CrashBundle(cfSubject)}
      /\ cfBundles' = NewestBundles(cfBundles) /\ cfWritten' = cfWritten
  BY DEF EnforceRetention
<1>2. /\ FilesSound'
      /\ cfRun' = cfRun /\ cfInitial' = cfInitial /\ cfLock' = cfLock /\ cfStopping' = cfStopping
      /\ cfPrior' = cfPrior /\ cfHeart' = cfHeart /\ cfMarker' = cfMarker /\ cfNewer' = cfNewer
      /\ cfClean' = cfClean /\ cfBeaten' = cfBeaten /\ cfOvertaken' = cfOvertaken
  BY <1>1, RunStands
<1>3. cfSubject # 0 /\ CrashBundle(cfSubject) \in cfWritten
  BY <1>1 DEF CfInv, CheckSound
<1>4. /\ cfBundles' \subseteq cfWritten' /\ Cardinality(cfBundles') <= MaxBundles
      /\ \A d \in cfWritten' \ cfBundles' : Cardinality(Newer(cfWritten', d)) >= MaxBundles
  BY <1>1, BundlesKept
<1>5. CfShape'
  BY <1>1, <1>2, <1>3, <1>4 DEF CfInv, CfShape
<1>6. ReadInTime'
  BY <1>1, <1>2, <1>3 DEF CfInv, ReadInTime, ShowsCrash
<1>7. CheckSound'
  BY <1>1, <1>2 DEF CfInv, CheckSound
<1>8. BundlesSound'
  BY <1>4 DEF BundlesSound
<1>. QED
  BY <1>2, <1>5, <1>6, <1>7, <1>8 DEF CfInv

(* The owner's collection. *)
LEMMA CfDryRun == ASSUME CfInv, DryRunBegins \/ DryRunWrites \/ DryRunEnds PROVE CfInv'
<1>1. /\ UNCHANGED cfRunState /\ UNCHANGED cfFiles /\ UNCHANGED cfGhosts
      /\ cfCheck' = cfCheck /\ cfSubject' = cfSubject /\ cfRepairs' = cfRepairs
      /\ cfDry' \in {"no", "collect", "retain"}
  BY DEF DryRunBegins, DryRunWrites, DryRunEnds
<1>2. /\ FilesSound'
      /\ cfRun' = cfRun /\ cfInitial' = cfInitial /\ cfLock' = cfLock /\ cfStopping' = cfStopping
      /\ cfPrior' = cfPrior /\ cfHeart' = cfHeart /\ cfMarker' = cfMarker /\ cfNewer' = cfNewer
      /\ cfClean' = cfClean /\ cfBeaten' = cfBeaten /\ cfOvertaken' = cfOvertaken
  BY <1>1, RunStands
<1>3. /\ cfBundles' \subseteq cfWritten' /\ cfWritten' \subseteq BundleNames /\ cfWritten \subseteq cfWritten'
      /\ BundlesSound'
  <2>1. CASE DryRunBegins
    <3>1. /\ cfBundles' = cfBundles /\ cfWritten' = cfWritten /\ cfDry = "no" /\ cfDry' = "collect"
      BY <2>1 DEF DryRunBegins
    <3>. QED
      BY <1>2, <3>1 DEF CfInv, CfShape, BundlesSound
  <2>2. CASE DryRunWrites
    <3>1. PICK b \in IF cfHeart \in {0, cfRun} THEN DryBundles(cfRun) ELSE {CrashBundle(cfHeart)} :
            cfWritten' = cfWritten \cup {b} /\ cfBundles' = cfBundles \cup {b}
      BY <2>2 DEF DryRunWrites
    <3>2. b \in BundleNames
      <4>1. cfRun \in Runs
        BY DEF CfInv, CfShape
      <4>2. cfHeart # 0 => cfHeart \in Runs
        BY ForensicsAssumption DEF CfInv, CfShape, Runs
      <4>. QED
        BY <3>1, <4>1, <4>2, NamesOfRuns
    <3>3. /\ cfBundles' \subseteq cfWritten' /\ cfWritten' \subseteq BundleNames
          /\ cfWritten \subseteq cfWritten'
          /\ \A d \in cfWritten' \ cfBundles' : Cardinality(Newer(cfWritten', d)) >= MaxBundles
      BY <1>2, <3>1, <3>2, BundleAdded
    <3>4. cfDry' = "retain"
      BY <2>2 DEF DryRunWrites
    <3>. QED
      BY <3>3, <3>4 DEF BundlesSound
  <2>3. CASE DryRunEnds
    <3>1. cfBundles' = NewestBundles(cfBundles) /\ cfWritten' = cfWritten
      BY <2>3 DEF DryRunEnds
    <3>2. /\ cfBundles' \subseteq cfWritten' /\ Cardinality(cfBundles') <= MaxBundles
          /\ \A d \in cfWritten' \ cfBundles' : Cardinality(Newer(cfWritten', d)) >= MaxBundles
      BY <3>1, BundlesKept
    <3>. QED
      BY <3>1, <3>2 DEF BundlesSound, CfInv, CfShape
  <2>. QED
    BY <2>1, <2>2, <2>3
<1>4. CfShape'
  BY <1>1, <1>2, <1>3 DEF CfInv, CfShape
<1>5. ReadInTime'
  BY <1>1, <1>2 DEF CfInv, ReadInTime, ShowsCrash
<1>6. CheckSound'
  BY <1>1, <1>2, <1>3, CheckStands
<1>. QED
  BY <1>2, <1>3, <1>4, <1>5, <1>6 DEF CfInv

LEMMA CfNextRun == ASSUME CfInv, NextRun PROVE CfInv'
<1>1. /\ cfRun' = cfRun + 1 /\ cfRun < MaxRuns
      /\ cfInitial' = "reading" /\ cfLock' = "free" /\ cfStopping' = FALSE /\ cfPrior' = {}
      /\ cfCheck' = "waiting" /\ cfSubject' = 0 /\ cfDry' = "no" /\ cfOvertaken' = FALSE
      /\ cfHeart' = cfHeart /\ cfMarker' = cfMarker /\ cfNewer' = cfNewer
      /\ cfBundles' = cfBundles /\ cfWritten' = cfWritten /\ cfRepairs' = cfRepairs
      /\ cfClean' = cfClean /\ cfBeaten' = cfBeaten
  BY DEF NextRun, cfFiles
<1>2. /\ cfRun \in Nat /\ 1 <= cfRun /\ MaxRuns \in Nat
  BY ForensicsAssumption DEF CfInv, CfShape, Runs
<1>3. /\ cfRun + 1 \in Runs /\ cfRun + 1 # 1 /\ (cfRun + 1) - 1 = cfRun /\ 0 < cfRun + 1
      /\ cfRun + 1 \notin 1 .. cfRun /\ 0 \notin 1 .. cfRun
      /\ 1 .. cfRun \subseteq 1 .. cfRun + 1 /\ 0 .. cfRun \subseteq 0 .. cfRun + 1
      /\ 0 \in 0 .. MaxRuns
  BY <1>1, <1>2 DEF Runs
<1>4. cfRun + 1 \notin cfClean /\ cfRun + 1 \notin cfBeaten /\ 0 \notin cfClean
  BY <1>3 DEF CfInv, CfShape
<1>5. CfShape'
  BY <1>1, <1>3 DEF CfInv, CfShape
<1>6. FilesSound'
  BY <1>1, <1>3, <1>4 DEF CfInv, FilesSound, ShowsCrash, PriorState
<1>7. ReadInTime'
  BY <1>1, <1>4 DEF ReadInTime
<1>8. CheckSound'
  BY <1>1, <1>3, <1>4 DEF CheckSound
<1>9. BundlesSound'
  BY <1>1, <1>3 DEF CfInv, BundlesSound
<1>. QED
  BY <1>5, <1>6, <1>7, <1>8, <1>9 DEF CfInv

LEMMA CfStep == CfInv /\ [CfNext]_cfVars => CfInv'
<1> SUFFICES ASSUME CfInv, [CfNext]_cfVars PROVE CfInv'
  OBVIOUS
<1>1. CASE UNCHANGED cfVars
  <2>1. CfShape' /\ FilesSound'
    BY <1>1 DEF cfVars, cfRunState, cfFiles, cfCollector, cfGhosts, CfInv, CfShape, FilesSound, TellsNoFalse,
       ShowsCrash, PriorState
  <2>2. ReadInTime' /\ CheckSound' /\ BundlesSound'
    BY <1>1 DEF cfVars, cfRunState, cfFiles, cfCollector, cfGhosts, CfInv, ReadInTime, ShowsCrash, CheckSound,
       BundlesSound
  <2>. QED
    BY <2>1, <2>2 DEF CfInv
<1>. QED
  BY <1>1, ReadPrior, LockMoves, CfHeartbeatWritten, CfMarkerWritten, CfJudges, CfCollectBundle,
     CfBundleFails, CfEnforceRetention, CfDryRun, CfNextRun DEF CfNext

(***************************************************************************)
(* For any number of runs, crashes and bundles: a run that wrote its       *)
(* marker is never called unclean, a crashed one is not passed over unless *)
(* its files were unreadable or overtaken, and a Repairs issue has its     *)
(* bundle until enough newer ones were written.                            *)
(***************************************************************************)
THEOREM CrashHolds == CfSpec => []StopsJudged
<1>1. CfSpec => []CfInv
  BY CfInit_Inv, CfStep, PTL DEF CfSpec
<1>. QED
  BY <1>1, CfInvImplies, PTL

-----------------------------------------------------------------------------
(* The resource watchdog.                                                  *)

Samples == [Containers -> Seen]
TickRecs == [pc : {"idle", "fetch", "enforce"}, sample : Samples, todo : SUBSET Containers,
             slug : SUBSET Containers]
DetRecs == [status : OpenStates \cup {"none", "resolved"}, start : Stamps]

WdShape ==
  /\ wdWorld \in Samples /\ wdSample \in Samples
  /\ {wdTaken, wdNew, wdDirty, wdUnsaved, wdSaveFailed} \subseteq BOOLEAN
  /\ wdLock = {} \/ \E e \in Ticks : wdLock = {e}
  /\ wdTick \in [Ticks -> TickRecs]
  /\ wdCount \in [Containers -> 0 .. Sustained - 1]
  /\ wdEpisode \in [Containers -> Stamps \cup {NoEpisode}]
  /\ wdDet \in [Containers -> DetRecs]
  /\ wdActs \in [Containers -> Nat] /\ wdIssued \in [Containers -> Nat]
  /\ wdSave \in {"none", "begun", "read", "stale"}
  /\ wdRestarts \in 0 .. MaxRestarts

\* A tick waits for one action at a time, and is done with its container.
TicksSound ==
  \A e \in Ticks :
    /\ wdTick[e].pc = "enforce" => \E c \in Containers \ wdTick[e].todo : wdTick[e].slug = {c}
    /\ wdTick[e].pc # "enforce" => wdTick[e].slug = {}

\* The calls to the Supervisor that have not been answered.
Unanswered(c) == {e \in Ticks : c \in wdTick[e].slug}

\* What was called for is what has been answered and what has not.
CallsCounted ==
  \A c \in Containers : wdIssued[c] = wdActs[c] + Cardinality(Unanswered(c))

\* The episode in memory is the one of the detection.
EpisodesAgree ==
  \A c \in Containers :
    wdEpisode[c] # NoEpisode => wdDet[c].status # "none" /\ wdDet[c].start = wdEpisode[c]

\* What came in during a write is marked for the next one.
StaleIsDirty == wdSave = "stale" => wdDirty

WdInv ==
  /\ WdShape /\ TicksSound /\ CallsCounted /\ ActionBudget /\ EpisodesAgree
  /\ StaleIsDirty /\ RingReachesFile

TickCount == Cardinality(Ticks)

LEMMA TicksCount == TickCount \in Nat \ {0}
BY WatchdogAssumption, FS_CardinalityType, FS_EmptySet DEF TickCount

LEMMA UnansweredCount ==
  ASSUME NEW S \in SUBSET Ticks
  PROVE  /\ IsFiniteSet(S) /\ Cardinality(S) \in Nat
         /\ \A e \in Ticks \ S : /\ Cardinality(S \cup {e}) = Cardinality(S) + 1
                                 /\ Cardinality(S) <= TickCount - 1
         /\ \A e \in S : Cardinality(S \ {e}) = Cardinality(S) - 1
<1>1. IsFiniteSet(Ticks)
  BY WatchdogAssumption
<1>2. IsFiniteSet(S) /\ Cardinality(S) \in Nat
  BY <1>1, FS_Subset, FS_CardinalityType
<1>3. ASSUME NEW e \in Ticks \ S
      PROVE  Cardinality(S \cup {e}) = Cardinality(S) + 1 /\ Cardinality(S) <= TickCount - 1
  <2>1. Cardinality(S \cup {e}) = Cardinality(S) + 1
    BY <1>2, FS_AddElement
  <2>2. S \cup {e} \subseteq Ticks
    OBVIOUS
  <2>3. Cardinality(S \cup {e}) <= TickCount
    BY <1>1, <2>2, FS_Subset DEF TickCount
  <2>. QED
    BY <1>2, <2>1, <2>3, TicksCount
<1>4. ASSUME NEW e \in S PROVE Cardinality(S \ {e}) = Cardinality(S) - 1
  BY <1>2, FS_RemoveElement
<1>. QED
  BY <1>2, <1>3, <1>4

-----------------------------------------------------------------------------
(* The beginning.                                                          *)
LEMMA IdleTickIs ==
  /\ IdleTick \in TickRecs /\ IdleTick.pc = "idle" /\ IdleTick.todo = {} /\ IdleTick.slug = {}
BY DEF IdleTick, TickRecs, Samples, Seen

LEMMA WdStarts == WdInit => WdInv
<1> SUFFICES ASSUME WdInit PROVE WdInv
  OBVIOUS
<1>1. /\ wdTick \in [Ticks -> TickRecs] /\ \A e \in Ticks : wdTick[e] = IdleTick
  BY IdleTickIs DEF WdInit
<1>2. wdWorld \in Samples /\ wdSample \in Samples
  BY DEF WdInit, Samples, Seen
<1>3. wdCount \in [Containers -> 0 .. Sustained - 1]
  BY WatchdogAssumption DEF WdInit
<1>4. wdDet \in [Containers -> DetRecs]
  BY DEF WdInit, DetRecs, Stamps
<1>5. WdShape
  <2>1. wdEpisode \in [Containers -> Stamps \cup {NoEpisode}]
    BY DEF WdInit
  <2>2. wdActs \in [Containers -> Nat] /\ wdIssued \in [Containers -> Nat] /\ wdRestarts \in 0 .. MaxRestarts
    BY WatchdogAssumption DEF WdInit
  <2>3. /\ wdLock = {} /\ wdSave = "none"
        /\ {wdTaken, wdNew, wdDirty, wdUnsaved, wdSaveFailed} \subseteq BOOLEAN
    BY DEF WdInit
  <2>. QED
    BY <1>1, <1>2, <1>3, <1>4, <2>1, <2>2, <2>3 DEF WdShape
<1>6. TicksSound /\ \A c \in Containers : Unanswered(c) = {}
  BY <1>1, IdleTickIs DEF TicksSound, Unanswered
<1>7. CallsCounted /\ ActionBudget
  <2>1. Cardinality({}) = 0 /\ MaxActions \in Nat \ {0} /\ TickCount \in Nat \ {0}
    BY FS_EmptySet, TicksCount, WatchdogAssumption
  <2>2. \A c \in Containers : wdIssued[c] = 0 /\ wdActs[c] = 0
    BY DEF WdInit
  <2>3. 0 <= MaxActions + TickCount - 1
    BY <2>1
  <2>4. \A c \in Containers : Cardinality(Unanswered(c)) = 0
    BY <1>6, <2>1
  <2>. QED
    BY <2>1, <2>2, <2>3, <2>4 DEF CallsCounted, ActionBudget, TickCount
<1>8. EpisodesAgree /\ StaleIsDirty /\ RingReachesFile
  BY DEF WdInit, EpisodesAgree, StaleIsDirty, RingReachesFile
<1>. QED
  BY <1>5, <1>6, <1>7, <1>8 DEF WdInv

-----------------------------------------------------------------------------
(* The loop.                                                               *)

(* What a stretch of the loop does to the memory of every container.       *)
LEMMA CoversSays ==
  ASSUME WdShape, EpisodesAgree, NEW done, NEW sample \in Samples, NEW tripped, NEW calling, NEW gone, NEW pruned,
         Covers(done, sample, tripped, calling, gone, pruned)
  PROVE  /\ wdCount' \in [Containers -> 0 .. Sustained - 1]
         /\ wdEpisode' \in [Containers -> Stamps \cup {NoEpisode}]
         /\ wdDet' \in [Containers -> DetRecs]
         /\ EpisodesAgree'
         /\ \A c \in Containers :
              wdDet[c].status \in OpenStates /\ wdDet'[c].status \in OpenStates
                => wdDet'[c].start = wdDet[c].start
<1> DEFINE trip == {c \in done : Trips(c, sample[c])} \cup tripped
<1> DEFINE ended == {c \in done : sample[c] # "over"} \cup gone
<1>1. /\ \A c \in Containers : wdCount'[c] = IF c \in done THEN CountAfter(c, sample[c])
                               ELSE IF c \in calling \cup gone \cup pruned THEN 0 ELSE wdCount[c]
      /\ \A c \in Containers : wdEpisode'[c] = IF c \in trip THEN EpisodeAfterTrip(c)
                                               ELSE IF c \in ended THEN NoEpisode ELSE wdEpisode[c]
      /\ \A c \in Containers : wdDet'[c] = IF c \in trip THEN DetAfterTrip(c)
                                           ELSE IF c \in ended THEN EndEpisode(c) ELSE wdDet[c]
      /\ wdCount' = [c \in Containers |-> wdCount'[c]]
      /\ wdEpisode' = [c \in Containers |-> wdEpisode'[c]]
      /\ wdDet' = [c \in Containers |-> wdDet'[c]]
  BY DEF Covers
<1> HIDE DEF trip, ended
<1>2. ASSUME NEW c \in Containers
      PROVE  /\ wdCount[c] \in 0 .. Sustained - 1 /\ CountAfter(c, sample[c]) \in 0 .. Sustained - 1
  <2>1. wdCount[c] \in 0 .. Sustained - 1
    BY DEF WdShape
  <2>. QED
    BY <2>1, WatchdogAssumption DEF CountAfter, Trips
<1>3. ASSUME NEW c \in Containers
      PROVE  /\ wdDet[c] \in DetRecs /\ wdEpisode[c] \in Stamps \cup {NoEpisode}
             /\ EpisodeAfterTrip(c) \in Stamps
             /\ DetAfterTrip(c) \in DetRecs /\ DetAfterTrip(c).start = EpisodeAfterTrip(c)
             /\ DetAfterTrip(c).status # "none"
             /\ wdDet[c].status \in OpenStates => EpisodeAfterTrip(c) = wdDet[c].start
             /\ EndEpisode(c) \in DetRecs /\ EndEpisode(c).start = wdDet[c].start
  <2>1. wdDet[c] \in DetRecs /\ wdEpisode[c] \in Stamps \cup {NoEpisode}
        /\ (wdEpisode[c] # NoEpisode => wdDet[c].status # "none" /\ wdDet[c].start = wdEpisode[c])
    BY DEF WdShape, EpisodesAgree
  <2>2. wdDet[c].start \in Stamps /\ wdDet[c].status \in OpenStates \cup {"none", "resolved"}
    BY <2>1 DEF DetRecs
  <2>3. \E t \in Stamps : t # wdDet[c].start
    BY DEF Stamps
  <2>4. OpenEpisode(c) \in Stamps \cup {NoEpisode} /\ EpisodeAfterTrip(c) \in Stamps
    BY <2>1, <2>2, <2>3 DEF OpenEpisode, EpisodeAfterTrip
  <2>5. wdDet[c].status \in OpenStates => EpisodeAfterTrip(c) = wdDet[c].start
    BY <2>1, <2>2 DEF OpenEpisode, EpisodeAfterTrip, Stamps, NoEpisode
  <2>6. DetAfterTrip(c) \in DetRecs /\ DetAfterTrip(c).start = EpisodeAfterTrip(c)
        /\ DetAfterTrip(c).status # "none"
    BY <2>2, <2>4 DEF DetAfterTrip, DetRecs, OpenStates
  <2>7. EndEpisode(c) \in DetRecs /\ EndEpisode(c).start = wdDet[c].start
    BY <2>1 DEF EndEpisode, DetRecs
  <2>. QED
    BY <2>1, <2>4, <2>5, <2>6, <2>7
<1>4. wdCount' \in [Containers -> 0 .. Sustained - 1]
  <2>1. 0 \in 0 .. Sustained - 1
    BY WatchdogAssumption
  <2>2. \A c \in Containers : wdCount'[c] \in 0 .. Sustained - 1
    BY <1>1, <1>2, <2>1
  <2>. QED
    BY <1>1, <2>2
<1>5. wdEpisode' \in [Containers -> Stamps \cup {NoEpisode}] /\ wdDet' \in [Containers -> DetRecs]
  <2>1. \A c \in Containers : wdEpisode'[c] \in Stamps \cup {NoEpisode} /\ wdDet'[c] \in DetRecs
    BY <1>1, <1>3
  <2>. QED
    BY <1>1, <2>1
<1>6. EpisodesAgree'
  BY <1>1, <1>3 DEF EpisodesAgree
<1>7. \A c \in Containers :
        wdDet[c].status \in OpenStates /\ wdDet'[c].status \in OpenStates
          => wdDet'[c].start = wdDet[c].start
  BY <1>1, <1>3
<1>. QED
  BY <1>4, <1>5, <1>6, <1>7

\* What the ring and the issued calls are after the loop.
RingGoesOn ==
  /\ wdUnsaved' = TRUE /\ wdSaveFailed' = wdSaveFailed
  /\ wdSave' \in {"none", "begun", "read", "stale"} /\ wdDirty' \in BOOLEAN
  /\ wdSave' = "stale" => wdDirty'
  /\ wdDirty' \/ wdSave' # "none"

(* What a stretch of the loop does besides.                                *)
LEMMA LoopSays ==
  ASSUME WdShape, StaleIsDirty, NEW e \in Ticks, NEW sample \in Samples, NEW todo \in SUBSET Containers,
         NEW tripped, RunLoop(e, sample, todo, tripped)
  PROVE  /\ RingGoesOn
         /\ \E done, calling, gone, pruned : Covers(done, sample, tripped, calling, gone, pruned)
         /\ \/ \E c \in todo, r \in TickRecs :
                 /\ wdActs[c] < MaxActions
                 /\ r.pc = "enforce" /\ r.slug = {c} /\ c \notin r.todo
                 /\ wdTick' = [wdTick EXCEPT ![e] = r]
                 /\ wdIssued' = [wdIssued EXCEPT ![c] = @ + 1]
            \/ wdTick' = [wdTick EXCEPT ![e] = IdleTick] /\ wdIssued' = wdIssued
<1>1. CASE \E c \in todo : \E done \in SUBSET (todo \ {c}) :
             /\ Enforces(c, sample[c])
             /\ \A d \in done : ~Enforces(d, sample[d])
             /\ Covers(done, sample, tripped, {c}, {}, {})
             /\ wdTick' = [wdTick EXCEPT ![e] =
                  [pc |-> "enforce", sample |-> sample, todo |-> todo \ (done \cup {c}), slug |-> {c}]]
             /\ MarkUnsaved /\ wdDirty' = TRUE /\ UNCHANGED wdSaveFailed
             /\ wdIssued' = [wdIssued EXCEPT ![c] = @ + 1]
  <2> PICK c \in todo : \E done \in SUBSET (todo \ {c}) :
             /\ Enforces(c, sample[c])
             /\ \A d \in done : ~Enforces(d, sample[d])
             /\ Covers(done, sample, tripped, {c}, {}, {})
             /\ wdTick' = [wdTick EXCEPT ![e] =
                  [pc |-> "enforce", sample |-> sample, todo |-> todo \ (done \cup {c}), slug |-> {c}]]
             /\ MarkUnsaved /\ wdDirty' = TRUE /\ UNCHANGED wdSaveFailed
             /\ wdIssued' = [wdIssued EXCEPT ![c] = @ + 1]
    BY <1>1
  <2> PICK done \in SUBSET (todo \ {c}) :
             /\ Enforces(c, sample[c])
             /\ Covers(done, sample, tripped, {c}, {}, {})
             /\ wdTick' = [wdTick EXCEPT ![e] =
                  [pc |-> "enforce", sample |-> sample, todo |-> todo \ (done \cup {c}), slug |-> {c}]]
             /\ MarkUnsaved /\ wdDirty' = TRUE /\ UNCHANGED wdSaveFailed
             /\ wdIssued' = [wdIssued EXCEPT ![c] = @ + 1]
    OBVIOUS
  <2> DEFINE r == [pc |-> "enforce", sample |-> sample, todo |-> todo \ (done \cup {c}), slug |-> {c}]
  <2>1. r \in TickRecs /\ r.pc = "enforce" /\ r.slug = {c} /\ c \notin r.todo
    BY DEF TickRecs
  <2>2. wdActs[c] < MaxActions
    BY DEF Enforces, ActionBudgetLeft
  <2>3. RingGoesOn
    BY DEF RingGoesOn, MarkUnsaved, WdShape
  <2>4. \E dn, calling, gone, pruned : Covers(dn, sample, tripped, calling, gone, pruned)
    OBVIOUS
  <2>5. wdTick' = [wdTick EXCEPT ![e] = r] /\ wdIssued' = [wdIssued EXCEPT ![c] = @ + 1]
    OBVIOUS
  <2> HIDE DEF r
  <2>. QED
    BY <2>1, <2>2, <2>3, <2>4, <2>5
<1>2. CASE LET absent == {c \in Containers : sample[c] = "absent"} IN
           \E pruned \in {{}, absent} :
             /\ \A d \in todo : ~Enforces(d, sample[d])
             /\ Covers(todo, sample, tripped, {}, OpenBreachSlugs \cap absent, pruned)
             /\ wdTick' = [wdTick EXCEPT ![e] = IdleTick]
             /\ BeginSave
             /\ UNCHANGED wdIssued
  <2>1. \E dn, calling, gone, pruned : Covers(dn, sample, tripped, calling, gone, pruned)
    BY <1>2
  <2>2. BeginSave /\ wdTick' = [wdTick EXCEPT ![e] = IdleTick] /\ wdIssued' = wdIssued
    BY <1>2
  <2>3. RingGoesOn
    BY <2>2 DEF BeginSave, MarkUnsaved, RingGoesOn, WdShape, StaleIsDirty
  <2>. QED
    BY <2>1, <2>2, <2>3
<1>. QED
  BY <1>1, <1>2 DEF RunLoop

LEMMA LoopKeeps ==
  ASSUME WdInv, NEW e \in Ticks, NEW sample \in Samples, NEW todo \in SUBSET Containers,
         NEW tripped, RunLoop(e, sample, todo, tripped),
         \/ wdTick[e].slug = {} /\ wdActs' = wdActs
         \/ \E a \in Containers \ todo : wdTick[e].slug = {a} /\ wdActs' = [wdActs EXCEPT ![a] = @ + 1],
         wdWorld' \in Samples, wdSample' \in Samples, wdTaken' \in BOOLEAN, wdNew' \in BOOLEAN,
         wdLock' = wdLock \/ wdLock' = {}, wdRestarts' = wdRestarts
  PROVE  /\ WdInv'
         /\ \A c \in Containers :
              wdDet[c].status \in OpenStates /\ wdDet'[c].status \in OpenStates
                => wdDet'[c].start = wdDet[c].start
<1>1. WdShape /\ TicksSound /\ CallsCounted /\ ActionBudget /\ EpisodesAgree /\ StaleIsDirty
  BY DEF WdInv
<1>2. /\ wdTick \in [Ticks -> TickRecs] /\ wdActs \in [Containers -> Nat]
      /\ wdIssued \in [Containers -> Nat]
  BY <1>1 DEF WdShape
<1>3. RingGoesOn
  BY <1>1, LoopSays
<1>4. PICK done, calling, gone, pruned : Covers(done, sample, tripped, calling, gone, pruned)
  BY <1>1, LoopSays
<1>5. /\ wdCount' \in [Containers -> 0 .. Sustained - 1]
      /\ wdEpisode' \in [Containers -> Stamps \cup {NoEpisode}]
      /\ wdDet' \in [Containers -> DetRecs] /\ EpisodesAgree'
      /\ \A c \in Containers :
              wdDet[c].status \in OpenStates /\ wdDet'[c].status \in OpenStates
                => wdDet'[c].start = wdDet[c].start
  BY <1>1, <1>4, CoversSays
<1>6. PICK r \in TickRecs, called \in SUBSET todo :
        /\ wdTick' = [wdTick EXCEPT ![e] = r] /\ r.slug = called
        /\ \/ called = {} /\ r.pc = "idle" /\ wdIssued' = wdIssued
           \/ \E c \in todo : /\ called = {c} /\ c \notin r.todo /\ r.pc = "enforce"
                              /\ wdActs[c] < MaxActions
                              /\ wdIssued' = [wdIssued EXCEPT ![c] = @ + 1]
  <2>1. \/ \E c \in todo, r \in TickRecs :
                 /\ wdActs[c] < MaxActions
                 /\ r.pc = "enforce" /\ r.slug = {c} /\ c \notin r.todo
                 /\ wdTick' = [wdTick EXCEPT ![e] = r]
                 /\ wdIssued' = [wdIssued EXCEPT ![c] = @ + 1]
        \/ wdTick' = [wdTick EXCEPT ![e] = IdleTick] /\ wdIssued' = wdIssued
    BY <1>1, LoopSays
  <2>2. CASE wdTick' = [wdTick EXCEPT ![e] = IdleTick] /\ wdIssued' = wdIssued
    BY <2>2, IdleTickIs
  <2>3. CASE \E c \in todo, r \in TickRecs :
                 /\ wdActs[c] < MaxActions
                 /\ r.pc = "enforce" /\ r.slug = {c} /\ c \notin r.todo
                 /\ wdTick' = [wdTick EXCEPT ![e] = r]
                 /\ wdIssued' = [wdIssued EXCEPT ![c] = @ + 1]
    <3> PICK c \in todo, r \in TickRecs :
                 /\ wdActs[c] < MaxActions
                 /\ r.pc = "enforce" /\ r.slug = {c} /\ c \notin r.todo
                 /\ wdTick' = [wdTick EXCEPT ![e] = r]
                 /\ wdIssued' = [wdIssued EXCEPT ![c] = @ + 1]
      BY <2>3
    <3>1. {c} \in SUBSET todo
      OBVIOUS
    <3>. QED
      BY <3>1
  <2>. QED
    BY <2>1, <2>2, <2>3
<1>7. wdTick' \in [Ticks -> TickRecs] /\ \A f \in Ticks : wdTick'[f] = IF f = e THEN r ELSE wdTick[f]
  BY <1>2, <1>6
<1>8. TicksSound'
  BY <1>1, <1>6, <1>7 DEF TicksSound
<1>9. ASSUME NEW d \in Containers
      PROVE  /\ wdActs'[d] \in Nat /\ wdIssued'[d] \in Nat
             /\ wdIssued'[d] = wdActs'[d] + Cardinality(Unanswered(d)')
             /\ wdIssued'[d] <= MaxActions + TickCount - 1
  <2> DEFINE U == Unanswered(d)
  <2>1. /\ U \in SUBSET Ticks /\ (e \in U <=> d \in wdTick[e].slug)
        /\ wdActs[d] \in Nat /\ wdIssued[d] \in Nat
        /\ wdIssued[d] = wdActs[d] + Cardinality(U) /\ wdIssued[d] <= MaxActions + TickCount - 1
    BY <1>1, <1>2 DEF Unanswered, CallsCounted, ActionBudget, TickCount
  <2>2. Unanswered(d)' = IF d \in called THEN U \cup {e} ELSE U \ {e}
    BY <1>6, <1>7 DEF Unanswered
  <2> HIDE DEF U
  <2>3. /\ IsFiniteSet(U) /\ Cardinality(U) \in Nat
        /\ \A f \in Ticks \ U : /\ Cardinality(U \cup {f}) = Cardinality(U) + 1
                               /\ Cardinality(U) <= TickCount - 1
        /\ \A f \in U : Cardinality(U \ {f}) = Cardinality(U) - 1
    BY <2>1, UnansweredCount
  <2>4. MaxActions \in Nat /\ TickCount \in Nat
    BY WatchdogAssumption, TicksCount
  <2>5. CASE d \in called
    <3>1. e \notin U /\ wdActs'[d] = wdActs[d]
      BY <1>2, <1>6, <2>1, <2>5
    <3>2. wdIssued'[d] = wdIssued[d] + 1 /\ wdActs[d] < MaxActions
      BY <1>2, <1>6, <2>5
    <3>3. Cardinality(Unanswered(d)') = Cardinality(U) + 1 /\ Cardinality(U) <= TickCount - 1
      BY <2>2, <2>3, <2>5, <3>1
    <3>. QED
      BY <2>1, <2>3, <2>4, <3>1, <3>2, <3>3
  <2>6. CASE d \notin called /\ e \in U
    <3>1. wdActs'[d] = wdActs[d] + 1
      BY <1>2, <2>1, <2>6
    <3>2. wdIssued'[d] = wdIssued[d]
      BY <1>2, <1>6, <2>6
    <3>3. Cardinality(Unanswered(d)') = Cardinality(U) - 1
      BY <2>2, <2>3, <2>6
    <3>. QED
      BY <2>1, <2>3, <2>4, <3>1, <3>2, <3>3
  <2>7. CASE d \notin called /\ e \notin U
    <3>1. wdActs'[d] = wdActs[d]
      BY <1>2, <2>1, <2>7
    <3>2. wdIssued'[d] = wdIssued[d]
      BY <1>2, <1>6, <2>7
    <3>3. U \ {e} = U
      BY <2>7
    <3>. QED
      BY <2>1, <2>2, <2>7, <3>1, <3>2, <3>3
  <2>. QED
    BY <2>5, <2>6, <2>7
<1>10. CallsCounted' /\ ActionBudget'
  BY <1>9 DEF CallsCounted, ActionBudget, TickCount
<1>11. wdActs' \in [Containers -> Nat] /\ wdIssued' \in [Containers -> Nat]
  BY <1>2, <1>6
<1>12. WdShape'
  BY <1>1, <1>3, <1>5, <1>7, <1>11 DEF WdShape, RingGoesOn
<1>13. StaleIsDirty' /\ RingReachesFile'
  BY <1>3 DEF RingGoesOn, StaleIsDirty, RingReachesFile
<1>. QED
  BY <1>5, <1>8, <1>10, <1>12, <1>13 DEF WdInv

-----------------------------------------------------------------------------
(* One lemma for each kind of step.                                        *)

StartsKept ==
  \A c \in Containers :
    wdDet[c].status \in OpenStates /\ wdDet'[c].status \in OpenStates
      => wdDet'[c].start = wdDet[c].start

LEMMA LoopStepsKeep ==
  ASSUME WdInv, NEW e \in Ticks, ReuseSample(e) \/ FetchDone(e) \/ ActionAnswered(e)
  PROVE  WdInv' /\ StartsKept
<1>1. WdShape /\ TicksSound
  BY DEF WdInv
<1>2. wdTick[e] \in TickRecs /\ wdSample \in Samples /\ wdWorld \in Samples
  BY <1>1 DEF WdShape
<1>3. CASE ReuseSample(e)
  <2>1. /\ RunLoop(e, wdSample, Present(wdSample), {}) /\ wdTick[e].pc = "idle"
        /\ wdWorld' = wdWorld /\ wdSample' = wdSample /\ wdTaken' = wdTaken /\ wdNew' = FALSE
        /\ wdLock' = wdLock /\ wdActs' = wdActs /\ wdRestarts' = wdRestarts
    BY <1>3 DEF ReuseSample
  <2>2. wdTick[e].slug = {} /\ Present(wdSample) \in SUBSET Containers /\ wdTaken \in BOOLEAN
    BY <1>1, <2>1 DEF TicksSound, Present, WdShape
  <2>. QED
    BY <1>2, <2>1, <2>2, LoopKeeps DEF StartsKept
<1>4. CASE FetchDone(e)
  <2>1. /\ RunLoop(e, wdWorld, Present(wdWorld), {}) /\ wdTick[e].pc = "fetch"
        /\ wdWorld' = wdWorld /\ wdSample' = wdWorld /\ wdTaken' = TRUE /\ wdNew' = FALSE
        /\ wdLock' = {} /\ wdActs' = wdActs /\ wdRestarts' = wdRestarts
    BY <1>4 DEF FetchDone
  <2>2. wdTick[e].slug = {} /\ Present(wdWorld) \in SUBSET Containers
    BY <1>1, <2>1 DEF TicksSound, Present
  <2>. QED
    BY <1>2, <2>1, <2>2, LoopKeeps DEF StartsKept
<1>5. CASE ActionAnswered(e)
  <2>1. /\ RunLoop(e, wdTick[e].sample, wdTick[e].todo, wdTick[e].slug) /\ wdTick[e].pc = "enforce"
        /\ \A c \in wdTick[e].slug : wdActs' = [wdActs EXCEPT ![c] = @ + 1]
        /\ wdWorld' = wdWorld /\ wdSample' = wdSample /\ wdTaken' = wdTaken /\ wdNew' = wdNew
        /\ wdLock' = wdLock /\ wdRestarts' = wdRestarts
    BY <1>5 DEF ActionAnswered, RecordAction
  <2>2. PICK a \in Containers \ wdTick[e].todo : wdTick[e].slug = {a}
    BY <1>1, <2>1 DEF TicksSound
  <2>3. wdTick[e].sample \in Samples /\ wdTick[e].todo \in SUBSET Containers
    BY <1>2 DEF TickRecs
  <2>4. wdTaken \in BOOLEAN /\ wdNew \in BOOLEAN
    BY <1>1 DEF WdShape
  <2>5. \E b \in Containers \ wdTick[e].todo : wdTick[e].slug = {b} /\ wdActs' = [wdActs EXCEPT ![b] = @ + 1]
    BY <2>1, <2>2
  <2>. QED
    BY <1>2, <2>1, <2>3, <2>4, <2>5, LoopKeeps DEF StartsKept
<1>. QED
  BY <1>3, <1>4, <1>5

(* A step that leaves the containers' memory alone and no call behind.     *)
LEMMA MemoryStands ==
  ASSUME WdInv, WdShape', StaleIsDirty', RingReachesFile',
         \A e \in Ticks : \/ wdTick'[e] = wdTick[e]
                          \/ wdTick[e].slug = {} /\ wdTick'[e].slug = {} /\ wdTick'[e].pc # "enforce",
         wdEpisode' = wdEpisode, wdDet' = wdDet, wdActs' = wdActs, wdIssued' = wdIssued
  PROVE  WdInv' /\ StartsKept
<1>1. \A c \in Containers : Unanswered(c)' = Unanswered(c)
  BY DEF Unanswered
<1>2. CallsCounted' /\ ActionBudget' /\ EpisodesAgree'
  BY <1>1 DEF WdInv, CallsCounted, ActionBudget, EpisodesAgree
<1>3. TicksSound'
  BY DEF WdInv, TicksSound
<1>4. StartsKept
  BY DEF StartsKept
<1>. QED
  BY <1>2, <1>3, <1>4 DEF WdInv

LEMMA RingStepsKeep ==
  ASSUME WdInv, SaveReads \/ SaveDone \/ SaveFails \/ FlushHistory
  PROVE  WdInv' /\ StartsKept
<1>1. WdShape /\ StaleIsDirty /\ RingReachesFile
  BY DEF WdInv
<1>2. /\ wdWorld' = wdWorld /\ wdSample' = wdSample /\ wdTaken' = wdTaken /\ wdNew' = wdNew
      /\ wdLock' = wdLock /\ wdTick' = wdTick /\ wdCount' = wdCount /\ wdEpisode' = wdEpisode
      /\ wdDet' = wdDet /\ wdActs' = wdActs /\ wdIssued' = wdIssued /\ wdRestarts' = wdRestarts
  BY DEF SaveReads, SaveDone, SaveFails, FlushHistory, wdMemory
<1>3. /\ wdSave' \in {"none", "begun", "read", "stale"} /\ wdDirty' \in BOOLEAN
      /\ wdUnsaved' \in BOOLEAN /\ wdSaveFailed' \in BOOLEAN
  BY <1>1 DEF SaveReads, SaveDone, SaveFails, FlushHistory, DirtyAfterWrite, WdShape
<1>4. StaleIsDirty' /\ RingReachesFile'
  BY <1>1 DEF SaveReads, SaveDone, SaveFails, FlushHistory, DirtyAfterWrite, WdShape, StaleIsDirty, RingReachesFile
<1>5. WdShape'
  BY <1>1, <1>2, <1>3 DEF WdShape
<1>6. \A e \in Ticks : \/ wdTick'[e] = wdTick[e]
                       \/ wdTick[e].slug = {} /\ wdTick'[e].slug = {} /\ wdTick'[e].pc # "enforce"
  BY <1>2
<1>7. wdEpisode' = wdEpisode /\ wdDet' = wdDet /\ wdActs' = wdActs /\ wdIssued' = wdIssued
  BY <1>2
<1>8. StaleIsDirty' /\ RingReachesFile'
  BY <1>4
<1>. QED
  BY ONLY WdInv, <1>5, <1>6, <1>7, <1>8, MemoryStands

LEMMA OtherStepsKeep ==
  ASSUME WdInv,
         \/ \E e \in Ticks : BeginFetch(e) \/ FetchFails(e)
         \/ PushSamples
         \/ \E c \in Containers : WorldChanges(c)
         \/ UNCHANGED wdVars
  PROVE  WdInv' /\ StartsKept
<1>1. WdShape /\ TicksSound /\ StaleIsDirty /\ RingReachesFile
  BY DEF WdInv
<1>2. /\ wdCount' = wdCount /\ wdEpisode' = wdEpisode /\ wdDet' = wdDet /\ wdActs' = wdActs
      /\ wdIssued' = wdIssued /\ wdRestarts' = wdRestarts /\ wdDirty' = wdDirty
      /\ wdUnsaved' = wdUnsaved /\ wdSave' = wdSave /\ wdSaveFailed' = wdSaveFailed
  BY DEF BeginFetch, FetchFails, PushSamples, WorldChanges, wdVars, wdMemory, wdRing
<1>3. /\ wdWorld' \in Samples /\ wdSample' \in Samples /\ wdTaken' \in BOOLEAN /\ wdNew' \in BOOLEAN
  <2>1. /\ wdWorld \in Samples /\ wdSample \in Samples /\ wdTaken \in BOOLEAN /\ wdNew \in BOOLEAN
    BY <1>1 DEF WdShape
  <2>2. CASE \E c \in Containers : WorldChanges(c)
    BY <2>1, <2>2 DEF WorldChanges, Samples
  <2>3. CASE PushSamples
    BY <2>1, <2>3 DEF PushSamples
  <2>4. CASE \E e \in Ticks : BeginFetch(e) \/ FetchFails(e)
    BY <2>1, <2>4 DEF BeginFetch, FetchFails
  <2>5. CASE UNCHANGED wdVars
    BY <2>1, <2>5 DEF wdVars
  <2>. QED
    BY <2>2, <2>3, <2>4, <2>5
<1>4. /\ wdTick' \in [Ticks -> TickRecs]
      /\ wdLock' = {} \/ \E e \in Ticks : wdLock' = {e}
      /\ \A e \in Ticks : \/ wdTick'[e] = wdTick[e]
                          \/ wdTick[e].slug = {} /\ wdTick'[e].slug = {} /\ wdTick'[e].pc # "enforce"
  <2>1. wdTick \in [Ticks -> TickRecs] /\ (wdLock = {} \/ \E e \in Ticks : wdLock = {e})
    BY <1>1 DEF WdShape
  <2>2. ASSUME NEW e \in Ticks, BeginFetch(e) \/ FetchFails(e)
        PROVE  \E r \in TickRecs : wdTick' = [wdTick EXCEPT ![e] = r] /\ r.slug = {} /\ r.pc # "enforce"
    <3>1. wdTick[e] \in TickRecs /\ wdTick[e].slug = {}
      BY <1>1, <2>1, <2>2 DEF TicksSound, BeginFetch, FetchFails
    <3>2. CASE BeginFetch(e)
      <4> DEFINE r == [wdTick[e] EXCEPT !.pc = "fetch"]
      <4>1. wdTick' = [wdTick EXCEPT ![e] = r] /\ r \in TickRecs /\ r.slug = {} /\ r.pc = "fetch"
        BY <2>1, <3>1, <3>2 DEF BeginFetch, TickRecs
      <4>. QED
        BY <4>1
    <3>3. CASE FetchFails(e)
      BY <3>3, IdleTickIs DEF FetchFails
    <3>. QED
      BY <2>2, <3>2, <3>3
  <2>3. CASE \E e \in Ticks : BeginFetch(e) \/ FetchFails(e)
    <3> PICK e \in Ticks : BeginFetch(e) \/ FetchFails(e)
      BY <2>3
    <3>1. wdTick[e].slug = {}
      BY <1>1 DEF TicksSound, BeginFetch, FetchFails
    <3>2. wdLock' = {} \/ wdLock' = {e}
      BY DEF BeginFetch, FetchFails
    <3>. QED
      BY <2>1, <2>2, <3>1, <3>2
  <2>4. CASE PushSamples \/ (\E c \in Containers : WorldChanges(c)) \/ UNCHANGED wdVars
    <3>1. wdTick' = wdTick /\ wdLock' = wdLock
      BY <2>4 DEF PushSamples, WorldChanges, wdVars
    <3>. QED
      BY <2>1, <3>1
  <2>. QED
    BY <2>3, <2>4
<1>5. WdShape'
  BY <1>1, <1>2, <1>3, <1>4 DEF WdShape
<1>6. StaleIsDirty' /\ RingReachesFile'
  BY <1>1, <1>2 DEF StaleIsDirty, RingReachesFile
<1>. QED
  BY <1>2, <1>4, <1>5, <1>6, MemoryStands

LEMMA AnalystSetsKeeps ==
  ASSUME WdInv, NEW c \in Containers, AnalystSets(c) PROVE WdInv' /\ StartsKept
<1>1. /\ wdWorld' = wdWorld /\ wdSample' = wdSample /\ wdTaken' = wdTaken /\ wdNew' = wdNew
      /\ wdLock' = wdLock /\ wdTick' = wdTick /\ wdCount' = wdCount /\ wdEpisode' = wdEpisode
      /\ wdActs' = wdActs /\ wdIssued' = wdIssued /\ wdRestarts' = wdRestarts /\ wdDirty' = wdDirty
      /\ wdUnsaved' = wdUnsaved /\ wdSave' = wdSave /\ wdSaveFailed' = wdSaveFailed
  BY DEF AnalystSets, wdRing
<1>2. PICK s \in OpenStates \cup {"resolved"} : wdDet' = [wdDet EXCEPT ![c].status = s]
  BY DEF AnalystSets
<1>3. /\ wdDet \in [Containers -> DetRecs] /\ wdDet' \in [Containers -> DetRecs]
      /\ \A d \in Containers : /\ wdDet'[d].start = wdDet[d].start
                               /\ wdDet[d].status # "none" => wdDet'[d].status # "none"
  BY <1>2 DEF WdInv, WdShape, DetRecs, OpenStates
<1>4. WdShape' /\ TicksSound' /\ StaleIsDirty' /\ RingReachesFile' /\ ActionBudget'
  BY <1>1, <1>3 DEF WdInv, WdShape, TicksSound, StaleIsDirty, RingReachesFile, ActionBudget
<1>5. CallsCounted'
  <2>1. \A d \in Containers : Unanswered(d)' = Unanswered(d)
    BY <1>1 DEF Unanswered
  <2>. QED
    BY <1>1, <2>1 DEF WdInv, CallsCounted
<1>6. EpisodesAgree' /\ StartsKept
  BY <1>1, <1>3 DEF WdInv, EpisodesAgree, StartsKept
<1>. QED
  BY <1>4, <1>5, <1>6 DEF WdInv

LEMMA AfreshKeeps ==
  ASSUME WdInv, WindowPasses \/ WdRestart PROVE WdInv' /\ StartsKept
<1>1. WdShape /\ TicksSound
  BY DEF WdInv
<1>2. /\ wdActs' = [c \in Containers |-> 0] /\ wdIssued' = [c \in Containers |-> 0]
      /\ wdWorld' = wdWorld /\ wdDet' = wdDet
  BY DEF WindowPasses, WdRestart, wdMemory
<1>3. /\ wdTick' \in [Ticks -> TickRecs] /\ TicksSound'
      /\ \A e \in Ticks : wdTick'[e].slug = {}
  <2>1. CASE WindowPasses
    BY <1>1, <2>1 DEF WindowPasses, WdShape, TicksSound
  <2>2. CASE WdRestart
    BY <2>2, IdleTickIs DEF WdRestart, TicksSound
  <2>. QED
    BY <2>1, <2>2
<1>4. CallsCounted' /\ ActionBudget'
  <2>1. \A c \in Containers : Unanswered(c)' = {}
    BY <1>3 DEF Unanswered
  <2>2. Cardinality({}) = 0 /\ MaxActions \in Nat \ {0} /\ TickCount \in Nat \ {0}
    BY FS_EmptySet, TicksCount, WatchdogAssumption
  <2>3. 0 <= MaxActions + TickCount - 1
    BY <2>2
  <2>4. \A c \in Containers : wdIssued'[c] = 0 /\ wdActs'[c] = 0 /\ Cardinality(Unanswered(c)') = 0
    BY <1>2, <2>1, <2>2
  <2>. QED
    BY <2>3, <2>4 DEF CallsCounted, ActionBudget, TickCount
<1>5. WdShape'
  <2>1. wdActs' \in [Containers -> Nat] /\ wdIssued' \in [Containers -> Nat]
    BY <1>2
  <2>2. CASE WindowPasses
    BY <1>1, <1>2, <1>3, <2>1, <2>2 DEF WindowPasses, WdShape, wdMemory, wdRing
  <2>3. CASE WdRestart
    <3>1. wdCount' \in [Containers -> 0 .. Sustained - 1]
      BY <2>3, WatchdogAssumption DEF WdRestart
    <3>2. wdSample' \in Samples /\ wdEpisode' \in [Containers -> Stamps \cup {NoEpisode}]
      BY <2>3 DEF WdRestart, Samples, Seen
    <3>3. wdRestarts' \in 0 .. MaxRestarts
      BY <1>1, <2>3, WatchdogAssumption DEF WdRestart, WdShape
    <3>4. /\ wdLock' = {} /\ wdSave' = "none"
          /\ {wdTaken', wdNew', wdDirty', wdUnsaved', wdSaveFailed'} \subseteq BOOLEAN
      BY <2>3 DEF WdRestart
    <3>. QED
      BY <1>1, <1>2, <1>3, <2>1, <3>1, <3>2, <3>3, <3>4 DEF WdShape
  <2>. QED
    BY <2>2, <2>3
<1>6. EpisodesAgree' /\ StaleIsDirty' /\ RingReachesFile'
  <2>1. CASE WindowPasses
    BY <2>1 DEF WdInv, WindowPasses, wdMemory, wdRing, EpisodesAgree, StaleIsDirty, RingReachesFile
  <2>2. CASE WdRestart
    BY <2>2 DEF WdRestart, EpisodesAgree, StaleIsDirty, RingReachesFile
  <2>. QED
    BY <2>1, <2>2
<1>7. StartsKept
  BY <1>2 DEF StartsKept
<1>. QED
  BY <1>3, <1>4, <1>5, <1>6, <1>7 DEF WdInv

LEMMA WdKept == WdInv /\ [WdNext]_wdVars => WdInv' /\ StartsKept
<1> SUFFICES ASSUME WdInv, [WdNext]_wdVars PROVE WdInv' /\ StartsKept
  OBVIOUS
<1>1. CASE \E e \in Ticks : ReuseSample(e) \/ FetchDone(e) \/ ActionAnswered(e)
  BY <1>1, LoopStepsKeep
<1>2. CASE \/ \E e \in Ticks : BeginFetch(e) \/ FetchFails(e)
           \/ PushSamples
           \/ \E c \in Containers : WorldChanges(c)
           \/ UNCHANGED wdVars
  BY <1>2, OtherStepsKeep
<1>3. CASE SaveReads \/ SaveDone \/ SaveFails \/ FlushHistory
  BY <1>3, RingStepsKeep
<1>4. CASE WindowPasses \/ WdRestart
  BY <1>4, AfreshKeeps
<1>5. CASE \E c \in Containers : AnalystSets(c)
  BY <1>5, AnalystSetsKeeps
<1>. QED
  BY <1>1, <1>2, <1>3, <1>4, <1>5 DEF WdNext

LEMMA NoneOrOne ==
  /\ Cardinality({}) <= 1
  /\ \A x : Cardinality({x}) <= 1
<1>1. Cardinality({}) = 0
  BY FS_EmptySet
<1>2. \A x : Cardinality({x}) = 1
  BY FS_Singleton
<1>3. 0 <= 1 /\ 1 <= 1
  OBVIOUS
<1>. QED
  BY <1>1, <1>2, <1>3

LEMMA WdInvTypeOK == WdInv => WdTypeOK
<1> SUFFICES ASSUME WdInv PROVE WdTypeOK
  OBVIOUS
<1>1. wdLock \subseteq Ticks /\ Cardinality(wdLock) <= 1
  <2>1. wdLock = {} \/ \E e \in Ticks : wdLock = {e}
    BY DEF WdInv, WdShape
  <2>. QED
    BY <2>1, NoneOrOne
<1>2. ASSUME NEW e \in Ticks
      PROVE  /\ wdTick[e].pc \in {"idle", "fetch", "enforce"}
             /\ Cardinality(wdTick[e].slug) <= 1
             /\ wdTick[e].slug \cup wdTick[e].todo \subseteq Containers
  <2>1. wdTick[e] \in TickRecs
    BY DEF WdInv, WdShape
  <2>2. wdTick[e].slug = {} \/ \E c \in Containers : wdTick[e].slug = {c}
    BY DEF WdInv, TicksSound
  <2>3. Cardinality(wdTick[e].slug) <= 1
    BY <2>2, NoneOrOne
  <2>. QED
    BY <2>1, <2>3 DEF TickRecs
<1>. QED
  BY <1>1, <1>2 DEF WdInv, WdShape, WdTypeOK, Samples, DetRecs

(***************************************************************************)
(* For any number of containers and of ticks that overlap while the        *)
(* Supervisor answers: a container gets no more actions within the hour than *)
(* the limit and one for each further tick, a detection that stays open keeps *)
(* the start of its episode over restarts too, and a sample not in the     *)
(* history file is still to be written unless a write failed               *)
(* (resource_watchdog.py).                                                 *)
(***************************************************************************)
THEOREM EpisodesHold == WdSpec => EpisodesBounded
<1>1. WdInit => WdInv
  BY WdStarts
<1>2. WdInv /\ [WdNext]_wdVars => WdInv'
  BY WdKept
<1>3. WdInv => WdTypeOK /\ ActionBudget /\ RingReachesFile
  BY WdInvTypeOK DEF WdInv
<1>4. WdInv /\ [WdNext]_wdVars =>
        [\A c \in Containers :
           wdDet[c].status \in OpenStates /\ wdDet'[c].status \in OpenStates
             => wdDet'[c].start = wdDet[c].start]_wdVars
  BY WdKept DEF StartsKept
<1>. QED
  BY <1>1, <1>2, <1>3, <1>4, PTL DEF WdSpec, EpisodesBounded, OneStartPerEpisode

-----------------------------------------------------------------------------
(* The Observe push: what the pusher remembers as sent.                    *)

\* What Observe holds or was reported as given up.
Settled == obsHeld \cup obsGivenUp

\* So it is for the keys a stopped pusher left behind; and a stopped pusher
\* remembers none itself, while one that runs has nothing left to take over.
SentInv ==
  /\ obsSent \subseteq Settled
  /\ \A c \in obsCarry : c.sent \subseteq Settled
  /\ obsActive \in BOOLEAN
  /\ ~obsActive => obsSent = {} /\ obsPc = "idle"

(* Nothing Observe holds is taken from it by a request.                    *)
LEMMA SettledGrows ==
  ASSUME SentInv, Settled \subseteq Settled', obsCarry' = obsCarry, obsActive' = obsActive,
         obsSent' \subseteq Settled', ~obsActive => obsSent' = {} /\ obsPc' = "idle"
  PROVE  SentInv'
BY DEF SentInv

(* An accepted payload: its keys are held, or given up for good.           *)
LEMMA AcceptedKeeps ==
  ASSUME SentInv, NEW refused \in SUBSET LogKeys, Accepted(refused)
  PROVE  SentInv'
<1> DEFINE keys == Head(obsQueue).keys
<1>1. /\ obsHeld' = obsHeld \cup (keys \ refused)
      /\ NoteLogKeys(keys, refused)
      /\ obsCarry' = obsCarry /\ obsActive' = obsActive /\ obsPc = "sending"
  BY DEF Accepted, ServerTakes
<1> HIDE DEF keys
<1>2. /\ obsSent' \subseteq obsSent \cup obsHeld' \cup obsGivenUp'
      /\ obsGivenUp \subseteq obsGivenUp'
  BY <1>1 DEF NoteLogKeys
<1>3. obsActive
  BY <1>1 DEF SentInv
<1>. QED
  BY <1>1, <1>2, <1>3, SettledGrows DEF SentInv, Settled

LEMMA SentKept == SentInv /\ [ObsNext]_obsVars => SentInv'
<1> SUFFICES ASSUME SentInv, [ObsNext]_obsVars PROVE SentInv'
  OBVIOUS
<1>1. ASSUME NEW k \in LogKeys, RecordAppears(k) PROVE SentInv'
  BY <1>1 DEF RecordAppears, sendVars, ghostVars, serverVars, SentInv, Settled
<1>2. CASE PushOnce \/ CollectFails \/ CollectAndEnqueue \/ Merge \/ EnforceBounds
  <2>1. /\ obsSent' = obsSent /\ obsHeld' = obsHeld /\ obsGivenUp' = obsGivenUp
        /\ obsCarry' = obsCarry /\ obsActive' = obsActive
    BY <1>2 DEF PushOnce, CollectFails, CollectAndEnqueue, Merge, EnforceBounds, sendVars, ghostVars, serverVars
  <2>2. obsActive \/ obsPc' = "idle"
    BY <1>2 DEF PushOnce, CollectFails, CollectAndEnqueue, Merge, EnforceBounds, SentInv
  <2>. QED
    BY <2>1, <2>2 DEF SentInv, Settled
<1>3. CASE DrainEnds \/ Send \/ WaitOver
  <2>1. /\ obsSent' = obsSent /\ obsHeld' = obsHeld /\ obsGivenUp' = obsGivenUp
        /\ obsCarry' = obsCarry /\ obsActive' = obsActive
    BY <1>3 DEF DrainEnds, Send, WaitOver, sendVars, ghostVars, serverVars
  <2>2. obsActive \/ obsPc' = "idle"
    BY <1>3 DEF DrainEnds, Send, WaitOver, SentInv, cycleVars
  <2>. QED
    BY <2>1, <2>2 DEF SentInv, Settled
<1>4. CASE \E refused \in SUBSET LogKeys : Accepted(refused)
  BY <1>4, AcceptedKeeps
<1>5. CASE Refused \/ Unauthorised \/ TryLater
  <2>1. /\ obsSent' = obsSent /\ obsHeld \subseteq obsHeld' /\ obsGivenUp' = obsGivenUp
        /\ obsCarry' = obsCarry /\ obsActive' = obsActive /\ obsPc = "sending"
    BY <1>5 DEF Refused, Unauthorised, TryLater, ServerTakes, ghostVars, serverVars
  <2>. QED
    BY <2>1 DEF SentInv, Settled
<1>6. CASE StopPusher
  <2>1. /\ obsSent' = {} /\ obsHeld' = obsHeld /\ obsGivenUp' = obsGivenUp
        /\ obsActive' = FALSE /\ obsPc' = "idle"
        /\ obsCarry' = {[queue |-> obsQueue, sent |-> obsSent, retried |-> obsRetried,
                         wait |-> obsWait /\ ~obsAuth]}
    BY <1>6 DEF StopPusher, serverVars
  <2>2. \A c \in obsCarry' : c.sent = obsSent
    BY <2>1
  <2>. QED
    BY <2>1, <2>2 DEF SentInv, Settled
<1>7. CASE StartSame
  <2>1. /\ obsHeld' = obsHeld /\ obsGivenUp' = obsGivenUp /\ obsActive' = TRUE /\ obsCarry' = {}
        /\ \E c \in obsCarry : obsSent' = c.sent
    BY <1>7 DEF StartSame, ghostVars, serverVars
  <2>. QED
    BY <2>1 DEF SentInv, Settled
<1>8. CASE StartMoved
  BY <1>8 DEF StartMoved, sendVars, SentInv
<1>9. CASE StartOff \/ StartFresh
  <2>1. /\ obsSent' = obsSent /\ obsHeld' = obsHeld /\ obsGivenUp' = obsGivenUp
        /\ obsActive' \in BOOLEAN /\ obsCarry' = {} /\ obsPc' = obsPc /\ ~obsActive
    BY <1>9 DEF StartOff, StartFresh, ghostVars, serverVars, sendVars, cycleVars, SentInv
  <2>. QED
    BY <2>1 DEF SentInv, Settled
<1>10. CASE OldArrives
  <2>1. /\ obsSent' = obsSent /\ obsHeld \subseteq obsHeld' /\ obsGivenUp' = obsGivenUp
        /\ obsCarry' = obsCarry /\ obsActive' = obsActive /\ obsPc' = obsPc
    BY <1>10 DEF OldArrives, ServerTakes, ghostVars, serverVars, sendVars, cycleVars
  <2>. QED
    BY <2>1 DEF SentInv, Settled
<1>11. CASE UNCHANGED obsVars
  BY <1>11 DEF obsVars, cycleVars, sendVars, ghostVars, serverVars, SentInv, Settled
<1>. QED
  BY <1>1, <1>2, <1>3, <1>4, <1>5, <1>6, <1>7, <1>8, <1>9, <1>10, <1>11 DEF ObsNext

(***************************************************************************)
(* For any number of keys, payloads and outcomes of a request: what the    *)
(* pusher remembers as sent was taken by Observe or reported as given up,  *)
(* over refusals, retries and reloads of the entry (observe_push.py).      *)
(***************************************************************************)
THEOREM SentHolds == ObsSpec => []SentIsTaken
<1>1. ObsInit => SentInv
  BY DEF ObsInit, SentInv, Settled
<1>2. SentInv => SentIsTaken
  BY DEF SentInv, SentIsTaken, Settled
<1>. QED
  BY <1>1, <1>2, SentKept, PTL DEF ObsSpec
=============================================================================
