-------------------------- MODULE TerminalSessions --------------------------
(***************************************************************************)
(* The terminal of terminal.py: the sessions the panel opens through       *)
(* ha_soc/terminal/open, one-shot runs, transcripts, the pairing with the  *)
(* app and the close of every session at unload.                           *)
(*                                                                         *)
(* An open reserves its slot, then awaits the Supervisor's answer and the  *)
(* socket to ttyd before the session exists; a session ends through its    *)
(* reader task, whoever wants it closed, and the reader awaits the socket  *)
(* once more before it writes the closing record.  Everything between two  *)
(* awaits is one action.                                                   *)
(***************************************************************************)
EXTENDS Naturals, Sequences, FiniteSets

CONSTANTS
  Opens,           \* the calls of async_open
  Users,           \* the users that call
  UserOf,          \* the user who makes each call
  Owner,           \* the Home Assistant owner, who may read any transcript
  MaxPerUser,      \* MAX_SESSIONS_PER_USER
  MaxTotal,        \* MAX_SESSIONS_TOTAL
  MaxRemembered,   \* MAX_REMEMBERED_OWNERS
  Secrets,         \* what a caller may present as the app's secret
  Runners,         \* the users that run one-shot commands
  MaxForgets       \* bound: times the owner forgets the pairing

ASSUME TermAssumption ==
  /\ UserOf \in [Opens -> Users]
  /\ Owner \in Users
  /\ MaxPerUser \in Nat \ {0}
  /\ MaxTotal \in Nat \ {0}
  /\ MaxRemembered \in Nat \ {0}
  /\ Runners \subseteq Users
  /\ MaxForgets \in Nat

VARIABLES
  termPhase,     \* where each call, and the session it makes, stands
  termGone,      \* calls and sessions whose browser went away
  termCancel,    \* sessions whose reader has a cancellation pending
  termExpired,   \* sessions that have reached MAX_SESSION_SECONDS
  termLog,       \* the audit records of each session, in order
  termOwners,    \* TerminalSessions._owners, oldest first
  termForeign,   \* a transcript went to somebody it does not belong to
  termRun,       \* what each user's run is doing (_running_users)
  termOwed,      \* commands of each user that left Core, without a record yet
  termSecret,    \* the pinned ttyd credential
  termForgets,   \* times it was forgotten
  termStop,      \* async_stop_services, as far as it concerns the terminal
  termTodo,      \* sessions async_close_all has still to close
  termWait,      \* the session whose reader it awaits, if any
  termBudget     \* the stop budget has run out

sessionVars == <<termPhase, termGone, termCancel, termExpired, termLog, termOwners>>
runVars == <<termRun, termOwed>>
pairVars == <<termSecret, termForgets>>
stopVars == <<termStop, termTodo, termWait, termBudget>>
termVars == <<sessionVars, runVars, pairVars, stopVars, termForeign>>

NoSecret == "none"

\* "info" and "connect" are the awaits of an open, "closing" the one of _finish.
Phases == {"idle", "info", "connect", "open", "closing", "closed", "refused"}

TermTypeOK ==
  /\ termPhase \in [Opens -> Phases]
  /\ termGone \subseteq Opens
  /\ termCancel \subseteq Opens
  /\ termExpired \subseteq Opens
  /\ termLog \in [Opens -> Seq({"open", "close"})]
  /\ termOwners \in Seq(Opens)
  /\ termForeign \in BOOLEAN
  /\ termRun \in [Runners -> {"idle", "lookup", "sent"}]
  /\ termOwed \in [Runners -> Nat]
  /\ termSecret \in Secrets \cup {NoSecret}
  /\ termForgets \in 0 .. MaxForgets
  /\ termStop \in {"running", "closing", "audit stopped"}
  /\ termTodo \subseteq Opens
  /\ termWait \subseteq Opens
  /\ termBudget \in BOOLEAN

TermInit ==
  /\ termPhase = [o \in Opens |-> "idle"]
  /\ termGone = {}
  /\ termCancel = {}
  /\ termExpired = {}
  /\ termLog = [o \in Opens |-> << >>]
  /\ termOwners = << >>
  /\ termForeign = FALSE
  /\ termRun = [u \in Runners |-> "idle"]
  /\ termOwed = [u \in Runners |-> 0]
  /\ termSecret = NoSecret
  /\ termForgets = 0
  /\ termStop = "running"
  /\ termTodo = {}
  /\ termWait = {}
  /\ termBudget = FALSE

-----------------------------------------------------------------------------
(* Opening.                                                                *)

\* TerminalSessions.sessions and TerminalSessions._opening.
Sessions == {o \in Opens : termPhase[o] = "open"}
Opening == {o \in Opens : termPhase[o] \in {"info", "connect"}}

Counted_SessionsOnly == Sessions

\* What counts against the limits: sessions and the opens in flight.
Counted == Sessions \cup Opening

\* The limits of async_open, checked before its first await.
SlotFree(o) ==
  /\ Cardinality({p \in Counted : UserOf[p] = UserOf[o]}) < MaxPerUser
  /\ Cardinality(Counted) < MaxTotal

\* A slot is taken before the first await, or the call is refused.  After an
\* unload the websocket command finds no runtime and never gets here.
AsyncOpen(o) ==
  /\ termStop # "audit stopped"
  /\ termPhase[o] = "idle"
  /\ o \notin termGone
  /\ termPhase' = [termPhase EXCEPT ![o] = IF SlotFree(o) THEN "info" ELSE "refused"]
  /\ UNCHANGED <<termGone, termCancel, termExpired, termLog, termOwners,
                 runVars, pairVars, stopVars, termForeign>>

\* The app's info and the secret: not installed, not running, no hostname or
\* not paired is a refusal, and the reservation is given back.
OpenLookup(o) ==
  /\ termPhase[o] = "info"
  /\ termPhase' \in {[termPhase EXCEPT ![o] = p] :
                     p \in {"refused"} \cup
                           (IF termSecret = NoSecret THEN {} ELSE {"connect"})}
  /\ UNCHANGED <<termGone, termCancel, termExpired, termLog, termOwners,
                 runVars, pairVars, stopVars, termForeign>>

\* The socket cannot be had within CONNECT_TIMEOUT_SECONDS.
ConnectFails(o) ==
  /\ termPhase[o] = "connect"
  /\ termPhase' = [termPhase EXCEPT ![o] = "refused"]
  /\ UNCHANGED <<termGone, termCancel, termExpired, termLog, termOwners,
                 runVars, pairVars, stopVars, termForeign>>

\* _owners after a session was added: the oldest are forgotten.
Remember(owners, o) ==
  LET all == Append(owners, o)
  IN IF Len(all) > MaxRemembered THEN Tail(all) ELSE all

\* The session is registered, its reader started, the open recorded and the
\* subscription set, all in the step that the socket's arrival resumes.
OpenConnected(o) ==
  /\ termPhase[o] = "connect"
  /\ termPhase' = [termPhase EXCEPT ![o] = "open"]
  /\ termOwners' = Remember(termOwners, o)
  /\ termLog' = [termLog EXCEPT ![o] = Append(@, "open")]
  /\ UNCHANGED <<termGone, termCancel, termExpired, runVars, pairVars, stopVars, termForeign>>

-----------------------------------------------------------------------------
(* The reader task and the ways a session ends.                            *)

\* Time: the session has lasted MAX_SESSION_SECONDS.
DeadlinePasses(o) ==
  /\ termPhase[o] = "open"
  /\ o \notin termExpired
  /\ termExpired' = termExpired \cup {o}
  /\ UNCHANGED <<termPhase, termGone, termCancel, termLog, termOwners,
                 runVars, pairVars, stopVars, termForeign>>

AfterFrame_Renewed(o) == termExpired \ {o}

\* The deadline is one per session: a frame does not move it.
AfterFrame(o) == termExpired

\* A frame from ttyd is forwarded, or the panel's input and resize sent.
Frame(o) ==
  /\ o \in Sessions
  /\ o \notin termCancel
  /\ termExpired' = AfterFrame(o)
  /\ UNCHANGED <<termPhase, termGone, termCancel, termLog, termOwners,
                 runVars, pairVars, stopVars, termForeign>>

\* async_close: the reader is cancelled; it ends the session when it runs.
RequestClose(o) == termCancel' = termCancel \cup {o}

\* ws_terminal_close by the session's user or by the owner.
UserCloses(o) ==
  /\ o \in Sessions
  /\ o \notin termCancel
  /\ termStop # "audit stopped"
  /\ RequestClose(o)
  /\ UNCHANGED <<termPhase, termGone, termExpired, termLog, termOwners,
                 runVars, pairVars, stopVars, termForeign>>

\* The connection closes: its subscriptions are cancelled, and that of an open
\* session closes it.  An open in flight has no subscription yet.
BrowserGone(o) ==
  /\ termPhase[o] \in {"info", "connect", "open"}
  /\ o \notin termGone
  /\ termGone' = termGone \cup {o}
  /\ IF o \in Sessions THEN RequestClose(o) ELSE UNCHANGED termCancel
  /\ UNCHANGED <<termPhase, termExpired, termLog, termOwners,
                 runVars, pairVars, stopVars, termForeign>>

\* The reader leaves its loop (cancelled, remote close, error, deadline): the
\* session is out of the table before the socket is closed.
ReaderEnds(o) ==
  /\ o \in Sessions
  /\ termPhase' = [termPhase EXCEPT ![o] = "closing"]
  /\ termCancel' = termCancel \ {o}
  /\ termExpired' = termExpired \ {o}
  /\ termGone' = termGone \ {o}
  /\ UNCHANGED <<termLog, termOwners,
                 runVars, pairVars, stopVars, termForeign>>

\* The end of a session that asked for it, or had to.
ReaderMustEnd(o) == (o \in termCancel \cup termExpired) /\ ReaderEnds(o)

\* The record of a session's end.
CloseRecord(o) == termLog' = [termLog EXCEPT ![o] = Append(@, "close")]

\* ws.close returned or took WS_CLOSE_TIMEOUT: the record and the last event.
SocketClosed(o) ==
  /\ termPhase[o] = "closing"
  /\ termPhase' = [termPhase EXCEPT ![o] = "closed"]
  /\ CloseRecord(o)
  /\ UNCHANGED <<termGone, termCancel, termExpired, termOwners,
                 runVars, pairVars, stopVars, termForeign>>

-----------------------------------------------------------------------------
(* Unload.                                                                 *)

\* async_close_all takes the sessions there are.
StopBegins ==
  /\ termStop = "running"
  /\ termStop' = "closing"
  /\ termTodo' = Sessions
  /\ UNCHANGED <<sessionVars, runVars, pairVars, termWait, termBudget, termForeign>>

\* The next one is closed and its reader awaited; one that ended meanwhile is
\* out of the table and skipped.
CloseNext(o) ==
  /\ termStop = "closing"
  /\ termWait = {}
  /\ o \in termTodo
  /\ termTodo' = termTodo \ {o}
  /\ IF o \in Sessions
     THEN RequestClose(o) /\ termWait' = {o}
     ELSE UNCHANGED <<termCancel, termWait>>
  /\ UNCHANGED <<termPhase, termGone, termExpired, termLog, termOwners,
                 runVars, pairVars, termStop, termBudget, termForeign>>

\* The awaited reader has ended.
CloseAwaited ==
  /\ \E o \in termWait : termPhase[o] = "closed"
  /\ termWait' = {}
  /\ UNCHANGED <<sessionVars, runVars, pairVars, termStop, termTodo, termBudget, termForeign>>

Interrupt_NoFinally(o) ==
  /\ termPhase' = [termPhase EXCEPT ![o] = "closed"]
  /\ UNCHANGED termLog

\* A second cancellation, while the socket closes: the record is written in
\* the finally, only the last event to the panel is lost.
Interrupt(o) ==
  /\ termPhase' = [termPhase EXCEPT ![o] = "closed"]
  /\ CloseRecord(o)

\* TERMINAL_CLOSE_BUDGET runs out: the cancellation passes through async_close
\* into the reader it awaits and is swallowed there, so the loop goes on.
BudgetExpires ==
  /\ termStop = "closing"
  /\ ~termBudget
  /\ termBudget' = TRUE
  /\ \E o \in termWait :
       IF termPhase[o] = "closing" THEN Interrupt(o) ELSE UNCHANGED <<termPhase, termLog>>
  /\ UNCHANGED <<termGone, termCancel, termExpired, termOwners,
                 runVars, pairVars, termStop, termTodo, termWait, termForeign>>

\* The terminal is done and the audit log stops.
AuditStops ==
  /\ termStop = "closing"
  /\ termTodo = {}
  /\ termWait = {}
  /\ termStop' = "audit stopped"
  /\ UNCHANGED <<sessionVars, runVars, pairVars, termTodo, termWait, termBudget, termForeign>>

-----------------------------------------------------------------------------
(* One-shot runs, transcripts and the pairing.                             *)

\* async_run takes the user's slot before its first await; a second run
\* meanwhile is refused as busy.
AsyncRun(u) ==
  /\ termStop # "audit stopped"
  /\ termRun[u] = "idle"
  /\ termRun' = [termRun EXCEPT ![u] = "lookup"]
  /\ UNCHANGED <<sessionVars, termOwed, pairVars, stopVars, termForeign>>

\* The app cannot be reached for a reason known before anything is sent.
RunRefused(u) ==
  /\ termRun[u] = "lookup"
  /\ termRun' = [termRun EXCEPT ![u] = "idle"]
  /\ UNCHANGED <<sessionVars, termOwed, pairVars, stopVars, termForeign>>

\* The command leaves Core.
RunSent(u) ==
  /\ termRun[u] = "lookup"
  /\ termSecret # NoSecret
  /\ termRun' = [termRun EXCEPT ![u] = "sent"]
  /\ termOwed' = [termOwed EXCEPT ![u] = @ + 1]
  /\ UNCHANGED <<sessionVars, pairVars, stopVars, termForeign>>

RunOutcomes == {"completed", "timeout", "unreachable", "failed", "refused"}

AuditRun_CompletedOnly(u, outcome) ==
  IF outcome = "completed" THEN termOwed' = [termOwed EXCEPT ![u] = @ - 1]
                           ELSE UNCHANGED termOwed

\* _audit_run: whatever came back, the command may have run.
AuditRun(u, outcome) == termOwed' = [termOwed EXCEPT ![u] = @ - 1]

RunEnds(u) ==
  /\ termRun[u] = "sent"
  /\ termRun' = [termRun EXCEPT ![u] = "idle"]
  /\ \E outcome \in RunOutcomes : AuditRun(u, outcome)
  /\ UNCHANGED <<sessionVars, pairVars, stopVars, termForeign>>

MayRead_UnknownIsOwn(u, o) ==
  u = Owner \/ ((\E i \in DOMAIN termOwners : termOwners[i] = o) => UserOf[o] = u)

\* Who may have the transcript of a session: the owner, and the user
\* remembered for it.  A forgotten session has no user.
MayRead(u, o) == u = Owner \/ (UserOf[o] = u /\ \E i \in DOMAIN termOwners : termOwners[i] = o)

\* async_transcript; the answer is checked against the app's hash and recorded.
AsyncTranscript(u, o) ==
  /\ termStop # "audit stopped"
  /\ termPhase[o] \in {"open", "closing", "closed"}
  /\ MayRead(u, o)
  /\ termSecret # NoSecret
  /\ termForeign' = (termForeign \/ u \notin {Owner, UserOf[o]})
  /\ UNCHANGED <<sessionVars, runVars, pairVars, stopVars>>

\* ha_soc.pair_terminal with the Supervisor's context: the first secret is
\* pinned, a different one refused.
PairTerminal(s) ==
  /\ termStop = "running"
  /\ termSecret = NoSecret
  /\ termSecret' = s
  /\ UNCHANGED <<sessionVars, runVars, termForgets, stopVars, termForeign>>

\* ws_terminal_forget_pairing.
ForgetPairing ==
  /\ termStop = "running"
  /\ termForgets < MaxForgets
  /\ termSecret # NoSecret
  /\ termSecret' = NoSecret
  /\ termForgets' = termForgets + 1
  /\ UNCHANGED <<sessionVars, runVars, stopVars, termForeign>>

-----------------------------------------------------------------------------
TermNext ==
  \/ \E o \in Opens :
       \/ AsyncOpen(o)
       \/ OpenLookup(o)
       \/ ConnectFails(o)
       \/ OpenConnected(o)
       \/ DeadlinePasses(o)
       \/ Frame(o)
       \/ UserCloses(o)
       \/ BrowserGone(o)
       \/ ReaderEnds(o)
       \/ SocketClosed(o)
       \/ CloseNext(o)
  \/ StopBegins
  \/ CloseAwaited
  \/ BudgetExpires
  \/ AuditStops
  \/ \E u \in Runners : AsyncRun(u) \/ RunRefused(u) \/ RunSent(u) \/ RunEnds(u)
  \/ \E u \in Users, o \in Opens : AsyncTranscript(u, o)
  \/ \E s \in Secrets : PairTerminal(s)
  \/ ForgetPairing

TermSpec == TermInit /\ [][TermNext]_termVars

(* Properties.                                                             *)

\* However many opens await at the same time, the sessions and the opens in
\* flight stay within the limit per user and the limit of the installation.
SessionLimits ==
  /\ Cardinality(Sessions \cup Opening) <= MaxTotal
  /\ \A u \in Users :
       Cardinality({o \in Sessions \cup Opening : UserOf[o] = u}) <= MaxPerUser

\* A session that async_close_all asked to close has its closing record before
\* the audit log stops, also when the stop budget cut its close short.
ClosedIsRecorded ==
  /\ \A o \in Opens : termPhase[o] = "closed" => termLog[o] = <<"open", "close">>
  /\ termStop = "audit stopped" => termWait = {}

\* A command that left Core has exactly one terminal_run record once the run
\* is over, whatever the answer was, and one run at a time is in flight.
RunsRecorded ==
  \A u \in Runners : termOwed[u] = (IF termRun[u] = "sent" THEN 1 ELSE 0)

\* Nobody but the session's user and the owner ever gets a transcript, also
\* after the session's user has been forgotten.
TranscriptIsOwn == ~termForeign

\* Every session ends and is recorded, also one whose browser has gone and one
\* whose output never stops.
SessionsEnd == \A o \in Opens : termPhase[o] = "open" ~> termLog[o] = <<"open", "close">>

\* What the terminal promises: the limits hold while opens overlap, every
\* closed session and every run has its record, transcripts stay private.
SessionsKept == TermTypeOK /\ SessionLimits /\ ClosedIsRecorded /\ RunsRecorded /\ TranscriptIsOwn
=============================================================================
