---------------------------- MODULE SyslogExport ----------------------------
(***************************************************************************)
(* SyslogExporter: the bounded queue of finalized audit records, the       *)
(* worker task that sends them one at a time, the settings changes that    *)
(* stop and restart it, and the drain when the entry is unloaded.          *)
(*                                                                         *)
(* Everything runs on one event loop, so an action is the code between two *)
(* awaits.  A cancelled task sees the cancellation at the await it is in.  *)
(* Settings changes arrive as WebSocket commands, which run as tasks of    *)
(* their own and may overlap each other and the unload.                    *)
(*                                                                         *)
(* Formatting, framing, the retry delay and the texts of status are left   *)
(* out: a record is its audit sequence number.                             *)
(***************************************************************************)
EXTENDS Naturals, Sequences, FiniteSets

CONSTANTS
  QueueMax,        \* _QUEUE_MAX
  MaxBatch,        \* records of one audit flush
  MaxRecords,      \* bound: records ever offered to the exporter
  MaxChanges,      \* bound: settings changes
  MaxFails,        \* bound: transport errors
  Configs          \* the syslog settings an owner chooses from

Transports == {"disabled", "udp", "tcp", "tls"}

ASSUME SyslogAssumption ==
  /\ QueueMax \in Nat \ {0} /\ MaxBatch \in Nat \ {0}
  /\ MaxRecords \in Nat /\ MaxChanges \in Nat /\ MaxFails \in Nat
  \* host: not set, resolvable, or one the resolver refuses with an error
  \* that is no transport error (the validator lets "name.." through)
  /\ Configs \subseteq [transport : Transports, host : {"none", "good", "bad"}]

VARIABLES
  settings,     \* the stored syslog settings
  queue,        \* _queue
  unfinished,   \* the queue's count of unfinished items, for join()
  task,         \* _task, NoTask for None
  worker,       \* the worker tasks ever created
  started,      \* how many those are
  writer,       \* _writer: none, open, or closed and not yet forgotten
  udp,          \* _udp_transport is set
  tlsReady,     \* _ssl_contexts holds the context
  sent, dropped, fails,
  stop,         \* the running async_stop calls: one per change, and unload
  unloaded,     \* core has cancelled the entry's background tasks
  offered,      \* history: records 1..offered came in while export was ready
  delivered, lost, wired,  \* history: counted sent, counted dropped, written
  leaked,       \* history: open connections that _writer no longer names
  overlap       \* history: two stops ran at the same time

queueVars == <<queue, unfinished, sent, dropped, offered, delivered, lost>>
taskVars  == <<task, worker, started>>
connVars  == <<writer, udp, tlsReady, leaked>>
stopVars  == <<settings, stop, unloaded, overlap>>
vars      == <<queueVars, taskVars, connVars, stopVars, fails, wired>>

NoTask == 0
Unload == 0
Stops   == 0..MaxChanges
Changes == 1..MaxChanges
Workers == 1..(MaxChanges + 1)
Records == 1..MaxRecords
NoItem  == 0

WorkerPcs == {"none", "get", "tls", "connect", "drain", "closing", "sleep",
              "ended", "died"}
StopPcs   == {"idle", "draining", "joined", "await", "closing", "done", "failed"}

Ready(c) == c.transport # "disabled" /\ c.host # "none"

Alive(w)   == worker[w].pc \notin {"none", "ended", "died"}
Holders    == {w \in Workers : worker[w].item # NoItem}
InQueue    == {queue[i] : i \in 1..Len(queue)}
InFlight(s) == stop[s].pc \notin {"idle", "done", "failed"}

Worker(pc, item) == [pc |-> pc, item |-> item, cancelled |-> FALSE]

-----------------------------------------------------------------------------
(* The queue.                                                              *)

\* Mutant: the bound is checked one item too late.
async_enqueue_Late(n) ==
  LET room == QueueMax + 1 - Len(queue)
      took == IF n <= room THEN n ELSE room
  IN  /\ Ready(settings)
      /\ offered + n <= MaxRecords
      /\ offered' = offered + n
      /\ queue' = queue \o [i \in 1..took |-> offered + i]
      /\ unfinished' = unfinished + took
      /\ dropped' = dropped + (n - took)
      /\ lost' = lost \cup (offered + took + 1)..(offered + n)
      /\ UNCHANGED <<sent, delivered, taskVars, connVars, stopVars, fails, wired>>

\* async_enqueue: a batch enters while there is room, the rest is counted.
async_enqueue(n) ==
  LET room == QueueMax - Len(queue)
      took == IF n <= room THEN n ELSE room
  IN  /\ Ready(settings)
      /\ offered + n <= MaxRecords
      /\ offered' = offered + n
      /\ queue' = queue \o [i \in 1..took |-> offered + i]
      /\ unfinished' = unfinished + took
      /\ dropped' = dropped + (n - took)
      /\ lost' = lost \cup (offered + took + 1)..(offered + n)
      /\ UNCHANGED <<sent, delivered, taskVars, connVars, stopVars, fails, wired>>

\* task_done: the item leaves the count; at zero a waiting join() is released.
TaskDone(count) ==
  /\ unfinished' = count
  /\ stop' = IF count = 0 /\ stop[Unload].pc = "draining"
             THEN [stop EXCEPT ![Unload].pc = "joined"] ELSE stop

\* Mutants: a cancelled send forgets its item; or puts it back without
\* marking the original done.
PutBack_Forget(item) ==
  /\ TaskDone(unfinished - 1)
  /\ UNCHANGED <<queue, dropped, lost, sent, offered, delivered, settings,
                 unloaded, overlap>>
PutBack_NotDone(item) ==
  /\ \/ /\ Len(queue) < QueueMax
        /\ queue' = Append(queue, item)
        /\ TaskDone(unfinished + 1)
        /\ UNCHANGED <<dropped, lost>>
     \/ /\ Len(queue) = QueueMax
        /\ dropped' = dropped + 1
        /\ lost' = lost \cup {item}
        /\ TaskDone(unfinished)
        /\ UNCHANGED queue
  /\ UNCHANGED <<sent, offered, delivered, settings, unloaded, overlap>>

\* The finally block for an item that was not delivered: put it back, or
\* count it when producers have filled the slot meanwhile.
PutBack(item) ==
  /\ \/ /\ Len(queue) < QueueMax
        /\ queue' = Append(queue, item)
        /\ TaskDone(unfinished)
        /\ UNCHANGED <<dropped, lost>>
     \/ /\ Len(queue) = QueueMax
        /\ dropped' = dropped + 1
        /\ lost' = lost \cup {item}
        /\ TaskDone(unfinished - 1)
        /\ UNCHANGED queue
  /\ UNCHANGED <<sent, offered, delivered, settings, unloaded, overlap>>

-----------------------------------------------------------------------------
(* The worker.  _async_send reads the settings at every attempt.           *)

\* write(): the bytes reach the peer's socket unless the stream is closed.
Write(w, item, stream) ==
  /\ worker' = [worker EXCEPT ![w] = Worker("drain", item)]
  /\ wired' = IF stream = "closed" THEN wired ELSE wired \cup {item}

\* _async_send up to its first await.
BeginSend(w, item) ==
  IF settings.transport = "udp"
  THEN IF udp THEN Write(w, item, "open")
       ELSE /\ worker' = [worker EXCEPT ![w] = Worker("connect", item)]
            /\ UNCHANGED wired
  ELSE IF writer # "none" THEN Write(w, item, writer)
       ELSE /\ worker' = [worker EXCEPT ![w] =
                 Worker(IF settings.transport = "tls" /\ ~tlsReady
                        THEN "tls" ELSE "connect", item)]
            /\ UNCHANGED wired

WorkerGet(w) ==
  /\ worker[w].pc = "get" /\ ~worker[w].cancelled
  /\ queue # <<>>
  /\ queue' = Tail(queue)
  /\ BeginSend(w, Head(queue))
  /\ UNCHANGED <<unfinished, sent, dropped, offered, delivered, lost, task,
                 started, connVars, stopVars, fails>>

\* _async_ssl_context: built once in the executor.
WorkerTls(w) ==
  /\ worker[w].pc = "tls" /\ ~worker[w].cancelled
  /\ tlsReady' = TRUE
  /\ worker' = [worker EXCEPT ![w].pc = "connect"]
  /\ UNCHANGED <<queueVars, task, started, writer, udp, leaked, stopVars, fails, wired>>

WorkerConnected(w) ==
  /\ worker[w].pc = "connect" /\ ~worker[w].cancelled
  /\ settings.host = "good"
  /\ IF settings.transport = "udp"
     THEN udp' = TRUE /\ UNCHANGED writer
     ELSE writer' = "open" /\ UNCHANGED udp
  /\ Write(w, worker[w].item, "open")
  /\ UNCHANGED <<queueVars, task, started, tlsReady, leaked, stopVars, fails>>

WorkerDelivered(w) ==
  /\ worker[w].pc = "drain" /\ ~worker[w].cancelled
  /\ sent' = sent + 1
  /\ delivered' = delivered \cup {worker[w].item}
  /\ TaskDone(unfinished - 1)
  /\ worker' = [worker EXCEPT ![w] = Worker("get", NoItem)]
  /\ UNCHANGED <<queue, dropped, offered, lost, task, started, connVars,
                 settings, unloaded, overlap, fails, wired>>

\* A transport error or timeout, then _async_close_connection.
WorkerError(w) ==
  /\ worker[w].pc \in {"connect", "drain"} /\ ~worker[w].cancelled
  /\ worker[w].pc = "connect" => settings.host = "good"
  /\ worker[w].pc = "drain" => settings.transport # "udp"   \* sendto never raises
  /\ fails < MaxFails /\ fails' = fails + 1
  /\ udp' = FALSE
  /\ writer' = IF writer = "none" THEN "none" ELSE "closed"
  /\ worker' = [worker EXCEPT ![w].pc = IF writer = "none" THEN "sleep" ELSE "closing"]
  /\ UNCHANGED <<queueVars, task, started, tlsReady, leaked, stopVars, wired>>

\* Mutant: the closed writer is kept.
ForgetWriter_Keep == UNCHANGED <<writer, leaked>>

\* wait_closed returned: _writer is forgotten, whatever it names by now.
ForgetWriter ==
  /\ writer' = "none"
  /\ leaked' = IF writer = "open" THEN leaked + 1 ELSE leaked

WorkerClosed(w) ==
  /\ worker[w].pc = "closing" /\ ~worker[w].cancelled
  /\ ForgetWriter
  /\ worker' = [worker EXCEPT ![w].pc = "sleep"]
  /\ UNCHANGED <<queueVars, task, started, udp, tlsReady, stopVars, fails, wired>>

WorkerRetry(w) ==
  /\ worker[w].pc = "sleep" /\ ~worker[w].cancelled
  /\ BeginSend(w, worker[w].item)
  /\ UNCHANGED <<queueVars, task, started, connVars, stopVars, fails>>

\* An error that is no transport error ends the task; _task still names it.
WorkerDied(w) ==
  /\ worker[w].pc = "connect" /\ ~worker[w].cancelled
  /\ settings.host = "bad"
  /\ PutBack(worker[w].item)
  /\ worker' = [worker EXCEPT ![w] = Worker("died", NoItem)]
  /\ UNCHANGED <<task, started, connVars, fails, wired>>

\* CancelledError at whichever await the worker is in.
WorkerCancelled(w) ==
  /\ Alive(w) /\ worker[w].cancelled
  /\ worker' = [worker EXCEPT ![w] = Worker("ended", NoItem)]
  /\ IF worker[w].item = NoItem
     THEN UNCHANGED <<queueVars, stopVars>>
     ELSE PutBack(worker[w].item)
  /\ UNCHANGED <<task, started, connVars, fails, wired>>

-----------------------------------------------------------------------------
(* async_stop, async_start and async_reconfigure.                          *)

\* Mutant: async_start without its check for a running task.
FinishStop_NoCheck(s, c) ==
  /\ stop' = [stop EXCEPT ![s].pc = "done"]
  /\ IF s # Unload /\ Ready(c)
     THEN /\ started' = started + 1
          /\ task' = started + 1
          /\ worker' = [worker EXCEPT ![started + 1] = Worker("get", NoItem)]
     ELSE UNCHANGED taskVars

\* async_start at the end of a change: nothing when the transport is
\* disabled, no host is set or a task exists.  The unload does not start.
FinishStop(s, c) ==
  /\ stop' = [stop EXCEPT ![s].pc = "done"]
  /\ IF s # Unload /\ Ready(c) /\ task = NoTask
     THEN /\ started' = started + 1
          /\ task' = started + 1
          /\ worker' = [worker EXCEPT ![started + 1] = Worker("get", NoItem)]
     ELSE UNCHANGED taskVars

\* _async_close_connection up to wait_closed.
CloseConnection(s, c) ==
  /\ udp' = FALSE
  /\ IF writer = "none"
     THEN FinishStop(s, c) /\ UNCHANGED writer
     ELSE /\ writer' = "closed"
          /\ stop' = [stop EXCEPT ![s].pc = "closing"]
          /\ UNCHANGED taskVars
  /\ UNCHANGED <<tlsReady, leaked>>

\* Mutant: _task keeps naming the cancelled worker, and async_start returns.
TakeTask_Keep(s, c) ==
  \/ task = NoTask /\ CloseConnection(s, c)
  \/ /\ task # NoTask
     /\ stop' = [stop EXCEPT ![s] = [pc |-> "await", task |-> task]]
     /\ worker' = [worker EXCEPT ![task].cancelled = TRUE]
     /\ UNCHANGED <<task, started, connVars>>

\* async_stop after the drain: take the task, cancel it, wait for its end.
\* Awaiting a task that died raises its error into the caller.
TakeTask(s, c) ==
  \/ task = NoTask /\ CloseConnection(s, c)
  \/ /\ task # NoTask
     /\ task' = NoTask
     /\ IF worker[task].pc = "died"
        THEN /\ stop' = [stop EXCEPT ![s].pc = "failed"]
             /\ UNCHANGED worker
        ELSE /\ stop' = [stop EXCEPT ![s] = [pc |-> "await", task |-> task]]
             /\ worker' = [worker EXCEPT ![task].cancelled = TRUE]
     /\ UNCHANGED <<started, connVars>>

\* ws_settings_set: store the settings, then async_reconfigure.  Commands
\* are answered until core has dropped the entry's runtime.
ChangeSettings(s, c) ==
  /\ stop[s].pc = "idle"
  /\ \A r \in Changes : r < s => stop[r].pc # "idle"
  /\ ~unloaded
  /\ settings' = c
  /\ overlap' = (overlap \/ \E r \in Stops : InFlight(r))
  /\ TakeTask(s, c)
  /\ UNCHANGED <<queueVars, unloaded, fails, wired>>

\* async_stop(drain=True) from async_stop_services.
BeginUnload ==
  /\ stop[Unload].pc = "idle"
  /\ overlap' = (overlap \/ \E r \in Stops : InFlight(r))
  /\ IF task # NoTask /\ queue # <<>>
     THEN /\ stop' = [stop EXCEPT ![Unload].pc = "draining"]
          /\ UNCHANGED <<taskVars, connVars>>
     ELSE TakeTask(Unload, settings)
  /\ UNCHANGED <<queueVars, settings, unloaded, fails, wired>>

\* Mutant: the drain has no time limit.
DrainEnds_NoLimit ==
  /\ stop[Unload].pc = "joined"
  /\ TakeTask(Unload, settings)
  /\ UNCHANGED <<queueVars, settings, unloaded, overlap, fails, wired>>

\* join() returned, or its five seconds are over.
DrainEnds ==
  /\ stop[Unload].pc \in {"draining", "joined"}
  /\ TakeTask(Unload, settings)
  /\ UNCHANGED <<queueVars, settings, unloaded, overlap, fails, wired>>

StopTaskEnded(s) ==
  /\ stop[s].pc = "await"
  /\ worker[stop[s].task].pc = "ended"
  /\ CloseConnection(s, settings)
  /\ UNCHANGED <<queueVars, settings, unloaded, overlap, fails, wired>>

StopClosed(s) ==
  /\ stop[s].pc = "closing"
  /\ ForgetWriter
  /\ FinishStop(s, settings)
  /\ UNCHANGED <<queueVars, udp, tlsReady, settings, unloaded, overlap, fails, wired>>

\* _stop_one: the budget ends a stop that waits for the stream to close.
BudgetExpired ==
  /\ stop[Unload].pc = "closing"
  /\ stop' = [stop EXCEPT ![Unload].pc = "done"]
  /\ UNCHANGED <<queueVars, taskVars, connVars, settings, unloaded, overlap, fails, wired>>

\* Core, after the unload callbacks: cancel the entry's background tasks.
EntryUnloaded ==
  /\ stop[Unload].pc \in {"done", "failed"} /\ ~unloaded
  /\ unloaded' = TRUE
  /\ worker' = [w \in Workers |->
                  [worker[w] EXCEPT !.cancelled = Alive(w)]]
  /\ UNCHANGED <<queueVars, task, started, connVars, settings, stop, overlap, fails, wired>>

-----------------------------------------------------------------------------
Init ==
  /\ settings \in Configs
  /\ queue = <<>> /\ unfinished = 0
  /\ started = IF Ready(settings) THEN 1 ELSE 0
  /\ task = started
  /\ worker = [w \in Workers |-> Worker(IF w <= started THEN "get" ELSE "none", NoItem)]
  /\ writer = "none" /\ udp = FALSE /\ tlsReady = FALSE
  /\ sent = 0 /\ dropped = 0 /\ fails = 0
  /\ stop = [s \in Stops |-> [pc |-> "idle", task |-> NoTask]]
  /\ unloaded = FALSE
  /\ offered = 0 /\ delivered = {} /\ lost = {} /\ wired = {}
  /\ leaked = 0 /\ overlap = FALSE

WorkerStep(w) ==
  \/ WorkerGet(w) \/ WorkerTls(w) \/ WorkerConnected(w) \/ WorkerDelivered(w)
  \/ WorkerError(w) \/ WorkerClosed(w) \/ WorkerRetry(w)
  \/ WorkerDied(w) \/ WorkerCancelled(w)

StopStep(s) == StopTaskEnded(s) \/ StopClosed(s)

Next ==
  \/ \E n \in 1..MaxBatch : async_enqueue(n)
  \/ \E w \in Workers : WorkerStep(w)
  \/ \E s \in Changes, c \in Configs : ChangeSettings(s, c)
  \/ \E s \in Stops : StopStep(s)
  \/ BeginUnload \/ DrainEnds \/ BudgetExpired \/ EntryUnloaded

\* The loop runs what is due: worker and stop steps go on, sends, closes and
\* the drain have time limits.  Nobody has to change settings or unload.
Spec == /\ Init /\ [][Next]_vars
        /\ \A w \in Workers : WF_vars(WorkerStep(w))
        /\ \A s \in Stops : WF_vars(StopStep(s))
        /\ WF_vars(DrainEnds)

-----------------------------------------------------------------------------
TypeOK ==
  /\ settings \in Configs
  /\ queue \in Seq(Records) /\ Len(queue) <= QueueMax
  /\ unfinished \in Nat /\ sent \in Nat /\ dropped \in Nat /\ fails \in 0..MaxFails
  /\ started \in 0..(MaxChanges + 1) /\ task \in 0..started
  /\ worker \in [Workers -> [pc : WorkerPcs, item : Records \cup {NoItem},
                             cancelled : BOOLEAN]]
  /\ writer \in {"none", "open", "closed"} /\ udp \in BOOLEAN /\ tlsReady \in BOOLEAN
  /\ stop \in [Stops -> [pc : StopPcs, task : Workers \cup {NoTask}]]
  /\ unloaded \in BOOLEAN /\ overlap \in BOOLEAN
  /\ offered \in 0..MaxRecords /\ leaked \in Nat
  /\ delivered \in SUBSET Records /\ lost \in SUBSET Records /\ wired \in SUBSET Records

(* However settings changes, the unload, cancellations and retries         *)
(* interleave, a worker that still runs is the one _task names, and the    *)
(* settings allow it: there is one sender, and none after export was       *)
(* switched off.                                                           *)
OneReadyWorker ==
  \A w \in Workers : Alive(w) /\ ~worker[w].cancelled => w = task /\ Ready(settings)

(* No sequence disappears silently (_async_worker): a record that came in  *)
(* is queued, in the hands of one worker, counted sent or counted dropped, *)
(* and in only one of these places.                                        *)
NoSilentLoss ==
  /\ 1..offered = InQueue \cup {worker[w].item : w \in Holders} \cup delivered \cup lost
  /\ offered = Len(queue) + Cardinality(Holders) + sent + dropped

(* join() can be believed: the queue's count is exactly what is queued or  *)
(* in flight, through every put back, so a drain that was released by      *)
(* join() left nothing unsent at that moment.                              *)
JoinIsExact == unfinished = Len(queue) + Cardinality(Holders)

(* While stops do not overlap, a record counted as sent was written to an  *)
(* open connection, and every open connection is known and gets closed.    *)
SentWasWritten == overlap \/ (delivered \subseteq wired /\ leaked = 0)

Died == \E w \in Workers : worker[w].pc = "died"

(* With export configured and the destination back, the queue drains,      *)
(* whatever changes interrupted it: no change leaves the exporter stopped. *)
EventuallySent ==
  []<>(\/ queue = <<>> /\ Holders = {}
       \/ ~Ready(settings) \/ Died \/ stop[Unload].pc # "idle")

(* Every stop ends, also the drain whose worker is dead or cannot connect. *)
StopsEnd == \A s \in Stops : InFlight(s) ~> ~InFlight(s)

(* Every record is accounted for, and the numbers the exporter reports and *)
(* waits on are the true ones.                                             *)
Accounted == TypeOK /\ NoSilentLoss /\ JoinIsExact /\ SentWasWritten

(* The queue drains while export is on, and a stop never hangs.            *)
SendsAndStops == EventuallySent /\ StopsEnd

=============================================================================
