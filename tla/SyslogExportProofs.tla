------------------------- MODULE SyslogExportProofs -------------------------
(***************************************************************************)
(* For every queue size and any number of settings changes and transport   *)
(* errors: at most one worker is running that has not been cancelled, it   *)
(* is the one _task names, and the settings in force allow it; and every   *)
(* record that came in is queued, in hand, sent or counted as dropped.     *)
(***************************************************************************)
EXTENDS SyslogExport, Integers, FiniteSetTheorems,
        SequenceTheorems, TLAPS

(* A worker past get() holds the item it took.                             *)
WorkerRecs ==
  {r \in [pc : WorkerPcs, item : Records \cup {NoItem}, cancelled : BOOLEAN] :
     r.pc \in {"tls", "connect", "drain", "closing", "sleep"} => r.item \in Records}

(* What the steps need to know of the state's shape.                       *)
Shape ==
  /\ queue \in Seq(Records)
  /\ offered \in Nat
  /\ worker \in [Workers -> WorkerRecs]
  /\ started \in Nat /\ task \in Nat
  /\ stop \in [Stops -> [pc : StopPcs, task : Nat]]

SyslogInv == Shape /\ OneReadyWorker

Running(w) == Alive(w) /\ ~worker[w].cancelled

(* The initial state has one worker if export is configured.               *)
LEMMA InitEstablishes == Init => SyslogInv
<1> SUFFICES ASSUME Init PROVE SyslogInv
  OBVIOUS
<1> USE SyslogAssumption DEF Init
<1>1. Shape
  <2>1. queue \in Seq(Records) /\ offered \in Nat
    OBVIOUS
  <2>2. started \in Nat /\ task \in Nat
    OBVIOUS
  <2>3. worker \in [Workers -> WorkerRecs]
    BY DEF Worker, WorkerRecs, WorkerPcs, NoItem
  <2>4. stop \in [Stops -> [pc : StopPcs, task : Nat]]
    BY DEF StopPcs, NoTask
  <2>. QED
    BY <2>1, <2>2, <2>3, <2>4 DEF Shape
<1>2. OneReadyWorker
  BY DEF OneReadyWorker, Alive, Worker, Workers
<1>. QED
  BY <1>1, <1>2 DEF SyslogInv

(* Starting at most one worker, and only without a running one, keeps the  *)
(* property: the end of every stop (async_start).                          *)
LEMMA FinishStopKeeps ==
  ASSUME SyslogInv, NEW s \in Stops, NEW c, FinishStop(s, c), settings' = c,
         task # NoTask => settings = c
  PROVE  /\ worker' \in [Workers -> WorkerRecs]
         /\ started' \in Nat /\ task' \in Nat
         /\ stop' \in [Stops -> [pc : StopPcs, task : Nat]]
         /\ OneReadyWorker'
<1> USE DEF SyslogInv, Shape
<1>1. stop' \in [Stops -> [pc : StopPcs, task : Nat]]
  BY DEF FinishStop, StopPcs
<1>2. CASE s # Unload /\ Ready(c) /\ task = NoTask
  <2>1. /\ started' = started + 1
        /\ task' = started + 1
        /\ worker' = [worker EXCEPT ![started + 1] = Worker("get", NoItem)]
    BY <1>2 DEF FinishStop
  <2>2. worker' \in [Workers -> WorkerRecs]
    BY <2>1 DEF Worker, WorkerRecs, WorkerPcs, NoItem
  <2>3. ASSUME NEW w \in Workers, w # started + 1
        PROVE  worker'[w] = worker[w] /\ ~Running(w)
    BY <1>2, <2>1, <2>3 DEF OneReadyWorker, Running, NoTask, Workers
  <2>4. OneReadyWorker'
    BY <1>2, <2>1, <2>3 DEF OneReadyWorker, Running, Alive, Ready
  <2>. QED
    BY <1>1, <2>1, <2>2, <2>4
<1>3. CASE ~(s # Unload /\ Ready(c) /\ task = NoTask)
  <2>1. UNCHANGED taskVars
    BY <1>3 DEF FinishStop
  <2>2. OneReadyWorker'
    BY <2>1 DEF taskVars, OneReadyWorker, Alive, Ready, NoTask, Workers
  <2>. QED
    BY <1>1, <2>1, <2>2 DEF taskVars
<1>. QED
  BY <1>2, <1>3

(* Closing the connection either waits or goes on to the end of the stop.  *)
LEMMA CloseConnectionKeeps ==
  ASSUME SyslogInv, NEW s \in Stops, NEW c, CloseConnection(s, c), settings' = c,
         task # NoTask => settings = c
  PROVE  /\ worker' \in [Workers -> WorkerRecs]
         /\ started' \in Nat /\ task' \in Nat
         /\ stop' \in [Stops -> [pc : StopPcs, task : Nat]]
         /\ OneReadyWorker'
<1>1. CASE writer = "none"
  BY <1>1, FinishStopKeeps DEF CloseConnection
<1>2. CASE writer # "none"
  <2>1. UNCHANGED taskVars /\ stop' = [stop EXCEPT ![s].pc = "closing"]
    BY <1>2 DEF CloseConnection
  <2>2. OneReadyWorker'
    BY <2>1 DEF SyslogInv, taskVars, OneReadyWorker, Alive, Ready, NoTask, Workers
  <2>. QED
    BY <2>1, <2>2 DEF SyslogInv, Shape, taskVars, StopPcs
<1>. QED
  BY <1>1, <1>2

(* Taking the task cancels the only worker that was running, so that the   *)
(* settings may change in the same step.                                   *)
LEMMA TakeTaskKeeps ==
  ASSUME SyslogInv, NEW s \in Stops, NEW c, TakeTask(s, c), settings' = c
  PROVE  /\ worker' \in [Workers -> WorkerRecs]
         /\ started' \in Nat /\ task' \in Nat
         /\ stop' \in [Stops -> [pc : StopPcs, task : Nat]]
         /\ OneReadyWorker'
<1>1. CASE task = NoTask /\ CloseConnection(s, c)
  BY <1>1, CloseConnectionKeeps
<1>2. CASE task # NoTask
  <2>1. task' = NoTask /\ started' = started
    BY <1>2 DEF TakeTask
  <2>2. CASE worker[task].pc = "died"
    <3>1. worker' = worker /\ stop' = [stop EXCEPT ![s].pc = "failed"]
      BY <1>2, <2>2 DEF TakeTask
    <3>2. \A w \in Workers : ~Running(w)
      BY <2>2 DEF SyslogInv, OneReadyWorker, Running, Alive
    <3>. QED
      BY <2>1, <3>1, <3>2
         DEF SyslogInv, Shape, OneReadyWorker, Running, Alive, StopPcs, NoTask
  <2>3. CASE worker[task].pc # "died"
    <3>1. /\ worker' = [worker EXCEPT ![task].cancelled = TRUE]
          /\ stop' = [stop EXCEPT ![s] = [pc |-> "await", task |-> task]]
      BY <1>2, <2>3 DEF TakeTask
    <3>2. worker' \in [Workers -> WorkerRecs]
      BY <3>1 DEF SyslogInv, Shape, WorkerRecs
    <3>3. ASSUME NEW w \in Workers PROVE ~Running(w)'
      <4>1. CASE w = task
        BY <3>1, <4>1 DEF SyslogInv, Shape, WorkerRecs, Running, Alive
      <4>2. CASE w # task
        BY <3>1, <4>2 DEF SyslogInv, Shape, OneReadyWorker, Running, Alive
      <4>. QED
        BY <4>1, <4>2
    <3>. QED
      BY <2>1, <3>1, <3>2, <3>3
         DEF SyslogInv, Shape, OneReadyWorker, Running, StopPcs, NoTask
  <2>. QED
    BY <2>2, <2>3
<1>. QED
  BY <1>1, <1>2 DEF TakeTask

(* A worker's own step creates no worker and revives none: it stays the    *)
(* running one or stops running.                                           *)
LEMMA OneWorkerMoves ==
  ASSUME SyslogInv, NEW w \in Workers, NEW r \in WorkerRecs,
         worker' = [worker EXCEPT ![w] = r],
         r.pc \notin {"none", "ended", "died"} /\ ~r.cancelled => Running(w),
         UNCHANGED <<task, settings>>
  PROVE  worker' \in [Workers -> WorkerRecs] /\ OneReadyWorker'
<1>1. worker' \in [Workers -> WorkerRecs]
  BY DEF SyslogInv, Shape
<1>2. ASSUME NEW v \in Workers, Running(v)' PROVE Running(v)
  BY <1>2 DEF SyslogInv, Shape, Running, Alive
<1>. QED
  BY <1>1, <1>2 DEF SyslogInv, OneReadyWorker, Running, Ready

(* Every step of a worker.                                                 *)
LEMMA WorkerStepKeeps ==
  ASSUME SyslogInv, NEW w \in Workers, WorkerStep(w)
  PROVE  SyslogInv'
<1> DEFINE W == worker[w]
<1>0. W \in WorkerRecs /\ worker \in [Workers -> WorkerRecs]
  BY DEF SyslogInv, Shape
<1> HIDE DEF W
<1>1. stop' \in [Stops -> [pc : StopPcs, task : Nat]]
  <2>1. \/ stop' = stop
        \/ stop' = [stop EXCEPT ![Unload].pc = "joined"]
    BY DEF WorkerStep, WorkerGet, WorkerTls, WorkerConnected, WorkerDelivered,
           WorkerError, WorkerClosed, WorkerRetry, WorkerDied, WorkerCancelled,
           PutBack, TaskDone, stopVars
  <2>. QED
    BY <2>1 DEF SyslogInv, Shape, StopPcs
<1>2. task' = task /\ started' = started /\ offered' = offered /\ settings' = settings
  BY DEF WorkerStep, WorkerGet, WorkerTls, WorkerConnected, WorkerDelivered,
         WorkerError, WorkerClosed, WorkerRetry, WorkerDied, WorkerCancelled,
         PutBack, stopVars, queueVars
<1>3. queue' \in Seq(Records)
  <2>1. W.item # NoItem => W.item \in Records
    BY <1>0 DEF WorkerRecs
  <2>2. \/ queue' = queue
        \/ queue # <<>> /\ queue' = Tail(queue)
        \/ W.item # NoItem /\ queue' = Append(queue, W.item)
        \/ WorkerDied(w) /\ queue' = Append(queue, W.item)
    BY DEF W, WorkerStep, WorkerGet, WorkerTls, WorkerConnected, WorkerDelivered,
           WorkerError, WorkerClosed, WorkerRetry, WorkerDied, WorkerCancelled,
           PutBack, queueVars
  <2>3. WorkerDied(w) => W.item \in Records
    BY <1>0 DEF W, WorkerDied, WorkerRecs
  <2>4. queue \in Seq(Records)
    BY DEF SyslogInv, Shape
  <2>5. queue # <<>> => Tail(queue) \in Seq(Records)
    BY <2>4
  <2>6. W.item \in Records => Append(queue, W.item) \in Seq(Records)
    BY <2>4
  <2>. QED
    BY <2>1, <2>2, <2>3, <2>4, <2>5, <2>6
<1>4. \E r \in WorkerRecs :
        /\ worker' = [worker EXCEPT ![w] = r]
        /\ r.pc \notin {"none", "ended", "died"} /\ ~r.cancelled => Running(w)
  <2>1. ASSUME NEW item \in Records, BeginSend(w, item), Running(w)
        PROVE  \E pc \in {"tls", "connect", "drain"} :
                 worker' = [worker EXCEPT ![w] = Worker(pc, item)]
    BY <2>1 DEF BeginSend, Write
  <2>2. ASSUME NEW item \in Records, NEW pc \in {"tls", "connect", "drain"}
        PROVE  Worker(pc, item) \in WorkerRecs
    BY DEF Worker, WorkerRecs, WorkerPcs
  <2>3. Worker("get", NoItem) \in WorkerRecs /\ Worker("ended", NoItem) \in WorkerRecs
          /\ Worker("died", NoItem) \in WorkerRecs
    BY DEF Worker, WorkerRecs, WorkerPcs
  <2>4. CASE WorkerGet(w)
    <3>1. Running(w) /\ Head(queue) \in Records /\ BeginSend(w, Head(queue))
      BY <2>4 DEF WorkerGet, Running, Alive, SyslogInv, Shape
    <3>. QED
      BY <2>1, <2>2, <3>1
  <2>5. CASE WorkerRetry(w)
    <3>1. Running(w) /\ worker[w].item \in Records /\ BeginSend(w, worker[w].item)
      BY <1>0, <2>5 DEF W, WorkerRetry, Running, Alive, WorkerRecs
    <3>. QED
      BY <2>1, <2>2, <3>1
  <2>6. CASE WorkerConnected(w)
    <3>1. Running(w) /\ worker[w].item \in Records
      BY <1>0, <2>6 DEF W, WorkerConnected, Running, Alive, WorkerRecs
    <3>2. worker' = [worker EXCEPT ![w] = Worker("drain", worker[w].item)]
      BY <2>6 DEF WorkerConnected, Write
    <3>. QED
      BY <2>2, <3>1, <3>2
  <2>7. CASE WorkerTls(w) \/ WorkerError(w) \/ WorkerClosed(w)
    <3>1. Running(w) /\ W.item \in Records
      BY <1>0, <2>7 DEF W, WorkerTls, WorkerError, WorkerClosed, Running, Alive, WorkerRecs
    <3>2. \E pc \in {"connect", "sleep", "closing"} :
            worker' = [worker EXCEPT ![w].pc = pc]
      BY <2>7 DEF WorkerTls, WorkerError, WorkerClosed
    <3>3. PICK pc \in {"connect", "sleep", "closing"} :
            worker' = [worker EXCEPT ![w] = [W EXCEPT !.pc = pc]]
      BY <3>2 DEF W
    <3>4. [W EXCEPT !.pc = pc] \in WorkerRecs
      BY <1>0, <3>1 DEF WorkerRecs, WorkerPcs
    <3>. QED
      BY <3>1, <3>3, <3>4
  <2>8. CASE WorkerDelivered(w)
    <3>1. Running(w)
      BY <2>8 DEF WorkerDelivered, Running, Alive
    <3>2. worker' = [worker EXCEPT ![w] = Worker("get", NoItem)]
      BY <2>8 DEF WorkerDelivered
    <3>. QED
      BY <2>3, <3>1, <3>2
  <2>9. CASE WorkerDied(w) \/ WorkerCancelled(w)
    <3>1. \E pc \in {"ended", "died"} : worker' = [worker EXCEPT ![w] = Worker(pc, NoItem)]
      BY <2>9 DEF WorkerDied, WorkerCancelled
    <3>. QED
      BY <2>3, <3>1 DEF Worker
  <2>. QED
    BY <2>4, <2>5, <2>6, <2>7, <2>8, <2>9 DEF WorkerStep
<1>. QED
  BY <1>1, <1>2, <1>3, <1>4, OneWorkerMoves DEF SyslogInv, Shape

(* Every other step.                                                       *)
LEMMA NextKeeps == SyslogInv /\ [Next]_vars => SyslogInv'
<1> SUFFICES ASSUME SyslogInv, [Next]_vars PROVE SyslogInv'
  OBVIOUS
<1>1. ASSUME NEW n \in 1..MaxBatch, async_enqueue(n) PROVE SyslogInv'
  <2>1. UNCHANGED <<taskVars, stopVars>>
    BY <1>1 DEF async_enqueue
  <2>2. offered' \in Nat /\ offered + n <= MaxRecords
    BY <1>1, SyslogAssumption DEF async_enqueue, SyslogInv, Shape
  <2> DEFINE room == QueueMax - Len(queue)
             k == IF n <= room THEN n ELSE room
  <2>3. k \in Int /\ k <= n /\ queue' = queue \o [i \in 1..k |-> offered + i]
    <3>1. room \in Int /\ n \in Int
      BY SyslogAssumption DEF SyslogInv, Shape
    <3>2. queue' = queue \o [i \in 1..k |-> offered + i]
      BY <1>1, Zenon DEF async_enqueue
    <3>. QED
      BY <3>1, <3>2
  <2> HIDE DEF room, k
  <2>4. [i \in 1..k |-> offered + i] \in Seq(Records)
    <3>1. [i \in 1..k |-> offered + i] \in [1..k -> Records]
      BY <2>2, <2>3, SyslogAssumption DEF Records, SyslogInv, Shape
    <3>2. CASE k \in Nat
      BY <3>1, <3>2
    <3>3. CASE k \notin Nat
      <4>1. 1..k = 1..0
        BY <2>3, <3>3
      <4>2. [i \in 1..k |-> offered + i] \in [1..0 -> Records]
        BY <3>1, <4>1, Zenon
      <4>3. \A f \in [1..0 -> Records] : f \in Seq(Records)
        OBVIOUS
      <4>. QED
        BY <4>2, <4>3, Zenon
    <3>. QED
      BY <3>2, <3>3
  <2>5. queue' \in Seq(Records)
    BY <2>3, <2>4 DEF SyslogInv, Shape
  <2>. QED
    BY <2>1, <2>2, <2>5 DEF SyslogInv, Shape, taskVars, stopVars, OneReadyWorker, Alive, Ready
<1>2. ASSUME NEW w \in Workers, WorkerStep(w) PROVE SyslogInv'
  BY <1>2, WorkerStepKeeps
<1>3. ASSUME NEW s \in Changes, NEW c \in Configs, ChangeSettings(s, c) PROVE SyslogInv'
  <2>1. s \in Stops /\ TakeTask(s, c) /\ settings' = c
    BY <1>3, SyslogAssumption DEF ChangeSettings, Changes, Stops
  <2>2. queue' = queue /\ offered' = offered
    BY <1>3 DEF ChangeSettings, queueVars
  <2>. QED
    BY <2>1, <2>2, TakeTaskKeeps DEF SyslogInv, Shape
<1>4. ASSUME NEW s \in Stops, StopStep(s) PROVE SyslogInv'
  <2>1. queue' = queue /\ offered' = offered /\ settings' = settings
    BY <1>4 DEF StopStep, StopTaskEnded, StopClosed, queueVars
  <2>2. CloseConnection(s, settings) \/ FinishStop(s, settings)
    BY <1>4 DEF StopStep, StopTaskEnded, StopClosed
  <2>3. CASE CloseConnection(s, settings)
    BY <2>1, <2>3, CloseConnectionKeeps DEF SyslogInv, Shape
  <2>4. CASE FinishStop(s, settings)
    BY <2>1, <2>4, FinishStopKeeps DEF SyslogInv, Shape
  <2>. QED
    BY <2>2, <2>3, <2>4
<1>5. ASSUME BeginUnload \/ DrainEnds PROVE SyslogInv'
  <2>1. queue' = queue /\ offered' = offered /\ settings' = settings /\ Unload \in Stops
    BY <1>5, SyslogAssumption DEF BeginUnload, DrainEnds, queueVars, Unload, Stops
  <2>2. CASE TakeTask(Unload, settings)
    BY <2>1, <2>2, TakeTaskKeeps DEF SyslogInv, Shape
  <2>3. CASE stop' = [stop EXCEPT ![Unload].pc = "draining"] /\ UNCHANGED taskVars
    BY <2>1, <2>3 DEF SyslogInv, Shape, taskVars, OneReadyWorker, Alive, Ready, StopPcs
  <2>. QED
    BY <1>5, <2>2, <2>3 DEF BeginUnload, DrainEnds
<1>6. ASSUME BudgetExpired PROVE SyslogInv'
  BY <1>6 DEF BudgetExpired, queueVars, taskVars, SyslogInv, Shape, OneReadyWorker,
              Alive, Ready, StopPcs
<1>7. ASSUME EntryUnloaded PROVE SyslogInv'
  <2>1. UNCHANGED <<queue, offered, task, started, settings, stop>>
    BY <1>7 DEF EntryUnloaded, queueVars
  <2>2. worker' = [w \in Workers |-> [worker[w] EXCEPT !.cancelled = Alive(w)]]
    BY <1>7 DEF EntryUnloaded
  <2>3. \A w \in Workers : Alive(w) \in BOOLEAN
    BY DEF Alive
  <2>4. worker' \in [Workers -> WorkerRecs]
    BY <2>2, <2>3 DEF SyslogInv, Shape, WorkerRecs
  <2>5. \A w \in Workers : ~Running(w)'
    BY <2>2, <2>3, ZenonT(40) DEF SyslogInv, Shape, WorkerRecs, Running, Alive
  <2>. QED
    BY <2>1, <2>4, <2>5 DEF SyslogInv, Shape, OneReadyWorker, Running
<1>8. CASE UNCHANGED vars
  BY <1>8 DEF vars, queueVars, taskVars, stopVars, SyslogInv, Shape, OneReadyWorker,
              Alive, Ready
<1>. QED
  BY <1>1, <1>2, <1>3, <1>4, <1>5, <1>6, <1>7, <1>8 DEF Next

(* The inductive invariant holds throughout.                               *)
THEOREM SyslogInvariant == Spec => []SyslogInv
BY InitEstablishes, NextKeeps, PTL DEF Spec

(* However settings changes, the unload, cancellations and retries         *)
(* interleave: the only worker that runs uncancelled is the one _task      *)
(* names, and the settings allow it (async_start, async_stop).             *)
THEOREM OneReadyWorkerHolds == Spec => []OneReadyWorker
BY SyslogInvariant, PTL DEF SyslogInv

-----------------------------------------------------------------------------
(* The books.  Where a record is, and what the counters say.               *)

Holding == {"tls", "connect", "drain", "closing", "sleep"}
RangeOf(q) == {q[i] : i \in 1..Len(q)}
Done == {s \in Changes : stop[s].pc = "done"}
Held == {worker[w].item : w \in Holders}

(* Exactly the workers past get() hold an item, those to come none, and    *)
(* each worker but the first was started by the end of a change.           *)
HandsInv ==
  /\ \A w \in Workers : worker[w].item # NoItem => worker[w].pc \in Holding
  /\ \A w \in Workers : w > started => worker[w].pc = "none"
  /\ started <= Cardinality(Done) + 1 /\ task <= started
  /\ \A s \in Stops : stop[s].task <= started

(* The types the shape does not give, and the limits.                      *)
TypesInv ==
  /\ settings \in Configs
  /\ unfinished \in Nat /\ sent \in Nat /\ dropped \in Nat /\ fails \in Nat
  /\ writer \in {"none", "open", "closed"}
  /\ udp \in BOOLEAN /\ tlsReady \in BOOLEAN /\ unloaded \in BOOLEAN /\ overlap \in BOOLEAN
  /\ leaked \in Nat
  /\ delivered \subseteq Records /\ lost \subseteq Records /\ wired \subseteq Records
  /\ fails <= MaxFails /\ offered <= MaxRecords /\ Len(queue) <= QueueMax

BooksInv ==
  /\ 1..offered = RangeOf(queue) \cup Held \cup delivered \cup lost
  /\ offered = Len(queue) + Cardinality(Holders) + sent + dropped
  /\ unfinished = Len(queue) + Cardinality(Holders)

(* While stops do not overlap, a stop that waits has taken the task, and   *)
(* only the worker that closes the stream, or a stop, sees it closed.      *)
WiresInv ==
  /\ \A r, s \in Stops : InFlight(r) /\ InFlight(s) => r = s
  /\ delivered \subseteq wired /\ leaked = 0
  /\ \A w \in Workers : Running(w) /\ worker[w].pc = "drain" => worker[w].item \in wired
  /\ \A w \in Workers : Running(w) => (worker[w].pc = "closing" <=> writer = "closed")
  /\ \A s \in Stops : stop[s].pc \in {"await", "closing"} => task = NoTask
  /\ \A s \in Stops : stop[s].pc = "closing" => writer = "closed"

AccountInv == SyslogInv /\ HandsInv /\ TypesInv /\ BooksInv /\ (overlap \/ WiresInv)

(* Sets and their sizes.                                                   *)
LEMMA SubsetSize ==
  ASSUME NEW m \in Nat, NEW S, NEW T, S \subseteq T, T \subseteq 1..m
  PROVE  /\ Cardinality(S) \in Nat /\ Cardinality(T) \in Nat
         /\ Cardinality(S) <= Cardinality(T) /\ Cardinality(T) <= m
         /\ IsFiniteSet(S) /\ IsFiniteSet(T)
<1>1. IsFiniteSet(1..m) /\ Cardinality(1..m) = m
  BY FS_Interval
<1>2. IsFiniteSet(T) /\ Cardinality(T) <= Cardinality(1..m)
  BY <1>1, FS_Subset
<1>3. IsFiniteSet(S) /\ Cardinality(S) <= Cardinality(T)
  BY <1>2, FS_Subset
<1>4. Cardinality(S) \in Nat /\ Cardinality(T) \in Nat
  BY <1>2, <1>3, FS_CardinalityType
<1>. QED
  BY <1>1, <1>2, <1>3, <1>4

LEMMA OneMore ==
  ASSUME NEW m \in Nat, NEW S, NEW x \in 1..m, S \subseteq 1..m, x \notin S
  PROVE  Cardinality(S \cup {x}) = Cardinality(S) + 1
<1>1. IsFiniteSet(S)
  BY SubsetSize
<1>. QED
  BY <1>1, FS_AddElement

LEMMA OneLess ==
  ASSUME NEW m \in Nat, NEW S, NEW x \in S, S \subseteq 1..m
  PROVE  Cardinality(S \ {x}) = Cardinality(S) - 1
<1>1. IsFiniteSet(S)
  BY SubsetSize
<1>. QED
  BY <1>1, FS_RemoveElement

(* What is in a queue after put and get.                                   *)
LEMMA QueueGet ==
  ASSUME NEW S, NEW q \in Seq(S), q # <<>>
  PROVE  /\ RangeOf(q) = {Head(q)} \cup RangeOf(Tail(q))
         /\ Len(q) = Len(Tail(q)) + 1
         /\ Len(Tail(q)) \in Nat
<1>1. Len(Tail(q)) = Len(q) - 1 /\ Len(q) \in Nat \ {0}
  OBVIOUS
<1>2. \A i \in 1..(Len(q) - 1) : Tail(q)[i] = q[i + 1]
  OBVIOUS
<1>3. Head(q) = q[1]
  OBVIOUS
<1>4. ASSUME NEW x \in RangeOf(q) PROVE x \in {Head(q)} \cup RangeOf(Tail(q))
  <2>1. PICK i \in 1..Len(q) : x = q[i]
    BY DEF RangeOf
  <2>2. CASE i = 1
    BY <2>1, <2>2, <1>3
  <2>3. CASE i # 1
    <3>1. i - 1 \in 1..Len(Tail(q)) /\ Tail(q)[i - 1] = x
      BY <1>1, <1>2, <2>1, <2>3
    <3>. QED
      BY <3>1 DEF RangeOf
  <2>. QED
    BY <2>2, <2>3
<1>5. ASSUME NEW x \in RangeOf(Tail(q)) PROVE x \in RangeOf(q)
  <2>1. PICK i \in 1..Len(Tail(q)) : x = Tail(q)[i]
    BY <1>5 DEF RangeOf
  <2>2. i + 1 \in 1..Len(q) /\ x = q[i + 1]
    BY <1>1, <1>2, <2>1
  <2>. QED
    BY <2>2 DEF RangeOf
<1>6. Head(q) \in RangeOf(q)
  BY <1>1, <1>3 DEF RangeOf
<1>. QED
  BY <1>1, <1>4, <1>5, <1>6

LEMMA QueuePut ==
  ASSUME NEW S, NEW q \in Seq(S), NEW e \in S
  PROVE  /\ RangeOf(Append(q, e)) = RangeOf(q) \cup {e}
         /\ Len(Append(q, e)) = Len(q) + 1
<1>1. Len(Append(q, e)) = Len(q) + 1 /\ Len(q) \in Nat
  OBVIOUS
<1>2. /\ \A i \in 1..Len(q) : Append(q, e)[i] = q[i]
      /\ Append(q, e)[Len(q) + 1] = e
  OBVIOUS
<1>3. \A i \in 1..(Len(q) + 1) : i \in 1..Len(q) \/ i = Len(q) + 1
  BY <1>1
<1>4. RangeOf(Append(q, e)) \subseteq RangeOf(q) \cup {e}
  BY <1>1, <1>2, <1>3 DEF RangeOf
<1>5. RangeOf(q) \cup {e} \subseteq RangeOf(Append(q, e))
  <2>1. \A i \in 1..Len(q) : i \in 1..(Len(q) + 1)
    BY <1>1
  <2>2. Len(q) + 1 \in 1..(Len(q) + 1)
    BY <1>1
  <2>. QED
    BY <1>1, <1>2, <2>1, <2>2 DEF RangeOf
<1>. QED
  BY <1>1, <1>4, <1>5

LEMMA QueueBatch ==
  ASSUME NEW S, NEW q \in Seq(S), NEW o \in Nat, NEW k \in Nat,
         NEW b \in Seq(S), Len(b) = k, \A i \in 1..k : b[i] = o + i
  PROVE  /\ RangeOf(q \o b) = RangeOf(q) \cup (o + 1)..(o + k)
         /\ Len(q \o b) = Len(q) + k
<1>2. b \in Seq(S) /\ Len(b) = k /\ \A i \in 1..k : b[i] = o + i
  OBVIOUS
<1>3. PICK z : z = q \o b
  OBVIOUS
<1>4. /\ Len(z) = Len(q) + k /\ Len(q) \in Nat
      /\ \A i \in 1..Len(q) : z[i] = q[i]
      /\ \A i \in (Len(q) + 1)..(Len(q) + k) : z[i] = b[i - Len(q)]
  <2>1. Len(q) \in Nat
    OBVIOUS
  <2>2. /\ Len(z) = Len(q) + Len(b)
        /\ \A i \in 1..(Len(q) + Len(b)) :
             z[i] = IF i <= Len(q) THEN q[i] ELSE b[i - Len(q)]
    BY <1>2, <1>3, ConcatProperties
  <2>. QED
    BY <1>2, <2>1, <2>2
<1>5. ASSUME NEW x \in RangeOf(z) PROVE x \in RangeOf(q) \cup (o + 1)..(o + k)
  <2>1. PICK i \in 1..Len(z) : x = z[i]
    BY <1>5 DEF RangeOf
  <2>2. CASE i <= Len(q)
    BY <1>4, <2>1, <2>2, SMTT(30) DEF RangeOf
  <2>3. CASE i > Len(q)
    <3>1. i - Len(q) \in 1..k /\ x = b[i - Len(q)]
      BY <1>4, <2>1, <2>3
    <3>2. x = o + (i - Len(q))
      BY <1>2, <3>1
    <3>. QED
      BY <3>1, <3>2
  <2>. QED
    BY <1>4, <2>2, <2>3
<1>6. ASSUME NEW x \in RangeOf(q) PROVE x \in RangeOf(z)
  <2>1. PICK i \in 1..Len(q) : x = q[i]
    BY <1>6 DEF RangeOf
  <2>2. i \in 1..Len(z) /\ x = z[i]
    BY <1>4, <2>1
  <2>. QED
    BY <2>2 DEF RangeOf
<1>7. ASSUME NEW x \in (o + 1)..(o + k) PROVE x \in RangeOf(z)
  <2>1. PICK j \in 1..k : j = x - o /\ b[j] = x
    BY <1>2
  <2>2. PICK m : m = Len(q) + j
    OBVIOUS
  <2>3. m \in (Len(q) + 1)..(Len(q) + k) /\ m - Len(q) = j /\ m \in 1..Len(z)
    BY <1>4, <2>1, <2>2
  <2>4. z[m] = b[j]
    BY <1>4, <2>3
  <2>. QED
    BY <2>1, <2>3, <2>4 DEF RangeOf
<1>. QED
  BY <1>3, <1>4, <1>5, <1>6, <1>7

(* The items in hand, by who holds one.                                    *)
LEMMA ItemsSame ==
  ASSUME NEW f, NEW g, NEW H, \A v \in H : g[v].item = f[v].item
  PROVE  {g[v].item : v \in H} = {f[v].item : v \in H}
OBVIOUS

LEMMA ItemsOneMore ==
  ASSUME NEW f, NEW g, NEW H, NEW w, \A v \in H : g[v].item = f[v].item
  PROVE  {g[v].item : v \in H \cup {w}} = {f[v].item : v \in H} \cup {g[w].item}
OBVIOUS

(* Who holds what after one worker's record has changed.                   *)
LEMMA HandsAfter ==
  ASSUME SyslogInv, NEW w \in Workers, NEW r \in WorkerRecs,
         worker' = [worker EXCEPT ![w] = r]
  PROVE  /\ worker[w].item = NoItem /\ r.item # NoItem =>
              /\ Cardinality(Holders)' = Cardinality(Holders) + 1
              /\ Held' = Held \cup {r.item}
         /\ worker[w].item # NoItem /\ r.item = NoItem =>
              /\ Cardinality(Holders)' = Cardinality(Holders) - 1
              /\ Held = Held' \cup {worker[w].item}
         /\ worker[w].item = r.item => Holders' = Holders /\ Held' = Held
<1>1. worker \in [Workers -> WorkerRecs]
  BY DEF SyslogInv, Shape
<1>2. worker'[w] = r /\ \A v \in Workers : v # w => worker'[v] = worker[v]
  BY <1>1
<1>3. \A v \in Workers : v \in Holders <=> worker[v].item # NoItem
  BY DEF Holders
<1>4. \A v \in Workers : v \in Holders' <=> worker'[v].item # NoItem
  BY DEF Holders
<1>5. Holders \subseteq Workers /\ Holders' \subseteq Workers
  BY DEF Holders
<1>6. Held = {worker[v].item : v \in Holders} /\ Held' = {worker'[v].item : v \in Holders'}
  BY DEF Held
<1>7. MaxChanges + 1 \in Nat /\ Workers = 1..(MaxChanges + 1)
  BY SyslogAssumption DEF Workers
<1>8. ASSUME worker[w].item = NoItem, r.item # NoItem
      PROVE  Cardinality(Holders') = Cardinality(Holders) + 1 /\ Held' = Held \cup {r.item}
  <2>1. Holders' = Holders \cup {w} /\ w \notin Holders
    BY <1>2, <1>3, <1>4, <1>5, <1>8, ZenonT(40)
  <2>2. Cardinality(Holders \cup {w}) = Cardinality(Holders) + 1
    BY <1>5, <1>7, <2>1, OneMore
  <2>3. \A v \in Holders : worker'[v].item = worker[v].item
    BY <1>2, <1>5, <2>1
  <2>4. {worker'[v].item : v \in Holders \cup {w}}
          = {worker[v].item : v \in Holders} \cup {worker'[w].item}
    BY <2>3, ItemsOneMore
  <2>5. Held' = Held \cup {r.item}
    BY <1>2, <1>6, <2>1, <2>4
  <2>. QED
    BY <2>1, <2>2, <2>5
<1>9. ASSUME worker[w].item # NoItem, r.item = NoItem
      PROVE  Cardinality(Holders') = Cardinality(Holders) - 1
               /\ Held = Held' \cup {worker[w].item}
  <2>1. Holders' = Holders \ {w} /\ w \in Holders
    BY <1>2, <1>3, <1>4, <1>5, <1>9, Zenon
  <2>2. Cardinality(Holders \ {w}) = Cardinality(Holders) - 1
    BY <1>5, <1>7, <2>1, OneLess
  <2>3. \A v \in Holders' : worker[v].item = worker'[v].item
    BY <1>2, <1>5, <2>1
  <2>4. {worker[v].item : v \in Holders' \cup {w}}
          = {worker'[v].item : v \in Holders'} \cup {worker[w].item}
    BY <2>3, ItemsOneMore
  <2>5. Holders = Holders' \cup {w}
    BY <2>1
  <2>6. Held = Held' \cup {worker[w].item}
    BY <1>6, <2>4, <2>5
  <2>. QED
    BY <2>1, <2>2, <2>6
<1>10. ASSUME worker[w].item = r.item PROVE Holders' = Holders /\ Held' = Held
  <2>1. \A v \in Workers : worker'[v].item = worker[v].item
    BY <1>2, <1>10
  <2>2. Holders' = Holders
    BY <1>3, <1>4, <1>5, <2>1
  <2>3. \A v \in Holders : worker'[v].item = worker[v].item
    BY <1>5, <2>1
  <2>4. {worker'[v].item : v \in Holders} = {worker[v].item : v \in Holders}
    BY <2>3, ItemsSame
  <2>. QED
    BY <1>6, <2>2, <2>4
<1>. QED
  BY <1>8, <1>9, <1>10

(* The books stand as long as no item moves.                               *)
LEMMA BooksSame ==
  ASSUME BooksInv, UNCHANGED queueVars,
         \A w \in Workers : worker'[w].item = worker[w].item
  PROVE  BooksInv'
<1>1. Holders' = Holders
  BY DEF Holders
<1>2. Held' = Held
  <2>1. \A w \in Holders : w \in Workers
    BY DEF Holders
  <2>2. \A x : x \in Held <=> \E v \in Holders : x = worker[v].item
    BY DEF Held
  <2>3. \A x : x \in Held' <=> \E v \in Holders' : x = worker'[v].item
    BY DEF Held
  <2>. QED
    BY <1>1, <2>1, <2>2, <2>3
<1>. QED
  BY <1>1, <1>2 DEF BooksInv, queueVars

(* The five ways a worker's step moves an item.                            *)
Same == UNCHANGED <<queue, unfinished, sent, dropped, delivered, lost>>
Takes(w, r) ==
  /\ queue # <<>> /\ queue' = Tail(queue)
  /\ worker[w].item = NoItem /\ r.item = Head(queue)
  /\ UNCHANGED <<unfinished, sent, dropped, delivered, lost>>
Keeps(w, r) == r.item = worker[w].item /\ Same
Sends(w, r) ==
  /\ worker[w].item \in Records /\ r.item = NoItem
  /\ sent' = sent + 1 /\ delivered' = delivered \cup {worker[w].item}
  /\ unfinished' = unfinished - 1
  /\ UNCHANGED <<queue, dropped, lost>>
Returns(w, r) ==
  /\ worker[w].item \in Records /\ r.item = NoItem
  /\ Len(queue) < QueueMax /\ queue' = Append(queue, worker[w].item)
  /\ UNCHANGED <<unfinished, sent, dropped, delivered, lost>>
Drops(w, r) ==
  /\ worker[w].item \in Records /\ r.item = NoItem
  /\ dropped' = dropped + 1 /\ lost' = lost \cup {worker[w].item}
  /\ unfinished' = unfinished - 1
  /\ UNCHANGED <<queue, sent, delivered>>
Moves(w, r) == Takes(w, r) \/ Keeps(w, r) \/ Sends(w, r) \/ Returns(w, r) \/ Drops(w, r)

(* A worker that gives up its item.                                        *)
LEMMA PutBackMoves ==
  ASSUME SyslogInv, NEW w \in Workers, NEW pc, PutBack(worker[w].item),
         worker[w].item \in Records
  PROVE  Moves(w, Worker(pc, NoItem))
<1>1. Worker(pc, NoItem).item = NoItem
  BY DEF Worker
<1>2. CASE /\ Len(queue) < QueueMax
           /\ queue' = Append(queue, worker[w].item)
           /\ TaskDone(unfinished)
           /\ UNCHANGED <<dropped, lost>>
  BY <1>1, <1>2 DEF PutBack, TaskDone, Moves, Returns
<1>3. CASE /\ Len(queue) = QueueMax
           /\ dropped' = dropped + 1
           /\ lost' = lost \cup {worker[w].item}
           /\ TaskDone(unfinished - 1)
           /\ UNCHANGED queue
  BY <1>1, <1>3 DEF PutBack, TaskDone, Moves, Drops
<1>. QED
  BY <1>2, <1>3 DEF PutBack

(* Every step of a worker moves an item in one of those ways, and its own  *)
(* program counter goes with it.                                           *)
LEMMA WorkerMoves ==
  ASSUME SyslogInv, HandsInv, NEW w \in Workers, WorkerStep(w)
  PROVE  \E r \in WorkerRecs :
           /\ worker' = [worker EXCEPT ![w] = r]
           /\ Moves(w, r)
           /\ r.item # NoItem => r.pc \in Holding
<1> PICK W : W = worker[w]
  OBVIOUS
<1>0. W \in WorkerRecs /\ worker \in [Workers -> WorkerRecs] /\ worker[w] = W
  BY DEF SyslogInv, Shape
<1>1. Worker("get", NoItem) \in WorkerRecs /\ Worker("ended", NoItem) \in WorkerRecs
        /\ Worker("died", NoItem) \in WorkerRecs
  BY DEF Worker, WorkerRecs, WorkerPcs
<1>2. ASSUME NEW item \in Records, BeginSend(w, item) \/ Write(w, item, "open")
      PROVE  \E r \in WorkerRecs : /\ worker' = [worker EXCEPT ![w] = r]
                                   /\ r.item = item /\ r.pc \in Holding
  <2>1. \E pc \in {"tls", "connect", "drain"} :
          worker' = [worker EXCEPT ![w] = Worker(pc, item)]
    BY <1>2 DEF BeginSend, Write
  <2>2. \A pc \in {"tls", "connect", "drain"} :
          /\ Worker(pc, item) \in WorkerRecs
          /\ Worker(pc, item).item = item /\ Worker(pc, item).pc \in Holding
    BY DEF Worker, WorkerRecs, WorkerPcs, Holding
  <2>. QED
    BY <2>1, <2>2
<1>3. W.pc = "get" => W.item = NoItem
  BY <1>0 DEF HandsInv, Holding
<1>4. W.pc \in {"tls", "connect", "drain", "closing", "sleep"} => W.item \in Records
  BY <1>0 DEF WorkerRecs
<1>5. CASE WorkerGet(w)
  <2>1. Head(queue) \in Records /\ queue # <<>>
    BY <1>5 DEF WorkerGet, SyslogInv, Shape
  <2>2. PICK r \in WorkerRecs : /\ worker' = [worker EXCEPT ![w] = r]
                                /\ r.item = Head(queue) /\ r.pc \in Holding
    BY <1>2, <1>5, <2>1 DEF WorkerGet
  <2>3. Takes(w, r)
    BY <1>0, <1>3, <1>5, <2>1, <2>2 DEF WorkerGet, Takes
  <2>. QED
    BY <2>2, <2>3 DEF Moves
<1>6. CASE WorkerRetry(w) \/ WorkerConnected(w)
  <2>1. W.item \in Records
    BY <1>0, <1>4, <1>6 DEF WorkerRetry, WorkerConnected
  <2>2. BeginSend(w, W.item) \/ Write(w, W.item, "open")
    BY <1>0, <1>6 DEF WorkerRetry, WorkerConnected
  <2>3. PICK r \in WorkerRecs : /\ worker' = [worker EXCEPT ![w] = r]
                                /\ r.item = W.item /\ r.pc \in Holding
    BY <1>2, <2>1, <2>2
  <2>4. Same
    BY <1>6 DEF WorkerRetry, WorkerConnected, queueVars, Same
  <2>. QED
    BY <1>0, <2>3, <2>4 DEF Moves, Keeps
<1>7. CASE WorkerTls(w) \/ WorkerError(w) \/ WorkerClosed(w)
  <2>1. W.item \in Records
    BY <1>0, <1>4, <1>7 DEF WorkerTls, WorkerError, WorkerClosed
  <2>2. \E pc \in {"connect", "sleep", "closing"} :
          worker' = [worker EXCEPT ![w].pc = pc]
    BY <1>7 DEF WorkerTls, WorkerError, WorkerClosed
  <2>3. PICK pc \in {"connect", "sleep", "closing"} :
          worker' = [worker EXCEPT ![w] = [W EXCEPT !.pc = pc]]
    BY <1>0, <2>2
  <2>4. /\ [W EXCEPT !.pc = pc] \in WorkerRecs
        /\ [W EXCEPT !.pc = pc].item = W.item /\ [W EXCEPT !.pc = pc].pc \in Holding
    BY <1>0, <2>1 DEF WorkerRecs, WorkerPcs, Holding
  <2>5. Same
    BY <1>7 DEF WorkerTls, WorkerError, WorkerClosed, queueVars, Same
  <2>. QED
    BY <1>0, <2>3, <2>4, <2>5 DEF Moves, Keeps
<1>8. CASE WorkerDelivered(w)
  <2>1. W.item \in Records
    BY <1>0, <1>4, <1>8 DEF WorkerDelivered
  <2>2. Worker("get", NoItem).item = NoItem
    BY DEF Worker
  <2>3. Sends(w, Worker("get", NoItem))
    BY <1>0, <1>8, <2>1, <2>2 DEF WorkerDelivered, TaskDone, Sends
  <2>4. worker' = [worker EXCEPT ![w] = Worker("get", NoItem)]
    BY <1>8 DEF WorkerDelivered
  <2>. QED
    BY <1>1, <2>2, <2>3, <2>4 DEF Moves
<1>9. CASE WorkerDied(w)
  <2>1. W.item \in Records /\ PutBack(W.item)
    BY <1>0, <1>4, <1>9 DEF WorkerDied
  <2>2. Moves(w, Worker("died", NoItem)) /\ Worker("died", NoItem).item = NoItem
    BY <1>0, <2>1, PutBackMoves DEF Worker
  <2>3. worker' = [worker EXCEPT ![w] = Worker("died", NoItem)]
    BY <1>9 DEF WorkerDied
  <2>. QED
    BY <1>1, <2>2, <2>3
<1>10. CASE WorkerCancelled(w)
  <2>1. worker' = [worker EXCEPT ![w] = Worker("ended", NoItem)]
    BY <1>10 DEF WorkerCancelled
  <2>2. Worker("ended", NoItem).item = NoItem
    BY DEF Worker
  <2>3. CASE W.item = NoItem
    <3>1. Keeps(w, Worker("ended", NoItem))
      BY <1>0, <1>10, <2>2, <2>3 DEF WorkerCancelled, Keeps, Same, queueVars
    <3>. QED
      BY <1>1, <2>1, <2>2, <3>1 DEF Moves
  <2>4. CASE W.item # NoItem
    <3>1. W.item \in Records /\ PutBack(W.item)
      BY <1>0, <1>10, <2>4 DEF WorkerCancelled, WorkerRecs
    <3>2. Moves(w, Worker("ended", NoItem))
      BY <1>0, <3>1, PutBackMoves
    <3>. QED
      BY <1>1, <2>1, <2>2, <3>2
  <2>. QED
    BY <2>3, <2>4
<1>. QED
  BY <1>5, <1>6, <1>7, <1>8, <1>9, <1>10 DEF WorkerStep

(* A worker's step keeps the books.                                        *)
LEMMA WorkerKeepsBooks ==
  ASSUME SyslogInv, HandsInv, TypesInv, BooksInv, NEW w \in Workers, WorkerStep(w)
  PROVE  BooksInv' /\ Len(queue)' <= QueueMax
         /\ unfinished' \in Nat /\ sent' \in Nat /\ dropped' \in Nat
         /\ delivered' \subseteq Records /\ lost' \subseteq Records
<1>1. PICK r \in WorkerRecs : worker' = [worker EXCEPT ![w] = r] /\ Moves(w, r)
  BY WorkerMoves
<1>2. offered' = offered
  BY DEF WorkerStep, WorkerGet, WorkerTls, WorkerConnected, WorkerDelivered,
         WorkerError, WorkerClosed, WorkerRetry, WorkerDied, WorkerCancelled,
         PutBack, stopVars, queueVars
<1>3. queue \in Seq(Records) /\ Len(queue) \in Nat /\ QueueMax \in Nat /\ NoItem \notin Records
  BY SyslogAssumption DEF SyslogInv, Shape, NoItem, Records
<1>4. /\ Cardinality(Holders) \in Nat
      /\ unfinished \in Nat /\ sent \in Nat /\ dropped \in Nat
      /\ delivered \subseteq Records /\ lost \subseteq Records /\ Len(queue) <= QueueMax
  <2>1. MaxChanges + 1 \in Nat /\ Holders \subseteq 1..(MaxChanges + 1)
    BY SyslogAssumption DEF Workers, Holders
  <2>2. Cardinality(Holders) \in Nat
    BY <2>1, SubsetSize
  <2>. QED
    BY <2>2 DEF TypesInv
<1>5. /\ worker[w].item = NoItem /\ r.item # NoItem =>
              /\ Cardinality(Holders') = Cardinality(Holders) + 1
              /\ Held' = Held \cup {r.item}
      /\ worker[w].item # NoItem /\ r.item = NoItem =>
              /\ Cardinality(Holders') = Cardinality(Holders) - 1
              /\ Held = Held' \cup {worker[w].item}
      /\ worker[w].item = r.item => Holders' = Holders /\ Held' = Held
  BY <1>1, HandsAfter
<1>6. /\ 1..offered = RangeOf(queue) \cup Held \cup delivered \cup lost
      /\ offered = Len(queue) + Cardinality(Holders) + sent + dropped
      /\ unfinished = Len(queue) + Cardinality(Holders)
  BY DEF BooksInv
<1>7. SUFFICES /\ 1..offered = RangeOf(queue') \cup Held' \cup delivered' \cup lost'
               /\ offered = Len(queue') + Cardinality(Holders') + sent' + dropped'
               /\ unfinished' = Len(queue') + Cardinality(Holders')
               /\ Len(queue') <= QueueMax
               /\ unfinished' \in Nat /\ sent' \in Nat /\ dropped' \in Nat
               /\ delivered' \subseteq Records /\ lost' \subseteq Records
  BY <1>2 DEF BooksInv, RangeOf
<1>14. /\ Len(queue) \in Nat /\ QueueMax \in Nat /\ Cardinality(Holders) \in Nat
      /\ sent \in Nat /\ dropped \in Nat /\ Len(queue) <= QueueMax
      /\ offered = Len(queue) + Cardinality(Holders) + sent + dropped
      /\ unfinished = Len(queue) + Cardinality(Holders)
  BY <1>3, <1>4, <1>6
<1> DEFINE Counts == /\ offered = Len(queue') + Cardinality(Holders') + sent' + dropped'
                     /\ unfinished' = Len(queue') + Cardinality(Holders')
                     /\ Len(queue') <= QueueMax
                     /\ unfinished' \in Nat /\ sent' \in Nat /\ dropped' \in Nat
(* The sizes as numbers, so that the sums are arithmetic and nothing else. *)
<1>15. PICK q, h, q2, h2 : /\ q = Len(queue) /\ h = Cardinality(Holders)
                          /\ q2 = Len(queue') /\ h2 = Cardinality(Holders')
  OBVIOUS
<1> DEFINE Sums == /\ offered = q2 + h2 + sent' + dropped' /\ unfinished' = q2 + h2
                   /\ q2 <= QueueMax
                   /\ unfinished' \in Nat /\ sent' \in Nat /\ dropped' \in Nat
<1>16. /\ q \in Nat /\ QueueMax \in Nat /\ h \in Nat /\ sent \in Nat /\ dropped \in Nat
       /\ q <= QueueMax /\ offered = q + h + sent + dropped /\ unfinished = q + h
  BY <1>14, <1>15, Zenon
<1>17. Sums => Counts
  BY <1>15, Zenon
<1>8. CASE Takes(w, r)
  <2>1. queue # <<>> /\ queue' = Tail(queue) /\ worker[w].item = NoItem /\ r.item = Head(queue)
          /\ UNCHANGED <<unfinished, sent, dropped, delivered, lost>>
    BY <1>8 DEF Takes
  <2>2. /\ RangeOf(queue) = {Head(queue)} \cup RangeOf(queue')
        /\ Len(queue) = Len(queue') + 1 /\ Len(queue') \in Nat /\ Head(queue) \in Records
    BY <1>3, <2>1, QueueGet
  <2>3. Cardinality(Holders') = Cardinality(Holders) + 1 /\ Held' = Held \cup {Head(queue)}
    BY <1>3, <1>5, <2>1, <2>2
  <2>4. 1..offered = RangeOf(queue') \cup Held' \cup delivered' \cup lost'
    BY <1>6, <2>1, <2>2, <2>3, Zenon
  <2>5. /\ Cardinality(Holders') = Cardinality(Holders) + 1
        /\ Len(queue) = Len(queue') + 1 /\ Len(queue') \in Nat
        /\ sent' = sent /\ dropped' = dropped /\ unfinished' = unfinished
    BY <2>1, <2>2, <2>3
  <2>6. h2 = h + 1 /\ q = q2 + 1 /\ q2 \in Nat
    BY <1>15, <2>5, Zenon
  <2>7. Sums
    BY <1>16, <2>1, <2>6
  <2>8. Counts
    BY <1>17, <2>7
  <2>. QED
    BY <1>4, <2>1, <2>4, <2>8
<1>9. CASE Keeps(w, r)
  BY <1>4, <1>5, <1>6, <1>9 DEF Keeps, Same
<1>10. ASSUME worker[w].item \in Records, r.item = NoItem
       PROVE  Cardinality(Holders') = Cardinality(Holders) - 1
                /\ Held = Held' \cup {worker[w].item} /\ Cardinality(Holders') \in Nat
  <2>1. Cardinality(Holders') = Cardinality(Holders) - 1 /\ Held = Held' \cup {worker[w].item}
    BY <1>3, <1>5, <1>10
  <2>2. MaxChanges + 1 \in Nat /\ Holders' \subseteq 1..(MaxChanges + 1)
    BY SyslogAssumption DEF Workers, Holders
  <2>3. Cardinality(Holders') \in Nat
    BY <2>2, SubsetSize
  <2>. QED
    BY <2>1, <2>3
<1>11. CASE Sends(w, r)
  <2>1. /\ worker[w].item \in Records /\ r.item = NoItem
        /\ sent' = sent + 1 /\ delivered' = delivered \cup {worker[w].item}
        /\ unfinished' = unfinished - 1
        /\ UNCHANGED <<queue, dropped, lost>>
    BY <1>11 DEF Sends
  <2>2. Cardinality(Holders') = Cardinality(Holders) - 1
          /\ Held = Held' \cup {worker[w].item} /\ Cardinality(Holders') \in Nat
    BY <1>10, <2>1
  <2>3. 1..offered = RangeOf(queue') \cup Held' \cup delivered' \cup lost'
    BY <1>6, <2>1, <2>2, Zenon
  <2>4. Cardinality(Holders') = Cardinality(Holders) - 1 /\ Cardinality(Holders') \in Nat
    BY <2>2
  <2>5. queue' = queue /\ sent' = sent + 1 /\ dropped' = dropped /\ unfinished' = unfinished - 1
    BY <2>1
  <2>6. h2 = h - 1 /\ h2 \in Nat /\ q2 = q
    BY <1>15, <2>4, <2>5, Zenon
  <2>7. Sums
    BY <1>16, <2>5, <2>6
  <2>8. Counts
    BY <1>17, <2>7
  <2>. QED
    BY <1>4, <2>1, <2>3, <2>8
<1>12. CASE Returns(w, r)
  <2>1. /\ worker[w].item \in Records /\ r.item = NoItem
        /\ Len(queue) < QueueMax /\ queue' = Append(queue, worker[w].item)
        /\ UNCHANGED <<unfinished, sent, dropped, delivered, lost>>
    BY <1>12 DEF Returns
  <2>2. Cardinality(Holders') = Cardinality(Holders) - 1
          /\ Held = Held' \cup {worker[w].item} /\ Cardinality(Holders') \in Nat
    BY <1>10, <2>1
  <2>3. RangeOf(queue') = RangeOf(queue) \cup {worker[w].item} /\ Len(queue') = Len(queue) + 1
    BY <1>3, <2>1, QueuePut
  <2>4. 1..offered = RangeOf(queue') \cup Held' \cup delivered' \cup lost'
    BY <1>6, <2>1, <2>2, <2>3, Zenon
  <2>5. /\ Cardinality(Holders') = Cardinality(Holders) - 1 /\ Cardinality(Holders') \in Nat
        /\ Len(queue') = Len(queue) + 1 /\ Len(queue) < QueueMax
        /\ sent' = sent /\ dropped' = dropped /\ unfinished' = unfinished
    BY <2>1, <2>2, <2>3
  <2>6. h2 = h - 1 /\ h2 \in Nat /\ q2 = q + 1 /\ q < QueueMax
    BY <1>15, <2>5, Zenon
  <2>7. Sums
    BY <1>16, <2>5, <2>6
  <2>8. Counts
    BY <1>17, <2>7
  <2>. QED
    BY <1>4, <2>1, <2>4, <2>8
<1>13. CASE Drops(w, r)
  <2>1. /\ worker[w].item \in Records /\ r.item = NoItem
        /\ dropped' = dropped + 1 /\ lost' = lost \cup {worker[w].item}
        /\ unfinished' = unfinished - 1
        /\ UNCHANGED <<queue, sent, delivered>>
    BY <1>13 DEF Drops
  <2>2. Cardinality(Holders') = Cardinality(Holders) - 1
          /\ Held = Held' \cup {worker[w].item} /\ Cardinality(Holders') \in Nat
    BY <1>10, <2>1
  <2>3. 1..offered = RangeOf(queue') \cup Held' \cup delivered' \cup lost'
    BY <1>6, <2>1, <2>2, Zenon
  <2>4. Cardinality(Holders') = Cardinality(Holders) - 1 /\ Cardinality(Holders') \in Nat
    BY <2>2
  <2>5. queue' = queue /\ sent' = sent /\ dropped' = dropped + 1 /\ unfinished' = unfinished - 1
    BY <2>1
  <2>6. h2 = h - 1 /\ h2 \in Nat /\ q2 = q
    BY <1>15, <2>4, <2>5, Zenon
  <2>7. Sums
    BY <1>16, <2>5, <2>6
  <2>8. Counts
    BY <1>17, <2>7
  <2>. QED
    BY <1>4, <2>1, <2>3, <2>8
<1>. QED
  BY <1>1, <1>8, <1>9, <1>11, <1>12, <1>13 DEF Moves

(* Stops that are done stay done, and one more is.                         *)
LEMMA DoneSize ==
  ASSUME Done \subseteq Done'
  PROVE  /\ Cardinality(Done) \in Nat /\ Cardinality(Done)' \in Nat
         /\ Cardinality(Done) <= Cardinality(Done)'
<1>1. MaxChanges \in Nat /\ Done' \subseteq 1..MaxChanges
  BY SyslogAssumption DEF Done, Changes
<1>2. /\ Cardinality(Done) \in Nat /\ Cardinality(Done') \in Nat
      /\ Cardinality(Done) <= Cardinality(Done')
  BY <1>1, SubsetSize
<1>. QED
  BY <1>2

LEMMA DoneGrows ==
  ASSUME NEW s \in Changes, s \notin Done, Done' = Done \cup {s}
  PROVE  Cardinality(Done)' = Cardinality(Done) + 1
<1>1. MaxChanges \in Nat /\ Done \subseteq 1..MaxChanges /\ s \in 1..MaxChanges
  BY SyslogAssumption DEF Done, Changes
<1>2. Cardinality(Done \cup {s}) = Cardinality(Done) + 1
  BY <1>1, OneMore
<1>. QED
  BY <1>2

(* What a worker's step leaves alone.                                      *)
LEMMA WorkerLeaves ==
  ASSUME NEW w \in Workers, WorkerStep(w)
  PROVE  /\ Alive(w)
         /\ UNCHANGED <<task, started, offered, settings, unloaded, overlap>>
         /\ \/ stop' = stop
            \/ stop[Unload].pc = "draining" /\ stop' = [stop EXCEPT ![Unload].pc = "joined"]
<1>1. UNCHANGED <<task, started, offered, settings, unloaded, overlap>>
  BY DEF WorkerStep, WorkerGet, WorkerTls, WorkerConnected, WorkerDelivered,
         WorkerError, WorkerClosed, WorkerRetry, WorkerDied, WorkerCancelled,
         PutBack, stopVars, queueVars
<1>2. Alive(w)
  BY DEF Alive, WorkerStep, WorkerGet, WorkerTls, WorkerConnected, WorkerDelivered,
         WorkerError, WorkerClosed, WorkerRetry, WorkerDied, WorkerCancelled
<1>3. \/ stop' = stop
      \/ stop[Unload].pc = "draining" /\ stop' = [stop EXCEPT ![Unload].pc = "joined"]
  BY DEF WorkerStep, WorkerGet, WorkerTls, WorkerConnected, WorkerDelivered,
         WorkerError, WorkerClosed, WorkerRetry, WorkerDied, WorkerCancelled,
         PutBack, TaskDone, stopVars
<1>. QED
  BY <1>1, <1>2, <1>3

(* A worker's step keeps the hands.                                        *)
LEMMA WorkerKeepsHands ==
  ASSUME SyslogInv, HandsInv, NEW w \in Workers, WorkerStep(w)
  PROVE  HandsInv'
<1>1. PICK r \in WorkerRecs : /\ worker' = [worker EXCEPT ![w] = r]
                              /\ r.item # NoItem => r.pc \in Holding
  BY WorkerMoves
<1>2. /\ worker \in [Workers -> WorkerRecs] /\ started \in Nat
      /\ stop \in [Stops -> [pc : StopPcs, task : Nat]]
  BY DEF SyslogInv, Shape
<1>3. Alive(w) /\ task' = task /\ started' = started
  BY WorkerLeaves
<1>4. ~(w > started)
  BY <1>3 DEF HandsInv, Alive
<1>5. \/ stop' = stop
      \/ stop[Unload].pc = "draining" /\ stop' = [stop EXCEPT ![Unload].pc = "joined"]
  BY WorkerLeaves
<1>6. /\ \A s \in Stops : stop'[s].task = stop[s].task
      /\ \A s \in Stops : stop[s].pc = "done" => stop'[s].pc = "done"
  BY <1>2, <1>5
<1>7. Done \subseteq Done'
  BY <1>6, SyslogAssumption DEF Done, Changes, Stops
<1>8. /\ Cardinality(Done) \in Nat /\ Cardinality(Done)' \in Nat
      /\ Cardinality(Done) <= Cardinality(Done)'
  BY <1>7, DoneSize
<1>9. started' <= Cardinality(Done)' + 1
  BY <1>2, <1>3, <1>8 DEF HandsInv
<1>10. task' <= started' /\ \A s \in Stops : stop'[s].task <= started'
  BY <1>3, <1>6 DEF HandsInv
<1>11. \A v \in Workers : worker'[v].item # NoItem => worker'[v].pc \in Holding
  BY <1>1, <1>2 DEF HandsInv
<1>12. \A v \in Workers : v > started' => worker'[v].pc = "none"
  BY <1>1, <1>2, <1>3, <1>4 DEF HandsInv
<1>. QED
  BY <1>9, <1>10, <1>11, <1>12 DEF HandsInv

(* A worker's step keeps the types.                                        *)
LEMMA WorkerKeepsTypes ==
  ASSUME SyslogInv, HandsInv, TypesInv, BooksInv, NEW w \in Workers, WorkerStep(w)
  PROVE  TypesInv'
<1>1. /\ Len(queue)' <= QueueMax
      /\ unfinished' \in Nat /\ sent' \in Nat /\ dropped' \in Nat
      /\ delivered' \subseteq Records /\ lost' \subseteq Records
  BY WorkerKeepsBooks
<1>2. offered' = offered /\ settings' = settings /\ unloaded' = unloaded /\ overlap' = overlap
  BY WorkerLeaves
<1>3. fails' \in Nat /\ fails' <= MaxFails
  <2>1. fails' = fails \/ (fails < MaxFails /\ fails' = fails + 1)
    BY DEF WorkerStep, WorkerGet, WorkerTls, WorkerConnected, WorkerDelivered,
           WorkerError, WorkerClosed, WorkerRetry, WorkerDied, WorkerCancelled
  <2>2. fails \in Nat /\ MaxFails \in Nat /\ fails <= MaxFails
    BY SyslogAssumption DEF TypesInv
  <2>. QED
    BY <2>1, <2>2
<1>4. writer' \in {"none", "open", "closed"} /\ leaked' \in Nat
  <2>1. /\ writer' = writer \/ writer' \in {"none", "open", "closed"}
        /\ leaked' = leaked \/ leaked' = leaked + 1
    BY DEF WorkerStep, WorkerGet, WorkerTls, WorkerConnected, WorkerDelivered, ForgetWriter,
           WorkerError, WorkerClosed, WorkerRetry, WorkerDied, WorkerCancelled, connVars
  <2>. QED
    BY <2>1 DEF TypesInv
<1>5. udp' \in BOOLEAN /\ tlsReady' \in BOOLEAN
  <2>1. (udp' = udp \/ udp' = TRUE \/ udp' = FALSE) /\ (tlsReady' = tlsReady \/ tlsReady' = TRUE)
    BY DEF WorkerStep, WorkerGet, WorkerTls, WorkerConnected, WorkerDelivered,
           WorkerError, WorkerClosed, WorkerRetry, WorkerDied, WorkerCancelled, connVars
  <2>2. udp \in BOOLEAN /\ tlsReady \in BOOLEAN
    BY DEF TypesInv
  <2>. QED
    BY <2>1, <2>2, Zenon
<1>6. wired' \subseteq Records
  <2>1. worker[w] \in WorkerRecs /\ queue \in Seq(Records)
    BY DEF SyslogInv, Shape
  <2>2. \/ wired' = wired
        \/ /\ worker[w].pc \in Holding
           /\ wired' = wired \cup {worker[w].item}
        \/ queue # <<>> /\ wired' = wired \cup {Head(queue)}
    BY DEF WorkerStep, WorkerGet, WorkerTls, WorkerConnected, WorkerDelivered, Holding,
           WorkerError, WorkerClosed, WorkerRetry, WorkerDied, WorkerCancelled, BeginSend, Write
  <2>3. worker[w].pc \in Holding => worker[w].item \in Records
    BY <2>1 DEF WorkerRecs, Holding
  <2>4. queue # <<>> => Head(queue) \in Records
    BY <2>1
  <2>. QED
    BY <2>2, <2>3, <2>4 DEF TypesInv
<1>7. /\ settings \in Configs /\ offered <= MaxRecords
      /\ unloaded \in BOOLEAN /\ overlap \in BOOLEAN
  BY DEF TypesInv
<1>8. unloaded' \in BOOLEAN /\ overlap' \in BOOLEAN
  BY <1>2, <1>7, Zenon
<1>. QED
  BY <1>1, <1>2, <1>3, <1>4, <1>5, <1>6, <1>7, <1>8 DEF TypesInv

(* What a stop's step does to workers and stops, besides what it closes:   *)
(* it starts the next worker, it cancels the one _task names, or neither.  *)
Starts(s) ==
  /\ s \in Changes /\ task = NoTask
  /\ started' = started + 1 /\ task' = started + 1
  /\ worker' = [worker EXCEPT ![started + 1] = Worker("get", NoItem)]
  /\ stop' = [stop EXCEPT ![s].pc = "done"]
Cancels(s) ==
  /\ task # NoTask /\ task' = NoTask /\ started' = started
  /\ worker' = [worker EXCEPT ![task].cancelled = TRUE]
  /\ stop' = [stop EXCEPT ![s] = [pc |-> "await", task |-> task]]
Forgets(s) ==
  /\ task # NoTask /\ task' = NoTask /\ started' = started /\ worker' = worker
  /\ worker[task].pc = "died"
  /\ stop' = [stop EXCEPT ![s].pc = "failed"]
Goes(s) ==
  /\ UNCHANGED taskVars
  /\ \E pc \in {"closing", "done", "draining"} : stop' = [stop EXCEPT ![s].pc = pc]
StopMoves(s) == Starts(s) \/ Cancels(s) \/ Forgets(s) \/ Goes(s)

LEMMA FinishStopMoves ==
  ASSUME NEW s \in Stops, NEW c, FinishStop(s, c)
  PROVE  StopMoves(s)
<1>1. s # Unload => s \in Changes
  BY SyslogAssumption DEF Stops, Changes, Unload
<1>2. CASE s # Unload /\ Ready(c) /\ task = NoTask
  BY <1>1, <1>2 DEF FinishStop, StopMoves, Starts
<1>3. CASE ~(s # Unload /\ Ready(c) /\ task = NoTask)
  BY <1>3 DEF FinishStop, StopMoves, Goes
<1>. QED
  BY <1>2, <1>3

LEMMA TakeTaskMoves ==
  ASSUME NEW s \in Stops, NEW c, TakeTask(s, c) \/ CloseConnection(s, c)
  PROVE  StopMoves(s)
<1>1. CASE CloseConnection(s, c)
  <2>1. CASE writer = "none"
    BY <1>1, <2>1, FinishStopMoves DEF CloseConnection
  <2>2. CASE writer # "none"
    BY <1>1, <2>2 DEF CloseConnection, StopMoves, Goes
  <2>. QED
    BY <2>1, <2>2
<1>2. CASE TakeTask(s, c) /\ task # NoTask
  <2>1. CASE worker[task].pc = "died"
    BY <1>2, <2>1 DEF TakeTask, StopMoves, Forgets
  <2>2. CASE worker[task].pc # "died"
    BY <1>2, <2>2 DEF TakeTask, StopMoves, Cancels
  <2>. QED
    BY <2>1, <2>2
<1>. QED
  BY <1>1, <1>2 DEF TakeTask

(* A stop's step moves no item, and each worker it starts is one more stop *)
(* that is done.                                                           *)
LEMMA StopKeepsHands ==
  ASSUME SyslogInv, HandsInv, NEW s \in Stops, stop[s].pc # "done", StopMoves(s)
  PROVE  HandsInv' /\ \A w \in Workers : worker'[w].item = worker[w].item
<1>1. /\ worker \in [Workers -> WorkerRecs] /\ started \in Nat /\ task \in Nat
      /\ stop \in [Stops -> [pc : StopPcs, task : Nat]]
      /\ \A v \in Workers : v \in Nat
  BY SyslogAssumption DEF SyslogInv, Shape, Workers
<1>2. /\ \A w \in Workers : worker[w].item # NoItem => worker[w].pc \in Holding
      /\ \A w \in Workers : w > started => worker[w].pc = "none"
      /\ started <= Cardinality(Done) + 1 /\ task <= started
      /\ \A r \in Stops : stop[r].task <= started
  BY DEF HandsInv
<1>3. \A r \in Stops : r # s => stop'[r] = stop[r]
  BY <1>1 DEF StopMoves, Starts, Cancels, Forgets, Goes
<1>4. Done \subseteq Done'
  BY <1>3, SyslogAssumption DEF Done, Changes, Stops
<1>5. /\ Cardinality(Done) \in Nat /\ Cardinality(Done)' \in Nat
      /\ Cardinality(Done) <= Cardinality(Done)'
  BY <1>4, DoneSize
<1>6. CASE Starts(s)
  <2>1. /\ s \in Changes /\ started' = started + 1 /\ task' = started + 1
        /\ worker' = [worker EXCEPT ![started + 1] = Worker("get", NoItem)]
        /\ stop' = [stop EXCEPT ![s].pc = "done"]
    BY <1>6 DEF Starts
  <2>2. Done' = Done \cup {s} /\ s \notin Done
    <3>1. stop'[s].pc = "done"
      BY <1>1, <2>1
    <3>2. \A r \in Changes : r \in Stops
      BY SyslogAssumption DEF Changes, Stops
    <3>. QED
      BY <1>3, <2>1, <3>1, <3>2 DEF Done
  <2>3. Cardinality(Done)' = Cardinality(Done) + 1
    BY <2>1, <2>2, DoneGrows
  <2>4. \A v \in Workers : v # started + 1 => worker'[v] = worker[v]
    BY <1>1, <2>1
  <2>5. started + 1 \in Workers => worker'[started + 1] = Worker("get", NoItem)
    BY <1>1, <2>1
  <2>6. started + 1 \in Workers => worker[started + 1].item = NoItem
    <3>1. started + 1 > started
      BY <1>1
    <3>. QED
      BY <1>2, <3>1 DEF Holding
  <2>7. Worker("get", NoItem).item = NoItem
    BY DEF Worker
  <2>8. \A w \in Workers : worker'[w].item = worker[w].item
    BY <2>4, <2>5, <2>6, <2>7
  <2>9. \A w \in Workers : worker'[w].item # NoItem => worker'[w].pc \in Holding
    BY <1>2, <2>4, <2>5, <2>7
  <2>10. \A w \in Workers : w > started' => worker'[w].pc = "none"
    BY <1>1, <1>2, <2>1, <2>4
  <2>11. started' <= Cardinality(Done)' + 1 /\ task' <= started'
    BY <1>1, <1>2, <1>5, <2>1, <2>3
  <2>12. \A r \in Stops : stop'[r].task = stop[r].task
    BY <1>1, <2>1
  <2>13. \A r \in Stops : stop'[r].task <= started'
    BY <1>1, <1>2, <2>1, <2>12
  <2>. QED
    BY <2>8, <2>9, <2>10, <2>11, <2>13 DEF HandsInv
<1>7. CASE Cancels(s)
  <2>1. /\ task' = NoTask /\ started' = started
        /\ worker' = [worker EXCEPT ![task].cancelled = TRUE]
        /\ stop' = [stop EXCEPT ![s] = [pc |-> "await", task |-> task]]
    BY <1>7 DEF Cancels
  <2>2. \A w \in Workers : worker'[w].item = worker[w].item /\ worker'[w].pc = worker[w].pc
    <3>1. ASSUME NEW w \in Workers, w = task
          PROVE  worker'[w] = [worker[w] EXCEPT !.cancelled = TRUE] /\ worker[w] \in WorkerRecs
      BY <1>1, <2>1, <3>1
    <3>2. ASSUME NEW w \in Workers, w = task
          PROVE  worker'[w].item = worker[w].item /\ worker'[w].pc = worker[w].pc
      BY <3>1, <3>2 DEF WorkerRecs
    <3>3. ASSUME NEW w \in Workers, w # task PROVE worker'[w] = worker[w]
      BY <1>1, <2>1, <3>3
    <3>. QED
      BY <3>2, <3>3
  <2>3. \A r \in Stops : stop'[r].task <= started
    BY <1>1, <1>2, <2>1
  <2>4. started' <= Cardinality(Done)' + 1 /\ task' <= started'
    BY <1>1, <1>2, <1>5, <2>1 DEF NoTask
  <2>. QED
    BY <1>2, <2>1, <2>2, <2>3, <2>4 DEF HandsInv
<1>8. CASE Forgets(s) \/ Goes(s)
  <2>1. /\ worker' = worker /\ started' = started /\ (task' = task \/ task' = NoTask)
        /\ \E pc : stop' = [stop EXCEPT ![s].pc = pc]
    BY <1>8 DEF Forgets, Goes, taskVars
  <2>2. \A r \in Stops : stop'[r].task = stop[r].task
    BY <1>1, <2>1
  <2>3. started' <= Cardinality(Done)' + 1 /\ task' <= started'
    BY <1>1, <1>2, <1>5, <2>1 DEF NoTask
  <2>. QED
    BY <1>2, <2>1, <2>2, <2>3 DEF HandsInv
<1>. QED
  BY <1>6, <1>7, <1>8 DEF StopMoves

(* What the connection looks like to the running worker after its step:    *)
(* it wrote to a stream that was not closed, and it alone closes it.       *)
LEMMA RunningWorkerWires ==
  ASSUME SyslogInv, WiresInv, NEW w \in Workers, WorkerStep(w), Running(w)
  PROVE  /\ delivered' \subseteq wired' /\ leaked' = 0
         /\ Running(w)' => /\ worker'[w].pc = "drain" => worker'[w].item \in wired'
                           /\ worker'[w].pc = "closing" <=> writer' = "closed"
<1>1. worker \in [Workers -> WorkerRecs] /\ worker[w] \in WorkerRecs
  BY DEF SyslogInv, Shape
<1>2. /\ delivered \subseteq wired /\ leaked = 0
      /\ worker[w].pc = "drain" => worker[w].item \in wired
      /\ worker[w].pc = "closing" <=> writer = "closed"
  BY DEF WiresInv
<1>3. ~WorkerCancelled(w)
  BY DEF Running, WorkerCancelled
<1>4. ASSUME NEW item, BeginSend(w, item), writer # "closed"
      PROVE  /\ wired \subseteq wired'
             /\ worker'[w].pc # "closing"
             /\ worker'[w].pc = "drain" => worker'[w].item \in wired'
  <2>1. /\ Worker("drain", item).pc = "drain" /\ Worker("drain", item).item = item
        /\ Worker("tls", item).pc = "tls" /\ Worker("connect", item).pc = "connect"
    BY DEF Worker
  <2>2. CASE Write(w, item, "open") \/ Write(w, item, writer)
    BY <1>1, <1>4, <2>1, <2>2 DEF Write
  <2>3. CASE /\ \E pc \in {"tls", "connect"} : worker' = [worker EXCEPT ![w] = Worker(pc, item)]
             /\ UNCHANGED wired
    BY <1>1, <2>1, <2>3
  <2>4. \/ Write(w, item, "open") \/ Write(w, item, writer)
        \/ /\ \E pc \in {"tls", "connect"} : worker' = [worker EXCEPT ![w] = Worker(pc, item)]
           /\ UNCHANGED wired
    BY <1>4 DEF BeginSend
  <2>. QED
    BY <2>2, <2>3, <2>4
<1>5. CASE WorkerGet(w)
  <2>1. writer # "closed" /\ BeginSend(w, Head(queue)) /\ UNCHANGED <<delivered, connVars>>
    BY <1>2, <1>5 DEF WorkerGet
  <2>. QED
    BY <1>2, <1>4, <2>1 DEF connVars
<1>6. CASE WorkerRetry(w)
  <2>1. writer # "closed" /\ BeginSend(w, worker[w].item) /\ UNCHANGED <<queueVars, connVars>>
    BY <1>2, <1>6 DEF WorkerRetry
  <2>. QED
    BY <1>2, <1>4, <2>1 DEF connVars, queueVars
<1>7. CASE WorkerTls(w)
  <2>1. worker'[w].pc = "connect"
    BY <1>1, <1>7 DEF WorkerTls, WorkerRecs
  <2>. QED
    BY <1>2, <1>7, <2>1 DEF WorkerTls, queueVars
<1>8. CASE WorkerConnected(w)
  <2>1. worker'[w] = Worker("drain", worker[w].item)
    BY <1>1, <1>8 DEF WorkerConnected, Write
  <2>2. worker'[w].pc = "drain" /\ worker'[w].item = worker[w].item
    BY <2>1 DEF Worker
  <2>3. wired' = wired \cup {worker[w].item} /\ writer' # "closed"
    BY <1>2, <1>8 DEF WorkerConnected, Write
  <2>. QED
    BY <1>2, <1>8, <2>2, <2>3 DEF WorkerConnected, queueVars
<1>9. CASE WorkerDelivered(w)
  <2>1. worker'[w].pc = "get"
    BY <1>1, <1>9 DEF WorkerDelivered, Worker
  <2>2. worker[w].pc = "drain" /\ delivered' = delivered \cup {worker[w].item}
          /\ wired' = wired /\ UNCHANGED connVars
    BY <1>9 DEF WorkerDelivered
  <2>. QED
    BY <1>2, <2>1, <2>2 DEF connVars
<1>10. CASE WorkerError(w)
  <2>1. worker'[w].pc = IF writer = "none" THEN "sleep" ELSE "closing"
    BY <1>1, <1>10 DEF WorkerError, WorkerRecs
  <2>. QED
    BY <1>2, <1>10, <2>1 DEF WorkerError, queueVars
<1>11. CASE WorkerClosed(w)
  <2>1. worker'[w].pc = "sleep"
    BY <1>1, <1>11 DEF WorkerClosed, WorkerRecs
  <2>2. writer = "closed"
    BY <1>2, <1>11 DEF WorkerClosed
  <2>. QED
    BY <1>2, <1>11, <2>1, <2>2 DEF WorkerClosed, ForgetWriter, queueVars
<1>12. CASE WorkerDied(w)
  <2>1. worker'[w].pc = "died"
    BY <1>1, <1>12 DEF WorkerDied, Worker
  <2>2. ~Running(w)'
    BY <2>1 DEF Running, Alive
  <2>. QED
    BY <1>2, <1>12, <2>2 DEF WorkerDied, PutBack, connVars
<1>. QED
  BY <1>3, <1>5, <1>6, <1>7, <1>8, <1>9, <1>10, <1>11, <1>12 DEF WorkerStep

LEMMA WorkerKeepsWires ==
  ASSUME SyslogInv, HandsInv, WiresInv, NEW w \in Workers, WorkerStep(w)
  PROVE  WiresInv'
<1>1. PICK r \in WorkerRecs : worker' = [worker EXCEPT ![w] = r]
  BY WorkerMoves
<1>2. /\ worker \in [Workers -> WorkerRecs] /\ stop \in [Stops -> [pc : StopPcs, task : Nat]]
  BY DEF SyslogInv, Shape
<1>3. \A v \in Workers : v # w => worker'[v] = worker[v]
  BY <1>1, <1>2
<1>4. \A s \in Stops :
        \/ stop'[s].pc = stop[s].pc
        \/ stop[s].pc = "draining" /\ stop'[s].pc = "joined"
  <2>1. \/ stop' = stop
        \/ stop[Unload].pc = "draining" /\ stop' = [stop EXCEPT ![Unload].pc = "joined"]
    BY WorkerLeaves
  <2>. QED
    BY <1>2, <2>1
<1>5. \A s \in Stops : InFlight(s)' <=> InFlight(s)
  BY <1>4 DEF InFlight
<1>6. \A r1, s \in Stops : InFlight(r1)' /\ InFlight(s)' => r1 = s
  BY <1>5 DEF WiresInv
<1>7. task' = task
  BY WorkerLeaves
<1>8. \A s \in Stops : stop'[s].pc \in {"await", "closing"} => task' = NoTask
  BY <1>4, <1>7 DEF WiresInv
<1>9. CASE Running(w)
  <2>1. w = task /\ task # NoTask
    BY <1>9, SyslogAssumption DEF SyslogInv, OneReadyWorker, Running, Workers, NoTask
  <2>2. ASSUME NEW v \in Workers, Running(v)' PROVE v = w
    BY <1>3, <2>1, <2>2 DEF SyslogInv, OneReadyWorker, Running, Alive
  <2>3. /\ delivered' \subseteq wired' /\ leaked' = 0
        /\ Running(w)' => /\ worker'[w].pc = "drain" => worker'[w].item \in wired'
                          /\ worker'[w].pc = "closing" <=> writer' = "closed"
    BY <1>9, RunningWorkerWires
  <2>4. \A s \in Stops : stop'[s].pc # "closing"
    BY <1>7, <1>8, <2>1
  <2>. QED
    BY <1>6, <1>8, <2>2, <2>3, <2>4 DEF WiresInv
<1>10. CASE ~Running(w)
  <2>1. WorkerCancelled(w)
    BY <1>10 DEF Running, Alive, WorkerStep, WorkerGet, WorkerTls, WorkerConnected,
                 WorkerDelivered, WorkerError, WorkerClosed, WorkerRetry, WorkerDied
  <2>2. UNCHANGED <<delivered, wired, writer, leaked>>
    BY <2>1 DEF WorkerCancelled, PutBack, queueVars, connVars
  <2>3. worker'[w].pc = "ended"
    BY <1>2, <2>1 DEF WorkerCancelled, Worker
  <2>4. ASSUME NEW v \in Workers, Running(v)' PROVE Running(v) /\ worker'[v] = worker[v]
    BY <1>3, <2>3, <2>4 DEF Running, Alive
  <2>5. \A s \in Stops : stop'[s].pc = "closing" => stop[s].pc = "closing"
    BY <1>4
  <2>. QED
    BY <1>6, <1>8, <2>2, <2>4, <2>5 DEF WiresInv
<1>. QED
  BY <1>9, <1>10

(* A stop that is alone keeps the wires: it cancels the running worker     *)
(* before it touches the connection, and starts one only when that is      *)
(* gone.                                                                   *)
LEMMA CloseConnectionWires ==
  ASSUME SyslogInv, WiresInv, TypesInv, NEW s \in Stops, NEW c, CloseConnection(s, c),
         task = NoTask, \A r \in Stops : InFlight(r) => r = s,
         UNCHANGED <<delivered, wired>>
  PROVE  WiresInv'
<1>1. /\ worker \in [Workers -> WorkerRecs] /\ stop \in [Stops -> [pc : StopPcs, task : Nat]]
      /\ started \in Nat
  BY DEF SyslogInv, Shape
<1>2. \A v \in Workers : ~Running(v)
  BY SyslogAssumption DEF SyslogInv, OneReadyWorker, Running, NoTask, Workers
<1>3. leaked' = 0 /\ delivered' \subseteq wired'
  BY DEF CloseConnection, WiresInv
<1>4. \A r \in Stops : r # s => stop'[r] = stop[r]
  BY <1>1 DEF CloseConnection, FinishStop
<1>5. \A r \in Stops : InFlight(r)' => r = s
  BY <1>4 DEF InFlight
<1>6. \A r \in Stops : stop'[r].pc \in {"await", "closing"} => r = s
  BY <1>5 DEF InFlight
<1>7. CASE writer = "none"
  <2>1. writer' = "none" /\ FinishStop(s, c)
    BY <1>7 DEF CloseConnection
  <2>2. stop'[s].pc = "done"
    BY <1>1, <2>1 DEF FinishStop
  <2>3. ASSUME NEW v \in Workers, Running(v)' PROVE worker'[v].pc = "get"
    <3>1. \/ worker' = [worker EXCEPT ![started + 1] = Worker("get", NoItem)]
          \/ worker' = worker
      BY <2>1 DEF FinishStop, taskVars
    <3>2. worker'[v] = Worker("get", NoItem) \/ worker'[v] = worker[v]
      BY <1>1, <3>1
    <3>3. worker'[v] # worker[v]
      BY <1>2, <2>3 DEF Running, Alive
    <3>. QED
      BY <3>2, <3>3 DEF Worker
  <2>. QED
    BY <1>3, <1>5, <1>6, <2>1, <2>2, <2>3 DEF WiresInv
<1>8. CASE writer # "none"
  <2>1. writer' = "closed" /\ UNCHANGED taskVars
    BY <1>8 DEF CloseConnection
  <2>2. \A v \in Workers : ~Running(v)'
    BY <1>2, <2>1 DEF taskVars, Running, Alive
  <2>. QED
    BY <1>3, <1>5, <2>1, <2>2 DEF WiresInv, taskVars
<1>. QED
  BY <1>7, <1>8

LEMMA TakeTaskWires ==
  ASSUME SyslogInv, WiresInv, TypesInv, NEW s \in Stops, NEW c, TakeTask(s, c),
         \A r \in Stops : InFlight(r) => r = s, settings' = c,
         UNCHANGED <<delivered, wired>>
  PROVE  WiresInv'
<1>1. CASE task = NoTask
  BY <1>1, CloseConnectionWires DEF TakeTask
<1>2. CASE task # NoTask
  <2>1. /\ stop \in [Stops -> [pc : StopPcs, task : Nat]]
    BY DEF SyslogInv, Shape
  <2>2. task' = NoTask /\ UNCHANGED connVars
    BY <1>2 DEF TakeTask
  <2>3. \A v \in Workers : ~Running(v)'
    <3>1. OneReadyWorker'
      BY TakeTaskKeeps
    <3>. QED
      BY <2>2, <3>1, SyslogAssumption DEF OneReadyWorker, Running, NoTask, Workers
  <2>4. stop'[s].pc \in {"await", "failed"} /\ \A r \in Stops : r # s => stop'[r] = stop[r]
    BY <1>2, <2>1 DEF TakeTask
  <2>5. \A r \in Stops : InFlight(r)' => r = s
    BY <2>4 DEF InFlight
  <2>6. \A r \in Stops : stop'[r].pc # "closing"
    BY <2>4, <2>5 DEF InFlight
  <2>. QED
    BY <2>2, <2>3, <2>5, <2>6 DEF WiresInv, connVars
<1>. QED
  BY <1>1, <1>2

(* Every step keeps all of it.  First a batch that comes in.               *)
LEMMA EnqueueKeeps ==
  ASSUME AccountInv, NEW n \in 1..MaxBatch, async_enqueue(n)
  PROVE  HandsInv' /\ TypesInv' /\ BooksInv' /\ (WiresInv => WiresInv')
<1>1. /\ queue \in Seq(Records) /\ Len(queue) \in Nat /\ QueueMax \in Nat /\ n \in Nat /\ n > 0
      /\ offered \in Nat /\ Len(queue) <= QueueMax /\ MaxRecords \in Nat
  BY SyslogAssumption DEF AccountInv, SyslogInv, Shape, TypesInv
<1>2. PICK k : k = IF n <= QueueMax - Len(queue) THEN n ELSE QueueMax - Len(queue)
  OBVIOUS
<1>3. k \in Nat /\ k <= n /\ Len(queue) + k <= QueueMax
  BY <1>1, <1>2
<1>4. /\ offered + n <= MaxRecords /\ offered' = offered + n
      /\ queue' = queue \o [i \in 1..k |-> offered + i]
      /\ unfinished' = unfinished + k
      /\ dropped' = dropped + (n - k)
      /\ lost' = lost \cup (offered + k + 1)..(offered + n)
      /\ UNCHANGED <<sent, delivered, taskVars, connVars, stopVars, fails, wired>>
  BY <1>2, Zenon DEF async_enqueue
<1>5. \A i \in 1..k : offered + i \in Records
  BY <1>1, <1>3, <1>4 DEF Records
<1>6. /\ RangeOf(queue') = RangeOf(queue) \cup (offered + 1)..(offered + k)
      /\ Len(queue') = Len(queue) + k
  <2>1. queue \in Seq(Records) /\ offered \in Nat /\ k \in Nat
    BY <1>1, <1>3
  <2>2. PICK b : b = [i \in 1..k |-> offered + i]
    OBVIOUS
  <2>3. b \in [1..k -> Records]
    BY <1>5, <2>2
  <2>4. b \in Seq(Records) /\ Len(b) = k /\ \A i \in 1..k : b[i] = offered + i
    BY <2>1, <2>2, <2>3
  <2>5. queue' = queue \o b
    BY <1>4, <2>2
  <2>. QED
    <3>1. /\ RangeOf(queue \o b) = RangeOf(queue) \cup (offered + 1)..(offered + k)
          /\ Len(queue \o b) = Len(queue) + k
      BY <2>1, <2>4, QueueBatch, SMTT(40)
    <3>. QED
      BY <2>5, <3>1, Zenon
<1>7. UNCHANGED <<task, worker, started, writer, udp, tlsReady, leaked, settings, stop,
                  unloaded, overlap, sent, delivered, fails, wired>>
  BY <1>4 DEF taskVars, connVars, stopVars
<1>8. Holders' = Holders /\ Held' = Held /\ Done' = Done
  BY <1>7 DEF Holders, Held, Done
<1>9. HandsInv'
  BY <1>7, <1>8 DEF AccountInv, HandsInv
<1>10. (offered + k + 1)..(offered + n) \subseteq Records
  BY <1>1, <1>3, <1>4 DEF Records
<1>11. TypesInv'
  <2>1. dropped' \in Nat /\ unfinished' \in Nat
    BY <1>1, <1>3, <1>4 DEF AccountInv, TypesInv
  <2>2. Len(queue') <= QueueMax /\ offered' <= MaxRecords
    BY <1>3, <1>4, <1>6
  <2>3. udp' \in BOOLEAN /\ tlsReady' \in BOOLEAN /\ unloaded' \in BOOLEAN /\ overlap' \in BOOLEAN
    BY <1>7, Zenon DEF AccountInv, TypesInv
  <2>4. lost' \subseteq Records
    BY <1>4, <1>10 DEF AccountInv, TypesInv
  <2>. QED
    BY <1>7, <2>1, <2>2, <2>3, <2>4 DEF AccountInv, TypesInv
<1>12. BooksInv'
  <2>1. /\ 1..offered = RangeOf(queue) \cup Held \cup delivered \cup lost
        /\ offered = Len(queue) + Cardinality(Holders) + sent + dropped
        /\ unfinished = Len(queue) + Cardinality(Holders)
    BY DEF AccountInv, BooksInv
  <2>2. 1..(offered + n) = 1..offered \cup (offered + 1)..(offered + k)
                             \cup (offered + k + 1)..(offered + n)
    BY <1>1, <1>3
  <2>3. 1..offered' = RangeOf(queue') \cup Held' \cup delivered' \cup lost'
    <3>1. 1..offered' = 1..(offered + n) /\ delivered' = delivered
      BY <1>4
    <3>2. lost' = lost \cup (offered + k + 1)..(offered + n)
      BY <1>4
    <3>. QED
      BY <1>6, <1>8, <2>1, <2>2, <3>1, <3>2, Zenon
  <2>4. Cardinality(Holders) \in Nat /\ sent \in Nat /\ dropped \in Nat
    <3>1. MaxChanges + 1 \in Nat /\ Holders \subseteq 1..(MaxChanges + 1)
      BY SyslogAssumption DEF Workers, Holders
    <3>2. Cardinality(Holders) \in Nat
      BY <3>1, SubsetSize
    <3>. QED
      BY <3>2 DEF AccountInv, TypesInv
  <2>5. /\ offered' = Len(queue') + Cardinality(Holders') + sent' + dropped'
        /\ unfinished' = Len(queue') + Cardinality(Holders')
    <3>1. offered' = offered + n /\ unfinished' = unfinished + k
            /\ dropped' = dropped + (n - k) /\ sent' = sent
      BY <1>4
    <3>2. Len(queue') = Len(queue) + k /\ Cardinality(Holders') = Cardinality(Holders)
      BY <1>6, <1>8
    <3>3. offered = Len(queue) + Cardinality(Holders) + sent + dropped
            /\ unfinished = Len(queue) + Cardinality(Holders)
      BY <2>1
    <3>4. n \in Nat /\ k \in Nat /\ Len(queue) \in Nat
      BY <1>1, <1>3
    <3>5. /\ offered + n = (Len(queue) + k) + Cardinality(Holders) + sent + (dropped + (n - k))
          /\ (Len(queue) + Cardinality(Holders)) + k = (Len(queue) + k) + Cardinality(Holders)
      <4>1. PICK q, h : q = Len(queue) /\ h = Cardinality(Holders)
        OBVIOUS
      <4>2. /\ q \in Nat /\ h \in Nat /\ sent \in Nat /\ dropped \in Nat /\ n \in Nat /\ k \in Nat
            /\ offered = q + h + sent + dropped
        BY <2>4, <3>3, <3>4, <4>1, Zenon
      <4>3. offered + n = (q + k) + h + sent + (dropped + (n - k)) /\ (q + h) + k = (q + k) + h
        BY <4>2
      <4>. QED
        BY <4>1, <4>3, Zenon
    <3>. QED
      BY <3>1, <3>2, <3>3, <3>5, Zenon
  <2>. QED
    BY <2>3, <2>5 DEF BooksInv, RangeOf
<1>13. ASSUME WiresInv PROVE WiresInv'
  BY <1>7, <1>13 DEF WiresInv, InFlight, Running, Alive
<1>. QED
  BY <1>9, <1>11, <1>12, <1>13

(* Then the steps of the stops.  Each belongs to one stop that is not done *)
(* yet, and moves no record.                                               *)
StopSide(s) ==
  /\ stop[s].pc # "done" /\ StopMoves(s)
  /\ UNCHANGED <<queueVars, unloaded, fails, wired>>
  /\ settings' \in Configs /\ overlap' \in BOOLEAN
  /\ writer' = writer \/ writer' \in {"none", "closed"}
  /\ udp' = udp \/ udp' = FALSE
  /\ tlsReady' = tlsReady
  /\ leaked' = leaked \/ leaked' = leaked + 1

LEMMA StopSideKeeps ==
  ASSUME AccountInv, NEW s \in Stops, StopSide(s)
  PROVE  HandsInv' /\ TypesInv' /\ BooksInv'
<1>1. HandsInv' /\ \A w \in Workers : worker'[w].item = worker[w].item
  <2>1. SyslogInv /\ HandsInv /\ stop[s].pc # "done" /\ StopMoves(s)
    BY DEF AccountInv, StopSide
  <2>. QED
    BY <2>1, StopKeepsHands
<1>2. BooksInv'
  <2>1. BooksInv /\ UNCHANGED queueVars
    BY DEF AccountInv, StopSide
  <2>. QED
    BY <1>1, <2>1, BooksSame
<1>3. TypesInv'
  <2>1. TypesInv
    BY DEF AccountInv
  <2>2. udp' \in BOOLEAN /\ tlsReady' \in BOOLEAN /\ unloaded' \in BOOLEAN /\ overlap' \in BOOLEAN
    BY <2>1, Zenon DEF StopSide, TypesInv
  <2>3. writer' \in {"none", "open", "closed"} /\ leaked' \in Nat
    BY <2>1 DEF StopSide, TypesInv
  <2>. QED
    BY <2>1, <2>2, <2>3 DEF StopSide, TypesInv, queueVars
<1>. QED
  BY <1>1, <1>2, <1>3

LEMMA TakeTaskSide ==
  ASSUME NEW s \in Stops, NEW c, TakeTask(s, c) \/ CloseConnection(s, c)
  PROVE  /\ writer' = writer \/ writer' \in {"none", "closed"}
         /\ udp' = udp \/ udp' = FALSE
         /\ tlsReady' = tlsReady /\ leaked' = leaked
BY DEF TakeTask, CloseConnection, connVars

LEMMA ChangeKeeps ==
  ASSUME AccountInv, NEW s \in Changes, NEW c \in Configs, ChangeSettings(s, c)
  PROVE  HandsInv' /\ TypesInv' /\ BooksInv' /\ (overlap' \/ WiresInv')
<1>1. s \in Stops /\ TakeTask(s, c) /\ settings' = c /\ stop[s].pc = "idle"
        /\ UNCHANGED <<queueVars, unloaded, fails, wired>>
  BY SyslogAssumption DEF ChangeSettings, Changes, Stops
<1>2. overlap' = (overlap \/ \E r \in Stops : InFlight(r))
  BY DEF ChangeSettings
<1>3. overlap' \in BOOLEAN
  BY <1>2, Zenon
<1>4. StopMoves(s)
  BY <1>1, TakeTaskMoves
<1>5. /\ writer' = writer \/ writer' \in {"none", "closed"}
      /\ udp' = udp \/ udp' = FALSE
      /\ tlsReady' = tlsReady /\ leaked' = leaked
  BY <1>1, TakeTaskSide
<1>6. StopSide(s)
  BY <1>1, <1>3, <1>4, <1>5 DEF StopSide
<1>7. HandsInv' /\ TypesInv' /\ BooksInv'
  BY <1>1, <1>6, StopSideKeeps
<1>8. ASSUME ~overlap' PROVE WiresInv'
  <2>1. ~overlap /\ \A r \in Stops : ~InFlight(r)
    BY <1>2, <1>8, Zenon
  <2>2. SyslogInv /\ TypesInv /\ WiresInv
    BY <2>1, Zenon DEF AccountInv
  <2>3. UNCHANGED <<delivered, wired>>
    BY <1>1 DEF queueVars
  <2>. QED
    BY <1>1, <2>1, <2>2, <2>3, TakeTaskWires
<1>. QED
  BY <1>7, <1>8

LEMMA UnloadKeeps ==
  ASSUME AccountInv, BeginUnload \/ DrainEnds
  PROVE  HandsInv' /\ TypesInv' /\ BooksInv' /\ (overlap' \/ WiresInv')
<1>1. Unload \in Stops
  BY SyslogAssumption DEF Unload, Stops
<1>2. /\ UNCHANGED <<queueVars, settings, unloaded, fails, wired>>
      /\ stop[Unload].pc \in {"idle", "draining", "joined"}
  BY DEF BeginUnload, DrainEnds
<1>3. settings \in Configs /\ overlap \in BOOLEAN
  BY DEF AccountInv, TypesInv
<1>4. overlap' \in BOOLEAN
  <2>1. overlap' = (overlap \/ \E r \in Stops : InFlight(r)) \/ overlap' = overlap
    BY DEF BeginUnload, DrainEnds
  <2>. QED
    BY <1>3, <2>1, Zenon
<1>5. ASSUME ~overlap' PROVE WiresInv /\ \A r \in Stops : InFlight(r) => r = Unload
  <2>1. CASE BeginUnload
    <3>1. ~overlap /\ \A r \in Stops : ~InFlight(r)
      BY <1>5, <2>1, Zenon DEF BeginUnload
    <3>. QED
      BY <3>1, Zenon DEF AccountInv
  <2>2. CASE DrainEnds
    <3>1. ~overlap /\ InFlight(Unload)
      BY <1>5, <2>2 DEF DrainEnds, InFlight
    <3>2. WiresInv
      BY <3>1, Zenon DEF AccountInv
    <3>. QED
      BY <1>1, <3>1, <3>2 DEF WiresInv
  <2>. QED
    BY <2>1, <2>2
<1>6. CASE TakeTask(Unload, settings)
  <2>1. StopMoves(Unload)
    BY <1>1, <1>6, TakeTaskMoves
  <2>2. /\ writer' = writer \/ writer' \in {"none", "closed"}
        /\ udp' = udp \/ udp' = FALSE
        /\ tlsReady' = tlsReady /\ leaked' = leaked
    BY <1>1, <1>6, TakeTaskSide
  <2>3. StopSide(Unload)
    BY <1>2, <1>3, <1>4, <2>1, <2>2 DEF StopSide
  <2>4. HandsInv' /\ TypesInv' /\ BooksInv'
    BY <1>1, <2>3, StopSideKeeps
  <2>5. ASSUME ~overlap' PROVE WiresInv'
    <3>1. SyslogInv /\ TypesInv /\ settings' = settings /\ UNCHANGED <<delivered, wired>>
      BY <1>2 DEF AccountInv, queueVars
    <3>2. WiresInv /\ \A r \in Stops : InFlight(r) => r = Unload
      BY <1>5, <2>5
    <3>. QED
      BY <1>1, <1>6, <3>1, <3>2, TakeTaskWires
  <2>. QED
    BY <2>4, <2>5
<1>7. CASE /\ stop' = [stop EXCEPT ![Unload].pc = "draining"]
           /\ UNCHANGED <<taskVars, connVars>> /\ task # NoTask
  <2>1. StopSide(Unload)
    BY <1>2, <1>3, <1>4, <1>7 DEF StopSide, StopMoves, Goes, connVars
  <2>2. HandsInv' /\ TypesInv' /\ BooksInv'
    BY <1>1, <2>1, StopSideKeeps
  <2>3. ASSUME ~overlap' PROVE WiresInv'
    <3>1. stop \in [Stops -> [pc : StopPcs, task : Nat]]
      BY DEF AccountInv, SyslogInv, Shape
    <3>2. stop'[Unload].pc = "draining" /\ \A r \in Stops : r # Unload => stop'[r] = stop[r]
      BY <1>1, <1>7, <3>1
    <3>3. WiresInv /\ \A r \in Stops : InFlight(r) => r = Unload
      BY <1>5, <2>3
    <3>4. \A r \in Stops : InFlight(r)' => r = Unload
      BY <3>2, <3>3 DEF InFlight
    <3>5. \A r \in Stops : stop'[r].pc \notin {"await", "closing"}
      BY <3>2, <3>4 DEF InFlight
    <3>6. UNCHANGED <<worker, task, writer, leaked, delivered, wired>>
      BY <1>2, <1>7 DEF taskVars, connVars, queueVars
    <3>. QED
      BY <3>3, <3>4, <3>5, <3>6 DEF WiresInv, Running, Alive
  <2>. QED
    BY <2>2, <2>3
<1>. QED
  BY <1>6, <1>7 DEF BeginUnload, DrainEnds

LEMMA StopStepKeeps ==
  ASSUME AccountInv, NEW s \in Stops, StopStep(s)
  PROVE  HandsInv' /\ TypesInv' /\ BooksInv' /\ (overlap' \/ WiresInv')
<1>1. /\ UNCHANGED <<queueVars, settings, unloaded, overlap, fails, wired>>
      /\ stop[s].pc \in {"await", "closing"}
  BY DEF StopStep, StopTaskEnded, StopClosed
<1>2. settings \in Configs /\ overlap \in BOOLEAN /\ SyslogInv /\ TypesInv
  BY DEF AccountInv, TypesInv
<1>3. ASSUME ~overlap
      PROVE  WiresInv /\ task = NoTask /\ \A r \in Stops : InFlight(r) => r = s
  <2>1. WiresInv
    BY <1>3, Zenon DEF AccountInv
  <2>. QED
    BY <1>1, <2>1 DEF WiresInv, InFlight
<1>4. CASE StopTaskEnded(s)
  <2>1. CloseConnection(s, settings)
    BY <1>4 DEF StopTaskEnded
  <2>2. StopMoves(s)
    BY <2>1, TakeTaskMoves
  <2>3. /\ writer' = writer \/ writer' \in {"none", "closed"}
        /\ udp' = udp \/ udp' = FALSE
        /\ tlsReady' = tlsReady /\ leaked' = leaked
    BY <2>1, TakeTaskSide
  <2>4. StopSide(s)
    BY <1>1, <1>2, <2>2, <2>3 DEF StopSide
  <2>5. HandsInv' /\ TypesInv' /\ BooksInv'
    BY <2>4, StopSideKeeps
  <2>6. ASSUME ~overlap PROVE WiresInv'
    <3>1. UNCHANGED <<delivered, wired>>
      BY <1>1 DEF queueVars
    <3>. QED
      BY <1>2, <1>3, <2>1, <2>6, <3>1, CloseConnectionWires
  <2>. QED
    BY <1>1, <2>5, <2>6
<1>5. CASE StopClosed(s)
  <2>1. FinishStop(s, settings) /\ ForgetWriter /\ UNCHANGED <<udp, tlsReady>>
    BY <1>5 DEF StopClosed
  <2>2. StopMoves(s)
    BY <2>1, FinishStopMoves
  <2>3. StopSide(s)
    BY <1>1, <1>2, <2>1, <2>2 DEF StopSide, ForgetWriter
  <2>4. HandsInv' /\ TypesInv' /\ BooksInv'
    BY <2>3, StopSideKeeps
  <2>5. ASSUME ~overlap PROVE WiresInv'
    <3>1. WiresInv /\ task = NoTask /\ \A r \in Stops : InFlight(r) => r = s
      BY <1>3, <2>5
    <3>2. /\ stop \in [Stops -> [pc : StopPcs, task : Nat]] /\ started \in Nat
          /\ worker \in [Workers -> WorkerRecs]
      BY <1>2 DEF SyslogInv, Shape
    <3>3. stop[s].pc = "closing" /\ writer = "closed"
      BY <1>5, <3>1 DEF StopClosed, WiresInv
    <3>4. writer' = "none" /\ leaked' = leaked
      BY <2>1, <3>3 DEF ForgetWriter
    <3>5. stop'[s].pc = "done" /\ \A r \in Stops : r # s => stop'[r] = stop[r]
      BY <2>1, <3>2 DEF FinishStop
    <3>6. \A r \in Stops : ~InFlight(r)'
      BY <3>1, <3>5 DEF InFlight
    <3>7. \A r \in Stops : stop'[r].pc \notin {"await", "closing"}
      BY <3>6 DEF InFlight
    <3>8. \A v \in Workers : ~Running(v)
      BY <1>2, <3>1, SyslogAssumption DEF SyslogInv, OneReadyWorker, Running, NoTask, Workers
    <3>9. ASSUME NEW v \in Workers, Running(v)' PROVE worker'[v].pc = "get"
      <4>1. \/ worker' = [worker EXCEPT ![started + 1] = Worker("get", NoItem)]
            \/ worker' = worker
        BY <2>1 DEF FinishStop, taskVars
      <4>2. worker'[v] = Worker("get", NoItem) \/ worker'[v] = worker[v]
        BY <3>2, <4>1
      <4>3. worker'[v] # worker[v]
        BY <3>8, <3>9 DEF Running, Alive
      <4>. QED
        BY <4>2, <4>3 DEF Worker
    <3>10. UNCHANGED <<delivered, wired>>
      BY <1>1 DEF queueVars
    <3>. QED
      BY <3>1, <3>4, <3>6, <3>7, <3>9, <3>10 DEF WiresInv
  <2>. QED
    BY <1>1, <2>4, <2>5
<1>. QED
  BY <1>4, <1>5 DEF StopStep

LEMMA BudgetKeeps ==
  ASSUME AccountInv, BudgetExpired
  PROVE  HandsInv' /\ TypesInv' /\ BooksInv' /\ (overlap' \/ WiresInv')
<1>1. Unload \in Stops
  BY SyslogAssumption DEF Unload, Stops
<1>2. /\ stop[Unload].pc = "closing" /\ stop' = [stop EXCEPT ![Unload].pc = "done"]
      /\ UNCHANGED <<queueVars, taskVars, connVars, settings, unloaded, overlap, fails, wired>>
  BY DEF BudgetExpired
<1>3. settings \in Configs /\ overlap \in BOOLEAN
  BY DEF AccountInv, TypesInv
<1>4. StopSide(Unload)
  BY <1>2, <1>3 DEF StopSide, StopMoves, Goes, connVars
<1>5. HandsInv' /\ TypesInv' /\ BooksInv'
  BY <1>1, <1>4, StopSideKeeps
<1>6. ASSUME ~overlap PROVE WiresInv'
  <2>1. WiresInv
    BY <1>6, Zenon DEF AccountInv
  <2>2. stop \in [Stops -> [pc : StopPcs, task : Nat]]
    BY DEF AccountInv, SyslogInv, Shape
  <2>3. stop'[Unload].pc = "done" /\ \A r \in Stops : r # Unload => stop'[r] = stop[r]
    BY <1>1, <1>2, <2>2
  <2>4. \A r \in Stops : InFlight(r)' => InFlight(r)
    BY <2>3 DEF InFlight
  <2>5. \A r, v \in Stops : InFlight(r)' /\ InFlight(v)' => r = v
    BY <2>1, <2>4 DEF WiresInv
  <2>6. UNCHANGED <<worker, task, writer, leaked, delivered, wired>>
    BY <1>2 DEF taskVars, connVars, queueVars
  <2>7. \A r \in Stops : stop'[r].pc \in {"await", "closing"} => stop'[r] = stop[r]
    BY <2>3
  <2>. QED
    BY <2>1, <2>5, <2>6, <2>7 DEF WiresInv, Running, Alive
<1>. QED
  BY <1>2, <1>5, <1>6

LEMMA EntryUnloadedKeeps ==
  ASSUME AccountInv, EntryUnloaded
  PROVE  HandsInv' /\ TypesInv' /\ BooksInv' /\ (overlap' \/ WiresInv')
<1>1. /\ unloaded' = TRUE
      /\ worker' = [w \in Workers |-> [worker[w] EXCEPT !.cancelled = Alive(w)]]
      /\ UNCHANGED <<queueVars, task, started, connVars, settings, stop, overlap, fails, wired>>
  BY DEF EntryUnloaded
<1>2. worker \in [Workers -> WorkerRecs]
  BY DEF AccountInv, SyslogInv, Shape
<1>3. ASSUME NEW w \in Workers
      PROVE  /\ worker'[w].item = worker[w].item /\ worker'[w].pc = worker[w].pc
             /\ worker'[w].cancelled = Alive(w)
  <2>1. worker'[w] = [worker[w] EXCEPT !.cancelled = Alive(w)] /\ worker[w] \in WorkerRecs
    BY <1>1, <1>2
  <2>. QED
    BY <2>1 DEF WorkerRecs
<1>4. BooksInv'
  BY <1>1, <1>3, BooksSame DEF AccountInv
<1>5. HandsInv'
  <2>1. UNCHANGED <<started, task, stop, Done>>
    BY <1>1 DEF Done
  <2>. QED
    BY <1>3, <2>1 DEF AccountInv, HandsInv
<1>6. TypesInv'
  <2>1. TypesInv
    BY DEF AccountInv
  <2>2. udp' \in BOOLEAN /\ tlsReady' \in BOOLEAN /\ unloaded' \in BOOLEAN /\ overlap' \in BOOLEAN
    BY <1>1, <2>1, Zenon DEF TypesInv, connVars
  <2>. QED
    BY <1>1, <2>1, <2>2 DEF TypesInv, queueVars, connVars
<1>7. ASSUME ~overlap PROVE WiresInv'
  <2>1. WiresInv
    BY <1>7, Zenon DEF AccountInv
  <2>2. \A w \in Workers : ~Running(w)'
    BY <1>3 DEF Running, Alive
  <2>3. UNCHANGED <<task, writer, leaked, stop, delivered, wired>>
    BY <1>1 DEF connVars, queueVars
  <2>. QED
    BY <2>1, <2>2, <2>3 DEF WiresInv, InFlight
<1>. QED
  BY <1>1, <1>4, <1>5, <1>6, <1>7

LEMMA InitAccounts == Init => AccountInv
<1> SUFFICES ASSUME Init PROVE AccountInv
  OBVIOUS
<1> USE SyslogAssumption
<1>1. SyslogInv
  BY InitEstablishes
<1>2. /\ worker = [w \in Workers |-> Worker(IF w <= started THEN "get" ELSE "none", NoItem)]
      /\ started \in {0, 1} /\ task = started /\ queue = <<>> /\ offered = 0
      /\ stop = [s \in Stops |-> [pc |-> "idle", task |-> NoTask]]
  BY DEF Init
<1>3. \A w \in Workers : worker[w].item = NoItem /\ (w > started => worker[w].pc = "none")
  BY <1>2 DEF Worker, Workers
<1>4. \A s \in Stops : stop[s].pc = "idle" /\ stop[s].task = NoTask
  BY <1>2
<1>5. Done = {} /\ Holders = {} /\ Cardinality({}) = 0
  BY <1>3, <1>4, FS_EmptySet DEF Done, Holders, Changes, Stops
<1>6. HandsInv
  BY <1>2, <1>3, <1>4, <1>5 DEF HandsInv, NoTask
<1>7. TypesInv
  <2>1. udp \in BOOLEAN /\ tlsReady \in BOOLEAN /\ unloaded \in BOOLEAN /\ overlap \in BOOLEAN
    BY Zenon DEF Init
  <2>. QED
    BY <2>1 DEF Init, TypesInv
<1>8. BooksInv
  <2>1. RangeOf(queue) = {} /\ Held = {} /\ Len(queue) = 0
    BY <1>2, <1>5 DEF RangeOf, Held
  <2>2. 1..offered = {}
    BY <1>2
  <2>. QED
    BY <1>2, <1>5, <2>1, <2>2 DEF Init, BooksInv
<1>9. WiresInv
  <2>1. \A s \in Stops : ~InFlight(s)
    BY <1>4 DEF InFlight
  <2>2. \A w \in Workers : worker[w].pc \in {"get", "none"}
    BY <1>2 DEF Worker
  <2>. QED
    BY <1>4, <2>1, <2>2 DEF Init, WiresInv
<1>. QED
  BY <1>1, <1>6, <1>7, <1>8, <1>9 DEF AccountInv

LEMMA NextAccounts == AccountInv /\ [Next]_vars => AccountInv'
<1> SUFFICES ASSUME AccountInv, [Next]_vars PROVE AccountInv'
  OBVIOUS
<1>0. SyslogInv'
  BY NextKeeps DEF AccountInv
<1>1. ASSUME NEW n \in 1..MaxBatch, async_enqueue(n)
      PROVE  HandsInv' /\ TypesInv' /\ BooksInv' /\ (overlap' \/ WiresInv')
  <2>1. HandsInv' /\ TypesInv' /\ BooksInv' /\ (WiresInv => WiresInv')
    BY <1>1, EnqueueKeeps
  <2>2. overlap' = overlap
    BY <1>1 DEF async_enqueue, stopVars
  <2>. QED
    BY <2>1, <2>2, Zenon DEF AccountInv
<1>2. ASSUME NEW w \in Workers, WorkerStep(w)
      PROVE  HandsInv' /\ TypesInv' /\ BooksInv' /\ (overlap' \/ WiresInv')
  <2>1. SyslogInv /\ HandsInv /\ TypesInv /\ BooksInv
    BY DEF AccountInv
  <2>2. HandsInv'
    BY <1>2, <2>1, WorkerKeepsHands
  <2>3. TypesInv'
    BY <1>2, <2>1, WorkerKeepsTypes
  <2>4. BooksInv'
    BY <1>2, <2>1, WorkerKeepsBooks
  <2>5. WiresInv => WiresInv'
    BY <1>2, <2>1, WorkerKeepsWires
  <2>6. overlap' = overlap
    BY <1>2, WorkerLeaves
  <2>. QED
    BY <2>2, <2>3, <2>4, <2>5, <2>6, Zenon DEF AccountInv
<1>3. ASSUME NEW s \in Changes, NEW c \in Configs, ChangeSettings(s, c)
      PROVE  HandsInv' /\ TypesInv' /\ BooksInv' /\ (overlap' \/ WiresInv')
  BY <1>3, ChangeKeeps
<1>4. ASSUME NEW s \in Stops, StopStep(s)
      PROVE  HandsInv' /\ TypesInv' /\ BooksInv' /\ (overlap' \/ WiresInv')
  BY <1>4, StopStepKeeps
<1>5. ASSUME BeginUnload \/ DrainEnds
      PROVE  HandsInv' /\ TypesInv' /\ BooksInv' /\ (overlap' \/ WiresInv')
  BY <1>5, UnloadKeeps
<1>6. ASSUME BudgetExpired
      PROVE  HandsInv' /\ TypesInv' /\ BooksInv' /\ (overlap' \/ WiresInv')
  BY <1>6, BudgetKeeps
<1>7. ASSUME EntryUnloaded
      PROVE  HandsInv' /\ TypesInv' /\ BooksInv' /\ (overlap' \/ WiresInv')
  BY <1>7, EntryUnloadedKeeps
<1>8. ASSUME UNCHANGED vars
      PROVE  HandsInv' /\ TypesInv' /\ BooksInv' /\ (overlap' \/ WiresInv')
  <2> USE <1>8 DEF vars, queueVars, taskVars, connVars, stopVars
  <2>1. HandsInv' = HandsInv
    BY DEF HandsInv, Done
  <2>2. TypesInv' = TypesInv
    BY DEF TypesInv
  <2>3. BooksInv' = BooksInv
    BY DEF BooksInv, Held, Holders, RangeOf
  <2>4. WiresInv' = WiresInv
    BY DEF WiresInv, InFlight, Running, Alive
  <2>. QED
    BY <2>1, <2>2, <2>3, <2>4, Zenon DEF AccountInv
<1>9. HandsInv' /\ TypesInv' /\ BooksInv' /\ (overlap' \/ WiresInv')
  BY <1>1, <1>2, <1>3, <1>4, <1>5, <1>6, <1>7, <1>8 DEF Next
<1>. QED
  BY <1>0, <1>9 DEF AccountInv

(* The inductive invariant says what the books say.                        *)
LEMMA AccountInvImplies == AccountInv => Accounted
<1> SUFFICES ASSUME AccountInv PROVE Accounted
  OBVIOUS
<1>1. NoSilentLoss /\ JoinIsExact
  <2>1. InQueue = RangeOf(queue) /\ Held = {worker[w].item : w \in Holders}
    BY DEF InQueue, RangeOf, Held
  <2>2. 1..offered = InQueue \cup {worker[w].item : w \in Holders} \cup delivered \cup lost
    BY <2>1 DEF AccountInv, BooksInv
  <2>. QED
    BY <2>2 DEF AccountInv, BooksInv, NoSilentLoss, JoinIsExact
<1>2. SentWasWritten
  BY Zenon DEF AccountInv, WiresInv, SentWasWritten
<1>3. TypeOK
  <2>1. MaxChanges \in Nat /\ Done \subseteq 1..MaxChanges /\ MaxRecords \in Nat /\ MaxFails \in Nat
    BY SyslogAssumption DEF Done, Changes
  <2>2. Cardinality(Done) \in Nat /\ Cardinality(Done) <= MaxChanges
    BY <2>1, SubsetSize
  <2>3. started \in Nat /\ started <= Cardinality(Done) + 1 /\ task \in Nat /\ task <= started
    BY DEF AccountInv, SyslogInv, Shape, HandsInv
  <2>4. started \in 0..(MaxChanges + 1) /\ task \in 0..started
    BY <2>1, <2>2, <2>3
  <2>5. worker \in [Workers -> [pc : WorkerPcs, item : Records \cup {NoItem},
                                cancelled : BOOLEAN]]
    BY DEF AccountInv, SyslogInv, Shape, WorkerRecs
  <2>6. \A n \in Nat : n <= started => n \in Workers \cup {NoTask}
    BY <2>4, SyslogAssumption DEF Workers, NoTask
  <2>7. stop \in [Stops -> [pc : StopPcs, task : Workers \cup {NoTask}]]
    <3>1. stop \in [Stops -> [pc : StopPcs, task : Nat]] /\ \A s \in Stops : stop[s].task <= started
      BY DEF AccountInv, SyslogInv, Shape, HandsInv
    <3>2. ASSUME NEW s \in Stops PROVE stop[s] \in [pc : StopPcs, task : Workers \cup {NoTask}]
      <4>1. stop[s] \in [pc : StopPcs, task : Nat] /\ stop[s].task <= started
        BY <3>1
      <4>2. stop[s].task \in Workers \cup {NoTask}
        BY <2>6, <4>1
      <4>. QED
        BY <4>1, <4>2
    <3>. QED
      BY <3>1, <3>2
  <2>8. queue \in Seq(Records) /\ offered \in Nat
    BY DEF AccountInv, SyslogInv, Shape
  <2>9. offered \in 0..MaxRecords /\ fails \in 0..MaxFails
    BY <2>1, <2>8 DEF AccountInv, TypesInv
  <2>10. udp \in BOOLEAN /\ tlsReady \in BOOLEAN /\ unloaded \in BOOLEAN /\ overlap \in BOOLEAN
    BY Zenon DEF AccountInv, TypesInv
  <2>. QED
    BY <2>4, <2>5, <2>7, <2>8, <2>9, <2>10 DEF AccountInv, TypesInv, TypeOK
<1>. QED
  BY <1>1, <1>2, <1>3 DEF Accounted

(* No record disappears silently and no count is wrong (_async_worker,     *)
(* async_enqueue): however cancellations, put backs, full queues, retries  *)
(* and changes interleave, a record that came in is queued, in one         *)
(* worker's hands, sent or counted as dropped; join() counts exactly what  *)
(* is left; and without overlapping stops what counts as sent was written  *)
(* to an open connection.                                                  *)
THEOREM AccountedHolds == Spec => []Accounted
<1>1. Spec => []AccountInv
  BY InitAccounts, NextAccounts, PTL DEF Spec
<1>. QED
  BY <1>1, AccountInvImplies, PTL

=============================================================================
