----------------------------- MODULE HacsUpdates ------------------------------
(***************************************************************************)
(* Refreshing and updating the repositories HACS has downloaded            *)
(* (hacs_updates.py).  A refresh asks for the metadata of each selected    *)
(* repository, a few at a time, and keeps a busy flag, the time it started *)
(* and its counters in the store; the flag is not believed for longer than *)
(* STALE_REFRESH_AFTER.  An update installs the pending repositories of    *)
(* its selection one after the other.                                      *)
(*                                                                         *)
(* The store is in memory and reaches the disk a while later; a restart or *)
(* a reload of the entry begins with the copy on the disk, and what runs   *)
(* from before it no longer touches the store in use.                      *)
(***************************************************************************)
EXTENDS Naturals, FiniteSets

CONSTANTS
  Repos,           \* downloaded repositories
  Requests,        \* websocket requests that refresh or update
  Concurrency,     \* CONCURRENCY
  MaxHacsRestarts,     \* bound: restarts and reloads
  MaxRefreshes     \* bound: refreshes started

ASSUME HacsAssumption ==
  /\ IsFiniteSet(Repos) /\ Repos # {}
  /\ Concurrency \in Nat \ {0} /\ MaxHacsRestarts \in Nat /\ MaxRefreshes \in Nat

VARIABLES
  huStore,       \* hacs_updates in memory
  huDisk,        \* ... and on the disk
  huReq,         \* what each request is at
  huPending,     \* repositories with an update
  huOutlived,    \* a refresh was still running when its flag was no longer believed
  huStarted,     \* refreshes started
  huRestarts     \* restarts so far

huVars == <<huStore, huDisk, huReq, huPending, huOutlived, huStarted, huRestarts>>

Counts == 0 .. Cardinality(Repos)
RefreshRecord == [busy : BOOLEAN, old : BOOLEAN, total : Counts, done : Counts, failed : Counts]
Fresh == [busy |-> FALSE, old |-> FALSE, total |-> 0, done |-> 0, failed |-> 0]
IdleRequest == [pc |-> "idle", todo |-> {}, active |-> {}, done |-> 0, failed |-> 0, tried |-> {}]

HuTypeOK ==
  /\ huStore \in RefreshRecord /\ huDisk \in RefreshRecord
  /\ \A q \in Requests : /\ huReq[q].pc \in {"idle", "refresh", "write", "update"}
                         /\ huReq[q].todo \cup huReq[q].active \cup huReq[q].tried \subseteq Repos
                         /\ Cardinality(huReq[q].active) <= Concurrency
  /\ huPending \subseteq Repos /\ huOutlived \in BOOLEAN
  /\ huStarted \in 0 .. MaxRefreshes /\ huRestarts \in 0 .. MaxHacsRestarts

HuInit ==
  /\ huStore = Fresh /\ huDisk = Fresh
  /\ huReq = [q \in Requests |-> IdleRequest]
  /\ huPending \in SUBSET Repos
  /\ huOutlived = FALSE /\ huStarted = 0 /\ huRestarts = 0

InProgress_Forever(s) == s.busy

\* _progress: the flag counts until it is too old.
InProgress(s) == s.busy /\ ~s.old

Refreshing(q) == huReq[q].pc \in {"refresh", "write"}

StartCounters_KeepDone(n) == [huStore EXCEPT !.busy = TRUE, !.old = FALSE, !.total = n]

StartCounters(n) == [busy |-> TRUE, old |-> FALSE, total |-> n, done |-> 0, failed |-> 0]

MayRefresh_Unguarded == TRUE

MayRefresh == ~InProgress(huStore)

\* async_hacs_refresh_all up to its first suspension; an empty selection is
\* only audited.
RefreshBegins(q, selected) ==
  /\ huReq[q].pc = "idle" /\ huStarted < MaxRefreshes
  /\ MayRefresh /\ selected # {}
  /\ huStarted' = huStarted + 1
  /\ huStore' = StartCounters(Cardinality(selected))
  /\ huReq' = [huReq EXCEPT ![q] = [IdleRequest EXCEPT !.pc = "refresh", !.todo = selected]]
  /\ UNCHANGED <<huDisk, huPending, huOutlived, huRestarts>>

\* The semaphore admits a repository.
RepoAsked(q, r) ==
  /\ huReq[q].pc = "refresh" /\ r \in huReq[q].todo
  /\ Cardinality(huReq[q].active) < Concurrency
  /\ huReq' = [huReq EXCEPT ![q].todo = @ \ {r}, ![q].active = @ \cup {r}]
  /\ UNCHANGED <<huStore, huDisk, huPending, huOutlived, huStarted, huRestarts>>

\* Its answer, or its failure: the request's own counters go to the store.
\* A fresh answer may show an update that was not known.
RepoAnswers(q, r) ==
  /\ huReq[q].pc = "refresh" /\ r \in huReq[q].active
  /\ \E lost \in {0, 1} :
       /\ huReq' = [huReq EXCEPT ![q].active = @ \ {r}, ![q].done = @ + 1,
                                 ![q].failed = @ + lost]
       /\ huStore' = [huStore EXCEPT !.done = huReq[q].done + 1,
                                     !.failed = huReq[q].failed + lost]
       /\ huPending' \in IF lost = 1 THEN {huPending} ELSE {huPending, huPending \cup {r}}
  /\ UNCHANGED <<huDisk, huOutlived, huStarted, huRestarts>>

\* gather is over; HACS writes its own data.
WriteBegins(q) ==
  /\ huReq[q].pc = "refresh" /\ huReq[q].todo \cup huReq[q].active = {}
  /\ huReq' = [huReq EXCEPT ![q].pc = "write"]
  /\ UNCHANGED <<huStore, huDisk, huPending, huOutlived, huStarted, huRestarts>>

\* The finally clause clears the flag, whoever set it.
RefreshEnds(q) ==
  /\ huReq[q].pc = "write"
  /\ huStore' = [huStore EXCEPT !.busy = FALSE]
  /\ huReq' = [huReq EXCEPT ![q] = IdleRequest]
  /\ UNCHANGED <<huDisk, huPending, huOutlived, huStarted, huRestarts>>

\* STALE_REFRESH_AFTER has passed since refresh_started_at.
FlagAges ==
  /\ InProgress(huStore)
  /\ huStore' = [huStore EXCEPT !.old = TRUE]
  /\ huDisk' = IF huDisk.busy THEN [huDisk EXCEPT !.old = TRUE] ELSE huDisk
  /\ huOutlived' = (huOutlived \/ \E q \in Requests : Refreshing(q))
  /\ UNCHANGED <<huReq, huPending, huStarted, huRestarts>>

-----------------------------------------------------------------------------

\* async_hacs_update_all.
UpdateBegins(q, selected) ==
  /\ huReq[q].pc = "idle" /\ selected # {}
  /\ huReq' = [huReq EXCEPT ![q] = [IdleRequest EXCEPT !.pc = "update", !.todo = selected]]
  /\ UNCHANGED <<huStore, huDisk, huPending, huOutlived, huStarted, huRestarts>>

\* A repository with nothing pending is passed over; the others are
\* installed one at a time, each with a time limit.
InstallBegins(q, r) ==
  /\ huReq[q].pc = "update" /\ huReq[q].active = {} /\ r \in huReq[q].todo
  /\ huReq' = [huReq EXCEPT ![q].todo = @ \ {r},
                            ![q].active = IF r \in huPending THEN {r} ELSE {}]
  /\ UNCHANGED <<huStore, huDisk, huPending, huOutlived, huStarted, huRestarts>>

\* Installed, or failed or timed out, in which case the rest still follows.
InstallEnds(q, r) ==
  /\ huReq[q].pc = "update" /\ r \in huReq[q].active
  /\ huPending' \in {huPending, huPending \ {r}}
  /\ huReq' = [huReq EXCEPT ![q].active = {}, ![q].tried = @ \cup {r}]
  /\ UNCHANGED <<huStore, huDisk, huOutlived, huStarted, huRestarts>>

UpdateEnds(q) ==
  /\ huReq[q].pc = "update" /\ huReq[q].todo \cup huReq[q].active = {}
  /\ huReq' = [huReq EXCEPT ![q] = IdleRequest]
  /\ UNCHANGED <<huStore, huDisk, huPending, huOutlived, huStarted, huRestarts>>

-----------------------------------------------------------------------------

StoreSaved ==
  /\ huDisk # huStore
  /\ huDisk' = huStore
  /\ UNCHANGED <<huStore, huReq, huPending, huOutlived, huStarted, huRestarts>>

Restarted ==
  /\ huRestarts < MaxHacsRestarts
  /\ huRestarts' = huRestarts + 1
  /\ huStore' = huDisk
  /\ huReq' = [q \in Requests |-> IdleRequest]
  /\ UNCHANGED <<huDisk, huPending, huOutlived, huStarted>>

RequestStep(q) ==
  \/ \E r \in Repos : \/ RepoAsked(q, r) \/ RepoAnswers(q, r)
                      \/ InstallBegins(q, r) \/ InstallEnds(q, r)
  \/ WriteBegins(q) \/ RefreshEnds(q) \/ UpdateEnds(q)

HuNext ==
  \/ \E q \in Requests : RequestStep(q)
  \/ \E q \in Requests, s \in SUBSET Repos : RefreshBegins(q, s) \/ UpdateBegins(q, s)
  \/ FlagAges \/ StoreSaved \/ Restarted

HuSpec == HuInit /\ [][HuNext]_huVars

-----------------------------------------------------------------------------
(* Properties.                                                             *)

\* Unless a refresh outlived its flag, at most one is running, and the flag
\* is up for as long as it is.
OneRefresh ==
  ~huOutlived =>
    /\ Cardinality({q \in Requests : Refreshing(q)}) <= 1
    /\ \A q \in Requests : Refreshing(q) => InProgress(huStore)

\* Unless a refresh outlived its flag, the progress the panel shows is that of
\* the refresh that runs, and never exceeds its total.
ProgressIsOwn ==
  ~huOutlived =>
    /\ huStore.failed <= huStore.done /\ huStore.done <= huStore.total
    /\ \A q \in Requests : Refreshing(q) =>
         /\ huStore.done = huReq[q].done /\ huStore.failed = huReq[q].failed
         /\ huStore.total = huReq[q].done + Cardinality(huReq[q].todo \cup huReq[q].active)

\* No crash and no reload in the middle of a refresh shuts refreshing out for
\* good.
RefreshPossible == []<>MayRefresh

\* One refresh at a time, and the panel shows the progress of that one.
RefreshExclusive == HuTypeOK /\ OneRefresh /\ ProgressIsOwn
=============================================================================
