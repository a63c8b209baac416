---------------------------- MODULE RecordsProofs ----------------------------
(***************************************************************************)
(* The records HA SOC keeps of the controller, of HACS and of what the audit*)
(* log shows.  For any number of collections, panels, changes and losses, the*)
(* ledger's history is against the baseline in force, and the baseline is  *)
(* what its owner was shown; for any number of requests and repositories, one*)
(* refresh is in progress, and the store shows it truly; whatever the      *)
(* thresholds, no burst is missed, a call counts once, an escalation is    *)
(* reported and a resolved detection stays resolved.                       *)
(***************************************************************************)
EXTENDS ConfigLedger, HacsUpdates, DetectionPass, FiniteSetTheorems, WellFoundedInduction, TLAPS

FullSnapshots == [Collections -> Values \cup {Missing}]
FetchRecs == [kind : {"none", "record", "get", "accept"}, pos : 0 .. 6,
              snap : FullSnapshots, digest : Snapshots]
DriftRecs == [digest : FullSnapshots, baseline : FullSnapshots]

LedgerShape ==
  /\ lgConf \in [Collections -> Values]
  /\ lgBaseline \in Snapshots /\ lgAccepted \in Snapshots
  /\ lgHistory \in Seq(DriftRecs) /\ Len(lgHistory) <= MaxDriftHistory
  /\ lgFetch \in [Fetchers -> FetchRecs]
  /\ lgShown \in [Panels -> Snapshots]
  /\ lgPut \in [pc : {"idle", "read", "sent"}, raw : Values]
  /\ lgChanges \in 0 .. MaxAdminChanges /\ lgLosses \in 0 .. MaxLosses

LedgerInv == LedgerShape /\ HistoryIsAgainstBaseline /\ AcceptedAsShown

(* What was read of a configuration is not the absence of a baseline.      *)
LEMMA FullIsSnapshot == FullSnapshots \subseteq Snapshots \ {NoSnapshot}
<1>1. ASSUME NEW s \in FullSnapshots PROVE s # NoSnapshot
  <2>1. DOMAIN s = Collections /\ DOMAIN NoSnapshot = {}
    BY DEF FullSnapshots, NoSnapshot
  <2>. QED
    BY <2>1, LedgerAssumption
<1>. QED
  BY <1>1 DEF FullSnapshots, Snapshots

(* The invariant says what the runs check.                                 *)
LEMMA LedgerInvImplies == LedgerInv => LedgerTrue
<1> SUFFICES ASSUME LedgerInv PROVE LgTypeOK
  BY DEF LedgerInv, LedgerTrue
<1>1. ASSUME NEW i \in 1 .. Len(lgHistory)
      PROVE  /\ lgHistory[i].digest \in Snapshots \ {NoSnapshot}
             /\ lgHistory[i].baseline \in Snapshots \ {NoSnapshot}
  <2>1. lgHistory[i] \in DriftRecs
    BY DEF LedgerInv, LedgerShape
  <2>. QED
    BY <2>1, FullIsSnapshot DEF DriftRecs
<1>2. ASSUME NEW f \in Fetchers
      PROVE  /\ lgFetch[f].kind \in {"none", "record", "get", "accept"}
             /\ lgFetch[f].pos \in 0 .. 6
             /\ {lgFetch[f].snap, lgFetch[f].digest} \subseteq Snapshots
  BY FullIsSnapshot DEF LedgerInv, LedgerShape, FetchRecs
<1>. QED
  BY <1>1, <1>2 DEF LedgerInv, LedgerShape, LgTypeOK

LEMMA NoFetchType == NoFetch \in FetchRecs
BY DEF NoFetch, FetchRecs, Unread, FullSnapshots, Snapshots

LEMMA LedgerInit == LgInit => LedgerInv
<1> SUFFICES ASSUME LgInit PROVE LedgerInv
  OBVIOUS
<1> USE LedgerAssumption DEF LgInit
<1>1. lgFetch \in [Fetchers -> FetchRecs]
  BY NoFetchType
<1>2. lgConf \in [Collections -> Values] /\ lgPut \in [pc : {"idle", "read", "sent"}, raw : Values]
  BY DEF Values
<1>3. lgBaseline \in Snapshots /\ lgAccepted \in Snapshots /\ lgShown \in [Panels -> Snapshots]
  BY DEF Snapshots
<1>. QED
  BY <1>1, <1>2, <1>3 DEF LedgerInv, LedgerShape, HistoryIsAgainstBaseline, AcceptedAsShown

(* Trimming keeps a prefix within the limit.                               *)
LEMMA TrimKeeps ==
  ASSUME NEW h \in Seq(DriftRecs)
  PROVE  /\ Trim(h) \in Seq(DriftRecs) /\ Len(Trim(h)) <= MaxDriftHistory
         /\ Len(Trim(h)) <= Len(h)
         /\ \A i \in 1 .. Len(Trim(h)) : Trim(h)[i] = h[i]
BY LedgerAssumption DEF Trim

(* One more collection read is a fetch still.                              *)
LEMMA ReadType ==
  ASSUME NEW r \in FetchRecs, NEW i \in 0 .. 6, CollectionOrder[i] \in Collections,
         lgConf \in [Collections -> Values]
  PROVE  WithRead(r, i) \in FetchRecs
<1> DEFINE c == CollectionOrder[i]
           s == [r.snap EXCEPT ![c] = lgConf[c]]
<1>1. s \in FullSnapshots
  <2> HIDE DEF c
  <2>1. c \in Collections
    BY DEF c
  <2>. QED
    BY <2>1 DEF FetchRecs, FullSnapshots
<1>2. WithRead(r, i) = [r EXCEPT !.pos = i, !.snap = s]
  BY DEF WithRead
<1> HIDE DEF s
<1>. QED
  BY <1>1, <1>2 DEF FetchRecs

(* Every step keeps the invariant.                                         *)
LEMMA LedgerStep == LedgerInv /\ [LgNext]_lgVars => LedgerInv'
<1> SUFFICES ASSUME LedgerInv, [LgNext]_lgVars PROVE LedgerInv'
  OBVIOUS
<1> USE LedgerAssumption DEF LedgerInv, LedgerShape, lgStored, lgBounds
<1>0. ASSUME UNCHANGED lgStored PROVE HistoryIsAgainstBaseline' /\ AcceptedAsShown'
  BY <1>0 DEF HistoryIsAgainstBaseline, AcceptedAsShown
<1>1. ASSUME NEW c \in Collections, AdminChanges(c) PROVE LedgerInv'
  <2>1. lgConf' \in [Collections -> Values]
    <3>1. lgConf \in [Collections -> Values] /\ lgConf[c] \in Values
      OBVIOUS
    <3>2. PICK v : v = <<1 - lgConf[c][1], lgConf[c][2]>>
      OBVIOUS
    <3>3. v \in Values
      BY <3>1, <3>2 DEF Values
    <3>4. lgConf' = [lgConf EXCEPT ![c] = v]
      BY <1>1, <3>2 DEF AdminChanges
    <3>. QED
      BY <3>1, <3>3, <3>4
  <2>. QED
    BY <1>0, <1>1, <2>1 DEF AdminChanges
<1>2. ASSUME PutReads \/ PutWrites \/ PutEnds PROVE LedgerInv'
  <2>1. CASE PutReads
    BY <1>0, <2>1 DEF PutReads
  <2>2. CASE PutWrites
    <3>1. <<lgPut.raw[1], FALSE>> \in Values
      BY DEF Values
    <3>2. lgConf' \in [Collections -> Values]
      BY <2>2, <3>1 DEF PutWrites
    <3>3. lgPut' \in [pc : {"idle", "read", "sent"}, raw : Values]
      BY <2>2 DEF PutWrites
    <3>. QED
      BY <1>0, <2>2, <3>2, <3>3 DEF PutWrites
  <2>3. CASE PutEnds
    <3>1. lgPut' \in [pc : {"idle", "read", "sent"}, raw : Values]
      BY <2>3 DEF PutEnds
    <3>2. lgLosses' \in 0 .. MaxLosses
      BY <2>3 DEF PutEnds
    <3>. QED
      BY <1>0, <2>3, <3>1, <3>2 DEF PutEnds
  <2>. QED
    BY <1>2, <2>1, <2>2, <2>3
<1>3. ASSUME NEW f \in Fetchers, NEW kind \in {"record", "get", "accept"}, NEW d \in Snapshots,
             FetchBegins(f, kind, d)
      PROVE  LedgerInv'
  <2>1. [NoFetch EXCEPT !.kind = kind, !.digest = d] \in FetchRecs
    BY NoFetchType DEF FetchRecs
  <2>. QED
    BY <1>0, <1>3, <2>1 DEF FetchBegins
<1>4. ASSUME TickBegins PROVE LedgerInv'
  BY <1>3, <1>4 DEF TickBegins, Fetchers, Snapshots
<1>5. ASSUME NEW p \in Panels, GetBegins(p) \/ AcceptBegins(p) PROVE LedgerInv'
  <2>1. p \in Fetchers /\ NoSnapshot \in Snapshots /\ lgShown[p] \in Snapshots
    BY DEF Fetchers, Snapshots
  <2>. QED
    BY <1>3, <1>5, <2>1 DEF GetBegins, AcceptBegins
<1>6. ASSUME NEW f \in Fetchers, CollectionRead(f) PROVE LedgerInv'
  <2>1. PICK i \in 1 .. 6 : /\ CollectionOrder[i] \in Collections
                           /\ lgFetch' = [lgFetch EXCEPT ![f] = WithRead(lgFetch[f], i)]
    BY <1>6, Zenon DEF CollectionRead, ReadsNext, Ahead
  <2>2. WithRead(lgFetch[f], i) \in FetchRecs
    <3>1. lgFetch[f] \in FetchRecs /\ lgConf \in [Collections -> Values] /\ i \in 0 .. 6
      OBVIOUS
    <3>. QED
      BY <2>1, <3>1, ReadType
  <2>. QED
    BY <1>0, <1>6, <2>1, <2>2 DEF CollectionRead
<1>7. ASSUME NEW f \in Fetchers, Unavailable(f) PROVE LedgerInv'
  BY <1>0, <1>7, NoFetchType DEF Unavailable
<1>8. ASSUME NEW f \in Fetchers, RowsLost(f) PROVE LedgerInv'
  <2>1. PICK i \in 1 .. 6 : lgFetch' = [lgFetch EXCEPT ![f].pos = i]
    BY <1>8, Zenon DEF RowsLost
  <2>2. lgFetch' \in [Fetchers -> FetchRecs]
    BY <2>1 DEF FetchRecs
  <2>. QED
    BY <1>0, <1>8, <2>2 DEF RowsLost
<1>9. ASSUME TickRecords PROVE LedgerInv'
  <2> DEFINE now == lgFetch[NoPanel].snap
             entry == [digest |-> now, baseline |-> lgBaseline]
  <2>1. now \in FullSnapshots /\ lgFetch' \in [Fetchers -> FetchRecs]
    BY <1>9, NoFetchType DEF TickRecords, Done, Fetchers, FetchRecs
  <2>2. UNCHANGED <<lgConf, lgBaseline, lgAccepted, lgShown, lgPut, lgChanges, lgLosses>>
    BY <1>9 DEF TickRecords
  <2>3. CASE lgBaseline # NoSnapshot /\ now # lgBaseline /\ ~AlreadyRecorded(now)
    <3>1. lgHistory' = Trim(<<entry>> \o lgHistory)
      BY <1>9, <2>3 DEF TickRecords
    <3>2. lgBaseline \in FullSnapshots
      BY <2>3 DEF Snapshots, FullSnapshots
    <3>3. entry \in DriftRecs
      BY <2>1, <3>2 DEF DriftRecs
    <3> DEFINE all == <<entry>> \o lgHistory
    <3>4. /\ all \in Seq(DriftRecs) /\ Len(all) = Len(lgHistory) + 1 /\ all[1] = entry
          /\ \A i \in 1 .. Len(all) : i > 1 => all[i] = lgHistory[i - 1]
      <4> HIDE DEF entry
      <4>. QED
        BY <3>3
    <3>5. \A i \in 1 .. Len(all) : all[i].baseline = lgBaseline /\ all[i].digest # lgBaseline
      <4>1. ASSUME NEW i \in 1 .. Len(all)
            PROVE  all[i].baseline = lgBaseline /\ all[i].digest # lgBaseline
        <5>1. CASE i = 1
          BY <2>3, <3>4, <5>1
        <5>2. CASE i > 1
          <6>1. i - 1 \in 1 .. Len(lgHistory) /\ all[i] = lgHistory[i - 1]
            BY <3>4, <5>2
          <6>. QED
            BY <6>1 DEF HistoryIsAgainstBaseline
        <5>. QED
          BY <5>1, <5>2
      <4>. QED
        BY <4>1
    <3> HIDE DEF all, entry
    <3>0. lgHistory' = Trim(all)
      BY <3>1 DEF all
    <3>6. /\ lgHistory' \in Seq(DriftRecs) /\ Len(lgHistory') <= MaxDriftHistory
          /\ HistoryIsAgainstBaseline'
      <4>1. /\ Trim(all) \in Seq(DriftRecs) /\ Len(Trim(all)) <= MaxDriftHistory
            /\ Len(Trim(all)) <= Len(all)
            /\ \A i \in 1 .. Len(Trim(all)) : Trim(all)[i] = all[i]
        BY <3>4, TrimKeeps
      <4>2. Len(Trim(all)) \in Nat /\ Len(all) \in Nat
        BY <3>4, <4>1
      <4>. QED
        BY <2>2, <3>0, <3>5, <4>1, <4>2 DEF HistoryIsAgainstBaseline
    <3>. QED
      BY <2>1, <2>2, <3>6 DEF AcceptedAsShown
  <2>4. CASE ~(lgBaseline # NoSnapshot /\ now # lgBaseline /\ ~AlreadyRecorded(now))
    <3>1. lgHistory' = lgHistory
      BY <1>9, <2>4 DEF TickRecords
    <3>. QED
      BY <1>0, <2>1, <2>2, <3>1
  <2>. QED
    BY <2>3, <2>4
<1>10. ASSUME NEW p \in Panels, GetShows(p) PROVE LedgerInv'
  <2>1. p \in Fetchers /\ lgFetch[p].snap \in Snapshots
    BY FullIsSnapshot DEF Fetchers, FetchRecs
  <2>. QED
    BY <1>0, <1>10, <2>1, NoFetchType DEF GetShows, Done
<1>11. ASSUME NEW p \in Panels, Accepts(p) PROVE LedgerInv'
  <2>1. p \in Fetchers /\ lgFetch[p].snap \in Snapshots /\ lgFetch[p].digest \in Snapshots
    BY FullIsSnapshot DEF Fetchers, FetchRecs
  <2>2. UNCHANGED <<lgConf, lgShown, lgPut, lgBounds>> /\ lgFetch' \in [Fetchers -> FetchRecs]
    BY <1>11, NoFetchType DEF Accepts, Done
  <2>3. CASE StillShown(p)
    BY <1>11, <2>1, <2>2, <2>3
       DEF Accepts, StillShown, HistoryAfterAccept, HistoryIsAgainstBaseline, AcceptedAsShown
  <2>4. CASE ~StillShown(p)
    BY <1>0, <1>11, <2>2, <2>4 DEF Accepts
  <2>. QED
    BY <2>3, <2>4
<1>12. CASE UNCHANGED lgVars
  BY <1>0, <1>12 DEF lgVars
<1>. QED
  BY <1>1, <1>2, <1>4, <1>5, <1>6, <1>7, <1>8, <1>9, <1>10, <1>11, <1>12 DEF LgNext

(* However reads, acceptances, write-backs and the timer overlap: recorded *)
(* drift is drift from the baseline in force, and the baseline is the      *)
(* configuration its owner was shown (record_drift, accept_baseline).      *)
THEOREM LedgerHolds == LgSpec => []LedgerTrue
<1>1. LgSpec => []LedgerInv
  BY LedgerInit, LedgerStep, PTL DEF LgSpec
<1>. QED
  BY <1>1, LedgerInvImplies, PTL

-------------------------------------------------------------------------------
(***************************************************************************)
(* The refreshes and updates of HACS.                                      *)
(***************************************************************************)
HacsRequests ==
  [pc : {"idle", "refresh", "write", "update"}, todo : SUBSET Repos, active : SUBSET Repos,
   done : Counts, failed : Counts, tried : SUBSET Repos]

HuShape ==
  /\ huStore \in RefreshRecord /\ huDisk \in RefreshRecord
  /\ huReq \in [Requests -> HacsRequests]
  /\ huPending \subseteq Repos /\ huOutlived \in BOOLEAN
  /\ huStarted \in 0 .. MaxRefreshes /\ huRestarts \in 0 .. MaxHacsRestarts

\* What one request holds of its own: a repository is waiting or asked, and a
\* refresh counts no repository twice.
RequestSound(rec) ==
  /\ rec.todo \cap rec.active = {}
  /\ Cardinality(rec.active) <= Concurrency
  /\ rec.pc \in {"refresh", "write"} =>
       /\ rec.failed <= rec.done
       /\ rec.done + Cardinality(rec.todo \cup rec.active) <= Cardinality(Repos)

\* What the store shows of the refresh that runs.
ShownBy(rec) ==
  /\ InProgress(huStore)
  /\ huStore.done = rec.done /\ huStore.failed = rec.failed
  /\ huStore.total = rec.done + Cardinality(rec.todo \cup rec.active)

CountsOrdered(s) == s.failed <= s.done /\ s.done <= s.total

OwnProgress ==
  ~huOutlived =>
    /\ \A p, q \in Requests : Refreshing(p) /\ Refreshing(q) => p = q
    /\ \A q \in Requests : Refreshing(q) => ShownBy(huReq[q])
    /\ CountsOrdered(huStore) /\ CountsOrdered(huDisk)

HacsInv == HuShape /\ (\A q \in Requests : RequestSound(huReq[q])) /\ OwnProgress

(* The number of repositories is a number, and that of every selection too. *)
LEMMA RepoCounts ==
  /\ Cardinality(Repos) \in Nat /\ Counts \subseteq Nat
  /\ 0 \in Counts /\ Cardinality(Repos) \in Counts
  /\ \A S \in SUBSET Repos : IsFiniteSet(S) /\ Cardinality(S) \in Counts
<1>1. IsFiniteSet(Repos) /\ Cardinality(Repos) \in Nat
  BY HacsAssumption, FS_CardinalityType
<1>2. ASSUME NEW S \in SUBSET Repos
      PROVE  IsFiniteSet(S) /\ Cardinality(S) \in Nat /\ Cardinality(S) <= Cardinality(Repos)
  <2>1. IsFiniteSet(S) /\ Cardinality(S) <= Cardinality(Repos)
    BY <1>1, FS_Subset
  <2>. QED
    BY <2>1, FS_CardinalityType
<1>. QED
  BY <1>1, <1>2 DEF Counts

(* What it takes to be idle. *)
LEMMA IdleSound == IdleRequest \in HacsRequests /\ RequestSound(IdleRequest)
<1>1. Cardinality({}) = 0
  BY FS_EmptySet
<1>. QED
  BY <1>1, RepoCounts, HacsAssumption DEF IdleRequest, HacsRequests, RequestSound

(* The invariant says what the run checks. *)
LEMMA HacsInvImplies == HacsInv => RefreshExclusive
<1> SUFFICES ASSUME HacsInv PROVE RefreshExclusive
  OBVIOUS
<1>1. HuTypeOK
  BY DEF HacsInv, HuShape, HuTypeOK, HacsRequests, RequestSound
<1>2. OneRefresh
  <2> SUFFICES ASSUME ~huOutlived
               PROVE  /\ Cardinality({q \in Requests : Refreshing(q)}) <= 1
                      /\ \A q \in Requests : Refreshing(q) => InProgress(huStore)
    BY DEF OneRefresh
  <2>1. \A q \in Requests : Refreshing(q) => InProgress(huStore)
    BY DEF HacsInv, OwnProgress, ShownBy
  <2>2. CASE \A q \in Requests : ~Refreshing(q)
    <3>1. {q \in Requests : Refreshing(q)} = {}
      BY <2>2
    <3>2. Cardinality({q \in Requests : Refreshing(q)}) = 0
      BY <3>1, FS_EmptySet
    <3>. QED
      BY <3>2, <2>1
  <2>3. CASE \E q \in Requests : Refreshing(q)
    <3>1. PICK q \in Requests : Refreshing(q)
      BY <2>3
    <3>2. {p \in Requests : Refreshing(p)} = {q}
      BY <3>1 DEF HacsInv, OwnProgress
    <3>3. Cardinality({p \in Requests : Refreshing(p)}) = 1
      BY <3>2, FS_Singleton
    <3>. QED
      BY <3>3, <2>1
  <2>. QED
    BY <2>2, <2>3
<1>3. ProgressIsOwn
  BY DEF HacsInv, OwnProgress, ShownBy, CountsOrdered, ProgressIsOwn
<1>. QED
  BY <1>1, <1>2, <1>3 DEF RefreshExclusive

LEMMA HacsInit == HuInit => HacsInv
<1> SUFFICES ASSUME HuInit PROVE HacsInv
  OBVIOUS
<1> USE RepoCounts, HacsAssumption DEF HuInit
<1>1. HuShape
  <2>1. Fresh \in RefreshRecord
    BY DEF RefreshRecord, Fresh
  <2>2. 0 \in 0 .. MaxRefreshes /\ 0 \in 0 .. MaxHacsRestarts
    OBVIOUS
  <2>. QED
    BY <2>1, <2>2, IdleSound DEF HuShape
<1>2. \A q \in Requests : RequestSound(huReq[q])
  BY IdleSound
<1>3. OwnProgress
  BY DEF OwnProgress, Refreshing, IdleRequest, CountsOrdered, Fresh
<1>. QED
  BY <1>1, <1>2, <1>3 DEF HacsInv

(* A request that changes for itself, and is or stays out of the refreshes. *)
LEMMA RequestMoves ==
  ASSUME HacsInv, NEW q \in Requests, NEW rec \in HacsRequests, RequestSound(rec),
         huReq' = [huReq EXCEPT ![q] = rec],
         \/ rec.pc \notin {"refresh", "write"}
         \/ /\ Refreshing(q)
            /\ rec.done = huReq[q].done /\ rec.failed = huReq[q].failed
            /\ rec.todo \cup rec.active = huReq[q].todo \cup huReq[q].active,
         huPending' \subseteq Repos, huStarted' \in 0 .. MaxRefreshes,
         huStore' = huStore, huDisk' = huDisk, huOutlived' = huOutlived, huRestarts' = huRestarts
  PROVE  HacsInv'
<1>1. huReq \in [Requests -> HacsRequests]
  BY DEF HacsInv, HuShape
<1>2. huReq'[q] = rec /\ \A p \in Requests \ {q} : huReq'[p] = huReq[p]
  BY <1>1
<1>3. HuShape'
  BY <1>1 DEF HacsInv, HuShape
<1>4. \A p \in Requests : RequestSound(huReq'[p])
  BY <1>2 DEF HacsInv
<1>5. ASSUME NEW p \in Requests, Refreshing(p)'
      PROVE  /\ Refreshing(p)
             /\ huReq'[p].done = huReq[p].done /\ huReq'[p].failed = huReq[p].failed
             /\ huReq'[p].todo \cup huReq'[p].active = huReq[p].todo \cup huReq[p].active
  BY <1>2, <1>5 DEF Refreshing
<1>6. OwnProgress'
  <2> SUFFICES ASSUME ~huOutlived'
               PROVE  /\ \A p, r \in Requests : Refreshing(p)' /\ Refreshing(r)' => p = r
                      /\ \A p \in Requests : Refreshing(p)' => ShownBy(huReq[p])'
                      /\ CountsOrdered(huStore') /\ CountsOrdered(huDisk')
    BY DEF OwnProgress
  <2>1. /\ \A p, r \in Requests : Refreshing(p) /\ Refreshing(r) => p = r
        /\ \A p \in Requests : Refreshing(p) => ShownBy(huReq[p])
        /\ CountsOrdered(huStore) /\ CountsOrdered(huDisk)
    BY DEF HacsInv, OwnProgress
  <2>2. ASSUME NEW p \in Requests, Refreshing(p)' PROVE ShownBy(huReq[p])'
    BY <1>5, <2>1, <2>2 DEF ShownBy, InProgress
  <2>. QED
    BY <1>5, <2>1, <2>2
<1>. QED
  BY <1>3, <1>4, <1>6 DEF HacsInv

LEMMA HacsRefreshBegins ==
  ASSUME HacsInv, NEW q \in Requests, NEW selected \in SUBSET Repos, RefreshBegins(q, selected)
  PROVE  HacsInv'
<1> DEFINE rec == [IdleRequest EXCEPT !.pc = "refresh", !.todo = selected]
<1>1. huReq \in [Requests -> HacsRequests] /\ huReq' = [huReq EXCEPT ![q] = rec]
  BY DEF HacsInv, HuShape, RefreshBegins
<1>2. /\ rec \in HacsRequests
      /\ rec.pc = "refresh" /\ rec.todo = selected /\ rec.active = {}
      /\ rec.done = 0 /\ rec.failed = 0
  BY RepoCounts DEF IdleRequest, HacsRequests
<1> HIDE DEF rec
<1>3. PICK n \in Counts : n = Cardinality(selected)
  BY RepoCounts
<1>4. rec.todo \cup rec.active = selected /\ rec.todo \cap rec.active = {}
  BY <1>2
<1>5. RequestSound(rec)
  BY <1>2, <1>3, <1>4, RepoCounts, HacsAssumption, FS_EmptySet DEF RequestSound, Counts
<1>6. huReq'[q] = rec /\ \A p \in Requests \ {q} : huReq'[p] = huReq[p]
  BY <1>1
<1>7. /\ huStore' = [busy |-> TRUE, old |-> FALSE, total |-> n, done |-> 0, failed |-> 0]
      /\ huDisk' = huDisk /\ huOutlived' = huOutlived /\ ~InProgress(huStore)
  BY <1>3 DEF RefreshBegins, StartCounters, MayRefresh
<1>8. HuShape'
  <2>1. huStore' \in RefreshRecord
    BY <1>7, RepoCounts DEF RefreshRecord
  <2>2. huStarted' \in 0 .. MaxRefreshes
    BY HacsAssumption DEF HacsInv, HuShape, RefreshBegins
  <2>. QED
    BY <1>1, <1>2, <2>1, <2>2 DEF HacsInv, HuShape, RefreshBegins
<1>9. \A p \in Requests : RequestSound(huReq'[p])
  BY <1>5, <1>6 DEF HacsInv
<1>10. OwnProgress'
  <2> SUFFICES ASSUME ~huOutlived'
               PROVE  /\ \A p, r \in Requests : Refreshing(p)' /\ Refreshing(r)' => p = r
                      /\ \A p \in Requests : Refreshing(p)' => ShownBy(huReq[p])'
                      /\ CountsOrdered(huStore') /\ CountsOrdered(huDisk')
    BY DEF OwnProgress
  <2>1. \A p \in Requests : ~Refreshing(p)
    BY <1>7 DEF HacsInv, OwnProgress, ShownBy
  <2>2. \A p \in Requests : Refreshing(p)' => p = q
    BY <1>6, <2>1 DEF Refreshing
  <2>3. ShownBy(huReq[q])'
    <3>1. /\ huStore'.busy /\ ~huStore'.old
          /\ huStore'.done = 0 /\ huStore'.failed = 0 /\ huStore'.total = 0 + n
      BY <1>7 DEF Counts
    <3>. QED
      BY <1>2, <1>3, <1>4, <1>6, <3>1 DEF ShownBy, InProgress
  <2>4. CountsOrdered(huStore')
    BY <1>7, RepoCounts DEF CountsOrdered
  <2>5. CountsOrdered(huDisk')
    BY <1>7 DEF HacsInv, OwnProgress
  <2>. QED
    BY <2>2, <2>3, <2>4, <2>5
<1>. QED
  BY <1>8, <1>9, <1>10 DEF HacsInv

LEMMA HacsRepoAsked ==
  ASSUME HacsInv, NEW q \in Requests, NEW r \in Repos, RepoAsked(q, r) PROVE HacsInv'
<1> DEFINE rec == [huReq[q] EXCEPT !.todo = huReq[q].todo \ {r}, !.active = huReq[q].active \cup {r}]
<1>1. huReq \in [Requests -> HacsRequests] /\ huReq[q] \in HacsRequests /\ RequestSound(huReq[q])
  BY DEF HacsInv, HuShape
<1>2. huReq' = [huReq EXCEPT ![q] = rec]
  BY <1>1 DEF RepoAsked
<1>3. /\ rec \in HacsRequests /\ rec.pc = huReq[q].pc
      /\ rec.done = huReq[q].done /\ rec.failed = huReq[q].failed
      /\ rec.todo = huReq[q].todo \ {r} /\ rec.active = huReq[q].active \cup {r}
  BY <1>1 DEF HacsRequests
<1> HIDE DEF rec
<1>4. /\ r \in huReq[q].todo /\ r \notin huReq[q].active
      /\ Cardinality(huReq[q].active) < Concurrency /\ huReq[q].pc = "refresh"
  BY <1>1 DEF RepoAsked, RequestSound
<1>5. Cardinality(rec.active) <= Concurrency
  <2>1. IsFiniteSet(huReq[q].active) /\ Cardinality(huReq[q].active) \in Nat
    BY <1>1, RepoCounts DEF HacsRequests
  <2>2. Cardinality(huReq[q].active \cup {r}) = Cardinality(huReq[q].active) + 1
    BY <1>4, <2>1, FS_AddElement
  <2>. QED
    BY <1>3, <1>4, <2>1, <2>2, HacsAssumption
<1>6. rec.todo \cup rec.active = huReq[q].todo \cup huReq[q].active /\ rec.todo \cap rec.active = {}
  BY <1>1, <1>3, <1>4 DEF RequestSound
<1>7. RequestSound(rec)
  BY <1>1, <1>3, <1>4, <1>5, <1>6 DEF RequestSound
<1>8. Refreshing(q)
  BY <1>4 DEF Refreshing
<1>. QED
  BY <1>2, <1>3, <1>6, <1>7, <1>8, RequestMoves DEF RepoAsked, HacsInv, HuShape

LEMMA HacsRepoAnswers ==
  ASSUME HacsInv, NEW q \in Requests, NEW r \in Repos, RepoAnswers(q, r) PROVE HacsInv'
<1>1. huReq \in [Requests -> HacsRequests] /\ huReq[q] \in HacsRequests /\ RequestSound(huReq[q])
  BY DEF HacsInv, HuShape
<1>2. PICK lost \in {0, 1} :
        /\ huReq' = [huReq EXCEPT ![q].active = @ \ {r}, ![q].done = @ + 1, ![q].failed = @ + lost]
        /\ huStore' = [huStore EXCEPT !.done = huReq[q].done + 1, !.failed = huReq[q].failed + lost]
        /\ huPending' \subseteq Repos
  BY DEF RepoAnswers, HacsInv, HuShape
<1> DEFINE rec == [huReq[q] EXCEPT !.active = huReq[q].active \ {r}, !.done = huReq[q].done + 1,
                                   !.failed = huReq[q].failed + lost]
<1>3. huReq' = [huReq EXCEPT ![q] = rec]
  BY <1>1, <1>2
<1>4. /\ r \in huReq[q].active /\ r \notin huReq[q].todo /\ huReq[q].pc = "refresh"
      /\ huDisk' = huDisk /\ huOutlived' = huOutlived /\ huStarted' = huStarted /\ huRestarts' = huRestarts
  BY <1>1 DEF RepoAnswers, RequestSound
<1>5. PICK d, f, n \in Nat : /\ d = huReq[q].done /\ f = huReq[q].failed
                             /\ n = Cardinality(huReq[q].todo \cup huReq[q].active)
  <2>1. huReq[q].todo \cup huReq[q].active \in SUBSET Repos
    BY <1>1 DEF HacsRequests
  <2>2. huReq[q].done \in Nat /\ huReq[q].failed \in Nat
    BY <1>1, RepoCounts DEF HacsRequests
  <2>. QED
    BY <2>1, <2>2, RepoCounts
<1>6. f <= d /\ d + n <= Cardinality(Repos)
  BY <1>1, <1>4, <1>5 DEF RequestSound
<1>7. /\ n >= 1
      /\ Cardinality(huReq[q].todo \cup (huReq[q].active \ {r})) = n - 1
      /\ Cardinality(huReq[q].active \ {r}) <= Concurrency
  <2>1. /\ IsFiniteSet(huReq[q].todo \cup huReq[q].active)
        /\ IsFiniteSet(huReq[q].active) /\ Cardinality(huReq[q].active) \in Nat
    BY <1>1, RepoCounts DEF HacsRequests
  <2>2. huReq[q].todo \cup (huReq[q].active \ {r}) = (huReq[q].todo \cup huReq[q].active) \ {r}
    BY <1>4
  <2>3. r \in huReq[q].todo \cup huReq[q].active
    BY <1>4
  <2>4. Cardinality((huReq[q].todo \cup huReq[q].active) \ {r}) = n - 1
    BY <1>5, <2>1, <2>3, FS_RemoveElement
  <2>5. PICK a \in Nat : /\ a = Cardinality(huReq[q].active) /\ a <= Concurrency
                         /\ Cardinality(huReq[q].active \ {r}) = a - 1
    BY <1>1, <1>4, <2>1, FS_RemoveElement DEF RequestSound
  <2>6. n # 0
    BY <1>5, <2>1, <2>3, FS_EmptySet
  <2>7. a - 1 <= Concurrency /\ n >= 1
    BY <2>5, <2>6, HacsAssumption
  <2>. QED
    BY <2>2, <2>4, <2>5, <2>7
<1>8. d + 1 \in Counts /\ f + lost \in Counts /\ f + lost <= d + 1
  BY <1>5, <1>6, <1>7, RepoCounts DEF Counts
<1>9. /\ rec \in HacsRequests /\ rec.pc = "refresh"
      /\ rec.done = d + 1 /\ rec.failed = f + lost
      /\ rec.todo = huReq[q].todo /\ rec.active = huReq[q].active \ {r}
  BY <1>1, <1>4, <1>5, <1>8 DEF HacsRequests
<1> HIDE DEF rec
<1>10. RequestSound(rec)
  <2>1. rec.todo \cap rec.active = {}
    BY <1>1, <1>9 DEF RequestSound
  <2>2. (d + 1) + (n - 1) <= Cardinality(Repos)
    BY <1>6, RepoCounts
  <2>. QED
    BY <1>7, <1>8, <1>9, <2>1, <2>2 DEF RequestSound
<1>11. huReq'[q] = rec /\ \A p \in Requests \ {q} : huReq'[p] = huReq[p]
  BY <1>1, <1>3
<1>12. /\ huStore' \in RefreshRecord /\ huStore'.done = d + 1 /\ huStore'.failed = f + lost
       /\ huStore'.total = huStore.total /\ huStore'.busy = huStore.busy /\ huStore'.old = huStore.old
  <2>1. huStore \in RefreshRecord
    BY DEF HacsInv, HuShape
  <2>. QED
    BY <1>2, <1>5, <1>8, <2>1 DEF RefreshRecord
<1>13. HuShape'
  <2>1. huReq' \in [Requests -> HacsRequests]
    BY <1>1, <1>3, <1>9
  <2>2. /\ huStore' \in RefreshRecord /\ huDisk' = huDisk
        /\ huPending' \subseteq Repos /\ huOutlived' = huOutlived
        /\ huStarted' = huStarted /\ huRestarts' = huRestarts
    BY <1>2, <1>4, <1>12
  <2>. QED
    BY <2>1, <2>2 DEF HacsInv, HuShape
<1>14. \A p \in Requests : RequestSound(huReq'[p])
  BY <1>10, <1>11 DEF HacsInv
<1>15. OwnProgress'
  <2> SUFFICES ASSUME ~huOutlived'
               PROVE  /\ \A p, s \in Requests : Refreshing(p)' /\ Refreshing(s)' => p = s
                      /\ \A p \in Requests : Refreshing(p)' => ShownBy(huReq[p])'
                      /\ CountsOrdered(huStore') /\ CountsOrdered(huDisk')
    BY DEF OwnProgress
  <2>1. Refreshing(q) /\ \A p \in Requests : Refreshing(p)' => Refreshing(p)
    BY <1>4, <1>11 DEF Refreshing
  <2>2. /\ \A p \in Requests : Refreshing(p)' => p = q
        /\ ShownBy(huReq[q]) /\ CountsOrdered(huDisk')
    BY <1>4, <2>1 DEF HacsInv, OwnProgress
  <2>3. InProgress(huStore') /\ huStore'.total = d + n
    BY <1>5, <1>12, <2>2 DEF ShownBy, InProgress
  <2>4. ShownBy(huReq[q])'
    <3>1. huStore'.total = (d + 1) + (n - 1)
      BY <2>3
    <3>. QED
      BY <1>7, <1>9, <1>11, <1>12, <2>3, <3>1 DEF ShownBy
  <2>5. CountsOrdered(huStore')
    BY <1>7, <1>8, <1>12, <2>3 DEF CountsOrdered
  <2>. QED
    BY <2>2, <2>4, <2>5
<1>. QED
  BY <1>13, <1>14, <1>15 DEF HacsInv

LEMMA HacsWriteBegins ==
  ASSUME HacsInv, NEW q \in Requests, WriteBegins(q) PROVE HacsInv'
<1> DEFINE rec == [huReq[q] EXCEPT !.pc = "write"]
<1>1. huReq \in [Requests -> HacsRequests] /\ huReq[q] \in HacsRequests /\ RequestSound(huReq[q])
  BY DEF HacsInv, HuShape
<1>2. huReq' = [huReq EXCEPT ![q] = rec] /\ Refreshing(q) /\ huReq[q].pc = "refresh"
  BY <1>1 DEF WriteBegins, Refreshing
<1>3. /\ rec \in HacsRequests /\ rec.done = huReq[q].done /\ rec.failed = huReq[q].failed
      /\ rec.todo = huReq[q].todo /\ rec.active = huReq[q].active
  BY <1>1 DEF HacsRequests
<1> HIDE DEF rec
<1>4. RequestSound(rec)
  BY <1>1, <1>2, <1>3 DEF RequestSound
<1>. QED
  BY <1>2, <1>3, <1>4, RequestMoves DEF WriteBegins, HacsInv, HuShape

LEMMA HacsRefreshEnds ==
  ASSUME HacsInv, NEW q \in Requests, RefreshEnds(q) PROVE HacsInv'
<1>1. /\ huReq \in [Requests -> HacsRequests] /\ huStore \in RefreshRecord
      /\ huReq' = [huReq EXCEPT ![q] = IdleRequest] /\ Refreshing(q)
      /\ huStore' = [huStore EXCEPT !.busy = FALSE]
      /\ huDisk' = huDisk /\ huOutlived' = huOutlived
  BY DEF HacsInv, HuShape, RefreshEnds, Refreshing
<1>2. huReq'[q] = IdleRequest /\ \A p \in Requests \ {q} : huReq'[p] = huReq[p]
  BY <1>1
<1>3. /\ huStore' \in RefreshRecord /\ huStore'.done = huStore.done
      /\ huStore'.failed = huStore.failed /\ huStore'.total = huStore.total
  BY <1>1 DEF RefreshRecord
<1>4. HuShape'
  BY <1>1, <1>3, IdleSound DEF HacsInv, HuShape, RefreshEnds
<1>5. \A p \in Requests : RequestSound(huReq'[p])
  BY <1>2, IdleSound DEF HacsInv
<1>6. OwnProgress'
  <2> SUFFICES ASSUME ~huOutlived'
               PROVE  (\A p \in Requests : ~Refreshing(p)') /\ CountsOrdered(huStore') /\ CountsOrdered(huDisk')
    BY DEF OwnProgress
  <2>1. \A p \in Requests \ {q} : ~Refreshing(p)
    BY <1>1 DEF HacsInv, OwnProgress
  <2>. QED
    BY <1>1, <1>2, <1>3, <2>1 DEF HacsInv, OwnProgress, CountsOrdered, Refreshing, IdleRequest
<1>. QED
  BY <1>4, <1>5, <1>6 DEF HacsInv

LEMMA HacsUpdateBegins ==
  ASSUME HacsInv, NEW q \in Requests, NEW selected \in SUBSET Repos, UpdateBegins(q, selected)
  PROVE  HacsInv'
<1> DEFINE rec == [IdleRequest EXCEPT !.pc = "update", !.todo = selected]
<1>1. rec \in HacsRequests /\ rec.pc = "update" /\ rec.active = {}
  BY RepoCounts DEF IdleRequest, HacsRequests
<1>2. huReq' = [huReq EXCEPT ![q] = rec]
  BY DEF UpdateBegins
<1> HIDE DEF rec
<1>3. RequestSound(rec)
  BY <1>1, HacsAssumption, FS_EmptySet DEF RequestSound
<1>. QED
  BY <1>1, <1>2, <1>3, RequestMoves DEF UpdateBegins, HacsInv, HuShape

LEMMA HacsInstallBegins ==
  ASSUME HacsInv, NEW q \in Requests, NEW r \in Repos, InstallBegins(q, r) PROVE HacsInv'
<1> DEFINE act == IF r \in huPending THEN {r} ELSE {}
           rec == [huReq[q] EXCEPT !.todo = huReq[q].todo \ {r}, !.active = act]
<1>1. huReq \in [Requests -> HacsRequests] /\ huReq[q] \in HacsRequests /\ huReq[q].pc = "update"
  BY DEF HacsInv, HuShape, InstallBegins
<1>2. act \in {{}, {r}} /\ Cardinality({}) = 0 /\ Cardinality({r}) = 1
  BY FS_EmptySet, FS_Singleton
<1>3. huReq' = [huReq EXCEPT ![q] = rec]
  BY <1>1 DEF InstallBegins
<1> HIDE DEF act
<1>4. /\ rec \in HacsRequests /\ rec.pc = "update"
      /\ rec.active = act /\ rec.todo = huReq[q].todo \ {r}
  BY <1>1, <1>2 DEF HacsRequests
<1> HIDE DEF rec
<1>5. RequestSound(rec)
  BY <1>2, <1>4, HacsAssumption DEF RequestSound
<1>. QED
  BY <1>3, <1>4, <1>5, RequestMoves DEF InstallBegins, HacsInv, HuShape

LEMMA HacsInstallEnds ==
  ASSUME HacsInv, NEW q \in Requests, NEW r \in Repos, InstallEnds(q, r) PROVE HacsInv'
<1> DEFINE rec == [huReq[q] EXCEPT !.active = {}, !.tried = huReq[q].tried \cup {r}]
<1>1. huReq \in [Requests -> HacsRequests] /\ huReq[q] \in HacsRequests /\ huReq[q].pc = "update"
  BY DEF HacsInv, HuShape, InstallEnds
<1>2. huReq' = [huReq EXCEPT ![q] = rec]
  BY <1>1 DEF InstallEnds
<1>3. rec \in HacsRequests /\ rec.pc = "update" /\ rec.active = {}
  BY <1>1 DEF HacsRequests
<1> HIDE DEF rec
<1>4. RequestSound(rec)
  BY <1>3, HacsAssumption, FS_EmptySet DEF RequestSound
<1>5. huPending' \subseteq Repos
  BY DEF InstallEnds, HacsInv, HuShape
<1>. QED
  BY <1>2, <1>3, <1>4, <1>5, RequestMoves DEF InstallEnds, HacsInv, HuShape

LEMMA HacsUpdateEnds ==
  ASSUME HacsInv, NEW q \in Requests, UpdateEnds(q) PROVE HacsInv'
<1>1. IdleRequest.pc \notin {"refresh", "write"}
  BY DEF IdleRequest
<1>. QED
  BY <1>1, IdleSound, RequestMoves DEF UpdateEnds, HacsInv, HuShape

LEMMA HacsFlagAges == ASSUME HacsInv, FlagAges PROVE HacsInv'
<1>1. /\ huReq' = huReq /\ huPending' = huPending /\ huStarted' = huStarted /\ huRestarts' = huRestarts
      /\ huStore' = [huStore EXCEPT !.old = TRUE]
      /\ huDisk' \in {huDisk, [huDisk EXCEPT !.old = TRUE]}
      /\ huOutlived' = (huOutlived \/ \E q \in Requests : Refreshing(q))
      /\ huStore \in RefreshRecord /\ huDisk \in RefreshRecord
  BY DEF FlagAges, HacsInv, HuShape
<1>2. /\ huStore' \in RefreshRecord /\ huStore'.done = huStore.done
      /\ huStore'.failed = huStore.failed /\ huStore'.total = huStore.total
  BY <1>1 DEF RefreshRecord
<1>3. /\ huDisk' \in RefreshRecord /\ huDisk'.done = huDisk.done
      /\ huDisk'.failed = huDisk.failed /\ huDisk'.total = huDisk.total
  BY <1>1 DEF RefreshRecord
<1>4. HuShape'
  BY <1>1, <1>2, <1>3 DEF HacsInv, HuShape
<1>5. OwnProgress'
  <2> SUFFICES ASSUME ~huOutlived'
               PROVE  (\A p \in Requests : ~Refreshing(p)') /\ CountsOrdered(huStore') /\ CountsOrdered(huDisk')
    BY DEF OwnProgress
  <2>1. ~huOutlived /\ \A p \in Requests : ~Refreshing(p)
    BY <1>1
  <2>2. CountsOrdered(huStore) /\ CountsOrdered(huDisk)
    BY <2>1 DEF HacsInv, OwnProgress
  <2>3. CountsOrdered(huStore') /\ CountsOrdered(huDisk')
    BY <1>2, <1>3, <2>2 DEF CountsOrdered
  <2>. QED
    BY <1>1, <2>1, <2>3 DEF Refreshing
<1>. QED
  BY <1>1, <1>4, <1>5 DEF HacsInv

LEMMA HacsStoreSaved == ASSUME HacsInv, StoreSaved PROVE HacsInv'
<1>1. HuShape'
  BY DEF HacsInv, HuShape, StoreSaved
<1>2. \A q \in Requests : RequestSound(huReq'[q])
  BY DEF HacsInv, StoreSaved
<1>3. OwnProgress'
  BY DEF HacsInv, OwnProgress, StoreSaved, Refreshing, ShownBy, InProgress
<1>. QED
  BY <1>1, <1>2, <1>3 DEF HacsInv

LEMMA HacsRestarted == ASSUME HacsInv, Restarted PROVE HacsInv'
<1>1. HuShape'
  BY IdleSound, HacsAssumption DEF HacsInv, HuShape, Restarted
<1>2. \A q \in Requests : RequestSound(huReq'[q])
  BY IdleSound DEF Restarted
<1>3. OwnProgress'
  BY DEF HacsInv, OwnProgress, Restarted, Refreshing, IdleRequest
<1>. QED
  BY <1>1, <1>2, <1>3 DEF HacsInv

LEMMA HacsStep == HacsInv /\ [HuNext]_huVars => HacsInv'
<1> SUFFICES ASSUME HacsInv, [HuNext]_huVars PROVE HacsInv'
  OBVIOUS
<1>1. CASE UNCHANGED huVars
  BY <1>1 DEF huVars, HacsInv, HuShape, OwnProgress, Refreshing, ShownBy, InProgress
<1>2. ASSUME NEW q \in Requests, RequestStep(q) PROVE HacsInv'
  BY <1>2, HacsRepoAsked, HacsRepoAnswers, HacsInstallBegins, HacsInstallEnds, HacsWriteBegins,
     HacsRefreshEnds, HacsUpdateEnds DEF RequestStep
<1>3. ASSUME NEW q \in Requests, NEW s \in SUBSET Repos, RefreshBegins(q, s) \/ UpdateBegins(q, s)
      PROVE HacsInv'
  BY <1>3, HacsRefreshBegins, HacsUpdateBegins
<1>. QED
  BY <1>1, <1>2, <1>3, HacsFlagAges, HacsStoreSaved, HacsRestarted DEF HuNext

(***************************************************************************)
(* Unless a refresh outlived its flag, one refresh runs at a time and the  *)
(* panel shows that one's progress, whatever is installed beside it and    *)
(* whenever the entry is reloaded.                                         *)
(***************************************************************************)
THEOREM HacsHolds == HuSpec => []RefreshExclusive
<1>1. HuSpec => []HacsInv
  BY HacsInit, HacsStep, PTL DEF HuSpec
<1>. QED
  BY <1>1, HacsInvImplies, PTL

-----------------------------------------------------------------------------
(* The detection pass.                                                     *)

-----------------------------------------------------------------------------
(* Hours, and sets of ticks.                                               *)

\* Two ticks of one hour are less than an hour apart.
LEMMA SameHour ==
  ASSUME NEW t \in Nat, NEW u \in Nat, Bucket(t) = Bucket(u)
  PROVE  t < u + Hour
<1>1. Hour \in Nat /\ Hour > 0
  BY DetectionAssumption
<1>2. t = Hour * (t \div Hour) + (t % Hour) /\ t % Hour < Hour
  BY <1>1, SMT
<1>3. u = Hour * (u \div Hour) + (u % Hour) /\ 0 <= u % Hour
  BY <1>1, SMT
<1>. QED
  BY <1>1, <1>2, <1>3 DEF Bucket

\* The detection of an escalation is not one of an hour.
LEMMA EscalationIsNoHour ==
  Escalation \notin Buckets
<1>. SUFFICES ASSUME NEW t \in 0 .. MaxTime PROVE Bucket(t) # MaxTime + 1
  BY DEF Escalation, Buckets
<1>1. Hour \in Nat /\ Hour > 0 /\ MaxTime \in Nat
  BY DetectionAssumption
<1>2. t = Hour * (t \div Hour) + (t % Hour) /\ 0 <= t % Hour /\ t \div Hour \in Nat
  BY <1>1, SMT
<1>3. Hour * (t \div Hour) >= t \div Hour
  BY <1>1, <1>2, SMT
<1>. QED
  BY <1>1, <1>2, <1>3 DEF Bucket

\* A set of ticks has an earliest.
LEMMA Earliest ==
  ASSUME NEW T, T \subseteq Nat, T # {}
  PROVE  \E x \in T : \A y \in T : x <= y
<1>. DEFINE R == OpToRel(<, Nat)
<1>1. IsWellFoundedOn(R, Nat)
  BY NatLessThanWellFounded
<1>2. \A x, y \in Nat : x < y => <<x, y>> \in R
  BY DEF OpToRel
<1>. HIDE DEF R
<1>3. PICK x \in T : \A y \in T : <<y, x>> \notin R
  BY <1>1, WFMin
<1>4. x \in Nat /\ \A y \in T : y \in Nat /\ ~(y < x)
  BY <1>2, <1>3
<1>. QED
  BY <1>4

\* ... and, when it is bounded, a latest.
LEMMA Latest ==
  ASSUME NEW T, T \subseteq Nat, T # {}, NEW n \in Nat, \A x \in T : x <= n
  PROVE  \E x \in T : \A y \in T : y <= x
<1>. DEFINE U == {n - x : x \in T}
<1>1. U \subseteq Nat /\ U # {}
  <2>1. ASSUME NEW x \in T PROVE n - x \in Nat
    OBVIOUS
  <2>. QED
    BY <2>1
<1>2. PICK u \in U : \A v \in U : u <= v
  BY <1>1, Earliest
<1>3. PICK x \in T : u = n - x
  BY <1>2
<1>4. ASSUME NEW y \in T PROVE y <= x
  BY <1>2, <1>3
<1>. QED
  BY <1>4

\* Sets of ticks up to a tick are finite, and count as numbers do.
LEMMA TicksCount ==
  ASSUME NEW T, NEW S, S \subseteq Nat, T \subseteq S, NEW n \in Nat, \A x \in S : x <= n
  PROVE  /\ IsFiniteSet(S) /\ IsFiniteSet(T)
         /\ Cardinality(S) \in Nat /\ Cardinality(T) \in Nat /\ Cardinality(T) <= Cardinality(S)
         /\ Cardinality(T) = Cardinality(S) => T = S
<1>1. IsFiniteSet(S)
  BY FS_BoundedSetOfNaturals
<1>2. IsFiniteSet(T) /\ Cardinality(T) <= Cardinality(S) /\ (Cardinality(S) = Cardinality(T) => S = T)
  BY <1>1, FS_Subset
<1>. QED
  BY <1>1, <1>2, FS_CardinalityType

-----------------------------------------------------------------------------
(* The sliding window.                                                     *)

\* f is the failure that makes the window ending in t one of a burst: from
\* it on to t there are just as many failures as are needed.
NeededBy(times, t, f) ==
  /\ t \in BurstEnds(times) /\ f \in InWindow(times, t)
  /\ Cardinality({g \in times : f <= g /\ g <= t}) = Failures

\* Every burst has such a failure.
LEMMA NeededExists ==
  ASSUME NEW times, times \subseteq Nat, NEW t \in BurstEnds(times)
  PROVE  \E f : NeededBy(times, t, f)
<1>. DEFINE From(f) == {g \in times : f <= g /\ g <= t}
<1>. DEFINE Enough == {f \in InWindow(times, t) : Cardinality(From(f)) >= Failures}
<1>1. t \in Nat /\ t \in times /\ Cardinality(InWindow(times, t)) >= Failures
  BY DEF BurstEnds
<1>2. Failures \in Nat /\ Failures > 0 /\ Window \in Nat
  BY DetectionAssumption
<1>3. InWindow(times, t) \subseteq Nat /\ \A f \in InWindow(times, t) : f <= t
  BY DEF InWindow
<1>4. ASSUME NEW f \in Nat
      PROVE  /\ IsFiniteSet(From(f)) /\ Cardinality(From(f)) \in Nat
             /\ From(f) \subseteq Nat /\ \A g \in From(f) : g <= t
  <2>1. From(f) \subseteq Nat /\ \A g \in From(f) : g <= t
    BY <1>1
  <2>. QED
    BY <1>1, <2>1, TicksCount
<1>5. Enough # {}
  <2>1. InWindow(times, t) # {}
    BY <1>1, <1>2 DEF InWindow
  <2>2. PICK x \in InWindow(times, t) : \A y \in InWindow(times, t) : x <= y
    BY <1>3, <2>1, Earliest
  <2>3. x \in Nat /\ x \in times /\ x <= t /\ t - x <= Window
    BY <1>3, <2>2 DEF InWindow
  <2>4. InWindow(times, t) = From(x)
    <3>1. ASSUME NEW g \in InWindow(times, t) PROVE g \in From(x)
      BY <2>2 DEF InWindow
    <3>2. ASSUME NEW g \in From(x) PROVE g \in InWindow(times, t)
      <4>1. g \in times /\ g \in Nat /\ x <= g /\ g <= t
        OBVIOUS
      <4>2. t - g <= Window
        BY <1>1, <1>2, <2>3, <4>1
      <4>. QED
        BY <4>1, <4>2 DEF InWindow
    <3>. QED
      BY <3>1, <3>2
  <2>. QED
    BY <1>1, <2>2, <2>4
<1>6. PICK f \in Enough : \A h \in Enough : h <= f
  <2>1. Enough \subseteq Nat /\ \A h \in Enough : h <= t
    BY <1>3
  <2>. HIDE DEF Enough
  <2>. QED
    BY <1>1, <1>5, <2>1, Latest
<1>7. f \in Nat /\ f \in times /\ f <= t /\ t - f <= Window /\ Cardinality(From(f)) >= Failures
  BY <1>3, <1>6 DEF InWindow
<1>8. Cardinality(From(f)) = Failures
  <2>. SUFFICES ASSUME Cardinality(From(f)) # Failures PROVE FALSE
    OBVIOUS
  <2>. DEFINE Rest == From(f) \ {f}
  <2>1. f \in From(f)
    BY <1>7
  <2>2. IsFiniteSet(From(f)) /\ Cardinality(From(f)) \in Nat /\ From(f) \subseteq Nat
    BY <1>4, <1>7
  <2>3. IsFiniteSet(Rest) /\ Cardinality(Rest) = Cardinality(From(f)) - 1
    <3>. HIDE DEF From
    <3>. QED
      BY <2>1, <2>2, FS_RemoveElement
  <2>4. Cardinality(Rest) >= Failures
    <3>. HIDE DEF From, Rest
    <3>. QED
      BY <1>2, <1>7, <2>2, <2>3
  <2>5. Rest # {}
    <3>. HIDE DEF From, Rest
    <3>. QED
      BY <1>2, <2>4, FS_EmptySet
  <2>6. PICK h \in Rest : \A g \in Rest : h <= g
    BY <2>2, <2>5, Earliest
  <2>7. h \in Nat /\ h \in times /\ f < h /\ h <= t
    BY <1>7, <2>2, <2>6
  <2>8. From(h) = Rest
    <3>1. ASSUME NEW g \in From(h) PROVE g \in Rest
      BY <1>7, <2>7
    <3>2. ASSUME NEW g \in Rest PROVE g \in From(h)
      BY <2>6
    <3>. QED
      BY <3>1, <3>2
  <2>9. t - h <= Window
    BY <1>1, <1>2, <1>7, <2>7
  <2>10. h \in Enough
    BY <2>4, <2>7, <2>8, <2>9 DEF InWindow
  <2>. QED
    BY <1>6, <2>7, <2>10, <1>7
<1>. QED
  BY <1>6, <1>8 DEF NeededBy

\* So the failure NoBurstMissed names is one.
LEMMA FirstNeededIs ==
  ASSUME dtFails \subseteq Nat, NEW t \in BurstEnds(dtFails)
  PROVE  NeededBy(dtFails, t, FirstNeeded(t))
<1>1. PICK f : NeededBy(dtFails, t, f)
  BY NeededExists
<1>. DEFINE P(g) == g \in InWindow(dtFails, t) /\ Cardinality({h \in dtFails : g <= h /\ h <= t}) = Failures
<1>2. P(f)
  BY <1>1 DEF NeededBy
<1>3. FirstNeeded(t) = CHOOSE g \in InWindow(dtFails, t) : Cardinality({h \in dtFails : g <= h /\ h <= t}) = Failures
  BY DEF FirstNeeded
<1>4. P(FirstNeeded(t))
  BY <1>2, <1>3
<1>. QED
  BY <1>4 DEF NeededBy
-----------------------------------------------------------------------------
(* The invariant.                                                          *)

Keepers == [row : [Ids -> Row], hist : Nat, through : 0 .. MaxTime, groups : {"unset", "user", "admin"},
            gained : BOOLEAN]
PassRecs == [pc : {"idle", "brute", "hours", "count", "groups", "actor", "prune"}, now : 0 .. MaxTime,
             admin : BOOLEAN, from : 0 .. MaxTime, ok : BOOLEAN]

DtShape ==
  /\ dtKind \in {"logins", "calls", "grants"} /\ dtNow \in Times
  /\ dtFails \subseteq 1 .. dtNow /\ dtCalls \subseteq 1 .. dtNow
  /\ dtStore \in Keepers /\ dtDisk \in Keepers /\ dtPass \in [Passes -> PassRecs]
  /\ dtAdmin \in BOOLEAN /\ dtRan \in BOOLEAN /\ dtOverlap \in BOOLEAN /\ dtFaults \in 0 .. MaxFaults

PassTimes ==
  /\ \A p \in Passes : dtPass[p].pc # "idle" => dtPass[p].now \in 1 .. dtNow
  /\ \A p \in Passes : dtPass[p].pc # "idle" /\ dtPass[p].admin => dtAdmin
  /\ \A p \in Passes : dtPass[p].pc = "actor" => dtPass[p].admin
  /\ dtStore.through < dtNow /\ dtDisk.through < dtNow

\* The detection was made, be it pruned since.
Known(row) == row.status # "none" \/ row.closed

\* Every burst whose records are out of sight at n is known.
Seen(fails, s, n) == \A t, f : NeededBy(fails, t, f) /\ f + Lookback < n => Known(s.row[Bucket(t)])

\* What is out of sight was seen, and a pass that is through with the rule
\* has seen what goes out of sight in this tick.
BurstsSeen ==
  /\ Seen(dtFails, dtStore, dtNow) /\ Seen(dtFails, dtDisk, dtNow)
  /\ dtRan => Seen(dtFails, dtStore, dtNow + 1)
  /\ \A p \in Passes : dtPass[p].ok /\ dtPass[p].now = dtNow /\ dtPass[p].pc \notin {"idle", "brute"}
       => Seen(dtFails, dtStore, dtNow + 1)

\* A snapshot that has an admin who gained it goes with the detection.
GainReported(s) ==
  /\ s.groups = "unset" => ~s.gained
  /\ s.gained /\ s.groups = "admin" => Known(s.row[Escalation])

Escalations == GainReported(dtStore) /\ GainReported(dtDisk)

\* The checkpoint and the count belong together.
Counted(calls, s) == s.hist = Cardinality({c \in calls : c <= s.through})

\* An hour that has begun at n, and one whose evidence is out of keep at n.
HourBegan(i, n) == \E u \in 0 .. MaxTime : Bucket(u) = i /\ u <= n
HourGone(i, n) == \E u \in 0 .. MaxTime : Bucket(u) = i /\ u + Retention < n

\* Detections come when their hour has, and go when nothing of it is in sight.
RowSound(row, i, n) ==
  /\ row.status # "none" => HourBegan(i, n)
  /\ row.status = "resolved" => HourBegan(i, row.at)
  /\ row.status = "none" /\ row.closed => HourGone(i, n)

RowsSound(s, n) ==
  /\ \A i \in Ids : s.row[i].closed => s.row[i].status \in {"none", "resolved"}
  /\ \A i \in Buckets : RowSound(s.row[i], i, n)

\* The snapshot has the admin once the detection is made, and not before
\* there is one.
SnapshotSound(s, admin) ==
  /\ Known(s.row[Escalation]) => s.groups = "admin"
  /\ s.groups = "admin" => admin

\* What a pass that runs alone relies on.
PassAlone(p, s) ==
  /\ p.pc \in {"brute", "hours", "count"} => s.through < p.now
  /\ p.pc = "count" => p.from = s.through
  /\ p.pc \in {"brute", "hours", "count", "groups"} /\ s.groups = "admin" => p.admin
  /\ p.pc = "actor" => s.groups = "user"
  /\ p.pc = "brute" => \A i \in Buckets : s.row[i].status = "none" /\ s.row[i].closed => HourGone(i, p.now)

StoreAlone(s) == Counted(dtCalls, s) /\ RowsSound(s, dtNow) /\ SnapshotSound(s, dtAdmin)

Alone ==
  ~dtOverlap =>
    /\ \A p, q \in Passes : dtPass[p].pc # "idle" /\ dtPass[q].pc # "idle" => p = q
    /\ StoreAlone(dtStore) /\ StoreAlone(dtDisk)
    /\ \A p \in Passes : PassAlone(dtPass[p], dtStore)

DtInv == DtShape /\ PassTimes /\ BurstsSeen /\ Escalations /\ Alone

-----------------------------------------------------------------------------
(* What stays as it is.                                                    *)

LEMMA DtConstants ==
  /\ Failures \in Nat /\ Failures > 0 /\ Hour \in Nat /\ Hour > 0
  /\ Window \in Nat /\ Lookback \in Nat /\ Retention \in Nat /\ MaxTime \in Nat /\ MaxTime > 0 /\ MaxFaults \in Nat
  /\ Window < Lookback /\ Lookback + Hour <= Retention + Failures
BY DetectionAssumption

\* A store that knows all that another knew has seen what that one has.
LEMMA SeenStands ==
  ASSUME NEW fails, fails \subseteq 1 .. MaxTime, NEW s, NEW r, NEW n, Seen(fails, s, n),
         \A i \in Ids : Known(s.row[i]) => Known(r.row[i])
  PROVE  Seen(fails, r, n)
<1>. SUFFICES ASSUME NEW t, NEW f, NeededBy(fails, t, f), f + Lookback < n PROVE Known(r.row[Bucket(t)])
  BY DEF Seen
<1>1. Known(s.row[Bucket(t)])
  BY DEF Seen
<1>2. t \in 0 .. MaxTime
  BY DtConstants DEF NeededBy, BurstEnds
<1>3. Bucket(t) \in Ids
  BY <1>2 DEF Ids, Buckets
<1>. QED
  BY <1>1, <1>3

LEMMA SeenEarlier ==
  ASSUME NEW fails, fails \subseteq 1 .. MaxTime, NEW s, NEW n \in Nat, Seen(fails, s, n + 1)
  PROVE  Seen(fails, s, n)
<1>. SUFFICES ASSUME NEW t, NEW f, NeededBy(fails, t, f), f + Lookback < n PROVE Known(s.row[Bucket(t)])
  BY DEF Seen
<1>1. f \in Nat
  BY DtConstants DEF NeededBy, InWindow
<1>2. f + Lookback < n + 1
  BY <1>1, DtConstants
<1>. QED
  BY <1>2 DEF Seen

\* _upsert_detection changes one row, and not a status it has.
LEMMA UpsertSays ==
  ASSUME NEW rows \in [Ids -> Row], NEW id \in Ids, NEW t \in Times
  PROVE  /\ Upsert(rows, id, t) \in [Ids -> Row]
         /\ \A i \in Ids \ {id} : Upsert(rows, id, t)[i] = rows[i]
         /\ Upsert(rows, id, t)[id].status = IF rows[id].status = "none" THEN "open" ELSE rows[id].status
         /\ Upsert(rows, id, t)[id].at = rows[id].at
         /\ Upsert(rows, id, t)[id].closed = rows[id].closed
         /\ \A i \in Ids : Known(rows[i]) => Known(Upsert(rows, id, t)[i])
         /\ Known(Upsert(rows, id, t)[id])
<1>. DEFINE new == [rows[id] EXCEPT !.status = IF rows[id].status = "none" THEN "open" ELSE rows[id].status,
                                    !.triggers = rows[id].triggers \cup {t}]
<1>1. Upsert(rows, id, t) = [rows EXCEPT ![id] = new]
  BY DEF Upsert, StatusAfter
<1>2. rows[id] \in Row
  OBVIOUS
<1>3. new.status = (IF rows[id].status = "none" THEN "open" ELSE rows[id].status)
      /\ new.at = rows[id].at /\ new.closed = rows[id].closed /\ new \in Row
  BY <1>2 DEF Row
<1>. HIDE DEF new
<1>4. Upsert(rows, id, t)[id] = new /\ \A i \in Ids \ {id} : Upsert(rows, id, t)[i] = rows[i]
  BY <1>1
<1>5. Upsert(rows, id, t) \in [Ids -> Row]
  BY <1>1, <1>3
<1>6. Known(Upsert(rows, id, t)[id])
  BY <1>3, <1>4 DEF Known
<1>. QED
  BY <1>3, <1>4, <1>5, <1>6

\* async_prune_evidence takes resolved rows only.
LEMMA PrunedSays ==
  ASSUME NEW rows \in [Ids -> Row], NEW n \in Nat
  PROVE  /\ Pruned(rows, n) \in [Ids -> Row]
         /\ \A i \in Ids : \/ Pruned(rows, n)[i] = rows[i]
                           \/ /\ rows[i].status = "resolved" /\ rows[i].at + Retention < n
                              /\ Pruned(rows, n)[i] = [NoRow EXCEPT !.closed = TRUE]
         /\ \A i \in Ids : Known(rows[i]) => Known(Pruned(rows, n)[i])
<1>. DEFINE gone == [NoRow EXCEPT !.closed = TRUE]
<1>1. gone \in Row /\ gone.closed /\ gone.status = "none"
  <2>1. 0 \in 0 .. MaxTime /\ {} \in SUBSET Times
    BY DtConstants
  <2>2. NoRow \in Row /\ NoRow.status = "none"
    BY <2>1 DEF NoRow, Row
  <2>. QED
    BY <2>2 DEF Row
<1>. HIDE DEF gone
<1>2. Pruned(rows, n) = [i \in Ids |-> IF rows[i].status = "resolved" /\ rows[i].at + Retention < n
                                       THEN gone ELSE rows[i]]
  BY DEF Pruned, gone
<1>3. Pruned(rows, n) \in [Ids -> Row]
  BY <1>1, <1>2
<1>4. \A i \in Ids : \/ Pruned(rows, n)[i] = rows[i]
                     \/ /\ rows[i].status = "resolved" /\ rows[i].at + Retention < n
                        /\ Pruned(rows, n)[i] = gone
  BY <1>2
<1>5. \A i \in Ids : Known(rows[i]) => Known(Pruned(rows, n)[i])
  BY <1>1, <1>4 DEF Known
<1>. QED
  BY <1>3, <1>4, <1>5 DEF gone
-----------------------------------------------------------------------------
(* The steps of a pass.                                                    *)

\* The next step of one pass, and what the others are at.
LEMMA PassGoes ==
  ASSUME DtShape, NEW p \in Passes, NEW pc \in {"idle", "brute", "hours", "count", "groups", "actor", "prune"},
         dtPass' = [dtPass EXCEPT ![p].pc = pc]
  PROVE  /\ dtPass' \in [Passes -> PassRecs]
         /\ dtPass'[p].pc = pc /\ dtPass'[p].now = dtPass[p].now /\ dtPass'[p].admin = dtPass[p].admin
         /\ dtPass'[p].from = dtPass[p].from /\ dtPass'[p].ok = dtPass[p].ok
         /\ \A q \in Passes \ {p} : dtPass'[q] = dtPass[q]
<1>. DEFINE new == [dtPass[p] EXCEPT !.pc = pc]
<1>1. dtPass \in [Passes -> PassRecs] /\ dtPass[p] \in PassRecs
  BY DEF DtShape
<1>2. dtPass' = [dtPass EXCEPT ![p] = new]
  OBVIOUS
<1>3. new \in PassRecs /\ new.pc = pc /\ new.now = dtPass[p].now /\ new.admin = dtPass[p].admin
      /\ new.from = dtPass[p].from /\ new.ok = dtPass[p].ok
  BY <1>1 DEF PassRecs
<1>. HIDE DEF new
<1>4. dtPass'[p] = new /\ \A q \in Passes \ {p} : dtPass'[q] = dtPass[q]
  BY <1>1, <1>2
<1>5. dtPass' \in [Passes -> PassRecs]
  BY <1>1, <1>2, <1>3
<1>. QED
  BY <1>3, <1>4, <1>5

LEMMA IdleIsPass ==
  IdlePass \in PassRecs /\ IdlePass.pc = "idle"
<1>1. 0 \in 0 .. MaxTime
  BY DtConstants
<1>. QED
  BY <1>1 DEF IdlePass, PassRecs

LEMMA PassBeginsKeeps ==
  ASSUME DtInv, NEW p \in Passes, PassBegins(p)
  PROVE  DtInv'
<1>. DEFINE new == [IdlePass EXCEPT !.pc = "brute", !.now = dtNow, !.admin = dtAdmin]
<1>. USE DEF DtInv
<1>1. dtPass \in [Passes -> PassRecs] /\ dtNow \in 1 .. MaxTime /\ dtAdmin \in BOOLEAN
  BY DEF DtShape, Times
<1>2. IdlePass \in PassRecs /\ IdlePass.pc = "idle"
  BY IdleIsPass
<1>3. new \in PassRecs /\ new.pc = "brute" /\ new.now = dtNow /\ new.admin = dtAdmin
  <2>1. PICK now, admin : now = dtNow /\ admin = dtAdmin
    OBVIOUS
  <2>2. now \in 0 .. MaxTime /\ admin \in BOOLEAN
    BY <1>1, <2>1, DtConstants
  <2>3. PICK e : e = [IdlePass EXCEPT !.pc = "brute", !.now = now, !.admin = admin]
    OBVIOUS
  <2>4. e \in PassRecs /\ e.pc = "brute" /\ e.now = now /\ e.admin = admin
    BY <1>2, <2>2, <2>3 DEF PassRecs
  <2>. QED
    BY <2>1, <2>3, <2>4
<1>. HIDE DEF new
<1>4. dtPass' = [dtPass EXCEPT ![p] = new] /\ dtPass[p].pc = "idle"
  BY DEF PassBegins, At, new
<1>5. dtPass'[p] = new /\ (\A q \in Passes \ {p} : dtPass'[q] = dtPass[q]) /\ dtPass' \in [Passes -> PassRecs]
  BY <1>1, <1>3, <1>4
<1>6. /\ dtKind' = dtKind /\ dtNow' = dtNow /\ dtFails' = dtFails /\ dtCalls' = dtCalls /\ dtAdmin' = dtAdmin
      /\ dtStore' = dtStore /\ dtDisk' = dtDisk /\ dtRan' = dtRan /\ dtFaults' = dtFaults
      /\ dtOverlap' = (dtOverlap \/ \E q \in Passes \ {p} : dtPass[q].pc # "idle")
  BY DEF PassBegins, At, dtWorld, dtAudit
<1>7. DtShape'
  BY <1>5, <1>6 DEF DtShape
<1>8. PassTimes'
  BY <1>1, <1>3, <1>5, <1>6 DEF PassTimes
<1>9. BurstsSeen'
  BY <1>3, <1>5, <1>6 DEF BurstsSeen
<1>10. Escalations'
  BY <1>6 DEF Escalations
<1>11. Alone'
  <2>. SUFFICES ASSUME ~dtOverlap' PROVE Alone'
    BY DEF Alone
  <2>1. ~dtOverlap /\ \A q \in Passes \ {p} : dtPass[q].pc = "idle"
    BY <1>6, <1>1
  <2>2. StoreAlone(dtStore)' /\ StoreAlone(dtDisk)'
    BY <1>6, <2>1 DEF Alone, StoreAlone
  <2>3. PassAlone(new, dtStore)
    <3>1. dtStore.through < new.now
      BY <1>3 DEF PassTimes
    <3>2. dtStore.groups = "admin" => new.admin
      BY <1>3, <2>1 DEF Alone, StoreAlone, SnapshotSound
    <3>3. ASSUME NEW i \in Buckets, dtStore.row[i].status = "none", dtStore.row[i].closed
          PROVE HourGone(i, new.now)
      BY <1>3, <2>1, <3>3 DEF Alone, StoreAlone, RowsSound, RowSound
    <3>. QED
      BY <1>3, <3>1, <3>2, <3>3 DEF PassAlone
  <2>4. \A q \in Passes : PassAlone(dtPass[q], dtStore)'
    BY <1>5, <1>6, <2>1, <2>3 DEF Alone
  <2>5. \A q, r \in Passes : dtPass'[q].pc # "idle" /\ dtPass'[r].pc # "idle" => q = r
    BY <1>5, <2>1
  <2>. QED
    BY <2>2, <2>4, <2>5 DEF Alone
<1>. QED
  BY <1>7, <1>8, <1>9, <1>10, <1>11

\* What ends a burst among the records in sight is not long ago.
LEMMA SightEnds ==
  ASSUME dtFails \subseteq Nat, NEW n \in Nat, NEW t \in BurstEnds(LookedAt(n))
  PROVE  t \in dtFails /\ n + Failures <= t + Lookback + 1
<1>. DEFINE W == InWindow(LookedAt(n), t)
<1>. DEFINE from == IF n < Lookback THEN 0 ELSE n - Lookback
<1>1. t \in dtFails /\ t \in Nat /\ Cardinality(W) >= Failures
  BY DEF BurstEnds, LookedAt
<1>2. Lookback \in Nat /\ Failures \in Nat /\ Failures > 0 /\ from \in Nat
  BY DtConstants
<1>3. \A f \in W : f \in Nat /\ f <= t /\ from <= f
  BY <1>2 DEF InWindow, LookedAt
<1>4. W \subseteq from .. t
  <2>. HIDE DEF W, from
  <2>. QED
    BY <1>1, <1>2, <1>3
<1>5. IsFiniteSet(from .. t) /\ Cardinality(from .. t) = IF from > t THEN 0 ELSE t - from + 1
  <2>. HIDE DEF from
  <2>. QED
    BY <1>1, <1>2, FS_Interval
<1>6. Cardinality(W) <= Cardinality(from .. t) /\ Cardinality(W) \in Nat
  BY <1>4, <1>5, FS_Subset, FS_CardinalityType
<1>7. Failures <= t - from + 1 /\ from <= t
  <2>. HIDE DEF W, from
  <2>. QED
    BY <1>1, <1>2, <1>5, <1>6
<1>. QED
  BY <1>1, <1>2, <1>7

\* When the failure a burst needs is about to go out of sight, the burst is
\* the first one left.
LEMMA FirstAtDeadline ==
  ASSUME dtFails \subseteq Nat, NEW t, NEW f, NeededBy(dtFails, t, f)
  PROVE  FirstBurst(LookedAt(f + Lookback)) = {t}
<1>. DEFINE Sight == LookedAt(f + Lookback)
<1>. DEFINE Needed == {g \in dtFails : f <= g /\ g <= t}
<1>1. t \in dtFails /\ t \in Nat /\ f \in dtFails /\ f \in Nat /\ f <= t /\ t - f <= Window
      /\ Cardinality(Needed) = Failures
  BY DEF NeededBy, BurstEnds, InWindow
<1>2. Failures \in Nat /\ Failures > 0 /\ Window \in Nat /\ Lookback \in Nat
  BY DtConstants
<1>3. Sight = {g \in dtFails : f <= g}
  BY <1>1, <1>2 DEF LookedAt
<1>. HIDE DEF Sight
<1>4. t \in BurstEnds(Sight)
  <2>1. Needed \subseteq InWindow(Sight, t)
    <3>. SUFFICES ASSUME NEW g \in dtFails, f <= g, g <= t PROVE g \in InWindow(Sight, t)
      OBVIOUS
    <3>1. t - g <= Window
      BY <1>1, <1>2
    <3>. QED
      BY <1>3, <3>1 DEF InWindow
  <2>2. InWindow(Sight, t) \subseteq Nat /\ \A g \in InWindow(Sight, t) : g <= t
    BY <1>3 DEF InWindow
  <2>3. Cardinality(Needed) <= Cardinality(InWindow(Sight, t)) /\ Cardinality(InWindow(Sight, t)) \in Nat
    BY <1>1, <2>1, <2>2, TicksCount
  <2>4. Cardinality(InWindow(Sight, t)) >= Failures
    <3>. HIDE DEF Needed
    <3>. QED
      BY <1>1, <1>2, <2>3
  <2>. QED
    BY <1>1, <1>3, <2>4 DEF BurstEnds
<1>5. ASSUME NEW u \in BurstEnds(Sight) PROVE t <= u
  <2>. SUFFICES ASSUME u < t PROVE FALSE
    BY <1>1, <1>3 DEF BurstEnds
  <2>1. u \in Nat /\ Cardinality(InWindow(Sight, u)) >= Failures
    BY <1>3 DEF BurstEnds
  <2>2. ASSUME NEW g \in InWindow(Sight, u) PROVE g \in Needed \ {t}
    <3>1. g \in dtFails /\ g \in Nat /\ f <= g /\ g <= u
      BY <1>3 DEF InWindow
    <3>2. g <= t /\ g # t
      BY <1>1, <2>1, <3>1
    <3>. QED
      BY <3>1, <3>2
  <2>3. Needed \subseteq Nat /\ \A g \in Needed : g <= t
    OBVIOUS
  <2>4. IsFiniteSet(Needed) /\ t \in Needed
    BY <1>1, <2>3, TicksCount
  <2>. HIDE DEF Needed
  <2>5. IsFiniteSet(Needed \ {t}) /\ Cardinality(Needed \ {t}) = Failures - 1
    BY <1>1, <2>4, FS_RemoveElement
  <2>6. Cardinality(InWindow(Sight, u)) <= Failures - 1 /\ Cardinality(InWindow(Sight, u)) \in Nat
    BY <2>2, <2>5, FS_Subset, FS_CardinalityType
  <2>. QED
    BY <1>2, <2>1, <2>6
<1>6. \A u \in FirstBurst(Sight) : u = t
  <2>1. ASSUME NEW u \in FirstBurst(Sight) PROVE u = t
    <3>1. u \in BurstEnds(Sight) /\ u <= t
      BY <1>4 DEF FirstBurst
    <3>2. u \in Nat /\ t <= u
      BY <1>3, <1>5, <3>1 DEF BurstEnds
    <3>. QED
      BY <1>1, <3>1, <3>2
  <2>. QED
    BY <2>1
<1>7. t \in FirstBurst(Sight)
  BY <1>4, <1>5 DEF FirstBurst
<1>. QED
  BY <1>6, <1>7 DEF Sight

LEMMA BruteForceIpKeeps ==
  ASSUME DtInv, NEW p \in Passes, BruteForceIp(p)
  PROVE  DtInv'
<1>. USE DEF DtInv
<1>. DEFINE first == FirstBurst(LookedAt(dtPass[p].now))
<1>. DEFINE rows == dtStore.row
<1>1. /\ dtKind' = dtKind /\ dtNow' = dtNow /\ dtFails' = dtFails /\ dtCalls' = dtCalls /\ dtAdmin' = dtAdmin
      /\ dtDisk' = dtDisk /\ dtRan' = dtRan /\ dtFaults' = dtFaults /\ dtOverlap' = dtOverlap
  BY DEF BruteForceIp, dtWorld, dtAudit
<1>2. dtPass[p].pc = "brute" /\ dtPass' = [dtPass EXCEPT ![p].pc = "hours"]
  BY DEF BruteForceIp, At, Go
<1>3. /\ dtPass' \in [Passes -> PassRecs]
      /\ dtPass'[p].pc = "hours" /\ dtPass'[p].now = dtPass[p].now /\ dtPass'[p].admin = dtPass[p].admin
      /\ dtPass'[p].from = dtPass[p].from /\ dtPass'[p].ok = dtPass[p].ok
      /\ \A q \in Passes \ {p} : dtPass'[q] = dtPass[q]
  BY <1>2, PassGoes
<1>4. /\ dtNow \in 1 .. MaxTime /\ dtFails \subseteq 1 .. dtNow /\ dtFails \subseteq Nat /\ dtFails \subseteq 1 .. MaxTime
      /\ dtPass[p].now \in 1 .. dtNow /\ dtPass[p].now \in Nat /\ dtStore \in Keepers /\ rows \in [Ids -> Row]
  <2>1. dtNow \in 1 .. MaxTime /\ dtFails \subseteq 1 .. dtNow /\ dtStore \in Keepers
    BY DEF DtShape, Times
  <2>2. dtPass[p].now \in 1 .. dtNow
    BY <1>2 DEF PassTimes
  <2>3. rows \in [Ids -> Row]
    BY <2>1 DEF Keepers
  <2>4. dtFails \subseteq Nat /\ dtFails \subseteq 1 .. MaxTime
    BY <2>1, DtConstants
  <2>5. dtPass[p].now \in Nat
    BY <2>1, <2>2
  <2>. HIDE DEF rows
  <2>. QED
    BY <2>1, <2>2, <2>3, <2>4, <2>5
<1>5. PICK new : /\ dtStore' = [dtStore EXCEPT !.row = new]
                 /\ \/ first = {} /\ new = rows
                    \/ \E t \in first : new = Upsert(rows, Bucket(t), t)
  <2>1. CASE first = {}
    <3>1. dtStore' = [dtStore EXCEPT !.row = rows]
      BY <2>1 DEF BruteForceIp
    <3>. QED
      BY <2>1, <3>1
  <2>2. CASE first # {}
    <3>1. PICK t \in first : t = CHOOSE u \in first : TRUE
      BY <2>2
    <3>2. dtStore' = [dtStore EXCEPT !.row = Upsert(rows, Bucket(t), t)]
      BY <2>2, <3>1 DEF BruteForceIp
    <3>. QED
      BY <3>2
  <2>. QED
    BY <2>1, <2>2
<1>6. ASSUME NEW t \in first
      PROVE  /\ t \in dtFails /\ t \in Times /\ t \in 0 .. MaxTime /\ t <= dtNow
             /\ Bucket(t) \in Buckets /\ Bucket(t) \in Ids /\ Bucket(t) # Escalation
             /\ dtPass[p].now + Failures <= t + Lookback + 1
  <2>1. t \in BurstEnds(LookedAt(dtPass[p].now))
    BY DEF FirstBurst
  <2>2. t \in dtFails /\ dtPass[p].now + Failures <= t + Lookback + 1
    BY <1>4, <2>1, SightEnds
  <2>3. t \in Times /\ t \in 0 .. MaxTime /\ t <= dtNow
    BY <1>4, <2>2, DtConstants DEF Times
  <2>. QED
    BY <2>2, <2>3, EscalationIsNoHour DEF Buckets, Ids
<1>. HIDE DEF first, rows
<1>7. /\ new \in [Ids -> Row] /\ \A i \in Ids : Known(rows[i]) => Known(new[i])
      /\ new[Escalation] = rows[Escalation]
      /\ \A t \in first : Known(new[Bucket(t)])
  <2>1. CASE first = {} /\ new = rows
    BY <1>4, <2>1
  <2>2. CASE \E t \in first : new = Upsert(rows, Bucket(t), t)
    <3>1. PICK t \in first : new = Upsert(rows, Bucket(t), t)
      BY <2>2
    <3>2. new \in [Ids -> Row] /\ (\A i \in Ids : Known(rows[i]) => Known(new[i])) /\ Known(new[Bucket(t)])
          /\ \A i \in Ids \ {Bucket(t)} : new[i] = rows[i]
      BY <1>4, <1>6, <3>1, UpsertSays
    <3>3. Escalation \in Ids \ {Bucket(t)}
      BY <1>6 DEF Ids
    <3>4. \A u \in first : u = t
      <4>1. ASSUME NEW u \in first PROVE u = t
        <5>1. u <= t /\ t <= u /\ u \in Nat /\ t \in Nat
          BY <1>4, <1>6 DEF first, FirstBurst
        <5>. QED
          BY <5>1
      <4>. QED
        BY <4>1
    <3>. QED
      BY <3>2, <3>3, <3>4
  <2>. QED
    BY <1>5, <2>1, <2>2
<1>8. /\ dtStore' \in Keepers /\ dtStore'.row = new /\ dtStore'.hist = dtStore.hist
      /\ dtStore'.through = dtStore.through /\ dtStore'.groups = dtStore.groups /\ dtStore'.gained = dtStore.gained
  BY <1>4, <1>5, <1>7 DEF Keepers
<1>9. DtShape'
  BY <1>1, <1>3, <1>8 DEF DtShape
<1>10. PassTimes'
  BY <1>1, <1>2, <1>3, <1>8 DEF PassTimes
<1>11. BurstsSeen'
  <2>1. \A n : Seen(dtFails, dtStore, n) => Seen(dtFails, dtStore', n)
    <3>. SUFFICES ASSUME NEW n, Seen(dtFails, dtStore, n) PROVE Seen(dtFails, dtStore', n)
      OBVIOUS
    <3>1. \A i \in Ids : Known(dtStore.row[i]) => Known(dtStore'.row[i])
      BY <1>7, <1>8 DEF rows
    <3>. QED
      BY <1>4, <3>1, SeenStands
  <2>2. ASSUME dtPass[p].now = dtNow PROVE Seen(dtFails, dtStore', dtNow + 1)
    <3>. SUFFICES ASSUME NEW t, NEW f, NeededBy(dtFails, t, f), f + Lookback < dtNow + 1
                  PROVE  Known(dtStore'.row[Bucket(t)])
      BY DEF Seen
    <3>1. f \in Nat /\ Lookback \in Nat /\ dtNow \in Nat
      BY <1>4, DtConstants DEF NeededBy, InWindow
    <3>2. CASE f + Lookback < dtNow
      BY <2>1, <3>2 DEF BurstsSeen, Seen
    <3>3. CASE f + Lookback = dtNow
      <4>1. first = {t}
        BY <1>4, <2>2, <3>3, FirstAtDeadline DEF first
      <4>. QED
        BY <1>7, <1>8, <4>1
    <3>. QED
      BY <3>1, <3>2, <3>3
  <2>. QED
    BY <1>1, <1>3, <2>1, <2>2 DEF BurstsSeen
<1>12. Escalations'
  BY <1>1, <1>7, <1>8 DEF Escalations, GainReported, rows
<1>13. Alone'
  <2>. SUFFICES ASSUME ~dtOverlap PROVE Alone'
    BY <1>1 DEF Alone
  <2>1. \A q \in Passes \ {p} : dtPass[q].pc = "idle"
    BY <1>2 DEF Alone
  <2>2. StoreAlone(dtDisk)'
    BY <1>1 DEF Alone, StoreAlone
  <2>3. StoreAlone(dtStore) /\ PassAlone(dtPass[p], dtStore)
    BY DEF Alone
  <2>4. Counted(dtCalls, dtStore') /\ SnapshotSound(dtStore', dtAdmin)
    BY <1>7, <1>8, <2>3 DEF StoreAlone, Counted, SnapshotSound, rows
  <2>5. RowsSound(dtStore', dtNow)
    <3>1. CASE first = {} /\ new = rows
      BY <1>8, <2>3, <3>1 DEF StoreAlone, RowsSound, rows
    <3>2. CASE \E t \in first : new = Upsert(rows, Bucket(t), t)
      <4>1. PICK t \in first : new = Upsert(rows, Bucket(t), t)
        BY <3>2
      <4>. DEFINE id == Bucket(t)
      <4>2. /\ \A i \in Ids \ {id} : new[i] = rows[i]
            /\ new[id].status = IF rows[id].status = "none" THEN "open" ELSE rows[id].status
            /\ new[id].at = rows[id].at /\ new[id].closed = rows[id].closed
        BY <1>4, <1>6, <4>1, UpsertSays
      <4>3. ~(rows[id].status = "none" /\ rows[id].closed)
        <5>. SUFFICES ASSUME rows[id].status = "none", rows[id].closed PROVE FALSE
          OBVIOUS
        <5>1. PICK u \in 0 .. MaxTime : Bucket(u) = id /\ u + Retention < dtPass[p].now
          BY <1>2, <1>6, <2>3 DEF PassAlone, HourGone, rows
        <5>2. t \in Nat /\ u \in Nat /\ t < u + Hour
          BY <1>4, <1>6, <5>1, SameHour
        <5>3. dtPass[p].now + Failures <= t + Lookback + 1
          BY <1>6
        <5>. QED
          BY <1>4, <5>1, <5>2, <5>3, DtConstants
      <4>4. \A i \in Ids : rows[i].closed => rows[i].status \in {"none", "resolved"}
        BY <2>3 DEF StoreAlone, RowsSound, rows
      <4>5. \A i \in Buckets : RowSound(rows[i], i, dtNow)
        BY <2>3 DEF StoreAlone, RowsSound, rows
      <4>6. HourBegan(id, dtNow)
        BY <1>6 DEF HourBegan
      <4>7. id \in Buckets /\ id \in Ids
        BY <1>6
      <4>. HIDE DEF id
      <4>8. \A i \in Ids : new[i].closed => new[i].status \in {"none", "resolved"}
        BY <4>2, <4>3, <4>4, <4>7
      <4>9. \A i \in Buckets : RowSound(new[i], i, dtNow)
        <5>. SUFFICES ASSUME NEW i \in Buckets PROVE RowSound(new[i], i, dtNow)
          OBVIOUS
        <5>1. CASE i = id
          BY <4>2, <4>3, <4>5, <4>6, <5>1 DEF RowSound
        <5>2. CASE i # id
          BY <4>2, <4>5, <5>2 DEF Ids
        <5>. QED
          BY <5>1, <5>2
      <4>. QED
        BY <1>8, <4>8, <4>9 DEF RowsSound
    <3>. QED
      BY <1>5, <3>1, <3>2
  <2>6. StoreAlone(dtStore)'
    BY <1>1, <2>4, <2>5 DEF StoreAlone
  <2>7. PassAlone(dtPass[p], dtStore)'
    BY <1>2, <1>3, <1>8, <2>3 DEF PassAlone
  <2>8. \A q \in Passes : PassAlone(dtPass[q], dtStore)'
    BY <1>3, <2>1, <2>7 DEF PassAlone
  <2>9. \A q, r \in Passes : dtPass'[q].pc # "idle" /\ dtPass'[r].pc # "idle" => q = r
    BY <1>3, <2>1
  <2>. QED
    BY <2>2, <2>6, <2>8, <2>9 DEF Alone
<1>. QED
  BY <1>9, <1>10, <1>11, <1>12, <1>13

\* A pass that leaves the store alone goes from one rule to the next.
LEMMA StoreUntouched ==
  ASSUME DtInv, NEW p \in Passes, dtPass[p].pc \notin {"idle", "brute"} \/ ~dtPass'[p].ok,
         dtPass[p].pc # "idle",
         dtPass' \in [Passes -> PassRecs], dtPass'[p].pc # "idle", dtPass'[p].pc # "brute",
         dtPass'[p].pc = "actor" => FALSE,
         dtPass'[p].now = dtPass[p].now, dtPass'[p].admin = dtPass[p].admin,
         dtPass'[p].ok => dtPass[p].ok,
         \A q \in Passes \ {p} : dtPass'[q] = dtPass[q],
         PassAlone(dtPass[p], dtStore) => PassAlone(dtPass'[p], dtStore),
         UNCHANGED <<dtWorld, dtStore, dtDisk, dtRan, dtOverlap>>, dtFaults' \in 0 .. MaxFaults
  PROVE  DtInv'
<1>. USE DEF DtInv
<1>1. /\ dtKind' = dtKind /\ dtNow' = dtNow /\ dtFails' = dtFails /\ dtCalls' = dtCalls /\ dtAdmin' = dtAdmin
      /\ dtStore' = dtStore /\ dtDisk' = dtDisk /\ dtRan' = dtRan /\ dtOverlap' = dtOverlap
  BY DEF dtWorld, dtAudit
<1>2. DtShape'
  BY <1>1 DEF DtShape
<1>3. PassTimes'
  BY <1>1 DEF PassTimes
<1>4. BurstsSeen'
  BY <1>1 DEF BurstsSeen
<1>5. Escalations'
  BY <1>1 DEF Escalations
<1>6. Alone'
  <2>. SUFFICES ASSUME ~dtOverlap PROVE Alone'
    BY <1>1 DEF Alone
  <2>1. StoreAlone(dtStore)' /\ StoreAlone(dtDisk)'
    BY <1>1 DEF Alone, StoreAlone
  <2>2. \A q \in Passes : PassAlone(dtPass'[q], dtStore)
    BY DEF Alone
  <2>3. \A q, r \in Passes : dtPass'[q].pc # "idle" /\ dtPass'[r].pc # "idle" => q = r
    BY DEF Alone
  <2>. QED
    BY <1>1, <2>1, <2>2, <2>3 DEF Alone
<1>. QED
  BY <1>2, <1>3, <1>4, <1>5, <1>6

LEMMA HoursAskedKeeps ==
  ASSUME DtInv, NEW p \in Passes, HoursAsked(p)
  PROVE  DtInv'
<1>. DEFINE new == [dtPass[p] EXCEPT !.pc = "count", !.from = dtStore.through]
<1>1. dtPass \in [Passes -> PassRecs] /\ dtPass[p] \in PassRecs /\ dtPass[p].pc = "hours"
      /\ dtStore.through \in 0 .. MaxTime
  BY DEF DtInv, DtShape, Keepers, HoursAsked, At
<1>2. dtPass' = [dtPass EXCEPT ![p] = new]
  BY DEF HoursAsked
<1>3. new \in PassRecs /\ new.pc = "count" /\ new.now = dtPass[p].now /\ new.admin = dtPass[p].admin
      /\ new.from = dtStore.through /\ new.ok = dtPass[p].ok
  BY <1>1 DEF PassRecs
<1>. HIDE DEF new
<1>4. dtPass'[p] = new /\ (\A q \in Passes \ {p} : dtPass'[q] = dtPass[q]) /\ dtPass' \in [Passes -> PassRecs]
  BY <1>1, <1>2, <1>3
<1>5. PassAlone(dtPass[p], dtStore) => PassAlone(dtPass'[p], dtStore)
  BY <1>1, <1>3, <1>4 DEF PassAlone
<1>6. dtFaults' \in 0 .. MaxFaults /\ UNCHANGED <<dtWorld, dtStore, dtDisk, dtRan, dtOverlap>>
  BY DEF DtInv, DtShape, HoursAsked
<1>. QED
  BY <1>1, <1>3, <1>4, <1>5, <1>6, StoreUntouched

LEMMA RuleFailsKeeps ==
  ASSUME DtInv, NEW p \in Passes, RuleFails(p)
  PROVE  DtInv'
<1>1. dtPass \in [Passes -> PassRecs] /\ dtPass[p] \in PassRecs /\ dtPass[p].pc \in {"brute", "count", "actor"}
  BY DEF DtInv, DtShape, RuleFails
<1>2. PICK pc \in {"hours", "groups", "prune"} :
        /\ dtPass' = [dtPass EXCEPT ![p].ok = FALSE, ![p].pc = pc]
        /\ dtPass[p].pc = "brute" => pc = "hours"
        /\ dtPass[p].pc = "count" => pc = "groups"
        /\ dtPass[p].pc = "actor" => pc = "prune"
  <2>1. CASE dtPass[p].pc = "brute"
    BY <2>1 DEF RuleFails, At
  <2>2. CASE dtPass[p].pc = "count"
    BY <2>2 DEF RuleFails, At
  <2>3. CASE dtPass[p].pc = "actor"
    BY <2>3 DEF RuleFails, At
  <2>. QED
    BY <1>1, <2>1, <2>2, <2>3
<1>. DEFINE new == [dtPass[p] EXCEPT !.ok = FALSE, !.pc = pc]
<1>3. dtPass' = [dtPass EXCEPT ![p] = new]
  BY <1>2
<1>4. new \in PassRecs /\ new.pc = pc /\ new.now = dtPass[p].now /\ new.admin = dtPass[p].admin
      /\ new.from = dtPass[p].from /\ ~new.ok
  BY <1>1, <1>2 DEF PassRecs
<1>. HIDE DEF new
<1>5. dtPass'[p] = new /\ (\A q \in Passes \ {p} : dtPass'[q] = dtPass[q]) /\ dtPass' \in [Passes -> PassRecs]
  BY <1>1, <1>3, <1>4
<1>6. PassAlone(dtPass[p], dtStore) => PassAlone(dtPass'[p], dtStore)
  BY <1>1, <1>2, <1>4, <1>5 DEF PassAlone
<1>7. dtFaults' \in 0 .. MaxFaults /\ UNCHANGED <<dtWorld, dtStore, dtDisk, dtRan, dtOverlap>>
  <2>1. dtFaults \in 0 .. MaxFaults /\ dtFaults < MaxFaults /\ dtFaults' = dtFaults + 1
        /\ UNCHANGED <<dtWorld, dtStore, dtDisk, dtRan, dtOverlap>>
    BY DEF DtInv, DtShape, RuleFails
  <2>. QED
    BY <2>1, DtConstants
<1>. QED
  BY <1>1, <1>2, <1>4, <1>5, <1>6, <1>7, StoreUntouched

LEMMA HoursCountedKeeps ==
  ASSUME DtInv, NEW p \in Passes, HoursCounted(p)
  PROVE  DtInv'
<1>. USE DEF DtInv
<1>. DEFINE more == Cardinality(CountedHours(p))
<1>. DEFINE now == dtPass[p].now
<1>1. /\ dtKind' = dtKind /\ dtNow' = dtNow /\ dtFails' = dtFails /\ dtCalls' = dtCalls /\ dtAdmin' = dtAdmin
      /\ dtDisk' = dtDisk /\ dtRan' = dtRan /\ dtFaults' = dtFaults /\ dtOverlap' = dtOverlap
  BY DEF HoursCounted, dtWorld, dtAudit
<1>2. dtPass[p].pc = "count" /\ dtPass' = [dtPass EXCEPT ![p].pc = "groups"]
  BY DEF HoursCounted, At, Go
<1>3. /\ dtPass' \in [Passes -> PassRecs]
      /\ dtPass'[p].pc = "groups" /\ dtPass'[p].now = dtPass[p].now /\ dtPass'[p].admin = dtPass[p].admin
      /\ dtPass'[p].from = dtPass[p].from /\ dtPass'[p].ok = dtPass[p].ok
      /\ \A q \in Passes \ {p} : dtPass'[q] = dtPass[q]
  BY <1>2, PassGoes
<1>4. dtNow \in 1 .. MaxTime /\ dtCalls \subseteq 1 .. dtNow /\ dtStore \in Keepers
  BY DEF DtShape, Times
<1>5. now \in 1 .. dtNow /\ now \in Nat /\ now - 1 \in 0 .. MaxTime
  <2>1. now \in 1 .. dtNow
    BY <1>2 DEF PassTimes
  <2>. HIDE DEF now
  <2>. QED
    BY <1>4, <2>1, DtConstants
<1>6. /\ dtStore.hist \in Nat /\ dtStore.through \in 0 .. MaxTime /\ dtStore.through \in Nat
      /\ dtPass[p].from \in 0 .. MaxTime /\ dtPass[p].from \in Nat
  BY <1>4, DtConstants DEF Keepers, DtShape, PassRecs
<1>7. /\ IsFiniteSet(dtCalls) /\ \A T : T \subseteq dtCalls => IsFiniteSet(T) /\ Cardinality(T) \in Nat
  <2>1. dtCalls \subseteq Nat /\ dtNow \in Nat /\ \A c \in dtCalls : c <= dtNow
    BY <1>4
  <2>. QED
    BY <2>1, TicksCount
<1>8. more \in Nat
  BY <1>7 DEF CountedHours
<1>9. dtStore' = [dtStore EXCEPT !.hist = dtStore.hist + more, !.through = now - 1]
  BY DEF HoursCounted
<1>10. /\ dtStore' \in Keepers /\ dtStore'.row = dtStore.row /\ dtStore'.hist = dtStore.hist + more
       /\ dtStore'.through = now - 1 /\ dtStore'.groups = dtStore.groups /\ dtStore'.gained = dtStore.gained
  <2>1. PICK h, t : h = dtStore.hist + more /\ t = now - 1
    OBVIOUS
  <2>2. h \in Nat /\ t \in 0 .. MaxTime
    BY <1>5, <1>6, <1>8, <2>1
  <2>. HIDE DEF more, now
  <2>3. dtStore' = [dtStore EXCEPT !.hist = h, !.through = t]
    BY <1>9, <2>1
  <2>. QED
    BY <1>4, <2>1, <2>2, <2>3 DEF Keepers
<1>11. DtShape'
  BY <1>1, <1>3, <1>10 DEF DtShape
<1>12. PassTimes'
  <2>1. dtStore'.through < dtNow
    BY <1>4, <1>5, <1>10
  <2>. QED
    BY <1>1, <1>2, <1>3, <2>1 DEF PassTimes
<1>13. BurstsSeen'
  BY <1>1, <1>2, <1>3, <1>10 DEF BurstsSeen, Seen
<1>14. Escalations'
  BY <1>1, <1>10 DEF Escalations, GainReported
<1>15. Alone'
  <2>. SUFFICES ASSUME ~dtOverlap PROVE Alone'
    BY <1>1 DEF Alone
  <2>1. \A q \in Passes \ {p} : dtPass[q].pc = "idle"
    BY <1>2 DEF Alone
  <2>2. StoreAlone(dtDisk)'
    BY <1>1 DEF Alone, StoreAlone
  <2>3. StoreAlone(dtStore) /\ PassAlone(dtPass[p], dtStore)
    BY DEF Alone
  <2>4. RowsSound(dtStore', dtNow) /\ SnapshotSound(dtStore', dtAdmin)
    BY <1>10, <2>3 DEF StoreAlone, RowsSound, SnapshotSound
  <2>5. Counted(dtCalls, dtStore')
    <3>. DEFINE before == {c \in dtCalls : c <= dtStore.through}
    <3>. DEFINE since == CountedHours(p)
    <3>. DEFINE all == {c \in dtCalls : c <= now - 1}
    <3>1. dtPass[p].from = dtStore.through /\ dtStore.through < now
      BY <1>2, <2>3 DEF PassAlone
    <3>2. before \cap since = {}
      <4>1. ASSUME NEW c \in dtCalls, c <= dtStore.through, dtPass[p].from < c PROVE FALSE
        <5>1. c \in Nat
          BY <1>4
        <5>. QED
          BY <1>6, <3>1, <4>1, <5>1
      <4>. QED
        BY <4>1 DEF CountedHours
    <3>3. before \cup since = all
      <4>. HIDE DEF now
      <4>1. ASSUME NEW c \in dtCalls
            PROVE  c <= now - 1 <=> c <= dtStore.through \/ (dtPass[p].from < c /\ c < now)
        <5>1. c \in Nat
          BY <1>4
        <5>. QED
          BY <1>5, <1>6, <3>1, <5>1
      <4>. QED
        BY <4>1 DEF CountedHours, now
    <3>4. IsFiniteSet(before) /\ IsFiniteSet(since) /\ Cardinality(before) \in Nat /\ Cardinality(since) \in Nat
      BY <1>7 DEF CountedHours
    <3>. HIDE DEF before, since, all
    <3>5. Cardinality(all) = Cardinality(before) + Cardinality(since)
      <4>1. Cardinality(before \cup since) = Cardinality(before) + Cardinality(since) - Cardinality(before \cap since)
        BY <3>4, FS_Union
      <4>2. Cardinality(before \cap since) = 0
        BY <3>2, FS_EmptySet
      <4>3. Cardinality(all) = Cardinality(before) + Cardinality(since) - 0
        BY <3>3, <4>1, <4>2, Zenon
      <4>. QED
        BY <3>4, <4>3
    <3>6. dtStore.hist = Cardinality(before)
      BY <2>3 DEF StoreAlone, Counted, before
    <3>7. dtStore'.hist = Cardinality(all)
      BY <1>10, <3>5, <3>6 DEF since
    <3>. QED
      BY <1>10, <3>7 DEF Counted, all
  <2>6. StoreAlone(dtStore)'
    BY <1>1, <2>4, <2>5 DEF StoreAlone
  <2>7. PassAlone(dtPass[p], dtStore)'
    BY <1>2, <1>3, <1>10, <2>3 DEF PassAlone
  <2>8. \A q \in Passes : PassAlone(dtPass[q], dtStore)'
    BY <1>3, <2>1, <2>7 DEF PassAlone
  <2>9. \A q, r \in Passes : dtPass'[q].pc # "idle" /\ dtPass'[r].pc # "idle" => q = r
    BY <1>3, <2>1
  <2>. QED
    BY <2>2, <2>6, <2>8, <2>9 DEF Alone
<1>. QED
  BY <1>11, <1>12, <1>13, <1>14, <1>15

\* A comparison sets the snapshot, or stops at an escalation.
LEMMA GroupsComparedKeeps ==
  ASSUME DtInv, NEW p \in Passes, GroupsCompared(p)
  PROVE  DtInv'
<1>. USE DEF DtInv
<1>. DEFINE gains == dtStore.groups = "user" /\ dtPass[p].admin
<1>1. /\ dtKind' = dtKind /\ dtNow' = dtNow /\ dtFails' = dtFails /\ dtCalls' = dtCalls /\ dtAdmin' = dtAdmin
      /\ dtDisk' = dtDisk /\ dtRan' = dtRan /\ dtFaults' = dtFaults /\ dtOverlap' = dtOverlap
  BY DEF GroupsCompared, dtWorld, dtAudit
<1>2. dtPass[p].pc = "groups" /\ dtStore \in Keepers /\ dtPass[p].admin \in BOOLEAN
  BY DEF GroupsCompared, At, DtShape, PassRecs
<1>3. PICK pc \in {"actor", "prune"} : /\ dtPass' = [dtPass EXCEPT ![p].pc = pc]
                                       /\ pc = "actor" <=> gains
  BY DEF GroupsCompared, Go
<1>4. /\ dtPass' \in [Passes -> PassRecs]
      /\ dtPass'[p].pc = pc /\ dtPass'[p].now = dtPass[p].now /\ dtPass'[p].admin = dtPass[p].admin
      /\ dtPass'[p].from = dtPass[p].from /\ dtPass'[p].ok = dtPass[p].ok
      /\ \A q \in Passes \ {p} : dtPass'[q] = dtPass[q]
  BY <1>3, PassGoes
<1>5. /\ dtStore' \in Keepers /\ dtStore'.row = dtStore.row
      /\ dtStore'.hist = dtStore.hist /\ dtStore'.through = dtStore.through
      /\ gains => dtStore'.groups = "user"
      /\ ~gains => dtStore'.groups = Group(dtPass[p].admin) /\ dtStore'.gained = dtStore.gained
  <2>1. CASE gains
    <3>1. dtStore' = [dtStore EXCEPT !.gained = TRUE]
      BY <2>1 DEF GroupsCompared, SnapshotAtOnce
    <3>. QED
      BY <1>2, <2>1, <3>1 DEF Keepers
  <2>2. CASE ~gains
    <3>1. dtStore' = [dtStore EXCEPT !.groups = Group(dtPass[p].admin)]
      BY <2>2 DEF GroupsCompared
    <3>2. Group(dtPass[p].admin) \in {"unset", "user", "admin"}
      BY DEF Group
    <3>. QED
      BY <1>2, <2>2, <3>1, <3>2 DEF Keepers
  <2>. QED
    BY <2>1, <2>2
<1>6. DtShape'
  BY <1>1, <1>4, <1>5 DEF DtShape
<1>7. PassTimes'
  BY <1>1, <1>2, <1>3, <1>4, <1>5 DEF PassTimes
<1>8. BurstsSeen'
  BY <1>1, <1>2, <1>4, <1>5 DEF BurstsSeen, Seen
<1>9. Escalations'
  <2>1. GainReported(dtStore')
    <3>1. CASE gains
      BY <1>5, <3>1 DEF GainReported
    <3>2. CASE ~gains
      <4>1. dtStore'.groups # "unset"
        BY <1>5, <3>2 DEF Group
      <4>2. ASSUME dtStore'.gained, dtStore'.groups = "admin" PROVE Known(dtStore'.row[Escalation])
        <5>1. dtStore.gained /\ dtPass[p].admin
          BY <1>5, <3>2, <4>2 DEF Group
        <5>2. dtStore.groups = "admin"
          BY <1>2, <3>2, <5>1 DEF Escalations, GainReported, Keepers
        <5>. QED
          BY <1>5, <5>1, <5>2 DEF Escalations, GainReported
      <4>. QED
        BY <4>1, <4>2 DEF GainReported
    <3>. QED
      BY <3>1, <3>2
  <2>. QED
    BY <1>1, <2>1 DEF Escalations
<1>10. Alone'
  <2>. SUFFICES ASSUME ~dtOverlap PROVE Alone'
    BY <1>1 DEF Alone
  <2>1. \A q \in Passes \ {p} : dtPass[q].pc = "idle"
    BY <1>2 DEF Alone
  <2>2. StoreAlone(dtDisk)'
    BY <1>1 DEF Alone, StoreAlone
  <2>3. StoreAlone(dtStore) /\ PassAlone(dtPass[p], dtStore)
    BY DEF Alone
  <2>4. RowsSound(dtStore', dtNow) /\ Counted(dtCalls, dtStore')
    BY <1>5, <2>3 DEF StoreAlone, RowsSound, Counted
  <2>5. SnapshotSound(dtStore', dtAdmin)
    <3>1. Known(dtStore.row[Escalation]) => dtStore.groups = "admin" /\ dtPass[p].admin
      BY <1>2, <2>3 DEF StoreAlone, SnapshotSound, PassAlone
    <3>2. dtPass[p].admin => dtAdmin
      BY <1>2 DEF PassTimes
    <3>. QED
      BY <1>5, <3>1, <3>2 DEF SnapshotSound, Group
  <2>6. StoreAlone(dtStore)'
    BY <1>1, <2>4, <2>5 DEF StoreAlone
  <2>7. PassAlone(dtPass[p], dtStore)'
    BY <1>3, <1>4, <1>5 DEF PassAlone
  <2>8. \A q \in Passes : PassAlone(dtPass[q], dtStore)'
    BY <1>4, <2>1, <2>7 DEF PassAlone
  <2>9. \A q, r \in Passes : dtPass'[q].pc # "idle" /\ dtPass'[r].pc # "idle" => q = r
    BY <1>4, <2>1
  <2>. QED
    BY <2>2, <2>6, <2>8, <2>9 DEF Alone
<1>. QED
  BY <1>6, <1>7, <1>8, <1>9, <1>10

LEMMA EscalationFoundKeeps ==
  ASSUME DtInv, NEW p \in Passes, EscalationFound(p)
  PROVE  DtInv'
<1>. USE DEF DtInv
<1>. DEFINE rows == dtStore.row
<1>. DEFINE new == Upsert(dtStore.row, Escalation, dtPass[p].now)
<1>1. /\ dtKind' = dtKind /\ dtNow' = dtNow /\ dtFails' = dtFails /\ dtCalls' = dtCalls /\ dtAdmin' = dtAdmin
      /\ dtDisk' = dtDisk /\ dtRan' = dtRan /\ dtFaults' = dtFaults /\ dtOverlap' = dtOverlap
  BY DEF EscalationFound, dtWorld, dtAudit
<1>2. dtPass[p].pc = "actor" /\ dtPass' = [dtPass EXCEPT ![p].pc = "prune"]
  BY DEF EscalationFound, At, Go
<1>3. /\ dtPass' \in [Passes -> PassRecs]
      /\ dtPass'[p].pc = "prune" /\ dtPass'[p].now = dtPass[p].now /\ dtPass'[p].admin = dtPass[p].admin
      /\ dtPass'[p].from = dtPass[p].from /\ dtPass'[p].ok = dtPass[p].ok
      /\ \A q \in Passes \ {p} : dtPass'[q] = dtPass[q]
  BY <1>2, PassGoes
<1>4. dtStore \in Keepers /\ rows \in [Ids -> Row] /\ dtFails \subseteq 1 .. MaxTime /\ Escalation \in Ids
      /\ dtPass[p].now \in Times
  <2>1. dtPass[p].now \in 1 .. dtNow /\ dtNow \in 1 .. MaxTime /\ dtFails \subseteq 1 .. dtNow
    BY <1>2 DEF PassTimes, DtShape, Times
  <2>2. dtPass[p].now \in Times /\ dtFails \subseteq 1 .. MaxTime
    BY <2>1, DtConstants DEF Times
  <2>. QED
    BY <2>2 DEF DtShape, Keepers, Ids
<1>5. /\ new \in [Ids -> Row] /\ \A i \in Ids \ {Escalation} : new[i] = rows[i]
      /\ new[Escalation].status = IF rows[Escalation].status = "none" THEN "open" ELSE rows[Escalation].status
      /\ new[Escalation].closed = rows[Escalation].closed
      /\ \A i \in Ids : Known(rows[i]) => Known(new[i])
      /\ Known(new[Escalation])
  BY <1>4, UpsertSays
<1>6. dtStore' = [dtStore EXCEPT !.row = new, !.groups = "admin"]
  BY DEF EscalationFound
<1>. HIDE DEF new
<1>7. /\ dtStore' \in Keepers /\ dtStore'.row = new /\ dtStore'.hist = dtStore.hist
      /\ dtStore'.through = dtStore.through /\ dtStore'.groups = "admin" /\ dtStore'.gained = dtStore.gained
  BY <1>4, <1>5, <1>6 DEF Keepers
<1>8. DtShape'
  BY <1>1, <1>3, <1>7 DEF DtShape
<1>9. PassTimes'
  BY <1>1, <1>2, <1>3, <1>7 DEF PassTimes
<1>10. BurstsSeen'
  <2>1. ASSUME NEW n, Seen(dtFails, dtStore, n) PROVE Seen(dtFails, dtStore', n)
    BY <1>4, <1>5, <1>7, <2>1, SeenStands
  <2>. QED
    BY <1>1, <1>2, <1>3, <2>1 DEF BurstsSeen
<1>11. Escalations'
  BY <1>1, <1>5, <1>7 DEF Escalations, GainReported
<1>12. Alone'
  <2>. SUFFICES ASSUME ~dtOverlap PROVE Alone'
    BY <1>1 DEF Alone
  <2>1. \A q \in Passes \ {p} : dtPass[q].pc = "idle"
    BY <1>2 DEF Alone
  <2>2. StoreAlone(dtDisk)'
    BY <1>1 DEF Alone, StoreAlone
  <2>3. StoreAlone(dtStore) /\ PassAlone(dtPass[p], dtStore)
    BY DEF Alone
  <2>4. dtStore.groups = "user" /\ ~rows[Escalation].closed
    BY <1>2, <2>3 DEF StoreAlone, SnapshotSound, PassAlone, Known
  <2>5. RowsSound(dtStore', dtNow)
    <3>1. \A i \in Ids : new[i].closed => new[i].status \in {"none", "resolved"}
      BY <1>5, <2>3, <2>4 DEF StoreAlone, RowsSound
    <3>2. \A i \in Buckets : new[i] = rows[i]
      BY <1>5, EscalationIsNoHour DEF Ids
    <3>. QED
      BY <1>7, <2>3, <3>1, <3>2 DEF StoreAlone, RowsSound
  <2>6. Counted(dtCalls, dtStore') /\ SnapshotSound(dtStore', dtAdmin)
    <3>1. dtAdmin
      BY <1>2 DEF PassTimes
    <3>. QED
      BY <1>7, <2>3, <3>1 DEF StoreAlone, Counted, SnapshotSound
  <2>7. StoreAlone(dtStore)'
    BY <1>1, <2>5, <2>6 DEF StoreAlone
  <2>8. PassAlone(dtPass[p], dtStore)'
    BY <1>3 DEF PassAlone
  <2>9. \A q \in Passes : PassAlone(dtPass[q], dtStore)'
    BY <1>3, <2>1, <2>8 DEF PassAlone
  <2>10. \A q, r \in Passes : dtPass'[q].pc # "idle" /\ dtPass'[r].pc # "idle" => q = r
    BY <1>3, <2>1
  <2>. QED
    BY <2>2, <2>7, <2>9, <2>10 DEF Alone
<1>. QED
  BY <1>8, <1>9, <1>10, <1>11, <1>12

LEMMA PassEndsKeeps ==
  ASSUME DtInv, NEW p \in Passes, PassEnds(p)
  PROVE  DtInv'
<1>. USE DEF DtInv
<1>. DEFINE rows == dtStore.row
<1>. DEFINE new == Pruned(dtStore.row, dtPass[p].now)
<1>1. /\ dtKind' = dtKind /\ dtNow' = dtNow /\ dtFails' = dtFails /\ dtCalls' = dtCalls /\ dtAdmin' = dtAdmin
      /\ dtDisk' = dtDisk /\ dtFaults' = dtFaults /\ dtOverlap' = dtOverlap
      /\ dtRan' = (dtRan \/ (dtPass[p].ok /\ dtPass[p].now = dtNow))
  BY DEF PassEnds, dtWorld, dtAudit
<1>2. dtPass[p].pc = "prune" /\ dtPass' = [dtPass EXCEPT ![p] = IdlePass] /\ dtPass \in [Passes -> PassRecs]
  BY DEF PassEnds, At, DtShape
<1>3. /\ dtPass' \in [Passes -> PassRecs] /\ dtPass'[p].pc = "idle"
      /\ \A q \in Passes \ {p} : dtPass'[q] = dtPass[q]
  BY <1>2, IdleIsPass
<1>4. /\ dtStore \in Keepers /\ rows \in [Ids -> Row] /\ dtFails \subseteq 1 .. MaxTime
      /\ dtPass[p].now \in Nat /\ dtPass[p].now <= dtNow /\ dtNow \in 1 .. MaxTime
  <2>1. dtPass[p].now \in 1 .. dtNow /\ dtNow \in 1 .. MaxTime /\ dtFails \subseteq 1 .. dtNow
    BY <1>2 DEF PassTimes, DtShape, Times
  <2>2. dtPass[p].now \in Nat /\ dtPass[p].now <= dtNow /\ dtFails \subseteq 1 .. MaxTime
    BY <2>1, DtConstants
  <2>. QED
    BY <2>1, <2>2 DEF DtShape, Keepers
<1>5. /\ new \in [Ids -> Row]
      /\ \A i \in Ids : \/ new[i] = rows[i]
                        \/ /\ rows[i].status = "resolved" /\ rows[i].at + Retention < dtPass[p].now
                           /\ new[i] = [NoRow EXCEPT !.closed = TRUE]
      /\ \A i \in Ids : Known(rows[i]) => Known(new[i])
  BY <1>4, PrunedSays
<1>6. dtStore' = [dtStore EXCEPT !.row = new]
  BY DEF PassEnds
<1>. HIDE DEF new
<1>7. /\ dtStore' \in Keepers /\ dtStore'.row = new /\ dtStore'.hist = dtStore.hist
      /\ dtStore'.through = dtStore.through /\ dtStore'.groups = dtStore.groups /\ dtStore'.gained = dtStore.gained
  BY <1>4, <1>5, <1>6 DEF Keepers
<1>8. [NoRow EXCEPT !.closed = TRUE].status = "none" /\ [NoRow EXCEPT !.closed = TRUE].closed
  BY DEF NoRow
<1>9. Escalation \in Ids
  BY DEF Ids
<1>10. DtShape'
  BY <1>1, <1>2, <1>3, <1>7 DEF DtShape, PassRecs
<1>11. PassTimes'
  BY <1>1, <1>2, <1>3, <1>7 DEF PassTimes
<1>12. BurstsSeen'
  <2>1. ASSUME NEW n, Seen(dtFails, dtStore, n) PROVE Seen(dtFails, dtStore', n)
    BY <1>4, <1>5, <1>7, <2>1, SeenStands
  <2>. QED
    BY <1>1, <1>2, <1>3, <2>1 DEF BurstsSeen
<1>13. Escalations'
  BY <1>1, <1>5, <1>7, <1>9 DEF Escalations, GainReported
<1>14. Alone'
  <2>. SUFFICES ASSUME ~dtOverlap PROVE Alone'
    BY <1>1 DEF Alone
  <2>1. \A q \in Passes \ {p} : dtPass[q].pc = "idle"
    BY <1>2 DEF Alone
  <2>2. StoreAlone(dtDisk)'
    BY <1>1 DEF Alone, StoreAlone
  <2>3. StoreAlone(dtStore)
    BY DEF Alone
  <2>4. \A i \in Ids : new[i].closed => new[i].status \in {"none", "resolved"}
    BY <1>5, <1>8, <2>3 DEF StoreAlone, RowsSound
  <2>5. ASSUME NEW i \in Buckets PROVE RowSound(new[i], i, dtNow)
    <3>1. i \in Ids /\ RowSound(rows[i], i, dtNow)
      BY <2>3 DEF Ids, StoreAlone, RowsSound
    <3>2. CASE new[i] = rows[i]
      BY <3>1, <3>2
    <3>3. CASE rows[i].status = "resolved" /\ rows[i].at + Retention < dtPass[p].now
               /\ new[i] = [NoRow EXCEPT !.closed = TRUE]
      <4>1. PICK u \in 0 .. MaxTime : Bucket(u) = i /\ u <= rows[i].at
        BY <3>1, <3>3 DEF RowSound, HourBegan
      <4>2. rows[i].at \in 0 .. MaxTime
        BY <1>4, <3>1 DEF Row
      <4>3. u + Retention < dtNow
        BY <1>4, <3>3, <4>1, <4>2, DtConstants
      <4>4. HourGone(i, dtNow)
        BY <4>1, <4>3 DEF HourGone
      <4>. QED
        BY <1>8, <3>3, <4>4 DEF RowSound
    <3>. QED
      BY <1>5, <3>1, <3>2, <3>3
  <2>6. SnapshotSound(dtStore', dtAdmin)
    <3>1. Known(new[Escalation]) => Known(rows[Escalation])
      BY <1>5, <1>9 DEF Known
    <3>. QED
      BY <1>7, <2>3, <3>1 DEF StoreAlone, SnapshotSound
  <2>7. StoreAlone(dtStore)'
    BY <1>1, <1>7, <2>3, <2>4, <2>5, <2>6 DEF StoreAlone, RowsSound, Counted
  <2>8. \A q \in Passes : PassAlone(dtPass[q], dtStore)'
    BY <1>3, <2>1 DEF PassAlone
  <2>9. \A q, r \in Passes : dtPass'[q].pc # "idle" /\ dtPass'[r].pc # "idle" => q = r
    BY <1>3, <2>1
  <2>. QED
    BY <2>2, <2>7, <2>8, <2>9 DEF Alone
<1>. QED
  BY <1>10, <1>11, <1>12, <1>13, <1>14

-----------------------------------------------------------------------------
(* The steps of the analyst, the world and the store.                      *)

\* A record of this tick changes no window that needs a failure out of sight.
LEMMA FailureOfNow ==
  ASSUME NEW now \in Nat, NEW fails, fails \subseteq 1 .. now, NEW s, NEW n \in Nat, n <= now + 1,
         Seen(fails, s, n)
  PROVE  Seen(fails \cup {now}, s, n)
<1>. DEFINE more == fails \cup {now}
<1>. SUFFICES ASSUME NEW t, NEW f, NeededBy(more, t, f), f + Lookback < n PROVE Known(s.row[Bucket(t)])
  BY DEF Seen
<1>1. t \in more /\ t \in Nat /\ f \in more /\ f \in Nat /\ f <= t /\ t - f <= Window
      /\ Cardinality(InWindow(more, t)) >= Failures
      /\ Cardinality({g \in more : f <= g /\ g <= t}) = Failures
  BY DEF NeededBy, BurstEnds, InWindow
<1>2. t < now
  <2>. HIDE DEF more
  <2>. QED
    BY <1>1, DtConstants
<1>3. t \in fails /\ f \in fails
  BY <1>1, <1>2
<1>4. InWindow(more, t) = InWindow(fails, t)
  BY <1>1, <1>2 DEF InWindow
<1>5. {g \in more : f <= g /\ g <= t} = {g \in fails : f <= g /\ g <= t}
  BY <1>1, <1>2
<1>6. f \in InWindow(fails, t) /\ t \in BurstEnds(fails)
  <2>. HIDE DEF more
  <2>. QED
    BY <1>1, <1>3, <1>4 DEF InWindow, BurstEnds
<1>7. NeededBy(fails, t, f)
  <2>. HIDE DEF more
  <2>. QED
    BY <1>1, <1>5, <1>6 DEF NeededBy
<1>. QED
  BY <1>7 DEF Seen

LEMMA StatusSetKeeps ==
  ASSUME DtInv, NEW i \in Ids, NEW s \in {"ack", "resolved"}, StatusSet(i, s)
  PROVE  DtInv'
<1>. USE DEF DtInv
<1>. DEFINE row == [dtStore.row[i] EXCEPT !.status = s, !.at = dtNow, !.closed = (s = "resolved")]
<1>1. /\ dtKind' = dtKind /\ dtNow' = dtNow /\ dtFails' = dtFails /\ dtCalls' = dtCalls /\ dtAdmin' = dtAdmin
      /\ dtDisk' = dtDisk /\ dtPass' = dtPass /\ dtRan' = dtRan /\ dtFaults' = dtFaults /\ dtOverlap' = dtOverlap
  BY DEF StatusSet, dtWorld, dtAudit
<1>2. /\ dtStore \in Keepers /\ dtStore.row \in [Ids -> Row] /\ dtStore.row[i] \in Row
      /\ dtNow \in 1 .. MaxTime /\ dtNow \in 0 .. MaxTime /\ dtFails \subseteq 1 .. MaxTime
  <2>1. dtNow \in 1 .. MaxTime /\ dtFails \subseteq 1 .. dtNow
    BY DEF DtShape, Times
  <2>2. dtNow \in 0 .. MaxTime /\ dtFails \subseteq 1 .. MaxTime
    BY <2>1, DtConstants
  <2>3. dtStore \in Keepers
    BY DEF DtShape
  <2>4. dtStore.row \in [Ids -> Row] /\ dtStore.row[i] \in Row
    BY <2>3 DEF Keepers
  <2>. QED
    BY <2>1, <2>2, <2>3, <2>4
<1>3. row \in Row /\ row.status = s /\ row.at = dtNow /\ (row.closed <=> s = "resolved")
  <2>1. PICK now, closed : now = dtNow /\ closed = (s = "resolved")
    OBVIOUS
  <2>2. now \in 0 .. MaxTime /\ closed \in BOOLEAN
    BY <1>2, <2>1
  <2>3. PICK r : r = [dtStore.row[i] EXCEPT !.status = s, !.at = now, !.closed = closed]
    OBVIOUS
  <2>4. r \in Row /\ r.status = s /\ r.at = now /\ r.closed = closed
    BY <1>2, <2>2, <2>3 DEF Row
  <2>. QED
    BY <2>1, <2>3, <2>4
<1>4. dtStore.row[i].status # "none" /\ dtStore' = [dtStore EXCEPT !.row = [dtStore.row EXCEPT ![i] = row]]
  BY DEF StatusSet
<1>. HIDE DEF row
<1>5. PICK new : new = [dtStore.row EXCEPT ![i] = row]
  OBVIOUS
<1>6. new \in [Ids -> Row] /\ new[i] = row /\ \A j \in Ids \ {i} : new[j] = dtStore.row[j]
  BY <1>2, <1>3, <1>5
<1>7. /\ dtStore' \in Keepers /\ dtStore'.row = new /\ dtStore'.hist = dtStore.hist
      /\ dtStore'.through = dtStore.through /\ dtStore'.groups = dtStore.groups /\ dtStore'.gained = dtStore.gained
  BY <1>2, <1>4, <1>5, <1>6 DEF Keepers
<1>8. \A j \in Ids : Known(dtStore.row[j]) <=> Known(new[j])
  BY <1>3, <1>4, <1>6 DEF Known
<1>9. Escalation \in Ids
  BY DEF Ids
<1>10. DtShape'
  BY <1>1, <1>7 DEF DtShape
<1>11. PassTimes'
  BY <1>1, <1>7 DEF PassTimes
<1>12. BurstsSeen'
  <2>1. ASSUME NEW n, Seen(dtFails, dtStore, n) PROVE Seen(dtFails, dtStore', n)
    BY <1>2, <1>7, <1>8, <2>1, SeenStands
  <2>. QED
    BY <1>1, <2>1 DEF BurstsSeen
<1>13. Escalations'
  BY <1>1, <1>7, <1>8, <1>9 DEF Escalations, GainReported
<1>14. Alone'
  <2>. SUFFICES ASSUME ~dtOverlap PROVE Alone'
    BY <1>1 DEF Alone
  <2>1. StoreAlone(dtDisk)' /\ StoreAlone(dtStore)
    BY <1>1 DEF Alone, StoreAlone
  <2>2. \A j \in Ids : new[j].closed => new[j].status \in {"none", "resolved"}
    BY <1>3, <1>6, <2>1 DEF StoreAlone, RowsSound
  <2>3. ASSUME NEW j \in Buckets PROVE RowSound(new[j], j, dtNow)
    <3>1. j \in Ids /\ RowSound(dtStore.row[j], j, dtNow)
      BY <2>1 DEF Ids, StoreAlone, RowsSound
    <3>2. CASE j = i
      <4>1. HourBegan(j, dtNow)
        BY <1>4, <3>1, <3>2 DEF RowSound
      <4>. QED
        BY <1>3, <1>6, <3>2, <4>1 DEF RowSound
    <3>3. CASE j # i
      BY <1>6, <3>1, <3>3
    <3>. QED
      BY <3>2, <3>3
  <2>4. SnapshotSound(dtStore', dtAdmin)
    BY <1>7, <1>8, <1>9, <2>1 DEF StoreAlone, SnapshotSound
  <2>5. StoreAlone(dtStore)'
    BY <1>1, <1>7, <2>1, <2>2, <2>3, <2>4 DEF StoreAlone, RowsSound, Counted
  <2>6. ASSUME NEW q \in Passes PROVE PassAlone(dtPass[q], dtStore')
    <3>1. \A j \in Buckets : new[j].status = "none" => new[j] = dtStore.row[j]
      BY <1>3, <1>6 DEF Ids
    <3>2. PassAlone(dtPass[q], dtStore)
      BY DEF Alone
    <3>. QED
      BY <1>7, <3>1, <3>2 DEF PassAlone
  <2>. QED
    BY <1>1, <2>1, <2>5, <2>6 DEF Alone
<1>. QED
  BY <1>10, <1>11, <1>12, <1>13, <1>14

LEMMA LoginFailsKeeps ==
  ASSUME DtInv, LoginFails
  PROVE  DtInv'
<1>. USE DEF DtInv
<1>1. /\ dtKind' = dtKind /\ dtNow' = dtNow /\ dtCalls' = dtCalls /\ dtAdmin' = dtAdmin
      /\ dtStore' = dtStore /\ dtDisk' = dtDisk /\ dtPass' = dtPass /\ dtRan' = dtRan /\ dtFaults' = dtFaults
      /\ dtOverlap' = dtOverlap /\ dtFails' = dtFails \cup {dtNow}
  BY DEF LoginFails
<1>2. dtNow \in Nat /\ dtNow > 0 /\ dtFails \subseteq 1 .. dtNow /\ dtNow + 1 \in Nat
  BY DtConstants DEF DtShape, Times
<1>3. DtShape'
  BY <1>1, <1>2 DEF DtShape
<1>4. BurstsSeen'
  <2>1. ASSUME NEW s, NEW n \in {dtNow, dtNow + 1}, Seen(dtFails, s, n) PROVE Seen(dtFails', s, n)
    <3>1. n \in Nat /\ n <= dtNow + 1
      BY <1>2
    <3>. QED
      BY <1>1, <1>2, <2>1, <3>1, FailureOfNow
  <2>. QED
    BY <1>1, <2>1 DEF BurstsSeen
<1>5. PassTimes' /\ Escalations' /\ Alone'
  BY <1>1 DEF PassTimes, Escalations, Alone, StoreAlone
<1>. QED
  BY <1>3, <1>4, <1>5

\* A call of this tick is after every checkpoint.
LEMMA CallMadeKeeps ==
  ASSUME DtInv, CallMade
  PROVE  DtInv'
<1>. USE DEF DtInv
<1>1. /\ dtKind' = dtKind /\ dtNow' = dtNow /\ dtFails' = dtFails /\ dtAdmin' = dtAdmin
      /\ dtStore' = dtStore /\ dtDisk' = dtDisk /\ dtPass' = dtPass /\ dtRan' = dtRan /\ dtFaults' = dtFaults
      /\ dtOverlap' = dtOverlap /\ dtCalls' = dtCalls \cup {dtNow}
  BY DEF CallMade
<1>2. dtNow \in Nat /\ dtNow > 0 /\ dtCalls \subseteq 1 .. dtNow
  BY DtConstants DEF DtShape, Times
<1>3. DtShape'
  BY <1>1, <1>2 DEF DtShape
<1>4. Alone'
  <2>1. ASSUME NEW s \in {dtStore, dtDisk}, Counted(dtCalls, s) PROVE Counted(dtCalls', s)
    <3>1. s.through \in 0 .. MaxTime /\ s.through < dtNow
      BY DEF DtShape, PassTimes, Keepers
    <3>2. {c \in dtCalls' : c <= s.through} = {c \in dtCalls : c <= s.through}
      BY <1>1, <1>2, <3>1, DtConstants
    <3>. QED
      BY <2>1, <3>2 DEF Counted
  <2>2. \A s \in {dtStore, dtDisk} : StoreAlone(s) => Counted(dtCalls', s) /\ RowsSound(s, dtNow) /\ SnapshotSound(s, dtAdmin)
    BY <2>1 DEF StoreAlone
  <2>. QED
    BY <1>1, <2>2 DEF Alone, StoreAlone
<1>5. PassTimes' /\ BurstsSeen' /\ Escalations'
  BY <1>1 DEF PassTimes, BurstsSeen, Escalations
<1>. QED
  BY <1>3, <1>4, <1>5

LEMMA AdminGrantedKeeps ==
  ASSUME DtInv, AdminGranted
  PROVE  DtInv'
<1>. USE DEF DtInv
<1>1. /\ dtKind' = dtKind /\ dtNow' = dtNow /\ dtFails' = dtFails /\ dtCalls' = dtCalls
      /\ dtStore' = dtStore /\ dtDisk' = dtDisk /\ dtPass' = dtPass /\ dtRan' = dtRan /\ dtFaults' = dtFaults
      /\ dtOverlap' = dtOverlap /\ dtAdmin' = TRUE
  BY DEF AdminGranted, dtAudit
<1>2. DtShape' /\ PassTimes' /\ BurstsSeen' /\ Escalations'
  BY <1>1 DEF DtShape, PassTimes, BurstsSeen, Escalations
<1>3. Alone'
  BY <1>1 DEF Alone, StoreAlone, SnapshotSound
<1>. QED
  BY <1>2, <1>3

LEMMA TimePassesKeeps ==
  ASSUME DtInv, TimePasses
  PROVE  DtInv'
<1>. USE DEF DtInv
<1>1. /\ dtKind' = dtKind /\ dtFails' = dtFails /\ dtCalls' = dtCalls /\ dtAdmin' = dtAdmin
      /\ dtStore' = dtStore /\ dtDisk' = dtDisk /\ dtPass' = dtPass /\ ~dtRan' /\ dtRan' \in BOOLEAN /\ dtFaults' = dtFaults
      /\ dtOverlap' = dtOverlap /\ dtNow' = dtNow + 1 /\ dtNow < MaxTime /\ dtRan /\ dtDisk = dtStore
  BY DEF TimePasses, dtAudit
<1>2. dtNow \in Nat /\ dtNow > 0 /\ dtFails \subseteq 1 .. dtNow /\ dtCalls \subseteq 1 .. dtNow
  BY DtConstants DEF DtShape, Times
<1>3. dtNow + 1 \in Times /\ dtFails \subseteq 1 .. dtNow + 1 /\ dtCalls \subseteq 1 .. dtNow + 1
      /\ 1 .. dtNow \subseteq 1 .. dtNow + 1
  BY <1>1, <1>2, DtConstants DEF Times
<1>4. DtShape'
  BY <1>1, <1>3 DEF DtShape
<1>5. PassTimes'
  <2>1. dtStore.through < dtNow + 1 /\ dtDisk.through < dtNow + 1
    <3>1. dtStore.through < dtNow /\ dtStore.through \in 0 .. MaxTime
      BY DEF PassTimes, DtShape, Keepers
    <3>. QED
      BY <1>1, <1>2, <3>1, DtConstants
  <2>. QED
    BY <1>1, <1>3, <2>1 DEF PassTimes
<1>6. BurstsSeen'
  <2>1. Seen(dtFails, dtStore, dtNow + 1) /\ Seen(dtFails, dtDisk, dtNow + 1)
    BY <1>1 DEF BurstsSeen
  <2>2. \A p \in Passes : dtPass[p].pc # "idle" => dtPass[p].now # dtNow + 1
    <3>1. dtNow + 1 \notin 1 .. dtNow
      BY <1>2
    <3>. QED
      BY <3>1 DEF PassTimes
  <2>. QED
    BY <1>1, <2>1, <2>2 DEF BurstsSeen
<1>7. Escalations'
  BY <1>1 DEF Escalations
<1>8. Alone'
  <2>1. ASSUME NEW i, HourBegan(i, dtNow) PROVE HourBegan(i, dtNow + 1)
    <3>1. PICK u \in 0 .. MaxTime : Bucket(u) = i /\ u <= dtNow
      BY <2>1 DEF HourBegan
    <3>2. u <= dtNow + 1
      BY <1>2, <3>1, DtConstants
    <3>. QED
      BY <3>1, <3>2 DEF HourBegan
  <2>2. ASSUME NEW i, HourGone(i, dtNow) PROVE HourGone(i, dtNow + 1)
    <3>1. PICK u \in 0 .. MaxTime : Bucket(u) = i /\ u + Retention < dtNow
      BY <2>2 DEF HourGone
    <3>2. u + Retention < dtNow + 1
      BY <1>2, <3>1, DtConstants
    <3>. QED
      BY <3>1, <3>2 DEF HourGone
  <2>3. ASSUME NEW s, StoreAlone(s)
        PROVE  Counted(dtCalls, s) /\ RowsSound(s, dtNow + 1) /\ SnapshotSound(s, dtAdmin)
    BY <2>1, <2>2, <2>3 DEF StoreAlone, RowsSound, RowSound
  <2>. QED
    BY <1>1, <2>3 DEF Alone, StoreAlone
<1>. QED
  BY <1>4, <1>5, <1>6, <1>7, <1>8

LEMMA SavedKeeps ==
  ASSUME DtInv, Saved
  PROVE  DtInv'
<1>. USE DEF DtInv
<1>1. /\ dtKind' = dtKind /\ dtNow' = dtNow /\ dtFails' = dtFails /\ dtCalls' = dtCalls /\ dtAdmin' = dtAdmin
      /\ dtStore' = dtStore /\ dtDisk' = dtStore /\ dtPass' = dtPass /\ dtRan' = dtRan /\ dtFaults' = dtFaults
      /\ dtOverlap' = dtOverlap
  BY DEF Saved, dtWorld, dtAudit
<1>. QED
  BY <1>1 DEF DtShape, PassTimes, BurstsSeen, Escalations, Alone, StoreAlone

LEMMA RestartsKeeps ==
  ASSUME DtInv, Restarts
  PROVE  DtInv'
<1>. USE DEF DtInv
<1>1. /\ dtKind' = dtKind /\ dtNow' = dtNow /\ dtFails' = dtFails /\ dtCalls' = dtCalls /\ dtAdmin' = dtAdmin
      /\ dtStore' = dtDisk /\ dtDisk' = dtDisk /\ ~dtRan' /\ dtRan' \in BOOLEAN
      /\ dtOverlap' = dtOverlap /\ dtPass' = [p \in Passes |-> IdlePass]
  BY DEF Restarts, dtWorld, dtAudit
<1>2. dtFaults' \in 0 .. MaxFaults
  <2>1. dtFaults \in 0 .. MaxFaults /\ dtFaults < MaxFaults /\ dtFaults' = dtFaults + 1
    BY DEF DtShape, Restarts
  <2>. QED
    BY <2>1, DtConstants
<1>3. dtPass' \in [Passes -> PassRecs] /\ \A p \in Passes : dtPass'[p].pc = "idle"
  BY <1>1, IdleIsPass
<1>4. DtShape' /\ PassTimes' /\ BurstsSeen' /\ Escalations'
  BY <1>1, <1>2, <1>3 DEF DtShape, PassTimes, BurstsSeen, Escalations
<1>5. Alone'
  <2>1. \A p \in Passes : PassAlone(dtPass'[p], dtStore')
    BY <1>3 DEF PassAlone
  <2>. QED
    BY <1>1, <1>3, <2>1 DEF Alone, StoreAlone
<1>. QED
  BY <1>4, <1>5

-----------------------------------------------------------------------------
(* The theorem.                                                            *)

LEMMA DtInitInv ==
  DtInit => DtInv
<1>. SUFFICES ASSUME DtInit PROVE DtInv
  OBVIOUS
<1>1. NoRow \in Row /\ NoRow.status = "none" /\ ~NoRow.closed /\ 0 \in 0 .. MaxTime
  BY DtConstants DEF NoRow, Row
<1>2. /\ dtStore.row = [i \in Ids |-> NoRow] /\ dtStore.hist = 0 /\ dtStore.through = 0
      /\ dtStore.groups = "unset" /\ ~dtStore.gained /\ dtStore \in Keepers /\ dtDisk = dtStore
  <2>1. [i \in Ids |-> NoRow] \in [Ids -> Row]
    BY <1>1
  <2>. QED
    BY <1>1, <2>1 DEF DtInit, Keepers
<1>3. dtPass \in [Passes -> PassRecs] /\ \A p \in Passes : dtPass[p].pc = "idle"
  BY IdleIsPass DEF DtInit
<1>4. dtNow = 1 /\ dtFails = {} /\ dtCalls = {} /\ ~dtRan
  BY DEF DtInit
<1>5. DtShape
  <2>1. dtNow \in Times /\ 0 \in 0 .. MaxFaults
    BY <1>4, DtConstants DEF Times
  <2>2. /\ dtKind \in {"logins", "calls", "grants"} /\ dtAdmin = FALSE
        /\ dtRan = FALSE /\ dtOverlap = FALSE /\ dtFaults = 0
    BY DEF DtInit
  <2>. QED
    BY <1>2, <1>3, <1>4, <2>1, <2>2 DEF DtShape
<1>6. PassTimes /\ Escalations
  BY <1>2, <1>3, <1>4 DEF PassTimes, Escalations, GainReported
<1>7. BurstsSeen
  <2>1. \A s, n : Seen(dtFails, s, n)
    BY <1>4 DEF Seen, NeededBy, BurstEnds
  <2>. QED
    BY <2>1 DEF BurstsSeen
<1>8. Alone
  <2>1. Counted(dtCalls, dtStore)
    <3>1. {c \in dtCalls : c <= dtStore.through} = {}
      BY <1>4
    <3>. QED
      BY <1>2, <3>1, FS_EmptySet DEF Counted
  <2>2. \A i \in Ids : dtStore.row[i].status = "none" /\ ~dtStore.row[i].closed
    BY <1>1, <1>2
  <2>3. RowsSound(dtStore, dtNow) /\ SnapshotSound(dtStore, dtAdmin)
    BY <1>2, <2>2 DEF RowsSound, RowSound, SnapshotSound, Known, Ids
  <2>4. \A p \in Passes : PassAlone(dtPass[p], dtStore)
    BY <1>3 DEF PassAlone
  <2>. QED
    BY <1>2, <1>3, <2>1, <2>3, <2>4 DEF Alone, StoreAlone
<1>. QED
  BY <1>5, <1>6, <1>7, <1>8 DEF DtInv

LEMMA DtNextInv ==
  DtInv /\ [DtNext]_dtVars => DtInv'
<1>. SUFFICES ASSUME DtInv, [DtNext]_dtVars PROVE DtInv'
  OBVIOUS
<1>1. CASE UNCHANGED dtVars
  BY <1>1 DEF dtVars, dtWorld, dtAudit, DtInv, DtShape, PassTimes, BurstsSeen, Escalations, Alone, StoreAlone
<1>2. ASSUME NEW p \in Passes,
             PassBegins(p) \/ BruteForceIp(p) \/ HoursAsked(p) \/ HoursCounted(p)
               \/ GroupsCompared(p) \/ EscalationFound(p) \/ PassEnds(p) \/ RuleFails(p)
      PROVE  DtInv'
  BY <1>2, PassBeginsKeeps, BruteForceIpKeeps, HoursAskedKeeps, HoursCountedKeeps, GroupsComparedKeeps,
     EscalationFoundKeeps, PassEndsKeeps, RuleFailsKeeps
<1>3. ASSUME NEW i \in Ids, NEW s \in {"ack", "resolved"}, StatusSet(i, s) PROVE DtInv'
  BY <1>3, StatusSetKeeps
<1>4. CASE LoginFails \/ CallMade \/ AdminGranted \/ TimePasses \/ Saved \/ Restarts
  BY <1>4, LoginFailsKeeps, CallMadeKeeps, AdminGrantedKeeps, TimePassesKeeps, SavedKeeps, RestartsKeeps
<1>. QED
  BY <1>1, <1>2, <1>3, <1>4 DEF DtNext

LEMMA DtInvKeeps ==
  DtInv => DetectionsKept
<1>. SUFFICES ASSUME DtInv PROVE DetectionsKept
  OBVIOUS
<1>. USE DEF DtInv
<1>1. /\ dtNow \in Times /\ dtNow \in Nat /\ dtFails \subseteq 1 .. dtNow /\ dtFails \subseteq Nat
      /\ dtFails \subseteq Times /\ dtCalls \subseteq Times
  BY DtConstants DEF DtShape, Times
<1>2. DtTypeOK
  BY <1>1 DEF DtTypeOK, DtShape, Keepers, PassRecs
<1>3. NoBurstMissed
  <2>. SUFFICES ASSUME dtRan, NEW t \in BurstEnds(dtFails), dtNow >= FirstNeeded(t) + Lookback
                PROVE  Known(dtStore.row[Bucket(t)])
    BY DEF NoBurstMissed, Known
  <2>1. NeededBy(dtFails, t, FirstNeeded(t))
    BY <1>1, FirstNeededIs
  <2>2. FirstNeeded(t) \in Nat
    BY <1>1, <2>1 DEF NeededBy, InWindow
  <2>3. FirstNeeded(t) + Lookback < dtNow + 1
    BY <1>1, <2>2, DtConstants
  <2>. QED
    BY <2>1, <2>3 DEF BurstsSeen, Seen
<1>4. CountedOnce
  BY DEF CountedOnce, Alone, StoreAlone, Counted
<1>5. NoEscalationLost
  BY DEF NoEscalationLost, Escalations, GainReported, Known
<1>6. ResolvedStays
  BY DEF ResolvedStays, Alone, StoreAlone, RowsSound
<1>. QED
  BY <1>2, <1>3, <1>4, <1>5, <1>6 DEF DetectionsKept

\* Whatever the thresholds, for any number of failed logins, calls and passes:
\* no burst within the look-back is missed, a call counts once, an escalation a
\* pass has noticed is reported across restarts, and a resolved detection stays
\* resolved even after it has been pruned, the counts and the resolved ones as
\* long as no passes overlapped (detections.py).
THEOREM DetectionsHold ==
  DtSpec => []DetectionsKept
<1>1. DtSpec => []DtInv
  BY DtInitInv, DtNextInv, PTL DEF DtSpec
<1>. QED
  BY <1>1, DtInvKeeps, PTL
=============================================================================
