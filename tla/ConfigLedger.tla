----------------------------- MODULE ConfigLedger -----------------------------
(***************************************************************************)
(* The UniFi configuration ledger of config_ledger.py: an accepted         *)
(* baseline of the controller's configuration, the drift from it that a    *)
(* timer records, and the panel that shows the current configuration and   *)
(* accepts it.  A snapshot is read from the controller one collection at a *)
(* time (unifi.py), while the configuration changes: by an administrator,  *)
(* or by the write-back of a suggestion, which disables one policy with a  *)
(* full-object PUT.                                                        *)
(*                                                                         *)
(* A collection is a pair <<rows, on>>: which of two contents its rows     *)
(* have, and whether the policy the write-back is about is enabled.  A     *)
(* digest is the snapshot itself.                                          *)
(***************************************************************************)
EXTENDS Naturals, Sequences

CONSTANTS
  Collections,     \* which of the collections of CollectionOrder are in play
  Panels,          \* open browser panels of owners
  NoPanel,         \* the fetch of the timer
  MaxDriftHistory,      \* MAX_HISTORY
  MaxAdminChanges,      \* bound: changes made by an administrator
  MaxLosses        \* bound: requests the controller does not answer

\* _fill_network_from_api reads them in this order, in one or more requests
\* each.
CollectionOrder == <<"devices", "acl", "acl_ordering", "zones", "policy_ordering", "policies">>

ASSUME LedgerAssumption ==
  /\ Collections \subseteq {CollectionOrder[i] : i \in 1 .. 6}
  /\ "policies" \in Collections
  /\ NoPanel \notin Panels
  /\ MaxDriftHistory \in Nat \ {0} /\ MaxAdminChanges \in Nat /\ MaxLosses \in Nat

VARIABLES
  lgConf,        \* the controller's configuration
  lgBaseline,    \* unifi_ledger["baseline"]: the accepted snapshot, or NoSnapshot
  lgHistory,     \* unifi_ledger["history"]: [digest, baseline], newest first
  lgFetch,       \* the fetches under way
  lgShown,       \* what each panel shows
  lgAccepted,    \* the digest the owner of the last accepted baseline presented
  lgPut,         \* the write-back: where it is and the object it read
  lgChanges,     \* changes made so far
  lgLosses       \* requests lost so far

lgStored == <<lgBaseline, lgHistory, lgAccepted>>
lgBounds == <<lgChanges, lgLosses>>
lgVars == <<lgConf, lgStored, lgFetch, lgShown, lgPut, lgBounds>>

Values == {0, 1} \X BOOLEAN
Missing == <<>>        \* nothing read, or not all of the rows
Unread == [c \in Collections |-> Missing]
NoSnapshot == [c \in {} |-> Missing]
Snapshots == [Collections -> Values \cup {Missing}] \cup {NoSnapshot}

Fetchers == Panels \cup {NoPanel}
NoFetch == [kind |-> "none", pos |-> 0, snap |-> Unread, digest |-> NoSnapshot]

LgTypeOK ==
  /\ lgConf \in [Collections -> Values]
  /\ lgBaseline \in Snapshots /\ lgAccepted \in Snapshots
  /\ Len(lgHistory) <= MaxDriftHistory
  /\ \A i \in 1 .. Len(lgHistory) :
       /\ lgHistory[i].digest \in Snapshots \ {NoSnapshot}
       /\ lgHistory[i].baseline \in Snapshots \ {NoSnapshot}
  /\ \A f \in Fetchers : /\ lgFetch[f].kind \in {"none", "record", "get", "accept"}
                         /\ lgFetch[f].pos \in 0 .. 6
                         /\ {lgFetch[f].snap, lgFetch[f].digest} \subseteq Snapshots
  /\ lgShown \in [Panels -> Snapshots]
  /\ lgPut.pc \in {"idle", "read", "sent"} /\ lgPut.raw \in Values
  /\ lgChanges \in 0 .. MaxAdminChanges /\ lgLosses \in 0 .. MaxLosses

LgInit ==
  /\ lgConf = [c \in Collections |-> <<0, TRUE>>]
  /\ lgBaseline = NoSnapshot /\ lgHistory = <<>> /\ lgAccepted = NoSnapshot
  /\ lgFetch = [f \in Fetchers |-> NoFetch]
  /\ lgShown = [p \in Panels |-> NoSnapshot]
  /\ lgPut = [pc |-> "idle", raw |-> <<0, TRUE>>]
  /\ lgChanges = 0 /\ lgLosses = 0

-----------------------------------------------------------------------------
(* The controller.                                                         *)

\* An administrator changes the rows of a collection, or back.
AdminChanges(c) ==
  /\ lgChanges < MaxAdminChanges
  /\ lgConf' = [lgConf EXCEPT ![c] = <<1 - @[1], @[2]>>]
  /\ lgChanges' = lgChanges + 1
  /\ UNCHANGED <<lgStored, lgFetch, lgShown, lgPut, lgLosses>>

\* async_disable_firewall_policy: the policy is read, ...
PutReads ==
  /\ lgPut.pc = "idle"
  /\ lgPut' = [pc |-> "read", raw |-> lgConf["policies"]]
  /\ UNCHANGED <<lgConf, lgStored, lgFetch, lgShown, lgBounds>>

\* ... written back whole with enabled FALSE, over whatever it has become, ...
PutWrites ==
  /\ lgPut.pc = "read"
  /\ lgConf' = [lgConf EXCEPT !["policies"] = <<lgPut.raw[1], FALSE>>]
  /\ lgPut' = [lgPut EXCEPT !.pc = "sent"]
  /\ UNCHANGED <<lgStored, lgFetch, lgShown, lgBounds>>

\* ... and read again to report the result; a request that fails ends it too.
PutEnds ==
  /\ \/ lgPut.pc = "sent" /\ lgLosses' = lgLosses
     \/ lgPut.pc # "idle" /\ lgLosses < MaxLosses /\ lgLosses' = lgLosses + 1
  /\ lgPut' = [lgPut EXCEPT !.pc = "idle"]
  /\ UNCHANGED <<lgConf, lgStored, lgFetch, lgShown, lgChanges>>

-----------------------------------------------------------------------------
(* Reading a snapshot.                                                     *)

FetchBegins(f, kind, digest) ==
  /\ lgFetch[f].kind = "none"
  /\ lgFetch' = [lgFetch EXCEPT ![f] = [NoFetch EXCEPT !.kind = kind, !.digest = digest]]
  /\ UNCHANGED <<lgConf, lgStored, lgShown, lgPut, lgBounds>>

\* The periodic _async_unifi_ledger_check; the overview's time limit is far
\* shorter than its interval, so two never overlap.
TickBegins == FetchBegins(NoPanel, "record", NoSnapshot)

\* ws_unifi_ledger_get.
GetBegins(p) == FetchBegins(p, "get", NoSnapshot)

\* ws_unifi_ledger_accept, with the digest on display.
AcceptBegins(p) == lgShown[p] # NoSnapshot /\ FetchBegins(p, "accept", lgShown[p])

\* What a fetch has still to read, and the place of the next in the order.
Ahead(f) == {i \in 1 .. 6 : i > lgFetch[f].pos /\ CollectionOrder[i] \in Collections}
ReadsNext(f, i) ==
  /\ lgFetch[f].kind # "none"
  /\ i \in Ahead(f) /\ \A j \in Ahead(f) : i <= j
WithRead(r, i) ==
  [r EXCEPT !.pos = i,
            !.snap = [r.snap EXCEPT ![CollectionOrder[i]] = lgConf[CollectionOrder[i]]]]

CollectionRead(f) ==
  /\ \E i \in 1 .. 6 :
       /\ ReadsNext(f, i)
       /\ lgFetch' = [lgFetch EXCEPT ![f] = WithRead(@, i)]
  /\ UNCHANGED <<lgConf, lgStored, lgShown, lgPut, lgBounds>>

\* The first page of the devices, the ACL rules or the policies is not
\* answered, or the overview runs out of time: the snapshot is not available,
\* whatever else could be read, and the caller learns no more.
Unavailable(f) ==
  /\ lgLosses < MaxLosses
  /\ \E i \in 1 .. 6 : ReadsNext(f, i) /\ CollectionOrder[i] \in {"devices", "acl", "policies"}
  /\ lgLosses' = lgLosses + 1
  /\ lgFetch' = [lgFetch EXCEPT ![f] = NoFetch]
  /\ UNCHANGED <<lgConf, lgStored, lgShown, lgPut, lgChanges>>

\* The zones or an ordering are not answered, or a later page of any
\* collection: the rows read so far stand for the collection, the ordering is
\* None, and the snapshot still counts as complete.
RowsLost(f) ==
  /\ lgLosses < MaxLosses
  /\ lgLosses' = lgLosses + 1
  /\ \E i \in 1 .. 6 : ReadsNext(f, i) /\ lgFetch' = [lgFetch EXCEPT ![f].pos = i]
  /\ UNCHANGED <<lgConf, lgStored, lgShown, lgPut, lgChanges>>

-----------------------------------------------------------------------------
(* What is done with a complete snapshot, without a suspension.            *)

Complete(f) == lgFetch[f].kind # "none" /\ Ahead(f) = {}
Done(f) == lgFetch' = [lgFetch EXCEPT ![f] = NoFetch]

AlreadyRecorded_Anywhere(digest) == \E i \in 1 .. Len(lgHistory) : lgHistory[i].digest = digest

AlreadyRecorded(digest) == lgHistory # <<>> /\ Head(lgHistory).digest = digest

Trim_OneMore(history) == SubSeq(history, 1, IF Len(history) <= MaxDriftHistory THEN Len(history) ELSE MaxDriftHistory + 1)

Trim(history) == SubSeq(history, 1, IF Len(history) < MaxDriftHistory THEN Len(history) ELSE MaxDriftHistory)

\* record_drift: an entry when there is a baseline, read after the snapshot,
\* and the snapshot differs from it and from the last one recorded.
TickRecords ==
  LET now == lgFetch[NoPanel].snap
  IN /\ Complete(NoPanel)
     /\ lgHistory' = IF lgBaseline # NoSnapshot /\ now # lgBaseline /\ ~AlreadyRecorded(now)
                     THEN Trim(<<[digest |-> now, baseline |-> lgBaseline]>> \o lgHistory)
                     ELSE lgHistory
     /\ Done(NoPanel)
     /\ UNCHANGED <<lgConf, lgBaseline, lgAccepted, lgShown, lgPut, lgBounds>>

GetShows(p) ==
  /\ Complete(p) /\ lgFetch[p].kind = "get"
  /\ lgShown' = [lgShown EXCEPT ![p] = lgFetch[p].snap]
  /\ Done(p)
  /\ UNCHANGED <<lgConf, lgStored, lgPut, lgBounds>>

StillShown_Any(p) == TRUE

\* The digest presented must be the digest of the snapshot just read.
StillShown(p) == lgFetch[p].digest = lgFetch[p].snap

HistoryAfterAccept_Kept == lgHistory

\* The history restarts against the new baseline.
HistoryAfterAccept == <<>>

\* accept_baseline.
Accepts(p) ==
  /\ Complete(p) /\ lgFetch[p].kind = "accept"
  /\ IF StillShown(p)
     THEN /\ lgBaseline' = lgFetch[p].snap
          /\ lgAccepted' = lgFetch[p].digest
          /\ lgHistory' = HistoryAfterAccept
     ELSE UNCHANGED lgStored
  /\ Done(p)
  /\ UNCHANGED <<lgConf, lgShown, lgPut, lgBounds>>

LgNext ==
  \/ \E c \in Collections : AdminChanges(c)
  \/ PutReads \/ PutWrites \/ PutEnds
  \/ TickBegins \/ TickRecords
  \/ \E p \in Panels : GetBegins(p) \/ AcceptBegins(p) \/ GetShows(p) \/ Accepts(p)
  \/ \E f \in Fetchers : CollectionRead(f) \/ Unavailable(f) \/ RowsLost(f)

LgSpec == LgInit /\ [][LgNext]_lgVars

-----------------------------------------------------------------------------
(* Properties.                                                             *)

\* Every recorded drift is a drift from the baseline in force, also when the
\* baseline was accepted while the snapshot was being read.
HistoryIsAgainstBaseline ==
  \A i \in 1 .. Len(lgHistory) :
    lgHistory[i].baseline = lgBaseline /\ lgHistory[i].digest # lgBaseline

\* The baseline is the configuration its owner was looking at: a change
\* between the display and the click is refused.
AcceptedAsShown == lgBaseline = lgAccepted

\* Once the configuration rests away from the baseline, the head of the
\* history comes to show it, however it got there.
DriftIsRecorded ==
  <>[](\/ lgBaseline = NoSnapshot
       \/ lgConf = lgBaseline
       \/ lgHistory # <<>> /\ Head(lgHistory).digest = lgConf)

\* The ledger compares with what its owner accepted, and nothing else.
LedgerTrue == LgTypeOK /\ HistoryIsAgainstBaseline /\ AcceptedAsShown
=============================================================================
