---------------------------- MODULE DetectionPass -----------------------------
(***************************************************************************)
(* The periodic detection pass of detections.py, on three of its rules     *)
(* that stand for the three ways a rule remembers: brute_force_ip looks    *)
(* back over a fixed time with a sliding window (token_minting_anomaly and *)
(* mass_entity_burst do the same), off_hours_anomaly counts on from a      *)
(* checkpoint (new_ip_login keeps one as well), and privilege_escalation   *)
(* compares with a stored snapshot.  Detections keep what an analyst said  *)
(* of them, and closed ones are pruned after a while (store.py).           *)
(*                                                                         *)
(* The clock ticks; at most one failed login, of one address, and one      *)
(* service call, of one user, happens in a tick, and a pass comes to its   *)
(* end and the store reaches its file in every tick, the interval being    *)
(* five minutes and the save delayed by fifteen seconds.  A detection is   *)
(* named by its hour, of Hour ticks.  Store and baselines are one file.    *)
(* The rules share nothing, so in one history only one of them is given    *)
(* something to see (dtKind).                                              *)
(***************************************************************************)
EXTENDS Naturals, FiniteSets

CONSTANTS
  Passes,          \* passes that may overlap
  Failures,        \* threshold "failures"
  Window,          \* threshold "window_minutes"
  Lookback,        \* BRUTE_FORCE_IP_LOOKBACK_DAYS
  Hour,
  Retention,       \* evidence_retention_days
  MaxTime,         \* bound: the clock
  MaxFaults        \* bound: queries that fail, and restarts

ASSUME DetectionAssumption ==
  /\ {Failures, Hour} \subseteq Nat \ {0}
  /\ {Window, Lookback, Retention, MaxFaults} \subseteq Nat /\ MaxTime \in Nat \ {0}
  /\ Window < Lookback
  /\ Lookback + Hour <= Retention + Failures

VARIABLES
  dtKind,        \* what happens in this history: logins, calls or grants
  dtNow,         \* the clock
  dtFails,       \* login_fail records: the ticks they happened in
  dtCalls,       \* service_call records
  dtAdmin,       \* the user is in the admin group
  dtStore,       \* detections and baselines in memory
  dtDisk,        \* ... and on the disk
  dtPass,        \* what each pass is at
  dtRan,         \* a pass without a fault has ended in this tick
  dtOverlap,     \* a pass began while another was running
  dtFaults       \* faults so far

dtAudit == <<dtFails, dtCalls>>
dtWorld == <<dtKind, dtNow, dtAudit, dtAdmin>>
dtVars == <<dtWorld, dtStore, dtDisk, dtPass, dtRan, dtOverlap, dtFaults>>

Times == 1 .. MaxTime
Bucket(t) == t \div Hour
Buckets == {Bucket(t) : t \in 0 .. MaxTime}
Escalation == MaxTime + 1        \* the id of the privilege_escalation detection
Ids == Buckets \cup {Escalation}

Row == [status : {"none", "open", "ack", "resolved"}, triggers : SUBSET Times, at : 0 .. MaxTime,
        closed : BOOLEAN]
NoRow == [status |-> "none", triggers |-> {}, at |-> 0, closed |-> FALSE]
IdlePass == [pc |-> "idle", now |-> 0, admin |-> FALSE, from |-> 0, ok |-> TRUE]

DtTypeOK ==
  /\ dtNow \in Times /\ dtFails \subseteq Times /\ dtCalls \subseteq Times
  /\ \A s \in {dtStore, dtDisk} :
       /\ \A i \in Ids : s.row[i] \in Row
       /\ s.hist \in Nat /\ s.through \in 0 .. MaxTime /\ s.groups \in {"unset", "user", "admin"}
  /\ \A p \in Passes : dtPass[p].pc \in {"idle", "brute", "hours", "count", "groups", "actor", "prune"}
  /\ {dtAdmin, dtRan, dtOverlap} \subseteq BOOLEAN /\ dtFaults \in 0 .. MaxFaults

DtInit ==
  /\ dtKind \in {"logins", "calls", "grants"}
  /\ dtNow = 1 /\ dtFails = {} /\ dtCalls = {}
  /\ dtAdmin = FALSE
  /\ dtStore = [row |-> [i \in Ids |-> NoRow], hist |-> 0, through |-> 0, groups |-> "unset",
                gained |-> FALSE]
  /\ dtDisk = dtStore
  /\ dtPass = [p \in Passes |-> IdlePass]
  /\ dtRan = FALSE /\ dtOverlap = FALSE /\ dtFaults = 0

-----------------------------------------------------------------------------
(* The sliding window.                                                     *)

InWindow(times, t) == {f \in times : f <= t /\ t - f <= Window}

\* Ends of windows that hold enough failures.
BurstEnds(times) == {t \in times : Cardinality(InWindow(times, t)) >= Failures}

LookedAt(now) == {f \in dtFails : f + Lookback >= now}

FirstBurst_KnownAddress(times) ==
  {t \in BurstEnds(times) : /\ \A u \in BurstEnds(times) : t <= u
                            /\ \A i \in Buckets : dtStore.row[i].status # "open"}

\* _rule_brute_force_ip stops at the first window of the address.
FirstBurst(times) == {t \in BurstEnds(times) : \A u \in BurstEnds(times) : t <= u}

StatusAfter_Reopened(row, t) == IF t \in row.triggers THEN row.status ELSE "open"

\* status is never downgraded by a re-detection.
StatusAfter(row, t) == row.status

\* _upsert_detection.
Upsert(rows, id, t) ==
  [rows EXCEPT ![id].status = IF @ = "none" THEN "open" ELSE StatusAfter(rows[id], t),
               ![id].triggers = @ \cup {t}]

-----------------------------------------------------------------------------
(* A pass.  The users are listed when it begins.                           *)

At(p, pc) == dtPass[p].pc = pc
Go(p, pc) == dtPass' = [dtPass EXCEPT ![p].pc = pc]

PassBegins(p) ==
  /\ At(p, "idle")
  /\ dtPass' = [dtPass EXCEPT ![p] = [IdlePass EXCEPT !.pc = "brute", !.now = dtNow, !.admin = dtAdmin]]
  /\ dtOverlap' = (dtOverlap \/ \E q \in Passes \ {p} : ~At(q, "idle"))
  /\ UNCHANGED <<dtWorld, dtStore, dtDisk, dtRan, dtFaults>>

BruteForceIp(p) ==
  /\ At(p, "brute")
  /\ dtStore' = [dtStore EXCEPT !.row =
       IF FirstBurst(LookedAt(dtPass[p].now)) = {} THEN @
       ELSE LET t == CHOOSE t \in FirstBurst(LookedAt(dtPass[p].now)) : TRUE
            IN Upsert(@, Bucket(t), t)]
  /\ Go(p, "hours")
  /\ UNCHANGED <<dtWorld, dtDisk, dtRan, dtOverlap, dtFaults>>

\* _rule_off_hours_anomaly reads the checkpoint and asks for the records since.
HoursAsked(p) ==
  /\ At(p, "hours")
  /\ dtPass' = [dtPass EXCEPT ![p].pc = "count", ![p].from = dtStore.through]
  /\ UNCHANGED <<dtWorld, dtStore, dtDisk, dtRan, dtOverlap, dtFaults>>

CountedHours_NoUntil(p) == {c \in dtCalls : dtPass[p].from < c}

\* since the checkpoint and until the time of the pass.
CountedHours(p) == {c \in dtCalls : dtPass[p].from < c /\ c < dtPass[p].now}

HoursCounted(p) ==
  /\ At(p, "count")
  /\ dtStore' = [dtStore EXCEPT !.hist = @ + Cardinality(CountedHours(p)), !.through = dtPass[p].now - 1]
  /\ Go(p, "groups")
  /\ UNCHANGED <<dtWorld, dtDisk, dtRan, dtOverlap, dtFaults>>

Group(admin) == IF admin THEN "admin" ELSE "user"

SnapshotAtOnce_Taken(p) == [dtStore EXCEPT !.groups = Group(dtPass[p].admin)]

\* The snapshot stays as it is while the actor is looked up.
SnapshotAtOnce(p) == dtStore

\* _rule_privilege_escalation: an escalation is followed by a query for its
\* actor.
GroupsCompared(p) ==
  /\ At(p, "groups")
  /\ IF dtStore.groups = "user" /\ dtPass[p].admin
     THEN /\ dtStore' = [SnapshotAtOnce(p) EXCEPT !.gained = TRUE]
          /\ Go(p, "actor")
     ELSE /\ dtStore' = [dtStore EXCEPT !.groups = Group(dtPass[p].admin)]
          /\ Go(p, "prune")
  /\ UNCHANGED <<dtWorld, dtDisk, dtRan, dtOverlap, dtFaults>>

EscalationFound(p) ==
  /\ At(p, "actor")
  /\ dtStore' = [dtStore EXCEPT !.row = Upsert(@, Escalation, dtPass[p].now), !.groups = "admin"]
  /\ Go(p, "prune")
  /\ UNCHANGED <<dtWorld, dtDisk, dtRan, dtOverlap, dtFaults>>

\* async_prune_evidence: closed rows only, by the age of their status.
Pruned(rows, now) ==
  [i \in Ids |-> IF rows[i].status = "resolved" /\ rows[i].at + Retention < now
                 THEN [NoRow EXCEPT !.closed = TRUE] ELSE rows[i]]

PassEnds(p) ==
  /\ At(p, "prune")
  /\ dtStore' = [dtStore EXCEPT !.row = Pruned(@, dtPass[p].now)]
  /\ dtRan' = (dtRan \/ (dtPass[p].ok /\ dtPass[p].now = dtNow))
  /\ dtPass' = [dtPass EXCEPT ![p] = IdlePass]
  /\ UNCHANGED <<dtWorld, dtDisk, dtOverlap, dtFaults>>

\* A query raises: the rule is left as it stands and the next one runs.
RuleFails(p) ==
  /\ dtFaults < MaxFaults /\ dtFaults' = dtFaults + 1
  /\ dtPass[p].pc \in {"brute", "count", "actor"}
  /\ dtPass' = [dtPass EXCEPT ![p].ok = FALSE,
                              ![p].pc = CASE At(p, "brute") -> "hours"
                                          [] At(p, "count") -> "groups"
                                          [] At(p, "actor") -> "prune"]
  /\ UNCHANGED <<dtWorld, dtStore, dtDisk, dtRan, dtOverlap>>

-----------------------------------------------------------------------------

\* ws_detections_set_status.
StatusSet(i, status) ==
  /\ dtStore.row[i].status \notin {"none", status}
  /\ dtStore' = [dtStore EXCEPT !.row[i].status = status, !.row[i].at = dtNow,
                                !.row[i].closed = (status = "resolved")]
  /\ UNCHANGED <<dtWorld, dtDisk, dtPass, dtRan, dtOverlap, dtFaults>>

LoginFails ==
  /\ dtKind = "logins"
  /\ dtFails' = dtFails \cup {dtNow} /\ dtNow \notin dtFails
  /\ UNCHANGED <<dtKind, dtNow, dtCalls, dtAdmin, dtStore, dtDisk, dtPass, dtRan, dtOverlap, dtFaults>>

CallMade ==
  /\ dtKind = "calls"
  /\ dtCalls' = dtCalls \cup {dtNow} /\ dtNow \notin dtCalls
  /\ UNCHANGED <<dtKind, dtNow, dtFails, dtAdmin, dtStore, dtDisk, dtPass, dtRan, dtOverlap, dtFaults>>

AdminGranted ==
  /\ dtKind = "grants"
  /\ ~dtAdmin /\ dtAdmin' = TRUE
  /\ UNCHANGED <<dtKind, dtNow, dtAudit, dtStore, dtDisk, dtPass, dtRan, dtOverlap, dtFaults>>

\* A pass may still run in the next tick, not longer.
TimePasses ==
  /\ dtNow < MaxTime /\ dtRan /\ dtDisk = dtStore
  /\ \A p \in Passes : At(p, "idle") \/ dtPass[p].now = dtNow
  /\ dtNow' = dtNow + 1 /\ dtRan' = FALSE
  /\ UNCHANGED <<dtKind, dtAudit, dtAdmin, dtStore, dtDisk, dtPass, dtOverlap, dtFaults>>

Saved ==
  /\ dtDisk # dtStore /\ dtDisk' = dtStore
  /\ UNCHANGED <<dtWorld, dtStore, dtPass, dtRan, dtOverlap, dtFaults>>

Restarts ==
  /\ dtFaults < MaxFaults /\ dtFaults' = dtFaults + 1
  /\ dtStore' = dtDisk /\ dtPass' = [p \in Passes |-> IdlePass] /\ dtRan' = FALSE
  /\ UNCHANGED <<dtWorld, dtDisk, dtOverlap>>

DtNext ==
  \/ \E p \in Passes : \/ PassBegins(p) \/ BruteForceIp(p) \/ HoursAsked(p) \/ HoursCounted(p)
                       \/ GroupsCompared(p) \/ EscalationFound(p) \/ PassEnds(p) \/ RuleFails(p)
  \/ \E i \in Ids, s \in {"ack", "resolved"} : StatusSet(i, s)
  \/ LoginFails \/ CallMade \/ AdminGranted \/ TimePasses \/ Saved \/ Restarts

DtSpec == DtInit /\ [][DtNext]_dtVars

-----------------------------------------------------------------------------
(* Properties.                                                             *)

\* The failure a window needs last of all.
FirstNeeded(t) ==
  CHOOSE f \in InWindow(dtFails, t) : Cardinality({g \in dtFails : f <= g /\ g <= t}) = Failures

\* A rule that stops at the first window of an address still finds every
\* burst, at the latest before its records are out of sight.
NoBurstMissed ==
  dtRan => \A t \in BurstEnds(dtFails) :
             dtNow >= FirstNeeded(t) + Lookback =>
               dtStore.row[Bucket(t)].status # "none" \/ dtStore.row[Bucket(t)].closed

\* Passes that do not overlap count every service call once.
CountedOnce ==
  ~dtOverlap => dtStore.hist = Cardinality({c \in dtCalls : c <= dtStore.through})

\* A privilege escalation a pass has noticed is reported: the snapshot only
\* moves on together with the detection, in memory and on the disk.
NoEscalationLost ==
  \A s \in {dtStore, dtDisk} :
    s.gained /\ s.groups = "admin" => s.row[Escalation].status # "none" \/ s.row[Escalation].closed

\* What an analyst resolved does not come back as open, not even after it has
\* been pruned, as long as passes do not overlap.
ResolvedStays ==
  ~dtOverlap =>
    \A i \in Ids : dtStore.row[i].closed => dtStore.row[i].status \in {"none", "resolved"}

\* What the pass promises, rule by rule: a burst is found, a call counts once,
\* an escalation is reported, and a resolved detection stays resolved.
DetectionsKept == DtTypeOK /\ NoBurstMissed /\ CountedOnce /\ NoEscalationLost /\ ResolvedStays
=============================================================================
