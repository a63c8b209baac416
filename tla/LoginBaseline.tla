---------------------------- MODULE LoginBaseline ----------------------------
(***************************************************************************)
(* The new_ip_login rule of detections.py for one user: the networks the   *)
(* user is known to log in from, learned from login_ok records up to a     *)
(* checkpoint, and the detections for the others.                          *)
(*                                                                         *)
(* A login is numbered by its time.  A pass takes the time, waits for the  *)
(* query and then judges; passes may overlap and logins go on meanwhile.   *)
(* A pass ends and the store reaches its file at least once a day, the     *)
(* interval being five minutes.  Baseline and detections are in one file.  *)
(***************************************************************************)
EXTENDS Integers, Sequences, FiniteSets

CONSTANTS
  Nets,            \* networks that are not private
  LegacyNets,      \* those on the flat list of an older version
  LoginPasses,     \* passes that may overlap
  Required,        \* threshold "baseline_days_required"
  Expiry,          \* threshold "prefix_expiry_days"
  Learning,        \* threshold "learning_days"
  MaxTracked,      \* NEW_IP_LOGIN_MAX_TRACKED_DAYS
  MaxLogins,       \* bound: logins
  MaxDays,         \* bound: days
  MaxReverts       \* bound: crashes

ASSUME LoginAssumption ==
  /\ LegacyNets \subseteq Nets
  /\ {Required, MaxTracked, MaxLogins, MaxDays} \subseteq Nat \ {0}
  /\ {Expiry, Learning, MaxReverts} \subseteq Nat
  /\ Required <= MaxTracked

VARIABLES
  lbDay,         \* the date
  lbLogins,      \* the login_ok records: network and day
  lbStore,       \* user_baselines and the detections, in memory
  lbDisk,        \* ... and in the file
  lbPass,        \* each pass: the time it took
  lbReverts

lbVars == <<lbDay, lbLogins, lbStore, lbDisk, lbPass, lbReverts>>

AllDays == 1 .. MaxDays
Unknown == [known |-> FALSE, days |-> {}, last |-> 0, legacy |-> FALSE]
NoLoginPass == [pc |-> "idle", now |-> 0, day |-> 0]

Entry == [known : BOOLEAN, days : SUBSET AllDays, last : 0 .. MaxDays, legacy : BOOLEAN]

LbTypeOK ==
  /\ lbDay \in AllDays
  /\ lbLogins \in Seq([net : Nets \cup {"private"}, day : AllDays]) /\ Len(lbLogins) <= MaxLogins
  /\ \A s \in {lbStore, lbDisk} :
       /\ s.base \in [Nets -> Entry] /\ s.migrated \in BOOLEAN
       /\ s.checkpoint \in -1 .. Len(lbLogins) /\ s.seeded \in -1 .. Len(lbLogins)
       /\ s.first \in 0 .. MaxDays
       /\ s.flagged \subseteq Nets \X (1 .. Len(lbLogins))
       /\ \A n \in Nets : Cardinality(s.base[n].days) <= MaxTracked
  /\ lbPass \in [LoginPasses -> [pc : {"idle", "query"}, now : 0 .. Len(lbLogins), day : 0 .. MaxDays]]
  /\ lbReverts \in 0 .. MaxReverts

LbInit ==
  /\ lbDay = 1 /\ lbLogins = <<>>
  /\ lbStore = [base |-> [n \in Nets |-> Unknown], migrated |-> FALSE, checkpoint |-> -1,
                seeded |-> -1, first |-> 0, flagged |-> {}]
  /\ lbDisk = lbStore
  /\ lbPass = [p \in LoginPasses |-> NoLoginPass]
  /\ lbReverts = 0

-----------------------------------------------------------------------------
(* _rule_new_ip_login.                                                     *)

\* _prefix_baseline: the flat list is taken over once.
Migrated(s, day) ==
  IF s.migrated THEN s.base
  ELSE [n \in Nets |-> IF n \in LegacyNets THEN [known |-> TRUE, days |-> {}, last |-> day, legacy |-> TRUE]
                       ELSE Unknown]

\* What was not seen for too long is forgotten, trust and all.
Expired(base, day) == [n \in Nets |-> IF day - base[n].last > Expiry THEN Unknown ELSE base[n]]

Enough_More(e) == e.legacy \/ Cardinality(e.days) > Required

Enough(e) == e.legacy \/ Cardinality(e.days) >= Required

\* The newest days are kept.
Tracked(days) ==
  IF Cardinality(days) <= MaxTracked THEN days
  ELSE {d \in days : Cardinality({x \in days : x > d}) < MaxTracked}

\* A sighting is written down whether or not it was flagged.
Recorded(base, seen) ==
  [n \in Nets |->
     LET days == {lbLogins[i].day : i \in {x \in seen : lbLogins[x].net = n}}
     IN  IF days = {} THEN base[n]
         ELSE [known |-> TRUE, days |-> Tracked(base[n].days \cup days), legacy |-> base[n].legacy,
               last |-> CHOOSE d \in days \cup {base[n].last} : \A x \in days \cup {base[n].last} : x <= d]]

\* Trust is what it was before this pass.
Trusted(base, seen) == {n \in Nets : Enough(base[n])}

Checkpoint_AtEnd(now) == Len(lbLogins)

\* The time of the pass, up to which it asked for records.
Checkpoint(now) == now

\* The pass judges what came after the checkpoint, which another pass may
\* have moved while this one waited.
JudgeLogin(p) ==
  LET now    == lbPass[p].now
      day    == lbPass[p].day
      s      == lbStore
      seen   == {i \in 1 .. now : i > s.checkpoint}
      base   == Expired(Migrated(s, day), day)
      first  == IF s.first # 0 \/ seen = {} THEN s.first ELSE lbLogins[CHOOSE i \in seen : \A j \in seen : i <= j].day
      mature == first # 0 /\ day - first >= Learning
      new    == {i \in seen : lbLogins[i].net \in Nets /\ lbLogins[i].net \notin Trusted(base, seen)}
      newest == {i \in new : \A j \in new : lbLogins[j].net = lbLogins[i].net => j <= i}
  IN  /\ lbPass[p].pc = "query"
      /\ lbPass' = [lbPass EXCEPT ![p] = NoLoginPass]
      /\ lbStore' = IF now = 0 THEN s
                    ELSE [base       |-> Recorded(base, seen),
                          migrated   |-> TRUE,
                          checkpoint |-> Checkpoint(now),
                          seeded     |-> IF s.checkpoint = -1 THEN now ELSE s.seeded,
                          first      |-> first,
                          flagged    |-> s.flagged \cup
                             (IF s.checkpoint # -1 /\ mature THEN {<<lbLogins[i].net, i>> : i \in newest} ELSE {})]
      /\ UNCHANGED <<lbDay, lbLogins, lbDisk, lbReverts>>

PassTakesTime(p) ==
  /\ lbPass[p].pc = "idle"
  /\ lbPass' = [lbPass EXCEPT ![p] = [pc |-> "query", now |-> Len(lbLogins), day |-> lbDay]]
  /\ UNCHANGED <<lbDay, lbLogins, lbStore, lbDisk, lbReverts>>

-----------------------------------------------------------------------------
(* The rest of the system.                                                 *)

LoginOk(n) ==
  /\ Len(lbLogins) < MaxLogins
  /\ lbLogins' = Append(lbLogins, [net |-> n, day |-> lbDay])
  /\ UNCHANGED <<lbDay, lbStore, lbDisk, lbPass, lbReverts>>

\* The delayed save of the store.
BaselineSaved ==
  /\ lbDisk # lbStore
  /\ lbDisk' = lbStore
  /\ UNCHANGED <<lbDay, lbLogins, lbStore, lbPass, lbReverts>>

\* Home Assistant dies and starts again; the audit log kept its records.
BaselineReverts ==
  /\ lbReverts < MaxReverts
  /\ lbReverts' = lbReverts + 1
  /\ lbStore' = lbDisk
  /\ lbPass' = [p \in LoginPasses |-> NoLoginPass]
  /\ UNCHANGED <<lbDay, lbLogins, lbDisk>>

DayEnds ==
  /\ lbDay < MaxDays
  /\ \A p \in LoginPasses : lbPass[p].pc = "idle"
  /\ lbLogins = <<>> \/ lbStore.checkpoint = Len(lbLogins)
  /\ lbDisk = lbStore
  /\ lbDay' = lbDay + 1
  /\ UNCHANGED <<lbLogins, lbStore, lbDisk, lbPass, lbReverts>>

LbNext ==
  \/ \E p \in LoginPasses : PassTakesTime(p) \/ JudgeLogin(p)
  \/ \E n \in Nets \cup {"private"} : LoginOk(n)
  \/ BaselineSaved \/ BaselineReverts \/ DayEnds

LbSpec == LbInit /\ [][LbNext]_lbVars

(* Properties, by the records alone.                                       *)

SameNet(i) == {j \in 1 .. i - 1 : lbLogins[j].net = lbLogins[i].net}

\* The earlier logins from the network of login i that no gap longer than the
\* expiry separates from it.
Unbroken(i) ==
  {j \in SameNet(i) :
     \A k \in SameNet(i) \cup {i} :
       k > j => \E m \in SameNet(i) : m < k /\ m >= j /\ lbLogins[k].day - lbLogins[m].day <= Expiry}

DaysOf(logins) == {lbLogins[j].day : j \in logins}

\* Judged after the silent first pass and after the learning time.
Judged(i) ==
  /\ lbStore.seeded # -1 /\ i > lbStore.seeded /\ i <= lbStore.checkpoint
  /\ lbLogins[i].day - lbLogins[1].day >= Learning

\* No login from a network that has not earned its trust, on enough different
\* days and without an absence, goes by: it, or a later one from that network,
\* is flagged.  This holds across overlapping passes, logins that arrive while
\* a pass waits, and crashes.
NewNetworkFlagged ==
  \A i \in 1 .. Len(lbLogins) :
    Judged(i) /\ lbLogins[i].net \in Nets \ LegacyNets /\ Cardinality(DaysOf(Unbroken(i))) < Required
      => \E t \in i .. Len(lbLogins) : <<lbLogins[i].net, t>> \in lbStore.flagged

\* And a network that has earned it on earlier days is left alone.
KnownNetworkQuiet ==
  \A i \in 1 .. Len(lbLogins) :
    Cardinality(DaysOf(Unbroken(i)) \ {lbLogins[i].day}) >= Required
      => <<lbLogins[i].net, i>> \notin lbStore.flagged

\* Logins are told apart rightly both ways: new networks are flagged, earned
\* ones are not.
NetworksJudged == LbTypeOK /\ NewNetworkFlagged /\ KnownNetworkQuiet
=============================================================================
