----------------------------- MODULE RiskScores -----------------------------
(***************************************************************************)
(* The scores of risk.py: the risk of every user from the account and its  *)
(* detections, and the posture of the installation, with the passes that   *)
(* compute them while findings and decisions come in.                      *)
(*                                                                         *)
(* Points keep their values.  Ages are in weeks, the least time at which   *)
(* both half-lives give exact numbers; decayed points count twentieths and *)
(* rounded ones tenths.                                                    *)
(***************************************************************************)
EXTENDS Integers, FiniteSets, FiniteSetsExt

CONSTANTS
  RiskUsers,       \* accounts
  AccountOf,       \* their [admin, login, tokens, old]
  Alerts,          \* detections
  AlertOf,         \* their [user, rule, severity]
  Flaws,           \* vulnerability and misconfiguration findings
  FlawOf,          \* their [kind, severity]
  HealthEntries,   \* integrations whose health is recorded
  RiskPasses,      \* computations that may overlap
  MaxWeeks,        \* bound: weeks that pass
  MaxRiskChanges   \* bound: changes of the records

ASSUME RiskAssumption ==
  /\ RiskUsers # {} /\ HealthEntries # {}
  /\ AccountOf \in [RiskUsers -> [admin : BOOLEAN, login : STRING, tokens : Nat, old : BOOLEAN]]
  /\ AlertOf \in [Alerts -> [user : RiskUsers, rule : STRING, severity : STRING]]
  /\ FlawOf \in [Flaws -> [kind : {"vuln", "misconfig"}, severity : STRING]]
  /\ MaxWeeks \in Nat /\ MaxRiskChanges \in Nat

VARIABLES
  rsMfa,         \* users with MFA
  rsAlert,       \* the status of each detection, "none" before it is raised
  rsAge,         \* its age in weeks
  rsFlaw,        \* the status of each finding, "none" when there is none
  rsHealth,      \* the state of each integration
  rsScanned,     \* a detection pass has completed
  rsTerms,       \* posture terms that have computed once, in the store
  rsResults,     \* last_risk_results, in memory
  rsPosture,     \* last_posture_result, in memory
  rsPass,        \* each computation: its step and the results it holds
  rsWeek, rsChanges

rsRecords == <<rsMfa, rsAlert, rsAge, rsFlaw, rsHealth, rsScanned>>
rsVars == <<rsRecords, rsTerms, rsResults, rsPosture, rsPass, rsWeek, rsChanges>>

NoScores == <<>>
NoPosture == [score |-> -1, missing |-> {}]
NoPass == [pc |-> "idle", scores |-> NoScores, clean |-> TRUE]
Terms == {"user", "vuln", "misconfig", "integration", "detection"}

RsTypeOK ==
  /\ rsMfa \subseteq RiskUsers
  /\ rsAlert \in [Alerts -> {"none", "open", "acknowledged", "resolved"}]
  /\ rsAge \in [Alerts -> 0 .. MaxWeeks]
  /\ rsFlaw \in [Flaws -> {"none", "new", "dismissed"}]
  /\ rsHealth \in [HealthEntries -> {"none", "loaded", "setup_error", "noisy", "unavailable"}]
  /\ rsTerms \subseteq Terms
  /\ rsResults = NoScores \/ (DOMAIN rsResults = RiskUsers /\ \A u \in RiskUsers : rsResults[u].score \in 0 .. 100)
  /\ rsPosture = NoPosture \/ rsPosture \in [score : 0 .. 100, missing : SUBSET Terms]
  /\ rsPass \in [RiskPasses -> [pc : {"idle", "risk", "posture"}, scores : {NoScores} \cup {rsResults} \cup
                                   {rsPass[p].scores : p \in RiskPasses}, clean : BOOLEAN]]
  /\ rsScanned \in BOOLEAN
  /\ rsWeek \in 0 .. MaxWeeks /\ rsChanges \in 0 .. MaxRiskChanges

\* The store as it was loaded: any detections and findings, no results.
RsInit ==
  /\ rsMfa = {}
  /\ rsAlert \in [Alerts -> {"none", "open"}]
  /\ rsAge = [d \in Alerts |-> 0]
  /\ rsFlaw \in [Flaws -> {"none", "new"}]
  /\ rsHealth = [e \in HealthEntries |-> "none"]
  /\ rsScanned = FALSE
  /\ rsTerms = {} /\ rsResults = NoScores /\ rsPosture = NoPosture
  /\ rsPass = [p \in RiskPasses |-> NoPass]
  /\ rsWeek = 0 /\ rsChanges = 0

-----------------------------------------------------------------------------
(* Points.  The records are a parameter, to ask what a decision would do.  *)

Now == [alert |-> rsAlert, mfa |-> rsMfa, flaw |-> rsFlaw]

\* Python's round: to the nearest, a tie to the even one.
RoundDiv(a, b) ==
  LET q == a \div b  r == a % b
  IN  IF 2 * r > b \/ (2 * r = b /\ q % 2 = 1) THEN q + 1 ELSE q

Least(a, b) == IF a < b THEN a ELSE b

\* _decayed_points in twentieths: a week halves the points, or halves them
\* twice; what is below one point counts nothing.
Decayed(base, weeks, factor) ==
  LET points == (20 * base) \div (factor ^ weeks)
  IN  IF points < 20 THEN 0 ELSE points

\* The cap, then nothing below one point, then tenths.
Factor(units, cap) ==
  LET total == Least(units, 20 * cap)
  IN  IF total < 20 THEN 0 ELSE RoundDiv(total, 2)

\* What one detection adds to the factor of its rule, in twentieths.
AlertPoints(r, d) ==
  LET rule == AlertOf[d].rule  w == rsAge[d]
  IN  CASE rule = "success_after_failures" -> Decayed(12, w, 4)
        [] rule = "new_ip_login"           -> Decayed(12, w, 2)
        [] rule = "off_hours"              -> Decayed(6, w, 4)
        [] rule = "privilege_escalation"   -> IF 7 * w <= 30 THEN 20 * 8 ELSE 0
        [] rule = "token_minting"          -> Decayed(5, w, 4)
        [] rule = "disabled_user"          -> IF r.alert[d] = "open" THEN 20 * 20 ELSE Decayed(20, w, 2)
        [] OTHER                           -> 0

RuleCap == [success_after_failures |-> 18, new_ip_login |-> 16, off_hours |-> 10,
            privilege_escalation |-> 24, token_minting |-> 10, disabled_user |-> 40]

GenericPoints == [critical |-> 25, high |-> 15, medium |-> 8, low |-> 3, info |-> 0]

\* Resolved detections never contribute.
ActiveAlerts(r, u) == {d \in Alerts : AlertOf[d].user = u /\ r.alert[d] \in {"open", "acknowledged"}}
OpenAlerts(r, u) == {d \in ActiveAlerts(r, u) : r.alert[d] = "open"}

Token(a) == Least(3 * a.tokens + (IF a.tokens > 0 /\ a.old THEN 4 ELSE 0), 12)

LoginPoints == [never |-> 100, recent |-> 0, stale90 |-> 80, stale180 |-> 120]

\* The factors of a user, in tenths; one that is zero is not listed.
Factors(r, u) ==
  LET a == AccountOf[u]
      OfRule(x) == Factor(MapThenSumSet(LAMBDA d : AlertPoints(r, d), {d \in ActiveAlerts(r, u) : AlertOf[d].rule = x}), RuleCap[x])
  IN  <<IF u \in r.mfa THEN 0 ELSE IF a.admin THEN 250 ELSE 80,
        LoginPoints[a.login],
        10 * Token(a),
        OfRule("success_after_failures"), OfRule("new_ip_login"), OfRule("off_hours"),
        OfRule("privilege_escalation"), OfRule("token_minting"), OfRule("disabled_user"),
        Factor(20 * MapThenSumSet(LAMBDA d : GenericPoints[AlertOf[d].severity], OpenAlerts(r, u)), 30)>>

Total(p) == p[1] + p[2] + p[3] + p[4] + p[5] + p[6] + p[7] + p[8] + p[9] + p[10]

ScoreOf(points) == RoundDiv(Least(Total(points), 1000), 10)

Residue_Dropped(score, shares) == 0

Residue(score, shares) == 10 * score - Total(shares)

\* _reconcile_applied_points: proportional shares in tenths, and what the
\* rounding left over goes to the largest.
AppliedPoints(points) ==
  LET raw    == Total(points)
      score  == ScoreOf(points)
      shares == [f \in DOMAIN points |-> IF raw = 0 THEN 0 ELSE RoundDiv(points[f] * score * 10, raw)]
      first  == CHOOSE f \in DOMAIN points : \A g \in DOMAIN points : shares[f] >= shares[g]
  IN  [shares EXCEPT ![first] = @ + Residue(score, shares)]

\* _compute_user_risk.
UserRisk(r, u) == LET points == Factors(r, u)
               IN  [score |-> ScoreOf(points), applied |-> AppliedPoints(points)]

-----------------------------------------------------------------------------
(* The posture.                                                            *)

Weight(u) == IF AccountOf[u].admin THEN 2 ELSE 1

FlawPoints(f) ==
  LET s == FlawOf[f].severity
  IN  IF FlawOf[f].kind = "vuln"
      THEN CASE s = "critical" -> 25 [] s = "high" -> 10 [] s = "medium" -> 4 [] OTHER -> 1
      ELSE CASE s = "critical" -> 25 [] s = "high" -> 12 [] s = "medium" -> 5 [] s = "low" -> 2 [] OTHER -> 0

Counts_Dismissed(r, f) == r.flaw[f] # "none" /\ (FlawOf[f].kind = "misconfig" => r.flaw[f] = "dismissed")

\* A dismissed finding counts nothing.
Counts(r, f) == r.flaw[f] = "new"

PFlaws(r, kind) == Least(MapThenSumSet(FlawPoints, {f \in Flaws : FlawOf[f].kind = kind /\ Counts(r, f)}), 100)

PIntegration ==
  LET known == {e \in HealthEntries : rsHealth[e] # "none"}
      In(s) == Cardinality({e \in known : rsHealth[e] = s})
  IN  IF known = {} THEN 0
      ELSE Least(100, RoundDiv((20 * In("setup_error") + 8 * In("noisy")) * Cardinality(known)
                               + 50 * In("unavailable"), Cardinality(known)))

DetectionPoints == [critical |-> 30, high |-> 15, medium |-> 6, low |-> 2, info |-> 0]

PDetection(r) ==
  Least(MapThenSumSet(LAMBDA d : DetectionPoints[AlertOf[d].severity], {d \in Alerts : r.alert[d] = "open"}), 100)

\* The posture score from the users' scores and the records of this moment.
PostureOf(r, scores) ==
  LET known == MapThenSumSet(Weight, RiskUsers)
      total == MapThenSumSet(LAMBDA u : Weight(u) * (IF u \in DOMAIN scores THEN scores[u].score ELSE 0), RiskUsers)
      rest  == 25 * PFlaws(r, "vuln") + 20 * PFlaws(r, "misconfig") + 10 * PIntegration + 10 * PDetection(r)
      lost  == RoundDiv(35 * total + known * rest, 100 * known)
  IN  IF lost > 100 THEN 0 ELSE 100 - lost

Risks(r) == [u \in RiskUsers |-> UserRisk(r, u)]

\* What shows that a term has really computed.
Evidence ==
  {"user"}
  \cup {t \in {"vuln", "misconfig"} : \E f \in Flaws : FlawOf[f].kind = t /\ rsFlaw[f] # "none"}
  \cup {t \in {"integration"} : \E e \in HealthEntries : rsHealth[e] # "none"}
  \cup {t \in {"detection"} : rsScanned}

Stamped_EvidenceOnly == Evidence

\* _update_posture_terms: a stamp is kept for ever.
Stamped == rsTerms \cup Evidence

-----------------------------------------------------------------------------
(* The computations.                                                       *)

PassStart(p) ==
  /\ rsPass[p].pc = "idle"
  /\ rsPass' = [rsPass EXCEPT ![p].pc = "risk"]
  /\ UNCHANGED <<rsRecords, rsTerms, rsResults, rsPosture, rsWeek, rsChanges>>

Held_Cached == IF rsResults = NoScores THEN Risks(Now) ELSE rsResults

\* The posture is computed from results of its own.
Held == Risks(Now)

\* async_recompute_all, once the list of users is there.
RecomputeAll(p) ==
  /\ rsPass[p].pc = "risk"
  /\ rsResults' = Risks(Now)
  /\ rsPass' = [rsPass EXCEPT ![p].pc = "posture", ![p].scores = Held]
  /\ UNCHANGED <<rsRecords, rsTerms, rsPosture, rsWeek, rsChanges>>

\* The rest of async_compute_posture, once the users were listed again.
ComputePosture(p) ==
  /\ rsPass[p].pc = "posture"
  /\ rsTerms' = Stamped
  /\ rsPosture' = [score |-> PostureOf(Now, rsPass[p].scores), missing |-> Terms \ Stamped]
  /\ rsPass' = [rsPass EXCEPT ![p] = NoPass]
  /\ UNCHANGED <<rsRecords, rsResults, rsWeek, rsChanges>>

-----------------------------------------------------------------------------
(* What the other parts and the analysts change.                           *)

Disturbed == [p \in RiskPasses |-> [rsPass[p] EXCEPT !.clean = (rsPass[p].pc = "idle")]]

Changed ==
  /\ rsChanges < MaxRiskChanges
  /\ rsChanges' = rsChanges + 1
  /\ rsPass' = Disturbed
  /\ UNCHANGED <<rsTerms, rsResults, rsPosture, rsWeek>>

AlertRaised(d) ==
  /\ rsAlert[d] = "none"
  /\ rsAlert' = [rsAlert EXCEPT ![d] = "open"]
  /\ Changed
  /\ UNCHANGED <<rsMfa, rsAge, rsFlaw, rsHealth, rsScanned>>

\* An analyst acknowledges or resolves a detection, or dismisses a finding.
AlertDecided(d, status) ==
  /\ rsAlert[d] \in {"open", "acknowledged"} \ {status}
  /\ rsAlert' = [rsAlert EXCEPT ![d] = status]
  /\ Changed
  /\ UNCHANGED <<rsMfa, rsAge, rsFlaw, rsHealth, rsScanned>>

FlawDismissed(f) ==
  /\ rsFlaw[f] = "new"
  /\ rsFlaw' = [rsFlaw EXCEPT ![f] = "dismissed"]
  /\ Changed
  /\ UNCHANGED <<rsMfa, rsAlert, rsAge, rsHealth, rsScanned>>

\* A scan finds it, or its row goes.
FlawFound(f) ==
  /\ rsFlaw' = [rsFlaw EXCEPT ![f] = IF @ = "none" THEN "new" ELSE "none"]
  /\ Changed
  /\ UNCHANGED <<rsMfa, rsAlert, rsAge, rsHealth, rsScanned>>

MfaEnrolled(u) ==
  /\ u \notin rsMfa
  /\ rsMfa' = rsMfa \cup {u}
  /\ Changed
  /\ UNCHANGED <<rsAlert, rsAge, rsFlaw, rsHealth, rsScanned>>

HealthSeen(e, state) ==
  /\ rsHealth[e] # state
  /\ rsHealth' = [rsHealth EXCEPT ![e] = state]
  /\ Changed
  /\ UNCHANGED <<rsMfa, rsAlert, rsAge, rsFlaw, rsScanned>>

DetectionPassCompleted ==
  /\ ~rsScanned
  /\ rsScanned' = TRUE
  /\ rsPass' = Disturbed
  /\ UNCHANGED <<rsMfa, rsAlert, rsAge, rsFlaw, rsHealth, rsTerms,
                 rsResults, rsPosture, rsWeek, rsChanges>>

WeekPasses ==
  /\ rsWeek < MaxWeeks
  /\ rsWeek' = rsWeek + 1
  /\ rsAge' = [d \in Alerts |-> IF rsAlert[d] = "none" THEN 0 ELSE rsAge[d] + 1]
  /\ rsPass' = Disturbed
  /\ UNCHANGED <<rsMfa, rsAlert, rsFlaw, rsHealth, rsScanned,
                 rsTerms, rsResults, rsPosture, rsChanges>>

RsNext ==
  \/ \E p \in RiskPasses : PassStart(p) \/ RecomputeAll(p) \/ ComputePosture(p)
  \/ \E d \in Alerts : \/ AlertRaised(d)
                       \/ \E s \in {"acknowledged", "resolved"} : AlertDecided(d, s)
  \/ \E f \in Flaws : FlawDismissed(f) \/ FlawFound(f)
  \/ \E u \in RiskUsers : MfaEnrolled(u)
  \/ \E e \in HealthEntries, s \in {"loaded", "setup_error", "noisy", "unavailable"} : HealthSeen(e, s)
  \/ DetectionPassCompleted \/ WeekPasses

RsSpec == RsInit /\ [][RsNext]_rsVars

(* Properties.                                                             *)

\* Whatever was capped and rounded on the way, the points shown for a user's
\* factors add up to the score and none of them is negative.
FactorsAddUp ==
  \A u \in DOMAIN rsResults :
    /\ Total(rsResults[u].applied) = 10 * rsResults[u].score
    /\ \A f \in DOMAIN rsResults[u].applied : rsResults[u].applied[f] >= 0

\* A computation during which nothing changed gives the posture of the records
\* as they are, also when another computation overlaps it.
PostureIsCurrent ==
  [][\A p \in RiskPasses : ComputePosture(p) /\ rsPass[p].clean => rsPosture'.score = PostureOf(Now, Risks(Now))]_rsVars

\* What can be decided: a detection acknowledged or resolved, a finding
\* dismissed, a user enrolled in MFA.
Closings ==
  {[Now EXCEPT !.alert[d] = status] : d \in {x \in Alerts : rsAlert[x] \in {"open", "acknowledged"}},
                                      status \in {"acknowledged", "resolved"}}
  \cup {[Now EXCEPT !.flaw[f] = "dismissed"] : f \in {x \in Flaws : rsFlaw[x] = "new"}}
  \cup {[Now EXCEPT !.mfa = @ \cup {u}] : u \in RiskUsers}

\* Nothing that can be closed makes a user riskier or the posture worse.  The
\* records do not depend on the computations: it is enough to ask between two.
ClosingHelps ==
  rsPosture # NoPosture /\ (\A p \in RiskPasses : rsPass[p] = NoPass) =>
  LET risks == Risks(Now)
      posture == PostureOf(Now, risks)
  IN  \A r \in Closings :
        LET after == Risks(r)
        IN  /\ \A u \in RiskUsers : after[u].score <= risks[u].score
            /\ PostureOf(r, after) >= posture

\* A term that has computed once never turns provisional again, although the
\* rows that proved it may be gone at the next computation.
StaysComputed ==
  [][rsPosture # NoPosture => rsPosture'.missing \subseteq rsPosture.missing]_rsVars

\* What the scores are worth: they add up, closing never hurts, and a pass that
\* nothing disturbed gives the posture of the records, computed terms staying.
ScoresRight == [](RsTypeOK /\ FactorsAddUp /\ ClosingHelps) /\ PostureIsCurrent /\ StaysComputed
=============================================================================
