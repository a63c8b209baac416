------------------------------ MODULE UserAccess ------------------------------
(***************************************************************************)
(* The user commands of the panel (users.py and their handlers in          *)
(* websocket_api.py with the gates before them) and the MFA policy         *)
(* (mfa_policy.py), which acts on a list of users made earlier.            *)
(*                                                                         *)
(* hass.auth looks users up and changes them in memory, so a handler runs  *)
(* from its gate to its record in one step; building the list of users,    *)
(* changing a password and removing a user wait for files in between.      *)
(***************************************************************************)
EXTENDS Naturals, Sequences, FiniteSets

CONSTANTS
  Accounts, AccountOwner,
  PolicyPasses,    \* periodic analyses that may be under way at once
  GraceDays,       \* mfa_grace_period_days
  MaxCommands      \* bound: commands, logins and changes of MFA

ASSUME AccessAssumption ==
  /\ AccountOwner \in Accounts
  /\ {GraceDays, MaxCommands} \subseteq Nat /\ GraceDays > 0

VARIABLES
  uaUser,          \* account -> what hass.auth holds of it
  uaAccess,        \* access_level is owner_and_admins
  uaAuto,          \* mfa_policy is auto_deactivate
  uaGrace,         \* mfa_grace_started: account -> days since, or NoGrace
  uaPass,          \* pass -> the list it carries
  uaReset,         \* account -> the steps a password reset still has to take
  uaCommands,
  uaActor,         \* who took the latest step
  uaCut,           \* accounts the policy deactivated and nobody restored
  uaRestored,      \* account -> days since it was last restored after that, or NoGrace
  uaQuiet          \* nothing has changed since a pass that ran alone ended

uaVars == <<uaUser, uaAccess, uaAuto, uaGrace, uaPass, uaReset, uaCommands,
            uaActor, uaCut, uaRestored, uaQuiet>>

NoGrace == GraceDays + 1                       \* days count up to the grace period
Absent == [exists |-> FALSE, admin |-> FALSE, active |-> FALSE, mfa |-> FALSE,
           session |-> {}, token |-> FALSE]
NoPass == [pc |-> "idle", listed |-> {}, alone |-> TRUE]

UaTypeOK ==
  /\ \A u \in Accounts :
       /\ DOMAIN uaUser[u] = DOMAIN Absent
       /\ uaUser[u].session \subseteq {"old", "current"}
       /\ uaUser[u].active => uaUser[u].exists
  /\ uaUser[AccountOwner].active
  /\ {uaAccess, uaAuto, uaQuiet} \subseteq BOOLEAN
  /\ uaGrace \in [Accounts -> 0 .. NoGrace] /\ uaRestored \in [Accounts -> 0 .. NoGrace]
  /\ uaCut \subseteq Accounts
  /\ uaCommands \in 0 .. MaxCommands
  /\ \A p \in PolicyPasses : uaPass[p].pc \in {"idle", "listed"} /\ uaPass[p].listed \subseteq Accounts
  /\ \A u \in Accounts : Len(uaReset[u]) \in 0 .. 2

UaInit ==
  /\ uaUser = [u \in Accounts |-> [Absent EXCEPT !.exists = TRUE, !.admin = TRUE, !.active = TRUE,
                                                 !.token = TRUE]]
  /\ uaAccess = TRUE /\ uaAuto = TRUE
  /\ uaGrace = [u \in Accounts |-> NoGrace]
  /\ uaCommands = 0
  /\ uaPass = [p \in PolicyPasses |-> NoPass]
  /\ uaReset = [u \in Accounts |-> <<>>]
  /\ uaActor = "none"
  /\ uaCut = {} /\ uaRestored = [u \in Accounts |-> NoGrace]
  /\ uaQuiet = FALSE

-----------------------------------------------------------------------------
(* The gates.                                                              *)

\* require_soc_access.
HasAccess(a) == /\ uaUser[a].exists /\ uaUser[a].active /\ uaUser[a].admin
                /\ a = AccountOwner \/ uaAccess

\* _async_target_is_admin: by group, so that a deactivated administrator counts.
TargetIsAdmin_Active(u) == u = AccountOwner \/ (uaUser[u].admin /\ uaUser[u].active)

TargetIsAdmin(u) == u = AccountOwner \/ uaUser[u].admin

\* What another administrator may not touch is for the owner only.
MayTouch(a, u) == HasAccess(a) /\ (a = AccountOwner \/ ~TargetIsAdmin(u))

Spend(actor) == /\ uaCommands < MaxCommands /\ uaCommands' = uaCommands + 1
                /\ uaActor' = actor
                /\ uaQuiet' = FALSE
                /\ uaPass' = [p \in PolicyPasses |-> [uaPass[p] EXCEPT !.alone = FALSE]]
Actor(a) == IF a = AccountOwner THEN "owner" ELSE "admin"

-----------------------------------------------------------------------------
(* The commands.                                                           *)

\* ws_users_create: only the owner creates an administrator.
CreateUser(a, u, admin) ==
  /\ HasAccess(a) /\ (a = AccountOwner \/ ~admin)
  /\ ~uaUser[u].exists
  /\ Spend(Actor(a))
  /\ uaUser' = [uaUser EXCEPT ![u] = [Absent EXCEPT !.exists = TRUE, !.admin = admin, !.active = TRUE]]
  /\ UNCHANGED <<uaAccess, uaAuto, uaGrace, uaReset, uaCut, uaRestored>>

\* ws_users_update with async_update_user: groups, when given, and is_active.
\* The owner of an installation keeps its groups.
UpdateUser(a, u, groups, active) ==
  /\ uaUser[u].exists
  /\ MayTouch(a, u) /\ (a = AccountOwner \/ groups # "admin")
  /\ u = AccountOwner => active /\ groups # "user"
  /\ Spend(Actor(a))
  /\ uaUser' = [uaUser EXCEPT ![u].admin = IF groups = "keep" THEN @ ELSE groups = "admin",
                                ![u].active = active]
  /\ uaCut' = IF active THEN uaCut \ {u} ELSE uaCut
  /\ uaRestored' = IF active /\ u \in uaCut THEN [uaRestored EXCEPT ![u] = 0] ELSE uaRestored
  /\ UNCHANGED <<uaAccess, uaAuto, uaGrace, uaReset>>

\* Core's async_deactivate_user, which refuses the owner and revokes every token.
Deactivated(users, u) == [users EXCEPT ![u].active = FALSE, ![u].session = {}, ![u].token = FALSE]

\* ws_users_deactivate.
DeactivateUser(a, u) ==
  /\ uaUser[u].exists /\ MayTouch(a, u) /\ u # AccountOwner
  /\ Spend(Actor(a))
  /\ uaUser' = Deactivated(uaUser, u)
  /\ UNCHANGED <<uaCut, uaAccess, uaAuto, uaGrace, uaReset, uaRestored>>

\* ws_users_delete: neither the owner nor oneself, then async_purge_user.
DeleteUser(a, u) ==
  /\ uaUser[u].exists /\ MayTouch(a, u) /\ u \notin {AccountOwner, a}
  /\ Spend(Actor(a))
  /\ uaUser' = [uaUser EXCEPT ![u] = Absent]
  /\ uaCut' = uaCut \ {u} /\ uaRestored' = [uaRestored EXCEPT ![u] = NoGrace]
  /\ uaGrace' = [uaGrace EXCEPT ![u] = NoGrace]
  /\ uaReset' = [uaReset EXCEPT ![u] = <<>>]
  /\ UNCHANGED <<uaAccess, uaAuto>>

\* ws_users_revoke_token and ws_users_revoke_all_sessions.
Revoke(a, u, all) ==
  /\ uaUser[u].exists /\ MayTouch(a, u)
  /\ Spend(Actor(a))
  /\ uaUser' = IF all THEN [uaUser EXCEPT ![u].session = {}, ![u].token = FALSE]
               ELSE [uaUser EXCEPT ![u].token = FALSE]
  /\ UNCHANGED <<uaCut, uaAccess, uaAuto, uaGrace, uaReset, uaRestored>>

ResetSteps_RevokeFirst == <<"revoke", "change">>

\* What a reset does, in this order.
ResetSteps == <<"change", "revoke">>

\* ws_users_set_password begins: for the owner only.
BeginReset(a, u) ==
  /\ HasAccess(a) /\ a = AccountOwner
  /\ uaUser[u].exists /\ uaReset[u] = <<>>
  /\ Spend(Actor(a))
  /\ uaReset' = [uaReset EXCEPT ![u] = ResetSteps]
  /\ UNCHANGED <<uaCut, uaUser, uaAccess, uaAuto, uaGrace, uaRestored>>

\* async_set_password, then async_revoke_interactive_sessions, which keeps
\* long-lived tokens.
ResetStep(u) ==
  /\ uaReset[u] # <<>>
  /\ uaUser' = [uaUser EXCEPT ![u].session =
                   IF Head(uaReset[u]) = "change" /\ @ # {} THEN {"old"} ELSE {}]
  /\ uaReset' = [uaReset EXCEPT ![u] = Tail(@)]
  /\ uaActor' = "owner"
  /\ UNCHANGED <<uaAccess, uaAuto, uaGrace, uaPass, uaCommands, uaCut, uaRestored, uaQuiet>>

\* The user signs in, sets MFA up or turns it off; the owner changes settings.
Login(u) ==
  /\ uaUser[u].active
  /\ Spend("user")
  /\ uaUser' = [uaUser EXCEPT ![u].session = @ \cup {"current"}]
  /\ UNCHANGED <<uaCut, uaAccess, uaAuto, uaGrace, uaReset, uaRestored>>

ToggleMfa(u) ==
  /\ uaUser[u].active
  /\ Spend("user")
  /\ uaUser' = [uaUser EXCEPT ![u].mfa = ~@]
  /\ UNCHANGED <<uaCut, uaAccess, uaAuto, uaGrace, uaReset, uaRestored>>

\* ws_settings_set as far as it concerns users.
ChangePolicy(access, auto) ==
  /\ <<access, auto>> # <<uaAccess, uaAuto>>
  /\ Spend("owner")
  /\ uaAccess' = access /\ uaAuto' = auto
  /\ UNCHANGED <<uaCut, uaUser, uaGrace, uaReset, uaRestored>>

-----------------------------------------------------------------------------
(* The MFA policy.                                                         *)

\* _is_noncompliant, as async_list_users reads it.
Noncompliant(u) == /\ uaUser[u].exists /\ uaUser[u].admin /\ uaUser[u].active
                   /\ u # AccountOwner /\ ~uaUser[u].mfa

BeginPass(p) ==
  /\ uaPass[p].pc = "idle"
  /\ uaPass' = [q \in PolicyPasses |->
       IF q = p THEN [pc |-> "listed", listed |-> {u \in Accounts : Noncompliant(u)},
                      alone |-> \A r \in PolicyPasses : uaPass[r].pc = "idle"]
       ELSE [uaPass[q] EXCEPT !.alone = FALSE]]
  /\ uaActor' = "policy"
  /\ UNCHANGED <<uaUser, uaAccess, uaAuto, uaGrace, uaReset, uaCommands, uaCut, uaRestored, uaQuiet>>

Started_Again(u) == 0

\* Days of grace a listed user has had: once begun it runs on.
Started(u) == IF uaGrace[u] = NoGrace THEN 0 ELSE uaGrace[u]

Expired(p) == {u \in uaPass[p].listed : uaAuto /\ Started(u) >= GraceDays}

GraceAfter_Kept(p) ==
  [u \in Accounts |-> IF u \in uaPass[p].listed THEN Started(u) ELSE NoGrace]

\* Grace begins for who is listed, ends for who is not, and for who was
\* deactivated, so that somebody made active again has all of it.
GraceAfter(p) ==
  [u \in Accounts |-> IF u \in uaPass[p].listed
                         /\ (u \notin Expired(p) \/ ~uaUser[u].exists)
                      THEN Started(u) ELSE NoGrace]

\* async_enforce_mfa_policy, on the list as it was.
Enforce(p) ==
  /\ uaPass[p].pc = "listed"
  /\ uaUser' = [u \in Accounts |-> IF u \in Expired(p) /\ uaUser[u].exists
                                   THEN Deactivated(uaUser, u)[u] ELSE uaUser[u]]
  /\ uaGrace' = GraceAfter(p)
  /\ uaPass' = [uaPass EXCEPT ![p] = NoPass]
  /\ uaQuiet' = uaPass[p].alone
  /\ uaCut' = uaCut \cup {u \in Expired(p) : uaUser[u].exists}
  /\ uaActor' = "policy"
  /\ UNCHANGED <<uaAccess, uaAuto, uaReset, uaCommands, uaRestored>>

DayOlder(n) == IF n < GraceDays THEN n + 1 ELSE n

\* A day has many passes, all of them far shorter.
NextDay ==
  /\ uaQuiet /\ \A p \in PolicyPasses : uaPass[p].pc = "idle"
  /\ uaGrace' = [u \in Accounts |-> DayOlder(uaGrace[u])]
  /\ uaRestored' = [u \in Accounts |-> DayOlder(uaRestored[u])]
  /\ uaQuiet' = FALSE
  /\ uaActor' = "none"
  /\ UNCHANGED <<uaUser, uaAccess, uaAuto, uaPass, uaReset, uaCommands, uaCut>>

UaNext ==
  \/ \E a, u \in Accounts :
       \/ DeactivateUser(a, u) \/ DeleteUser(a, u) \/ BeginReset(a, u)
       \/ \E groups \in {"admin", "user", "keep"}, x \in BOOLEAN : UpdateUser(a, u, groups, x)
       \/ \E x \in BOOLEAN : CreateUser(a, u, x) \/ Revoke(a, u, x)
  \/ \E u \in Accounts : ResetStep(u) \/ Login(u) \/ ToggleMfa(u)
  \/ \E x, y \in BOOLEAN : ChangePolicy(x, y)
  \/ \E p \in PolicyPasses : BeginPass(p) \/ Enforce(p)
  \/ NextDay

UaSpec == UaInit /\ [][UaNext]_uaVars

-----------------------------------------------------------------------------
(* Properties.                                                             *)

\* No administrator makes another: whatever sequence of commands runs, an
\* account becomes an active administrator by the owner's command alone, and
\* one the owner deactivated is not brought back by its peers.
OwnerMakesAdmins ==
  [][\A u \in Accounts :
       (uaUser'[u].admin /\ uaUser'[u].active) /\ ~(uaUser[u].admin /\ uaUser[u].active)
       => uaActor' = "owner"]_uaVars

\* Once a password reset has ended no session begun with the old password is
\* left, although users go on signing in while it runs.
ResetSignsOut ==
  \A u \in Accounts : uaReset[u] = <<>> => "old" \notin uaUser[u].session

\* Somebody the policy deactivated and the owner restored has the whole grace
\* period again, whatever list a pass still under way carries.
FreshGrace ==
  [][\A u \in Accounts :
       (uaActor' = "policy" /\ uaUser[u].active /\ ~uaUser'[u].active /\ uaRestored[u] # NoGrace)
       => uaRestored[u] >= GraceDays]_uaVars

\* Under auto_deactivate an administrator who never sets MFA up does not stay
\* active for ever.
PolicyActs ==
  \A u \in Accounts : ~<>[](uaAuto /\ Noncompliant(u))

\* A reset signs everybody out, only the owner makes administrators, and the
\* policy gives the whole grace.
AccessSafe == [](UaTypeOK /\ ResetSignsOut) /\ OwnerMakesAdmins /\ FreshGrace
=============================================================================
