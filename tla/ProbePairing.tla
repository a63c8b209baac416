---------------------------- MODULE ProbePairing ----------------------------
(***************************************************************************)
(* Who may call the services of the Probe add-on (probe.py, firewall.py,   *)
(* secrets_store.py): a call needs the Supervisor's context and the secret *)
(* that the first such call pinned, until the owner resets the pairing.    *)
(* Every add-on reaches Core in the Supervisor's context, so the secret is *)
(* what tells them apart.  A secret is changed in memory and then written; *)
(* a write that fails is not noticed.                                      *)
(***************************************************************************)
EXTENDS Naturals, FiniteSets

CONSTANTS
  ProbeCalls,      \* calls that may overlap
  ProbeSecrets,    \* what callers present
  MaxResets,       \* bound: resets by the owner
  MaxPairFaults    \* bound: failed writes and restarts

ASSUME PairingAssumption ==
  /\ ProbeCalls # {} /\ ProbeSecrets # {} /\ "none" \notin ProbeSecrets
  /\ {MaxResets, MaxPairFaults} \subseteq Nat

VARIABLES
  ppPin,         \* the pinned secret in memory
  ppPinFile,     \* ... and in its file
  ppUser,        \* the Supervisor user exists
  ppCached,      \* its id is cached on the store
  ppCall,        \* each call: its step, its context, what it presents
  ppReport,      \* whose report is stored
  ppTrusted,     \* secrets found good since the pairing was last open
  ppPresented,   \* secrets that came in the Supervisor's context
  ppResets, ppFaults

ppPins == <<ppPin, ppPinFile>>
ppGhosts == <<ppTrusted, ppPresented>>
ppVars == <<ppPins, ppUser, ppCached, ppCall, ppReport, ppGhosts, ppResets, ppFaults>>

Callers == {"supervisor", "user", "nobody"}
NoCall == [pc |-> "idle", who |-> "nobody", secret |-> "none"]

PpTypeOK ==
  /\ {ppPin, ppPinFile} \subseteq ProbeSecrets \cup {"none"}
  /\ {ppUser, ppCached} \subseteq BOOLEAN /\ (ppCached => ppUser)
  /\ ppCall \in [ProbeCalls -> [pc : {"idle", "resolve", "judge", "save"}, who : Callers,
                                secret : ProbeSecrets \cup {"none"}]]
  /\ ppReport \in Callers
  /\ ppTrusted \cup ppPresented \subseteq ProbeSecrets \cup {"none"}
  /\ ppResets \in 0 .. MaxResets /\ ppFaults \in 0 .. MaxPairFaults

PpInit ==
  /\ ppPin = "none" /\ ppPinFile = "none"
  /\ ppUser \in BOOLEAN /\ ppCached = FALSE
  /\ ppCall = [c \in ProbeCalls |-> NoCall]
  /\ ppReport = "nobody"
  /\ ppTrusted = {} /\ ppPresented = {}
  /\ ppResets = 0 /\ ppFaults = 0

-----------------------------------------------------------------------------
(* _async_call_rejected and the handlers behind it.                        *)

CallArrives(c, who, secret) ==
  /\ ppCall[c].pc = "idle"
  /\ who = "supervisor" => ppUser
  /\ ppCall' = [ppCall EXCEPT ![c] = [pc |-> IF ppCached THEN "judge" ELSE "resolve", who |-> who, secret |-> secret]]
  /\ ppPresented' = ppPresented \cup (IF who = "supervisor" THEN {secret} ELSE {})
  /\ UNCHANGED <<ppPins, ppUser, ppCached, ppReport, ppTrusted, ppResets, ppFaults>>

\* The list of users was read; an id that is not there is not remembered.
UserResolved(c) ==
  /\ ppCall[c].pc = "resolve"
  /\ ppCached' = (ppCached \/ ppUser)
  /\ ppCall' = [ppCall EXCEPT ![c].pc = "judge"]
  /\ UNCHANGED <<ppPins, ppUser, ppReport, ppGhosts, ppResets, ppFaults>>

InContext_Either(c) == ppCall[c].who = "supervisor" \/ ppPin = "none"

\* The context is checked before the secret is looked at.
InContext(c) == ppCall[c].who = "supervisor"

\* The handler runs: a report is stored, a poll is answered.
Served(c) ==
  /\ ppReport' \in {ppReport, ppCall[c].who}
  /\ ppCall' = [ppCall EXCEPT ![c] = NoCall]

AtOnce_AfterWrite == FALSE

\* async_set changes the memory before it waits for the write.
AtOnce == TRUE

\* The first secret is pinned.
FirstPins(c) ==
  /\ ppCall[c].pc = "judge"
  /\ InContext(c) /\ ppCall[c].secret # "none" /\ ppPin = "none"
  /\ ppPin' = IF AtOnce THEN ppCall[c].secret ELSE ppPin
  /\ ppTrusted' = ppTrusted \cup {ppCall[c].secret}
  /\ ppCall' = [ppCall EXCEPT ![c].pc = "save"]
  /\ UNCHANGED <<ppPinFile, ppUser, ppCached, ppReport, ppPresented, ppResets, ppFaults>>

\* The write ends, with what the memory held when it was asked for.
PinWritten(c, ok) ==
  /\ ppCall[c].pc = "save"
  /\ ppPinFile' = IF ok THEN ppCall[c].secret ELSE ppPinFile
  /\ ppFaults' = IF ok THEN ppFaults ELSE ppFaults + 1
  /\ ppFaults' <= MaxPairFaults
  /\ ppPin' = IF AtOnce THEN ppPin ELSE ppCall[c].secret
  /\ Served(c)
  /\ UNCHANGED <<ppUser, ppCached, ppGhosts, ppResets>>

SecretMatches(c) ==
  /\ ppCall[c].pc = "judge"
  /\ InContext(c) /\ ppCall[c].secret # "none" /\ ppPin = ppCall[c].secret
  /\ ppTrusted' = ppTrusted \cup {ppCall[c].secret}
  /\ Served(c)
  /\ UNCHANGED <<ppPins, ppUser, ppCached, ppPresented, ppResets, ppFaults>>

\* It is audited and gets nothing.
CallRejected(c) ==
  /\ ppCall[c].pc = "judge"
  /\ ~InContext(c) \/ ppCall[c].secret = "none" \/ ppPin \notin {"none", ppCall[c].secret}
  /\ ppCall' = [ppCall EXCEPT ![c] = NoCall]
  /\ UNCHANGED <<ppPins, ppUser, ppCached, ppReport, ppGhosts, ppResets, ppFaults>>

-----------------------------------------------------------------------------
\* The owner opens the pairing again.
ResetPairing(ok) ==
  /\ ppResets < MaxResets
  /\ ppResets' = ppResets + 1
  /\ ppFaults' = IF ok THEN ppFaults ELSE ppFaults + 1
  /\ ppFaults' <= MaxPairFaults
  /\ ppPin' = "none"
  /\ ppPinFile' = IF ok THEN "none" ELSE ppPinFile
  /\ ppTrusted' = {}
  /\ UNCHANGED <<ppUser, ppCached, ppCall, ppReport, ppPresented>>

SupervisorSeen ==
  /\ ~ppUser
  /\ ppUser' = TRUE
  /\ UNCHANGED <<ppPins, ppCached, ppCall, ppReport, ppGhosts, ppResets, ppFaults>>

\* A pin whose write failed, or was still under way, is gone.
PairingRestart ==
  /\ ppFaults < MaxPairFaults
  /\ ppFaults' = ppFaults + 1
  /\ ppPin' = ppPinFile
  /\ ppTrusted' = IF ppPinFile = ppPin THEN ppTrusted ELSE {ppPinFile} \ {"none"}
  /\ ppCached' = FALSE
  /\ ppCall' = [c \in ProbeCalls |-> NoCall]
  /\ UNCHANGED <<ppPinFile, ppUser, ppReport, ppPresented, ppResets>>

PpNext ==
  \/ \E c \in ProbeCalls :
       \/ \E who \in Callers, secret \in ProbeSecrets \cup {"none"} : CallArrives(c, who, secret)
       \/ UserResolved(c) \/ FirstPins(c) \/ SecretMatches(c) \/ CallRejected(c)
       \/ \E ok \in BOOLEAN : PinWritten(c, ok)
  \/ \E ok \in BOOLEAN : ResetPairing(ok)
  \/ SupervisorSeen \/ PairingRestart

PpSpec == PpInit /\ [][PpNext]_ppVars

(* Properties.                                                             *)

\* A caller outside the Supervisor's context never pins a secret and never
\* has its report stored, not even as the first to call.
RejectedNeverPins ==
  /\ ({ppPin, ppPinFile} \ {"none"}) \subseteq ppPresented
  /\ ppReport # "user"

\* From one opening of the pairing to the next only one secret is good, also
\* when two add-ons call for the first time at once.
OneSecret == Cardinality(ppTrusted) <= 1
=============================================================================
