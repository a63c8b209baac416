------------------------------ MODULE DeviceSsh ------------------------------
(***************************************************************************)
(* The SSH collection of ssh_devices.py and its commands: runs of read-only*)
(* commands on devices whose host key is pinned on first use, and the      *)
(* posture a run leaves.  Pins and posture are one record of the main      *)
(* store, which reaches its file later; the private key is a secret, which *)
(* is written at once.                                                     *)
(***************************************************************************)
EXTENDS Naturals, FiniteSets

CONSTANTS
  Hosts,           \* devices
  Prints,          \* fingerprints of host keys
  SshRuns,         \* runs that may overlap
  MaxSshFaults,    \* bound: devices that change, crashes, failed writes
  MaxSshOwner      \* bound: what the owner does besides running commands

ASSUME SshAssumption ==
  /\ Hosts # {} /\ Prints # {} /\ "none" \notin Prints
  /\ {MaxSshFaults, MaxSshOwner} \subseteq Nat

VARIABLES
  sdEnabled,     \* the opt-in switch
  sdKey,         \* the private key: in memory, in the file
  sdRecord,      \* unifi_ssh: the pins and the host of the last posture
  sdFile,        \* ... as its file has it
  sdDevice,      \* the key that answers at each address
  sdRun,         \* each run: its step, its host and the key it met
  sdForgot,      \* hosts whose pin the owner dropped or a crash lost
  sdFaults, sdOwner

sdVars == <<sdEnabled, sdKey, sdRecord, sdFile, sdDevice, sdRun, sdForgot, sdFaults, sdOwner>>

NoRun == [pc |-> "idle", host |-> "none", print |-> "none"]

SdTypeOK ==
  /\ sdEnabled \in BOOLEAN
  /\ sdKey \in [memory : BOOLEAN, file : BOOLEAN]
  /\ \A r \in {sdRecord, sdFile} : /\ r.pins \in [Hosts -> Prints \cup {"none"}]
                                   /\ r.posture \in Hosts \cup {"none"}
  /\ sdDevice \in [Hosts -> Prints]
  /\ \A r \in SshRuns : /\ sdRun[r].pc \in {"idle", "connecting", "running"}
                        /\ sdRun[r].pc = "idle" <=> sdRun[r] = NoRun
                        /\ sdRun[r].pc = "running" => sdRun[r].print \in Prints
  /\ sdForgot \subseteq Hosts
  /\ sdFaults \in 0 .. MaxSshFaults /\ sdOwner \in 0 .. MaxSshOwner

SdInit ==
  /\ sdEnabled = TRUE
  /\ sdKey = [memory |-> FALSE, file |-> FALSE]
  /\ sdRecord = [pins |-> [h \in Hosts |-> "none"], posture |-> "none"]
  /\ sdFile = sdRecord
  /\ sdDevice \in [Hosts -> Prints]
  /\ sdRun = [r \in SshRuns |-> NoRun]
  /\ sdForgot = {} /\ sdFaults = 0 /\ sdOwner = 0

-----------------------------------------------------------------------------
(* async_run_commands.                                                     *)

\* Collection is on and the key was read; from here the run does not look at
\* the switch or the stored key again.
RunBegins(r, h) ==
  /\ sdRun[r].pc = "idle"
  /\ sdEnabled /\ sdKey.memory
  /\ sdRun' = [sdRun EXCEPT ![r] = [pc |-> "connecting", host |-> h, print |-> "none"]]
  /\ UNCHANGED <<sdEnabled, sdKey, sdRecord, sdFile, sdDevice, sdForgot, sdFaults, sdOwner>>

SshRefused(r) ==
  /\ sdRun[r].pc = "connecting"
  /\ sdRun' = [sdRun EXCEPT ![r] = NoRun]
  /\ UNCHANGED <<sdEnabled, sdKey, sdRecord, sdFile, sdDevice, sdForgot, sdFaults, sdOwner>>

Accepts_Any(known, met) == TRUE

\* Trust on first use, then only the same key.
Accepts(known, met) == known \in {"none", met}

Pinned_Alone(h, met) == [x \in Hosts |-> IF x = h THEN met ELSE "none"]

Pinned(h, met) == [sdRecord.pins EXCEPT ![h] = met]

\* The device answers; its key is checked, and pinned if there was none, in
\* one stretch.
Connected(r) ==
  LET h == sdRun[r].host
      met == sdDevice[h]
      known == sdRecord.pins[h]
  IN  /\ sdRun[r].pc = "connecting"
      /\ Accepts(known, met)
      /\ sdRecord' = IF known = "none" THEN [sdRecord EXCEPT !.pins = Pinned(h, met)] ELSE sdRecord
      /\ sdRun' = [sdRun EXCEPT ![r] = [pc |-> "running", host |-> h, print |-> met]]
      /\ UNCHANGED <<sdEnabled, sdKey, sdFile, sdDevice, sdForgot, sdFaults, sdOwner>>

KeyChanged(r) ==
  LET h == sdRun[r].host
  IN  /\ sdRun[r].pc = "connecting"
      /\ ~Accepts(sdRecord.pins[h], sdDevice[h])
      /\ sdRun' = [sdRun EXCEPT ![r] = NoRun]
      /\ UNCHANGED <<sdEnabled, sdKey, sdRecord, sdFile, sdDevice, sdForgot, sdFaults, sdOwner>>

\* The commands are over; a read of the IPS configuration that passed leaves
\* its posture, another leaves the one before.
SshEnds(r, passed) ==
  /\ sdRun[r].pc = "running"
  /\ sdRecord' = IF passed THEN [sdRecord EXCEPT !.posture = sdRun[r].host] ELSE sdRecord
  /\ sdRun' = [sdRun EXCEPT ![r] = NoRun]
  /\ UNCHANGED <<sdEnabled, sdKey, sdFile, sdDevice, sdForgot, sdFaults, sdOwner>>

-----------------------------------------------------------------------------
(* The owner.                                                              *)

OwnerActs == sdOwner < MaxSshOwner /\ sdOwner' = sdOwner + 1

\* A pair is made or replaced, or cleared; a write that fails is not noticed.
KeySet(present, ok) ==
  /\ OwnerActs
  /\ sdFaults' = IF ok THEN sdFaults ELSE sdFaults + 1
  /\ sdFaults' <= MaxSshFaults
  /\ sdKey' = [memory |-> present, file |-> IF ok THEN present ELSE sdKey.file]
  /\ UNCHANGED <<sdEnabled, sdRecord, sdFile, sdDevice, sdRun, sdForgot>>

ForgetHostKey(h) ==
  /\ OwnerActs
  /\ sdRecord.pins[h] # "none"
  /\ sdRecord' = [sdRecord EXCEPT !.pins[h] = "none"]
  /\ sdForgot' = sdForgot \cup {h}
  /\ UNCHANGED <<sdEnabled, sdKey, sdFile, sdDevice, sdRun, sdFaults>>

SwitchCollection ==
  /\ OwnerActs
  /\ sdEnabled' = ~sdEnabled
  /\ UNCHANGED <<sdKey, sdRecord, sdFile, sdDevice, sdRun, sdForgot, sdFaults>>

-----------------------------------------------------------------------------
(* The rest of the world.                                                  *)

Fault == sdFaults < MaxSshFaults /\ sdFaults' = sdFaults + 1

\* Another key answers at the address.
DeviceChanges(h, p) ==
  /\ Fault
  /\ sdDevice[h] # p
  /\ sdDevice' = [sdDevice EXCEPT ![h] = p]
  /\ UNCHANGED <<sdEnabled, sdKey, sdRecord, sdFile, sdRun, sdForgot, sdOwner>>

\* The delayed save.
RecordSaved ==
  /\ sdFile # sdRecord
  /\ sdFile' = sdRecord
  /\ UNCHANGED <<sdEnabled, sdKey, sdRecord, sdDevice, sdRun, sdForgot, sdFaults, sdOwner>>

SshCrash ==
  /\ Fault
  /\ sdRecord' = sdFile
  /\ sdForgot' = sdForgot \cup {h \in Hosts : sdFile.pins[h] # sdRecord.pins[h]}
  /\ sdKey' = [sdKey EXCEPT !.memory = sdKey.file]
  /\ sdRun' = [r \in SshRuns |-> NoRun]
  /\ UNCHANGED <<sdEnabled, sdFile, sdDevice, sdOwner>>

SdNext ==
  \/ \E r \in SshRuns : \/ \E h \in Hosts : RunBegins(r, h)
                        \/ SshRefused(r) \/ Connected(r) \/ KeyChanged(r)
                        \/ \E passed \in BOOLEAN : SshEnds(r, passed)
  \/ \E present, ok \in BOOLEAN : KeySet(present, ok)
  \/ \E h \in Hosts : ForgetHostKey(h) \/ \E p \in Prints : DeviceChanges(h, p)
  \/ SwitchCollection \/ RecordSaved \/ SshCrash

SdSpec == SdInit /\ [][SdNext]_sdVars

(* Properties.                                                             *)

\* Unless the owner forgot its key, no two runs ever send commands to the same
\* device under different keys, although both may have met it before there
\* was a pin.
OneIdentity ==
  \A r, q \in SshRuns :
    sdRun[r].pc = "running" /\ sdRun[q].pc = "running" /\ sdRun[r].host = sdRun[q].host
      => sdRun[r].print = sdRun[q].print \/ sdRun[r].host \in sdForgot

\* A pin stands until the owner forgets it: no run replaces it with a key that
\* changed or loses it while it writes what it found on another device, and a
\* crash takes only what had not reached the file.
PinStands ==
  [][\A h \in Hosts : sdRecord.pins[h] # "none" =>
       \/ sdRecord'.pins[h] = sdRecord.pins[h]
       \/ ForgetHostKey(h)
       \/ SshCrash /\ sdFile.pins[h] # sdRecord.pins[h]]_sdVars
=============================================================================
