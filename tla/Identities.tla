----------------------------- MODULE Identities -----------------------------
(***************************************************************************)
(* Who HA SOC trusts because it met them first: the devices it reaches by  *)
(* SSH, by host key, and the Probe add-on, by its secret.  The two keep    *)
(* their pins apart.                                                       *)
(***************************************************************************)
EXTENDS DeviceSsh, ProbePairing

IdentitySpec == SdSpec /\ PpSpec

\* Who was trusted first stays the one: host keys of devices, which no run
\* loses or replaces, and the secret of the probe.
IdentitiesStand == [](SdTypeOK /\ OneIdentity /\ PpTypeOK /\ RejectedNeverPins /\ OneSecret) /\ PinStands
=============================================================================
