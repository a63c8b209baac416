------------------------------ MODULE UserFiles ------------------------------
(***************************************************************************)
(* The two parts of HA SOC that write documents of the user: Entity ReMap  *)
(* and the dashboard editor.  They share no document.                      *)
(***************************************************************************)
EXTENDS EntityRemap, DashboardFiles

UserFilesSpec == ErSpec /\ DfSpec

\* Writing a document of the user is safe: what an apply fixed stays fixed,
\* operators do not overwrite one another, and what was there is in a backup.
WritesSafe ==
  /\ ErTypeOK /\ FixedStaysFixed /\ BackupHasOld
  /\ DfTypeOK /\ OperatorsNeverOverwrite /\ ReplacedIsBackedUp
=============================================================================
