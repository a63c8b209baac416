----------------------------- MODULE MCAuditLog -----------------------------
(* The audit log writer for TLC; the instances are in the cfg files.       *)
EXTENDS AuditLog
=============================================================================
