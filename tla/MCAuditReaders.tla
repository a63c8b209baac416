--------------------------- MODULE MCAuditReaders ---------------------------
(* The audit log with its readers for TLC.                                 *)
EXTENDS AuditReaders
=============================================================================
