------------------------------- MODULE MCAudit -------------------------------
(* Instances of AuditWriter: a queue of two rows.                            *)
EXTENDS AuditWriter
==============================================================================
