---------------------------- MODULE MCAuditStore ----------------------------
(* Instances of AuditStore for TLC. *)
EXTENDS AuditStore
=============================================================================
