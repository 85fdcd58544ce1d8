---------------------------- MODULE MCLifecycle -----------------------------
(***************************************************************************)
(* An instance of Lifecycle for TLC: two of the four trimmed tables.       *)
(***************************************************************************)
EXTENDS Lifecycle

TwoTables == <<"RefreshToken", "AuditLog">>
=============================================================================
