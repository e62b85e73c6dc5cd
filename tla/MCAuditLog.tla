----------------------------- MODULE MCAuditLog -----------------------------
(***************************************************************************)
(* Small instances of AuditLog for TLC.                                    *)
(***************************************************************************)
EXTENDS AuditLog, TLC

\* Handles are interchangeable, and so are event contents.
Symmetry == Permutations(Writers) \union Permutations(Events)
=============================================================================
