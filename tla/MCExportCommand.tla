--------------------------- MODULE MCExportCommand ---------------------------
(***************************************************************************)
(* A small instance of ExportCommand for TLC: the gates of MCExportRun.    *)
(***************************************************************************)
EXTENDS ExportCommand

MCAppliesTo == [STRICT |-> Gates, BALANCED |-> {1, 3, 4, 5}, DRAFT_ONLY |-> {1}]
=============================================================================
