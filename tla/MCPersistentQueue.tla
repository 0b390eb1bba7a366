------------------------- MODULE MCPersistentQueue -------------------------
(***************************************************************************)
(* Instances of PersistentQueue for TLC.  The other outcomes of a child    *)
(* take the path of succeeded.                                             *)
(***************************************************************************)
EXTENDS PersistentQueue, TLC

SomeReports == {"succeeded", "failed"}
=============================================================================
