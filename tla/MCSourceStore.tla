---------------------------- MODULE MCSourceStore ----------------------------
(* The instance of SourceStore that TLC checks. *)
EXTENDS SourceStore, TLC
=============================================================================
