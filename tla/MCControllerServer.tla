------------------------- MODULE MCControllerServer -------------------------
(***************************************************************************)
(* Small instances of ControllerServer: its constants are all in the cfg.  *)
(* No symmetry is declared, since the runs check liveness.                 *)
(***************************************************************************)
EXTENDS ControllerServer, TLC
=============================================================================
