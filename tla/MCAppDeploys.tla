---------------------------- MODULE MCAppDeploys ----------------------------
(***************************************************************************)
(* Instance of AppDeploys for TLC: three deployments or installs of one    *)
(* name with room for one app, a removal, and one restart or failure of an *)
(* error handler.  Liveness is checked, so there is no symmetry.           *)
(***************************************************************************)
EXTENDS AppDeploys, TLC
=============================================================================
