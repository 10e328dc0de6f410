-------------------------- MODULE MCNetworkLifecycle --------------------------
(***************************************************************************)
(* NetworkLifecycle for TLC.                                               *)
(***************************************************************************)
EXTENDS NetworkLifecycle
=============================================================================
