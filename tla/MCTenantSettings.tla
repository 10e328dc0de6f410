-------------------------- MODULE MCTenantSettings --------------------------
(***************************************************************************)
(* TenantSettings for TLC.                                                 *)
(***************************************************************************)
EXTENDS TenantSettings
=============================================================================
