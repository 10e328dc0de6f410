--------------------------- MODULE MCAsyncResource ---------------------------
(***************************************************************************)
(* AsyncResource for TLC.                                                  *)
(***************************************************************************)
EXTENDS AsyncResource
=============================================================================
