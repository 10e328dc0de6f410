-------------------------- MODULE MCDirectoryObjects --------------------------
(***************************************************************************)
(* DirectoryObjects for TLC.                                               *)
(***************************************************************************)
EXTENDS DirectoryObjects
=============================================================================
