------------------------------- MODULE MCUpdates -------------------------------
(***************************************************************************)
(* The instances of MCRegistry, with the record of Updates.                 *)
(***************************************************************************)
EXTENDS MCRegistry, Updates
=============================================================================
