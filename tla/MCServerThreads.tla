--------------------------- MODULE MCServerThreads ---------------------------
(***************************************************************************)
(* Instances of ServerThreads for TLC.                                     *)
(***************************************************************************)
EXTENDS ServerThreads

=============================================================================
