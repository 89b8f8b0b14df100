--------------------------- MODULE MCClientWindow ---------------------------
(***************************************************************************)
(* Instances of ClientWindow for TLC.                                      *)
(***************************************************************************)
EXTENDS ClientWindow

=============================================================================
