---------------------------- MODULE MCFrameStream ----------------------------
(***************************************************************************)
(* An instance of FrameStream for TLC.                                     *)
(***************************************************************************)
EXTENDS FrameStream, TLC

CONSTANTS c1, c2, t1

\* The first connection's thread sends two frames, one of them perhaps bare and
\* the other not, another thread sends it one while it does, or after its number
\* has passed to the second connection.  Payloads are empty, as long as allowed
\* or too long.
MCLengths == c1 :> {Limit} @@ c2 :> {0} @@ t1 :> {Limit, Limit + 1}
MCSends == c1 :> 2 @@ c2 :> 1 @@ t1 :> 1

=============================================================================
