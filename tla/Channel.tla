------------------------------- MODULE Channel -------------------------------
(***************************************************************************)
(* What one direction of a connection promises to the handlers of both     *)
(* programs: frames arrive whole, in the order in which they were sent,    *)
(* and none that was not sent.  Bytes, headers, partial reads and writes   *)
(* and the threads that share a socket do not appear here.  A channel may  *)
(* end at any time, with frames still on their way, and it may be          *)
(* corrupted, after which it promises nothing: FrameStream.tla says when.  *)
(***************************************************************************)
EXTENDS Naturals, Sequences

CONSTANT Frame      \* what can be sent

VARIABLES sent,     \* the frames that were sent, first to last
          got,      \* the frames that were received
          corrupt   \* whether the channel has been corrupted

Init == sent = <<>> /\ got = <<>> /\ corrupt = FALSE

Send ==
    /\ \E f \in {sent'[i] : i \in DOMAIN sent'} : f \in Frame /\ sent' = Append(sent, f)
    /\ UNCHANGED <<got, corrupt>>

Receive ==
    /\ Len(got) < Len(sent)
    /\ got' = Append(got, sent[Len(got) + 1])
    /\ UNCHANGED <<sent, corrupt>>

Next ==
    \/ ~corrupt /\ (Send \/ Receive)
    \/ corrupt'

Spec == Init /\ [][Next]_<<sent, got, corrupt>>

=============================================================================
