---------------------------- MODULE FrameChannel ----------------------------
(***************************************************************************)
(* What the rest of the bridge may expect of the bus and the decoder: a    *)
(* channel that loses frames, but neither changes, invents, repeats nor    *)
(* reorders any.  HassBridge is built on it; FrameDecoder implements it.   *)
(***************************************************************************)
EXTENDS Naturals, Sequences

VARIABLES
  sent,   \* frames the heat pump has sent; frame n is the n-th of them
  got     \* numbers of the frames decode has returned

Init == sent = 0 /\ got = <<>>

Send == sent' = sent + 1 /\ UNCHANGED got

Deliver ==
  \E n \in 1 .. sent :
    /\ \A k \in 1 .. Len(got) : got[k] < n
    /\ got' = Append(got, n)
    /\ UNCHANGED sent

Next == Send \/ Deliver

Spec == Init /\ [][Next]_<<sent, got>>
=============================================================================
