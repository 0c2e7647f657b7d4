--------------------------- MODULE MCRequestReply ---------------------------
(* Instances of RequestReply for TLC *)
EXTENDS RequestReply, TLC

CONSTANTS c1, c2, i1, i2

DistinctIds == (c1 :> i1) @@ (c2 :> i2)   \* every call has a fresh uuid
SharedId    == (c1 :> i1) @@ (c2 :> i1)   \* both callers pass the same packet
OneId       == (c1 :> i1)
=============================================================================
