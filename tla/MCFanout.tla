------------------------------ MODULE MCFanout ------------------------------
(* A client in a room, and another one in the world *)
EXTENDS Fanout

CONSTANTS n1, n2, r1, x

OneInRoom == (n1 :> r1) @@ (n2 :> World)

MCCenters == Clients \cup Rooms \cup {World}
MCFilter  == <<"#">>
=============================================================================
