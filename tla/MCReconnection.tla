--------------------------- MODULE MCReconnection ---------------------------
(* Instances of Reconnection for TLC *)
EXTENDS Reconnection, TLC

MCOptions ==
    {[kind |-> "tcp", prompt |-> TRUE], [kind |-> "ws", prompt |-> TRUE],
     [kind |-> "tcp", prompt |-> FALSE]}
=============================================================================
