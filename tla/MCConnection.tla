---------------------------- MODULE MCConnection ----------------------------
(* Instances of Connection for TLC *)
EXTENDS Connection, TLC

(* A TCP server without a login is one whose login has been accepted *)
MCOptions == {[kind |-> "tcp", login |-> TRUE], [kind |-> "ws", login |-> FALSE]}
=============================================================================
