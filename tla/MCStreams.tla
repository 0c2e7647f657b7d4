----------------------------- MODULE MCStreams ------------------------------
(* Instances of Streams for TLC *)
EXTENDS Streams, TLC

MCOptions ==
    {[found |-> TRUE, early |-> FALSE, reply |-> "req", mayLose |-> TRUE],
     [found |-> TRUE, early |-> TRUE, reply |-> "resp", mayLose |-> FALSE],
     [found |-> FALSE, early |-> FALSE, reply |-> "req", mayLose |-> FALSE]}
=============================================================================
