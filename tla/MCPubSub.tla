------------------------------ MODULE MCPubSub ------------------------------
(* One PubSub, channels of one place, filters that overlap *)
EXTENDS PubSub

CONSTANTS a, b

MCFilters  == {<<"+">>, <<a>>}
MCSubjects == {<<a>>, <<b>>}

CallersAlike == Permutations(Callers)
=============================================================================
