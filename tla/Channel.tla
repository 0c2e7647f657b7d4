------------------------------- MODULE Channel -------------------------------
(***************************************************************************)
(* What a connection promises to those who use it (iconn.go): on each lane *)
(* messages come out in the order in which they were accepted, each of     *)
(* them once and none that was not accepted; there is no gap, but at any   *)
(* point the rest may be lost.                                             *)
(***************************************************************************)
EXTENDS Naturals, Sequences

CONSTANTS Lanes, Message

VARIABLES accepted, delivered  \* lane -> messages so far

Init ==
    /\ accepted = [l \in Lanes |-> <<>>]
    /\ delivered = [l \in Lanes |-> <<>>]

Accept(l, m) ==
    /\ accepted' = [accepted EXCEPT ![l] = Append(@, m)]
    /\ UNCHANGED delivered

Deliver(l) ==
    /\ Len(delivered[l]) < Len(accepted[l])
    /\ delivered' = [delivered EXCEPT ![l] = Append(@, accepted[l][Len(@) + 1])]
    /\ UNCHANGED accepted

Next == \E l \in Lanes : Deliver(l) \/ \E m \in Message : Accept(l, m)

Spec == Init /\ [][Next]_<<accepted, delivered>>
=============================================================================
