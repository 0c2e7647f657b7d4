------------------------------- MODULE Topics -------------------------------
(***************************************************************************)
(* Topics and topic filters of pub_sub.go, already split at "/".           *)
(***************************************************************************)
EXTENDS Naturals, Sequences

(* Which filters TopicListener.Validate (pub_sub.go:102) accepts: a level  *)
(* counts unless a "#" stands before it.  TopicMatch runs the loop.        *)
Validates(filter, topic) ==
    /\ Len(filter) <= Len(topic)
    /\ \A k \in 1..Len(filter) :
         (\A h \in 1..(k - 1) : filter[h] # "#") => filter[k] \in {"#", "+", topic[k]}

(* MQTT's rules: "#" may only be the last level of a filter, where it      *)
(* stands for any number of levels, none included.                         *)
WellFormed(filter) == \A k \in 1..Len(filter) : filter[k] = "#" => k = Len(filter)

LevelsMatch(filter, topic, n) == \A k \in 1..n : filter[k] \in {"+", topic[k]}

MqttMatches(filter, topic) ==
    IF Len(filter) > 0 /\ filter[Len(filter)] = "#"
    THEN /\ Len(topic) >= Len(filter) - 1
         /\ LevelsMatch(filter, topic, Len(filter) - 1)
    ELSE /\ Len(topic) = Len(filter)
         /\ LevelsMatch(filter, topic, Len(filter))
=============================================================================
