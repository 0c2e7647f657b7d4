----------------------------- MODULE TopicMatch -----------------------------
(***************************************************************************)
(* TopicListener.Validate (pub_sub.go:102-118): the loop that decides      *)
(* whether a listener's filter accepts a published topic.                  *)
(***************************************************************************)
EXTENDS Topics

CONSTANTS
    Names,    \* level names other than the wildcards
    MaxLevels \* bound: levels of a filter and of a topic

(* strings.Split returns at least one level; a published topic may hold    *)
(* the wildcards as well, nobody checks it.                                *)
Splits == UNION {[1..n -> Names \cup {"+", "#"}] : n \in 1..MaxLevels}

VARIABLES
    topicSplits,  \* the listener's filter
    pubTopic,     \* the published topic
    level,        \* next level of the range loop; 0: the loop has not begun
    verdict       \* "run", then what Validate returns: "true" or "false"

loopVars == <<topicSplits, pubTopic, level, verdict>>

LoopTypeOK ==
    /\ topicSplits \in Splits
    /\ pubTopic \in Splits
    /\ level \in 0..(Len(topicSplits) + 1)
    /\ verdict \in {"run", "true", "false"}

LoopInit ==
    /\ topicSplits \in Splits
    /\ pubTopic \in Splits
    /\ level = 0
    /\ verdict = "run"

-----------------------------------------------------------------------------
TooLong == Len(topicSplits) > Len(pubTopic)

CompareLengths ==
    /\ level = 0 /\ verdict = "run"
    /\ level' = 1
    /\ verdict' = IF TooLong THEN "false" ELSE "run"
    /\ UNCHANGED <<topicSplits, pubTopic>>

InLoop == verdict = "run" /\ level \in 1..Len(topicSplits)

MultiLevel ==
    /\ InLoop /\ topicSplits[level] = "#"
    /\ verdict' = "true"
    /\ UNCHANGED <<topicSplits, pubTopic, level>>

(* "+", or the same name *)
LevelPasses ==
    /\ InLoop /\ topicSplits[level] # "#"
    /\ topicSplits[level] = "+" \/ topicSplits[level] = pubTopic[level]
    /\ level' = level + 1
    /\ UNCHANGED <<topicSplits, pubTopic, verdict>>

LevelDiffers ==
    /\ InLoop /\ topicSplits[level] \notin {"#", "+", pubTopic[level]}
    /\ verdict' = "false"
    /\ UNCHANGED <<topicSplits, pubTopic, level>>

EndOfFilter ==
    /\ verdict = "run" /\ level = Len(topicSplits) + 1
    /\ verdict' = "true"
    /\ UNCHANGED <<topicSplits, pubTopic, level>>

LoopNext == CompareLengths \/ MultiLevel \/ LevelPasses \/ LevelDiffers \/ EndOfFilter

LoopSpec == LoopInit /\ [][LoopNext]_loopVars

-----------------------------------------------------------------------------
(* The loop with its early returns computes Validates, the definition the  *)
(* publish/subscribe model uses (pub_sub.go:102-118).                      *)
ComputesValidates == verdict # "run" => ((verdict = "true") <=> Validates(topicSplits, pubTopic))

(* "the topics of publish and subscribe support the same wildcards as      *)
(* MQTT" (ReadMe.md:32).  Not so: a filter accepts every topic that begins *)
(* like it (pub_sub.go:106), and "#" does not stand for no level (103).    *)
MatchesMqtt ==
    /\ verdict # "run" /\ WellFormed(topicSplits)
    /\ \A k \in 1..Len(pubTopic) : pubTopic[k] \notin {"+", "#"}
    => ((verdict = "true") <=> MqttMatches(topicSplits, pubTopic))
=============================================================================
