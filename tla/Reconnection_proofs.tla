------------------------- MODULE Reconnection_proofs -------------------------
(***************************************************************************)
(* OneConnection for any number of reconnections: the connections before   *)
(* the last tryConn have started their successor, and those after it do    *)
(* not exist.                                                              *)
(***************************************************************************)
EXTENDS Reconnection, TLAPS

(* The goroutines and connections follow one another.  A connection exists *)
(* from its Dial on, and only those before the last are hit by a fault.    *)
Chain ==
    /\ \A g \in Conns : g < spawned => conn[g] \in {"leaving", "closed"}
    /\ \A g \in Conns : g > spawned => try[g] = "none"
    /\ \A g \in Conns : try[g] \in {"none", "dial"} <=> conn[g] = "none"
    /\ \A g \in Conns : conn[g] \notin {"none", "open"} \/ g \in lost => g < MaxConns
    /\ cur = 0 => \A g \in Conns : conn[g] = "none"

(* Responses and requests are those of a goroutine that has dialed *)
TokensOfDialed ==
    /\ \A k \in Conns : \A t \in toHub[k] \cup toClient[k] : conn[t.g] # "none"
    /\ \A t \in rxQueue : conn[t.g] # "none"

ChainInv == TypeOK /\ Chain /\ TokensOfDialed

-----------------------------------------------------------------------------
LEMMA InitChain == Init => ChainInv
<1> SUFFICES ASSUME Init PROVE ChainInv
  OBVIOUS
<1>1. 1 \in Conns /\ MaxConns \in Nat \ {0}
  BY ReconnectionAssumption DEF Conns
<1>2. TypeOK
  <2>1. /\ try \in [Conns -> Stages]
        /\ conn \in [Conns -> ConnStates]
    BY DEF Init, Stages, ConnStates
  <2>2. toHub \in [Conns -> SUBSET Tokens] /\ toClient \in [Conns -> SUBSET Tokens]
    BY DEF Init
  <2>3. loop \in [at : {"select", "check", "close", "wait"}, on : 0..MaxConns] /\ cur \in 0..MaxConns
    BY <1>1 DEF Init, Select
  <2>4. /\ opts \in Options /\ spawned \in Conns /\ panicked \in BOOLEAN
        /\ state \in {"disconnect", "connected", "logined"}
    BY <1>1 DEF Init
  <2>5. /\ lost \subseteq Conns /\ reader \subseteq Conns /\ rxQueue \subseteq Tokens
        /\ served \subseteq Conns /\ told \subseteq Conns /\ crossed \subseteq Conns
    BY DEF Init
  <2> QED BY <2>1, <2>2, <2>3, <2>4, <2>5 DEF TypeOK
<1>3. Chain
  BY <1>1 DEF Init, Chain, Conns
<1>4. TokensOfDialed
  BY DEF Init, TokensOfDialed
<1> QED BY <1>2, <1>3, <1>4 DEF ChainInv

-----------------------------------------------------------------------------
(* A step of tryConn that begins after Dial and ends before the next one *)
LEMMA StageStep ==
    ASSUME ChainInv, NEW g \in Conns, NEW s \in Stages \ {"none", "dial"},
           try[g] \notin {"none", "dial"},
           try' = [try EXCEPT ![g] = s],
           conn' = conn, spawned' = spawned, lost' = lost, cur' = cur
    PROVE  Chain' /\ try' \in [Conns -> Stages]
<1>1. \A h \in Conns : try'[h] = IF h = g THEN s ELSE try[h]
  BY DEF ChainInv, TypeOK
<1>2. try' \in [Conns -> Stages]
  BY DEF ChainInv, TypeOK
<1>3. s \notin {"none", "dial"}
  OBVIOUS
<1>4. \A h \in Conns : h > spawned => try'[h] = "none"
  BY <1>1 DEF ChainInv, Chain
<1>5. \A h \in Conns : try'[h] \in {"none", "dial"} <=> conn[h] = "none"
  BY <1>1, <1>3 DEF ChainInv, Chain
<1>6. Chain'
  BY <1>4, <1>5 DEF ChainInv, Chain
<1> QED BY <1>2, <1>6

LEMMA DialStep ==
    ASSUME ChainInv, NEW g \in Conns, Dial(g)
    PROVE  ChainInv'
<1>1. /\ try[g] = "dial" /\ conn' = [conn EXCEPT ![g] = "open"] /\ cur' = g
      /\ try' = [try EXCEPT ![g] = "start"]
      /\ spawned' = spawned /\ lost' = lost
  BY DEF Dial, net
<1>2. g \in Nat \ {0} /\ g <= MaxConns /\ MaxConns \in Nat /\ spawned \in Nat
  BY ReconnectionAssumption DEF Conns, ChainInv, TypeOK
<1>3. conn[g] = "none" /\ g = spawned
  BY <1>1, <1>2 DEF ChainInv, Chain
<1>4. \A h \in Conns : /\ conn'[h] = IF h = g THEN "open" ELSE conn[h]
                       /\ try'[h] = IF h = g THEN "start" ELSE try[h]
  BY <1>1 DEF ChainInv, TypeOK
<1>5. TypeOK'
  BY <1>1, <1>2 DEF Dial, ChainInv, TypeOK, Stages, ConnStates, net, hist, Conns
<1>6. Chain'
  <2>1. \A h \in Conns : h < spawned => conn'[h] \in {"leaving", "closed"}
    BY <1>2, <1>3, <1>4 DEF ChainInv, Chain
  <2>2. \A h \in Conns : h > spawned => try'[h] = "none"
    BY <1>2, <1>3, <1>4 DEF ChainInv, Chain
  <2>3. \A h \in Conns : try'[h] \in {"none", "dial"} <=> conn'[h] = "none"
    BY <1>4 DEF ChainInv, Chain
  <2>4. \A h \in Conns : conn'[h] \notin {"none", "open"} \/ h \in lost => h < MaxConns
    BY <1>4 DEF ChainInv, Chain
  <2> QED BY <1>1, <1>2, <2>1, <2>2, <2>3, <2>4 DEF Chain
<1>7. TokensOfDialed'
  <2>1. \A h \in Conns : conn[h] # "none" => conn'[h] # "none"
    BY <1>4
  <2>2. toHub' = toHub /\ toClient' = toClient /\ rxQueue' = rxQueue
    BY DEF Dial, net
  <2> QED BY <2>1, <2>2 DEF ChainInv, TokensOfDialed, TypeOK, Tokens
<1> QED BY <1>5, <1>6, <1>7 DEF ChainInv

LEMMA StartStep ==
    ASSUME ChainInv, NEW g \in Conns, StartReadWrite(g)
    PROVE  ChainInv'
<1>1. Chain' /\ try' \in [Conns -> Stages]
  BY StageStep DEF StartReadWrite, net, Stages
<1>2. TypeOK'
  BY <1>1 DEF StartReadWrite, ChainInv, TypeOK, net, hist
<1>3. TokensOfDialed'
  BY DEF StartReadWrite, ChainInv, TokensOfDialed, net
<1> QED BY <1>1, <1>2, <1>3 DEF ChainInv

(* A goroutine past its Dial changes the state: there is a connection *)
LEMMA ChangeTyped ==
    ASSUME ChainInv, NEW g \in Conns, NEW to \in {"disconnect", "connected", "logined"},
           conn[g] # "none", changeState(g, to)
    PROVE  /\ state' \in {"disconnect", "connected", "logined"}
           /\ told' \subseteq Conns /\ crossed' \subseteq Conns
<1>1. cur \in Conns
  BY ReconnectionAssumption DEF ChainInv, Chain, TypeOK, Conns
<1> QED BY <1>1 DEF changeState, ChainInv, TypeOK

LEMMA ConnectedStep ==
    ASSUME ChainInv, NEW g \in Conns, Connected(g)
    PROVE  ChainInv'
<1>1. Chain' /\ try' \in [Conns -> Stages]
  BY StageStep DEF Connected, net, Stages
<1>2. conn[g] # "none"
  BY DEF Connected, ChainInv, Chain
<1>3. TypeOK'
  BY <1>1, <1>2, ChangeTyped DEF Connected, ChainInv, TypeOK, net
<1>4. TokensOfDialed'
  BY DEF Connected, ChainInv, TokensOfDialed, net
<1> QED BY <1>1, <1>3, <1>4 DEF ChainInv

LEMMA LoginedStep ==
    ASSUME ChainInv, NEW g \in Conns, Logined(g)
    PROVE  ChainInv'
<1>1. Chain' /\ try' \in [Conns -> Stages]
  BY StageStep DEF Logined, net, Stages
<1>2. conn[g] # "none"
  BY DEF Logined, ChainInv, Chain
<1>3. TypeOK'
  BY <1>1, <1>2, ChangeTyped DEF Logined, ChainInv, TypeOK, net
<1>4. TokensOfDialed'
  BY DEF Logined, ChainInv, TokensOfDialed, net
<1> QED BY <1>1, <1>3, <1>4 DEF ChainInv

LEMMA CheckStep ==
    ASSUME ChainInv, NEW g \in Conns, Check(g) \/ Again(g)
    PROVE  ChainInv'
<1>1. \E s \in {"end", "ask", "check"} : try' = [try EXCEPT ![g] = s]
  BY DEF Check, Again
<1>2. /\ try[g] \notin {"none", "dial"}
      /\ UNCHANGED <<opts, spawned, conn, net, reader, cur, state, loop, rxQueue, panicked, hist>>
  BY DEF Check, Again
<1>3. Chain' /\ try' \in [Conns -> Stages]
  BY <1>1, <1>2, StageStep DEF net, Stages
<1>4. TypeOK'
  BY <1>2, <1>3 DEF ChainInv, TypeOK, net, hist
<1>5. TokensOfDialed'
  BY <1>2 DEF ChainInv, TokensOfDialed, net
<1> QED BY <1>3, <1>4, <1>5 DEF ChainInv

LEMMA AskStep ==
    ASSUME ChainInv, NEW g \in Conns, Ask(g)
    PROVE  ChainInv'
<1> DEFINE t == [g |-> g, late |-> FALSE]
<1>1. Chain' /\ try' \in [Conns -> Stages]
  BY StageStep DEF Ask, Stages
<1>2. conn[g] # "none" /\ t \in Tokens /\ t.g = g
  BY DEF Ask, ChainInv, Chain, Tokens
<1>3. toHub' = toHub \/ toHub' = [toHub EXCEPT ![cur] = toHub[cur] \cup {t}]
  BY DEF Ask
<1>4. /\ toHub' \in [Conns -> SUBSET Tokens]
      /\ \A k \in Conns : toHub'[k] \subseteq toHub[k] \cup {t}
  <2>1. cur \in Conns /\ toHub \in [Conns -> SUBSET Tokens]
    BY <1>2, ReconnectionAssumption DEF ChainInv, Chain, TypeOK, Conns
  <2>2. CASE toHub' = toHub
    BY <2>1, <2>2
  <2>3. CASE toHub' = [toHub EXCEPT ![cur] = toHub[cur] \cup {t}]
    <3>1. toHub[cur] \cup {t} \in SUBSET Tokens
      BY <2>1, <1>2
    <3>2. \A k \in Conns : toHub'[k] = IF k = cur THEN toHub[cur] \cup {t} ELSE toHub[k]
      BY <2>1, <2>3
    <3> QED BY <2>1, <2>3, <3>1, <3>2
  <2> QED BY <1>3, <2>2, <2>3
<1>5. TypeOK'
  BY <1>1, <1>4 DEF Ask, ChainInv, TypeOK, hist
<1>6. TokensOfDialed'
  <2>1. conn' = conn /\ toClient' = toClient /\ rxQueue' = rxQueue
    BY DEF Ask
  <2>2. \A k \in Conns : \A u \in toHub'[k] : u \in toHub[k] \/ u = t
    BY <1>4
  <2>3. \A k \in Conns : \A u \in toHub'[k] : conn[u.g] # "none"
    BY <2>2, <1>2 DEF ChainInv, TokensOfDialed
  <2> QED BY <2>1, <2>3 DEF ChainInv, TokensOfDialed
<1> QED BY <1>1, <1>5, <1>6 DEF ChainInv

LEMMA LateTyped ==
    ASSUME NEW S \in SUBSET Tokens, NEW g \in Conns
    PROVE  /\ Late(S, g) \in SUBSET Tokens
           /\ \A t \in Late(S, g) : \E u \in S : t.g = u.g
BY DEF Late, Tokens

LEMMA TimeoutStep ==
    ASSUME ChainInv, NEW g \in Conns, Timeout(g)
    PROVE  ChainInv'
<1>1. Chain' /\ try' \in [Conns -> Stages]
  BY StageStep DEF Timeout, Stages
<1>2. /\ toHub' = [k \in Conns |-> Late(toHub[k], g)]
      /\ toClient' = [k \in Conns |-> Late(toClient[k], g)]
      /\ rxQueue' = Late(rxQueue, g)
      /\ conn' = conn
  BY DEF Timeout
<1>3. /\ \A k \in Conns : toHub[k] \in SUBSET Tokens /\ toClient[k] \in SUBSET Tokens
      /\ rxQueue \in SUBSET Tokens
  BY DEF ChainInv, TypeOK
<1>4. /\ toHub' \in [Conns -> SUBSET Tokens] /\ toClient' \in [Conns -> SUBSET Tokens]
      /\ rxQueue' \subseteq Tokens
  BY <1>2, <1>3, LateTyped
<1>5. TypeOK'
  BY <1>1, <1>4 DEF Timeout, ChainInv, TypeOK, hist
<1>6. TokensOfDialed'
  <2>1. ASSUME NEW k \in Conns, NEW t \in toHub'[k] \cup toClient'[k]
        PROVE  conn[t.g] # "none"
    <3>1. t \in Late(toHub[k], g) \/ t \in Late(toClient[k], g)
      BY <1>2, <2>1
    <3>2. \E u \in toHub[k] \cup toClient[k] : t.g = u.g
      BY <1>3, <3>1, LateTyped
    <3> QED BY <3>2 DEF ChainInv, TokensOfDialed
  <2>2. ASSUME NEW t \in rxQueue'
        PROVE  conn[t.g] # "none"
    <3>1. \E u \in rxQueue : t.g = u.g
      BY <1>2, <1>3, <2>2, LateTyped
    <3> QED BY <3>1 DEF ChainInv, TokensOfDialed
  <2> QED BY <1>2, <2>1, <2>2 DEF TokensOfDialed
<1> QED BY <1>1, <1>5, <1>6 DEF ChainInv

-----------------------------------------------------------------------------
(* Messages move, and a connection breaks *)
LEMMA NetStep ==
    ASSUME ChainInv, NEW k \in Conns, HubAnswers(k) \/ Lose(k) \/ Read(k)
    PROVE  ChainInv'
<1>1. /\ try' = try /\ spawned' = spawned /\ conn' = conn /\ cur' = cur
      /\ opts' = opts /\ state' = state /\ loop' = loop /\ panicked' = panicked
      /\ told' = told /\ crossed' = crossed
  BY DEF HubAnswers, Lose, Read, hist
<1>2. lost' = lost \/ (lost' = lost \cup {k} /\ k < MaxConns)
  BY DEF HubAnswers, Lose, Read
<1>3. Chain'
  BY <1>1, <1>2 DEF ChainInv, Chain
<1>4. CASE HubAnswers(k)
  <2>1. PICK t \in toHub[k] : /\ toHub' = [toHub EXCEPT ![k] = toHub[k] \ {t}]
                              /\ toClient' = [toClient EXCEPT ![k] = toClient[k] \cup {t}]
    BY <1>4 DEF HubAnswers
  <2>2. /\ rxQueue' = rxQueue /\ reader' = reader /\ lost' = lost /\ served' = served \cup {k}
        /\ t \in Tokens
    BY <1>4 DEF HubAnswers, ChainInv, TypeOK
  <2>3. TypeOK'
    BY <1>1, <2>1, <2>2 DEF ChainInv, TypeOK
  <2>4. \A j \in Conns : /\ toHub'[j] \subseteq toHub[j]
                          /\ toClient'[j] \subseteq toClient[j] \cup (IF j = k THEN {t} ELSE {})
    BY <2>1 DEF ChainInv, TypeOK
  <2>5. conn[t.g] # "none"
    BY DEF ChainInv, TokensOfDialed
  <2>6. ASSUME NEW j \in Conns, NEW u \in toHub'[j] \cup toClient'[j]
        PROVE  conn[u.g] # "none"
    <3>1. u \in toHub[j] \/ u \in toClient[j] \/ u = t
      BY <2>4, <2>6
    <3> QED BY <3>1, <2>5 DEF ChainInv, TokensOfDialed
  <2>7. TokensOfDialed'
    BY <1>1, <2>2, <2>6 DEF ChainInv, TokensOfDialed
  <2> QED BY <1>3, <2>3, <2>7 DEF ChainInv
<1>5. CASE Lose(k)
  <2>1. /\ toHub' = [toHub EXCEPT ![k] = {}] /\ toClient' = [toClient EXCEPT ![k] = {}]
        /\ rxQueue' = rxQueue /\ reader' = reader /\ served' = served /\ lost' = lost \cup {k}
    BY <1>5 DEF Lose, hist
  <2>2. TypeOK'
    BY <1>1, <2>1 DEF ChainInv, TypeOK
  <2>3. \A j \in Conns : toHub'[j] \subseteq toHub[j] /\ toClient'[j] \subseteq toClient[j]
    BY <2>1 DEF ChainInv, TypeOK
  <2>4. TokensOfDialed'
    BY <1>1, <2>1, <2>3 DEF ChainInv, TokensOfDialed
  <2> QED BY <1>3, <2>2, <2>4 DEF ChainInv
<1>6. CASE Read(k)
  <2>1. PICK t \in toClient[k] : /\ toClient' = [toClient EXCEPT ![k] = toClient[k] \ {t}]
                                 /\ rxQueue' = rxQueue \cup {t}
    BY <1>6 DEF Read
  <2>2. /\ toHub' = toHub /\ served' = served /\ lost' = lost /\ reader' \subseteq reader
        /\ t \in Tokens
    BY <1>6 DEF Read, ChainInv, TypeOK, hist
  <2>3. TypeOK'
    BY <1>1, <2>1, <2>2 DEF ChainInv, TypeOK
  <2>4. \A j \in Conns : toClient'[j] \subseteq toClient[j]
    BY <2>1 DEF ChainInv, TypeOK
  <2>5. conn[t.g] # "none"
    BY DEF ChainInv, TokensOfDialed
  <2>6. TokensOfDialed'
    BY <1>1, <2>1, <2>2, <2>4, <2>5 DEF ChainInv, TokensOfDialed
  <2> QED BY <1>3, <2>3, <2>6 DEF ChainInv
<1> QED BY <1>4, <1>5, <1>6

-----------------------------------------------------------------------------
(* Close: only the last connection is closed, once, and the next tryConn   *)
(* goroutine is the one after it.                                          *)
LEMMA LockStep ==
    ASSUME ChainInv, NEW k \in Conns, k < MaxConns, Lock(k) \/ UNCHANGED conn,
           try' = try, spawned' = spawned, lost' = lost, cur' = cur,
           toHub' = toHub, toClient' = toClient, rxQueue' = rxQueue
    PROVE  /\ Chain' /\ TokensOfDialed'
           /\ conn' \in [Conns -> ConnStates]
<1>1. CASE UNCHANGED conn
  BY <1>1 DEF ChainInv, Chain, TokensOfDialed, TypeOK
<1>2. CASE Lock(k)
  <2>1. conn[k] = "open" /\ conn' = [conn EXCEPT ![k] = "closing"]
    BY <1>2 DEF Lock
  <2>2. conn' \in [Conns -> ConnStates]
    BY <2>1 DEF ChainInv, TypeOK, ConnStates
  <2>3. \A h \in Conns : conn'[h] = IF h = k THEN "closing" ELSE conn[h]
    BY <2>1 DEF ChainInv, TypeOK
  <2>4. \A h \in Conns : conn'[h] = "none" <=> conn[h] = "none"
    BY <2>1, <2>3
  <2>5. Chain'
    BY <2>1, <2>3, <2>4 DEF ChainInv, Chain
  <2>6. TokensOfDialed'
    BY <2>4 DEF ChainInv, TokensOfDialed, TypeOK, Tokens
  <2> QED BY <2>2, <2>5, <2>6
<1> QED BY <1>1, <1>2

LEMMA ReaderEndsStep ==
    ASSUME ChainInv, NEW k \in Conns, ReaderEnds(k)
    PROVE  ChainInv'
<1>1. /\ try' = try /\ spawned' = spawned /\ lost' = lost /\ cur' = cur
      /\ toHub' = toHub /\ toClient' = toClient /\ rxQueue' = rxQueue
      /\ reader' = reader \ {k}
  BY DEF ReaderEnds, net
<1>2. (k < MaxConns /\ Lock(k)) \/ UNCHANGED conn
  BY DEF ReaderEnds, Lock, ChainInv, Chain
<1>3. /\ Chain' /\ TokensOfDialed'
      /\ conn' \in [Conns -> ConnStates]
  <2>1. CASE k < MaxConns /\ Lock(k)
    BY <2>1, <1>1, LockStep
  <2>2. CASE UNCHANGED conn
    BY <2>2, <1>1 DEF ChainInv, Chain, TokensOfDialed, TypeOK
  <2> QED BY <1>2, <2>1, <2>2
<1>4. TypeOK'
  BY <1>1, <1>3 DEF ReaderEnds, ChainInv, TypeOK, hist
<1> QED BY <1>3, <1>4 DEF ChainInv

(* The first and the last step of a Close that another step began *)
LEMMA CloseStep ==
    ASSUME ChainInv, NEW k \in Conns, Disconnected(k) \/ Unlock(k)
    PROVE  ChainInv'
<1> DEFINE now == IF conn[k] = "closing" THEN "told" ELSE "closed"
<1>1. /\ conn[k] \in {"closing", "leaving"} /\ conn' = [conn EXCEPT ![k] = now]
      /\ now \in {"told", "closed"} /\ (conn[k] = "leaving" => now = "closed")
  BY DEF Disconnected, Unlock
<1>2. \A h \in Conns : conn'[h] = IF h = k THEN now ELSE conn[h]
  BY <1>1 DEF ChainInv, TypeOK
<1>3. \A h \in Conns : conn'[h] = "none" <=> conn[h] = "none"
  BY <1>1, <1>2
<1>4. /\ try' = try /\ spawned' = spawned /\ lost' = lost /\ cur' = cur
      /\ toHub' = toHub /\ toClient' = toClient /\ rxQueue' = rxQueue
      /\ state' \in {state, "disconnect"}
      /\ UNCHANGED <<opts, reader, loop, panicked, hist>>
  BY DEF Disconnected, Unlock, net
<1>5. Chain'
  BY <1>1, <1>2, <1>3, <1>4 DEF ChainInv, Chain
<1>6. TokensOfDialed'
  BY <1>3, <1>4 DEF ChainInv, TokensOfDialed, TypeOK, Tokens
<1>7. conn' \in [Conns -> ConnStates]
  BY <1>1 DEF ChainInv, TypeOK, ConnStates
<1>8. TypeOK'
  BY <1>4, <1>7 DEF ChainInv, TypeOK, hist
<1> QED BY <1>5, <1>6, <1>8 DEF ChainInv

LEMMA StartNextStep ==
    ASSUME ChainInv, NEW k \in Conns, StartNext(k)
    PROVE  ChainInv'
<1>1. /\ conn[k] = "told" /\ conn' = [conn EXCEPT ![k] = "leaving"]
      /\ spawned' = spawned + 1 /\ try' = [try EXCEPT ![spawned + 1] = "dial"]
      /\ lost' = lost /\ cur' = cur
      /\ toHub' = toHub /\ toClient' = toClient /\ rxQueue' = rxQueue
  BY DEF StartNext, net
<1>2. MaxConns \in Nat /\ spawned \in Nat /\ k \in Nat /\ spawned >= 1
  BY ReconnectionAssumption DEF Conns, ChainInv, TypeOK
<1>3. try[k] \notin {"none", "dial"} /\ k < MaxConns
  BY <1>1 DEF ChainInv, Chain
<1>4. k = spawned
  BY <1>1, <1>2, <1>3 DEF ChainInv, Chain
<1>5. spawned + 1 \in Conns
  BY <1>2, <1>3, <1>4 DEF Conns
<1>6. conn[spawned + 1] = "none"
  <2>1. try[spawned + 1] = "none"
    BY <1>2, <1>5 DEF ChainInv, Chain
  <2> QED BY <1>5, <2>1 DEF ChainInv, Chain
<1>7. /\ \A h \in Conns : conn'[h] = IF h = k THEN "leaving" ELSE conn[h]
      /\ \A h \in Conns : try'[h] = IF h = spawned + 1 THEN "dial" ELSE try[h]
  BY <1>1, <1>5 DEF ChainInv, TypeOK
<1>8. TypeOK'
  <2>1. /\ conn' \in [Conns -> ConnStates]
        /\ try' \in [Conns -> Stages]
    BY <1>1, <1>5 DEF ChainInv, TypeOK, Stages, ConnStates
  <2> QED BY <2>1, <1>1, <1>5 DEF StartNext, ChainInv, TypeOK, hist
<1>9. \A h \in Conns : conn'[h] = "none" <=> conn[h] = "none"
  BY <1>1, <1>7
<1>10. Chain'
  <2>1. \A h \in Conns : h < spawned' => conn'[h] \in {"leaving", "closed"}
    <3> SUFFICES ASSUME NEW h \in Conns, h < spawned'
                 PROVE  conn'[h] \in {"leaving", "closed"}
      OBVIOUS
    <3>1. h \in Nat
      BY DEF Conns
    <3>2. h < spawned \/ h = k
      BY <3>1, <1>1, <1>2, <1>4
    <3> QED BY <3>2, <1>7 DEF ChainInv, Chain
  <2>2. \A h \in Conns : h > spawned' => try'[h] = "none"
    <3> SUFFICES ASSUME NEW h \in Conns, h > spawned'
                 PROVE  try'[h] = "none"
      OBVIOUS
    <3>1. h \in Nat /\ h # spawned + 1 /\ h > spawned
      BY <1>1, <1>2 DEF Conns
    <3> QED BY <3>1, <1>7 DEF ChainInv, Chain
  <2>3. \A h \in Conns : try'[h] \in {"none", "dial"} <=> conn'[h] = "none"
    BY <1>6, <1>7, <1>9 DEF ChainInv, Chain
  <2>4. \A h \in Conns : conn'[h] \notin {"none", "open"} \/ h \in lost => h < MaxConns
    BY <1>3, <1>7 DEF ChainInv, Chain
  <2>5. cur = 0 => \A h \in Conns : conn'[h] = "none"
    BY <1>9 DEF ChainInv, Chain
  <2> QED BY <1>1, <2>1, <2>2, <2>3, <2>4, <2>5 DEF Chain
<1>11. TokensOfDialed'
  BY <1>1, <1>9 DEF ChainInv, TokensOfDialed, TypeOK, Tokens
<1> QED BY <1>8, <1>10, <1>11 DEF ChainInv

-----------------------------------------------------------------------------
LEMMA HandleStep ==
    ASSUME ChainInv, Handle
    PROVE  ChainInv'
<1>1. PICK t \in rxQueue : /\ rxQueue' = rxQueue \ {t}
                           /\ panicked' = t.late
                           /\ try' = IF t.late THEN try ELSE [try EXCEPT ![t.g] = "mark"]
  BY DEF Handle
<1>2. t \in Tokens /\ t.g \in Conns /\ t.late \in BOOLEAN
  BY DEF ChainInv, TypeOK, Tokens
<1>3. conn[t.g] # "none" /\ try[t.g] \notin {"none", "dial"}
  BY <1>2 DEF ChainInv, TokensOfDialed, Chain
<1>4. /\ spawned' = spawned /\ conn' = conn /\ lost' = lost /\ cur' = cur
      /\ toHub' = toHub /\ toClient' = toClient
  BY DEF Handle, net
<1>5. Chain' /\ try' \in [Conns -> Stages]
  <2>1. CASE t.late
    BY <2>1, <1>1, <1>4 DEF ChainInv, Chain, TypeOK
  <2>2. CASE ~t.late
    BY <2>2, <1>1, <1>2, <1>3, <1>4, StageStep DEF Stages
  <2> QED BY <2>1, <2>2
<1>6. TypeOK'
  BY <1>1, <1>2, <1>4, <1>5 DEF Handle, ChainInv, TypeOK, hist
<1>7. TokensOfDialed'
  BY <1>1, <1>4 DEF ChainInv, TokensOfDialed
<1> QED BY <1>5, <1>6, <1>7 DEF ChainInv

LEMMA HeartbeatStep ==
    ASSUME ChainInv, HeartbeatLooks \/ HeartbeatAsks \/ HeartbeatCloses \/ HeartbeatReturns
    PROVE  ChainInv'
<1>1. /\ try' = try /\ spawned' = spawned /\ lost' = lost /\ cur' = cur
      /\ toHub' = toHub /\ toClient' = toClient /\ rxQueue' = rxQueue
      /\ UNCHANGED <<opts, reader, state, panicked, hist>>
  BY DEF HeartbeatLooks, HeartbeatAsks, HeartbeatCloses, HeartbeatReturns, net
<1>2. loop' \in [at : {"select", "check", "close", "wait"}, on : 0..MaxConns]
  <2>1. 0 \in 0..MaxConns /\ cur \in 0..MaxConns
    BY ReconnectionAssumption DEF ChainInv, TypeOK
  <2> QED BY <2>1 DEF HeartbeatLooks, HeartbeatAsks, HeartbeatCloses, HeartbeatReturns, Select
<1>3. (cur < MaxConns /\ Lock(cur)) \/ UNCHANGED conn
  BY DEF HeartbeatLooks, HeartbeatAsks, HeartbeatCloses, HeartbeatReturns
<1>4. /\ Chain' /\ TokensOfDialed'
      /\ conn' \in [Conns -> ConnStates]
  <2>1. CASE UNCHANGED conn
    BY <2>1, <1>1 DEF ChainInv, Chain, TokensOfDialed, TypeOK
  <2>2. CASE cur < MaxConns /\ Lock(cur) /\ cur \in Conns
    BY <2>2, <1>1, LockStep
  <2>3. CASE cur < MaxConns /\ Lock(cur) /\ cur \notin Conns
    <3>1. conn' = conn
      BY <2>3 DEF Lock, ChainInv, TypeOK
    <3> QED BY <3>1, <2>1
  <2> QED BY <1>3, <2>1, <2>2, <2>3
<1>5. TypeOK'
  BY <1>1, <1>2, <1>4 DEF ChainInv, TypeOK, hist
<1> QED BY <1>4, <1>5 DEF ChainInv

-----------------------------------------------------------------------------
LEMMA ChainInductive == ChainInv /\ [Next]_vars => ChainInv'
<1> SUFFICES ASSUME ChainInv, [Next]_vars
             PROVE  ChainInv'
  OBVIOUS
<1>1. CASE UNCHANGED vars
  BY <1>1 DEF vars, ChainInv, TypeOK, Chain, TokensOfDialed
<1>2. CASE \E g \in Conns : TryConn(g)
  BY <1>2, DialStep, StartStep, ConnectedStep, CheckStep, AskStep, TimeoutStep, LoginedStep
     DEF TryConn
<1>3. CASE \E k \in Conns : HubAnswers(k) \/ Lose(k) \/ Read(k) \/ ReaderEnds(k) \/ Close(k)
  BY <1>3, NetStep, ReaderEndsStep, CloseStep, StartNextStep DEF Close
<1>4. CASE RunLoop
  BY <1>4, HandleStep, HeartbeatStep DEF RunLoop
<1> QED BY <1>1, <1>2, <1>3, <1>4 DEF Next

LEMMA AlwaysChain == Spec => []ChainInv
BY InitChain, ChainInductive, PTL DEF Spec

(* Every variable keeps its type; no tryConn beyond the last possible one  *)
(* is started, whoever closes which connection (tcp_client.go:26-32).      *)
THEOREM Typed == Spec => []TypeOK
<1>1. ChainInv => TypeOK
  BY DEF ChainInv
<1> QED BY <1>1, AlwaysChain, PTL

(* One tryConn at a time, for any number of reconnections, any schedule    *)
(* and either kind of client: what is dialed, open or has its successor to *)
(* start is one connection, and a socket that is still open beside its     *)
(* successor's is a WebSocket in the last step of Close                    *)
(* (tcp_client.go:13-32, websocket_client.go:13-32, tcp_conn.go:137-147,   *)
(* websocket_conn.go:169-179).                                             *)
THEOREM OneAtATime == Spec => []OneConnection
<1>1. ChainInv => OneConnection
  <2> SUFFICES ASSUME ChainInv PROVE OneConnection
    OBVIOUS
  <2>1. ASSUME NEW g \in Conns
        PROVE  /\ g \in Nat /\ spawned \in Nat
               /\ g < spawned => conn[g] \in {"leaving", "closed"} /\ try[g] # "dial"
               /\ g > spawned => conn[g] = "none" /\ try[g] # "dial"
    <3>1. g \in Nat /\ spawned \in Nat
      BY DEF ChainInv, TypeOK, Conns
    <3>2. g < spawned => conn[g] \in {"leaving", "closed"}
      BY DEF ChainInv, Chain
    <3>3. g > spawned => try[g] = "none"
      BY DEF ChainInv, Chain
    <3>4. try[g] \in {"none", "dial"} <=> conn[g] = "none"
      BY DEF ChainInv, Chain
    <3> QED BY <3>1, <3>2, <3>3, <3>4
  <2>2. \A g, h \in Conns : InUse(g) /\ InUse(h) => g = h
    <3>1. ASSUME NEW g \in Conns, InUse(g) PROVE g = spawned
      BY <2>1, <3>1 DEF InUse
    <3> QED BY <3>1
  <2>3. ASSUME NEW g \in Conns, NEW h \in Conns, SocketOpen(g), SocketOpen(h), g < h
        PROVE  opts.kind = "ws" /\ conn[g] = "leaving"
    <3>1. conn[h] # "none" /\ conn[g] \notin {"none", "closed"}
      BY <2>3 DEF SocketOpen, Held
    <3>2. g < spawned
      BY <2>1, <2>3, <3>1
    <3>3. conn[g] = "leaving"
      BY <2>1, <3>1, <3>2
    <3> QED BY <2>3, <3>3 DEF SocketOpen
  <2> QED BY <2>2, <2>3 DEF OneConnection
<1> QED BY <1>1, AlwaysChain, PTL

-----------------------------------------------------------------------------
(* A login of the connection the client has now was sent on it, so that    *)
(* its answer means that the hub has served that connection.               *)
SentHere ==
    \A k \in Conns : \A t \in toHub[k] : t.g = cur => k = cur

AnsweredHere ==
    /\ \A k \in Conns : \A t \in toClient[k] : t.g = cur => cur \in served
    /\ \A t \in rxQueue : t.g = cur => cur \in served
    /\ \A g \in Conns : try[g] = "mark" /\ g = cur => cur \in served

ToldInv == SentHere /\ AnsweredHere /\ LoginIsTold

LEMMA LateTokens ==
    ASSUME NEW S \in SUBSET Tokens, NEW g \in Conns, NEW t \in Late(S, g)
    PROVE  \E u \in S : u.g = t.g
<1>1. PICK u \in S : t = IF u.g = g THEN [u EXCEPT !.late = TRUE] ELSE u
  BY DEF Late
<1>2. t.g = u.g
  BY <1>1 DEF Tokens
<1> QED BY <1>2

LEMMA TryConnTells ==
    ASSUME ChainInv, ToldInv, NEW g \in Conns, TryConn(g)
    PROVE  ToldInv'
<1> USE DEF ChainInv
<1>1. CASE Dial(g)
  <2>1. /\ cur' = g /\ conn[g] = "none" /\ try' = [try EXCEPT ![g] = "start"]
        /\ UNCHANGED <<state, toHub, toClient, rxQueue, served, told>>
        /\ state = "logined" => g \in crossed'
    BY <1>1 DEF Dial, net, Chain
  <2>2. SentHere'
    BY <2>1 DEF SentHere, TokensOfDialed
  <2>3. AnsweredHere'
    BY <2>1 DEF AnsweredHere, TokensOfDialed, TypeOK
  <2>4. LoginIsTold'
    BY <2>1 DEF LoginIsTold
  <2> QED BY <2>2, <2>3, <2>4 DEF ToldInv
<1>2. CASE StartReadWrite(g) \/ Check(g) \/ Again(g)
  <2>1. /\ UNCHANGED <<cur, state, toHub, toClient, rxQueue, served, told, crossed>>
        /\ \A h \in Conns : try'[h] = "mark" => try[h] = "mark"
    BY <1>2 DEF StartReadWrite, Check, Again, net, hist, TypeOK
  <2> QED BY <2>1 DEF ToldInv, SentHere, AnsweredHere, LoginIsTold
<1>3. CASE Connected(g)
  <2>1. /\ UNCHANGED <<cur, toHub, toClient, rxQueue, served>>
        /\ state' = "connected" /\ \A h \in Conns : try'[h] = "mark" => try[h] = "mark"
    BY <1>3 DEF Connected, changeState, net, TypeOK
  <2> QED BY <2>1 DEF ToldInv, SentHere, AnsweredHere, LoginIsTold
<1>4. CASE Ask(g)
  <2>1. /\ UNCHANGED <<cur, state, toClient, rxQueue, served, told, crossed>>
        /\ \A h \in Conns : try'[h] = "mark" => try[h] = "mark"
        /\ \A k \in Conns : toHub'[k] = toHub[k] \/ k = cur
    BY <1>4 DEF Ask, hist, TypeOK
  <2> QED BY <2>1 DEF ToldInv, SentHere, AnsweredHere, LoginIsTold
<1>5. CASE Timeout(g)
  <2>1. /\ UNCHANGED <<cur, state, served, told, crossed>>
        /\ \A h \in Conns : try'[h] = "mark" => try[h] = "mark"
        /\ toHub' = [k \in Conns |-> Late(toHub[k], g)]
        /\ toClient' = [k \in Conns |-> Late(toClient[k], g)] /\ rxQueue' = Late(rxQueue, g)
    BY <1>5 DEF Timeout, hist, TypeOK
  <2>2. ASSUME NEW k \in Conns, NEW t \in toHub'[k] PROVE \E u \in toHub[k] : u.g = t.g
    BY <2>1, <2>2, LateTokens DEF TypeOK
  <2>3. ASSUME NEW k \in Conns, NEW t \in toClient'[k] PROVE \E u \in toClient[k] : u.g = t.g
    BY <2>1, <2>3, LateTokens DEF TypeOK
  <2>4. ASSUME NEW t \in rxQueue' PROVE \E u \in rxQueue : u.g = t.g
    BY <2>1, <2>4, LateTokens DEF TypeOK
  <2>5. SentHere'
    BY <2>1, <2>2 DEF ToldInv, SentHere
  <2>6. AnsweredHere'
    BY <2>1, <2>3, <2>4 DEF ToldInv, AnsweredHere
  <2> QED BY <2>1, <2>5, <2>6 DEF ToldInv, LoginIsTold
<1>6. CASE Logined(g)
  <2>1. /\ UNCHANGED <<cur, toHub, toClient, rxQueue, served>> /\ try[g] = "mark"
        /\ \A h \in Conns : try'[h] = "mark" => try[h] = "mark"
    BY <1>6 DEF Logined, net, TypeOK
  <2>2. SentHere' /\ AnsweredHere'
    BY <2>1 DEF ToldInv, SentHere, AnsweredHere
  <2>3. /\ crossed' = IF g # cur THEN crossed \cup {cur} ELSE crossed
        /\ told' = IF state # "logined" /\ cur \in served THEN told \cup {cur} ELSE told
    BY <1>6 DEF Logined, changeState
  <2>4. g = cur => cur \in served
    BY <2>1 DEF ToldInv, AnsweredHere
  <2>5. LoginIsTold'
    BY <2>1, <2>3, <2>4 DEF ToldInv, LoginIsTold
  <2> QED BY <2>2, <2>5 DEF ToldInv
<1> QED BY <1>1, <1>2, <1>3, <1>4, <1>5, <1>6 DEF TryConn

LEMMA OthersTell ==
    ASSUME ChainInv, ToldInv,
           RunLoop \/ \E k \in Conns : HubAnswers(k) \/ Lose(k) \/ Read(k) \/ ReaderEnds(k) \/ Close(k)
    PROVE  ToldInv'
<1> USE DEF ChainInv
<1>1. ASSUME NEW k \in Conns, HubAnswers(k) PROVE ToldInv'
  <2>1. /\ UNCHANGED <<cur, state, rxQueue, try, told, crossed>> /\ served' = served \cup {k}
    BY <1>1 DEF HubAnswers
  <2>2. PICK t \in toHub[k] : /\ toHub' = [toHub EXCEPT ![k] = toHub[k] \ {t}]
                              /\ toClient' = [toClient EXCEPT ![k] = toClient[k] \cup {t}]
    BY <1>1 DEF HubAnswers
  <2>3. SentHere'
    BY <2>1, <2>2 DEF ToldInv, SentHere, TypeOK
  <2>4. t.g = cur => cur \in served'
    BY <2>1, <2>2 DEF ToldInv, SentHere
  <2>5. AnsweredHere'
    BY <2>1, <2>2, <2>4 DEF ToldInv, AnsweredHere, TypeOK
  <2> QED BY <2>1, <2>3, <2>5 DEF ToldInv, LoginIsTold
<1>2. ASSUME NEW k \in Conns, Lose(k) PROVE ToldInv'
  BY <1>2 DEF Lose, hist, ToldInv, SentHere, AnsweredHere, LoginIsTold, TypeOK
<1>3. ASSUME NEW k \in Conns, Read(k) PROVE ToldInv'
  <2>1. UNCHANGED <<cur, state, toHub, try, served, told, crossed>>
    BY <1>3 DEF Read, hist
  <2>2. PICK t \in toClient[k] : /\ toClient' = [toClient EXCEPT ![k] = toClient[k] \ {t}]
                                 /\ rxQueue' = rxQueue \cup {t}
    BY <1>3 DEF Read
  <2>3. AnsweredHere'
    BY <2>1, <2>2 DEF ToldInv, AnsweredHere, TypeOK
  <2> QED BY <2>1, <2>3 DEF ToldInv, SentHere, LoginIsTold
<1>4. ASSUME NEW k \in Conns, ReaderEnds(k) PROVE ToldInv'
  BY <1>4 DEF ReaderEnds, net, hist, ToldInv, SentHere, AnsweredHere, LoginIsTold
<1>5. ASSUME NEW k \in Conns, Disconnected(k) PROVE ToldInv'
  BY <1>5 DEF Disconnected, net, hist, ToldInv, SentHere, AnsweredHere, LoginIsTold
<1>6. ASSUME NEW k \in Conns, StartNext(k) PROVE ToldInv'
  <2>1. /\ UNCHANGED <<cur, state, toHub, toClient, rxQueue, served, told, crossed>>
        /\ \A h \in Conns : try'[h] = "mark" => try[h] = "mark"
    BY <1>6 DEF StartNext, net, hist, TypeOK
  <2> QED BY <2>1 DEF ToldInv, SentHere, AnsweredHere, LoginIsTold
<1>9. ASSUME NEW k \in Conns, Unlock(k) PROVE ToldInv'
  BY <1>9 DEF Unlock, net, hist, ToldInv, SentHere, AnsweredHere, LoginIsTold
<1>7. CASE Handle
  <2>1. UNCHANGED <<cur, state, toHub, toClient, served, told, crossed>>
    BY <1>7 DEF Handle, net, hist
  <2>2. PICK t \in rxQueue : /\ rxQueue' = rxQueue \ {t}
                             /\ try' = IF t.late THEN try ELSE [try EXCEPT ![t.g] = "mark"]
    BY <1>7 DEF Handle
  <2>3. AnsweredHere'
    BY <2>1, <2>2 DEF ToldInv, AnsweredHere, TypeOK
  <2> QED BY <2>1, <2>3 DEF ToldInv, SentHere, LoginIsTold
<1>8. CASE HeartbeatLooks \/ HeartbeatAsks \/ HeartbeatCloses \/ HeartbeatReturns
  <2>1. UNCHANGED <<cur, state, toHub, toClient, rxQueue, try, served, told, crossed>>
    BY <1>8 DEF HeartbeatLooks, HeartbeatAsks, HeartbeatCloses, HeartbeatReturns, net, hist
  <2> QED BY <2>1 DEF ToldInv, SentHere, AnsweredHere, LoginIsTold
<1> QED BY <1>1, <1>2, <1>3, <1>4, <1>5, <1>6, <1>7, <1>8, <1>9 DEF Close, RunLoop

(* OnLogin is not missed: a client that is LOGINED was served on the       *)
(* connection it has now and told so, unless the goroutine of an earlier   *)
(* connection had a hand in its state, for any number of reconnections     *)
(* (client.go:278-282, 696-699, tcp_client.go:26-46).                      *)
THEOREM LoginTold == Spec => []LoginIsTold
<1>1. Init => ToldInv
  BY DEF Init, ToldInv, SentHere, AnsweredHere, LoginIsTold
<1>2. ChainInv /\ ToldInv /\ [Next]_vars => ToldInv'
  <2>1. CASE UNCHANGED vars
    BY <2>1 DEF vars, ToldInv, SentHere, AnsweredHere, LoginIsTold
  <2>2. CASE Next
    BY <2>2, TryConnTells, OthersTell DEF Next
  <2> QED BY <2>1, <2>2
<1>3. ToldInv => LoginIsTold
  BY DEF ToldInv
<1> QED BY <1>1, <1>2, <1>3, AlwaysChain, PTL DEF Spec
=============================================================================
