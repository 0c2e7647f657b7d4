------------------------------ MODULE Handshake ------------------------------
(***************************************************************************)
(* From the connection to the login, with or without a cipher              *)
(* (client.go:191-283, 285-346, 568-595, 653-702, hub.go:38-64,            *)
(* crypto.go:11-64, tcp_client.go:33-47, tcp_conn.go:101-131).  The client *)
(* asks for a key exchange and then logs in; each side changes its state   *)
(* by itself, and its state decides how it reads and writes.  Either end   *)
(* may close the connection (tcp_conn.go:134-147, hub.go:157-160), and the *)
(* hub may dispose the Client, at any step; what comes after the next dial *)
(* is module Reconnection.                                                 *)
(*                                                                         *)
(* An end of a connection has a goroutine that reads, a run loop, and      *)
(* goroutines that send: the one of Login and those of the application on  *)
(* the client, a job per request on the hub.  SendMessage encodes first    *)
(* and queues afterwards.                                                  *)
(*                                                                         *)
(* RC4 is a position in a key stream: encoding a message toggles the pad   *)
(* <<key, position>>, decoding toggles it again, and a message with a pad  *)
(* left is noise.  A position is the number of messages of each kind that  *)
(* went by: messages of a kind have one length, kinds differ in theirs.    *)
(***************************************************************************)
EXTENDS Naturals, Sequences

CONSTANTS
    Conns,         \* connections; a connection also names its client's key
    Ciphers,       \* the hub's Crypto objects
    Options,       \* how the two sides may be set up, and bounds of the environment
    Nil

What == {"exchange", "login"}
Ends == {"cli", "hub"} \X Conns
Cli(n) == <<"cli", n>>
Hub(n) == <<"hub", n>>
Peer(e) == IF e[1] = "cli" THEN Hub(e[2]) ELSE Cli(e[2])

Setup == [
    conns : SUBSET Conns,        \* the connections that are made
    useCipher : BOOLEAN,         \* Crypto # nil, on both sides
    hubNeedLogin : BOOLEAN,      \* NeedLogin of HubServerOptions and of ClientOptions
    cliNeedLogin : BOOLEAN,
    cryptoOf : [Conns -> Ciphers], \* the Crypto that the listener gives to a connection
    apps : SUBSET Conns,         \* bounds: the clients whose application publishes, once,
    maxCopies : Nat \ {0},       \* copies of a response,
    mayTimeout : SUBSET Conns,   \* clients whose hub may give up waiting for an ack,
    mayClose : SUBSET Conns,     \* connections that either end may close,
    calm : BOOLEAN]              \* messages arrive only when the receiver is at rest

ASSUME HandshakeAssumption == Options \subseteq Setup

Routines == {"loop", "caller", "app"} \cup What
AllCiphers == {Cli(n) : n \in Conns} \cup Ciphers

Kinds == ({"req", "ack", "resp"} \X What) \cup {<<"pub", "app">>}
States == {"DISCONNECT", "CONNECTED", "EXCHANGED_SECRET", "LOGINED"}
Start == [k \in Kinds |-> 0]
Positions == [Kinds -> Nat]
Pads == SUBSET (Conns \X Positions)
Messages == [kind : Kinds, pads : Pads]

ASSUME ValuesDiffer == Nil \notin Messages /\ Ciphers \cap Ends = {}

VARIABLES
    opts,     \* the Setup, which never changes
    state,    \* Client.state of the end
    cipher,   \* key and positions of each Crypto
    wire,     \* messages on their way to the end
    rx,       \* rxQueue of the end
    conn,     \* "open", "closed" with a reader that may have one more message, or "over"
    out,      \* goroutine of an end: the message it has encoded and not queued yet
    hasAcked, \* the run loop of the end has acked the packet it handles
    login,    \* where Client.Login of the client is
    results,  \* requests of the client whose response came
    job,      \* where the hub's job for a request is
    buffer,   \* pads on the job's packet, which is encoded in place
    copies,   \* how often it was sent
    acked,    \* requests whose response was acked
    cancelled,\* connections whose hub has cancelled the Client's ctx
    served,   \* history: requests whose handler ran
    told,     \* history: clients whose application has published
    passed    \* history: the state in which the hub let a publication through, or "no"

endVars  == <<state, cipher, wire, rx, conn, out, hasAcked>>
cliVars  == <<login, results, told>>
hubVars  == <<opts, job, buffer, copies, acked, cancelled, served>>
vars == <<endVars, cliVars, hubVars, passed>>

CipherOf(e) == IF e[1] = "cli" THEN e ELSE opts.cryptoOf[e[2]]

TypeOK ==
    /\ opts \in Options
    /\ state \in [Ends -> States]
    /\ cipher \in [AllCiphers -> [key : Conns \cup {Nil}, enc : Positions, dec : Positions]]
    /\ wire \in [Ends -> Seq(Messages)] /\ rx \in [Ends -> Seq(Kinds)]
    /\ conn \in [Ends -> {"open", "closed", "over"}]
    /\ out \in [Ends -> [Routines -> Messages \cup {Nil}]]
    /\ hasAcked \in [Ends -> BOOLEAN]
    /\ login \in [Conns -> {"start", "exchange", "exchanged", "login", "done"}]
    /\ results \in [Conns -> SUBSET What]
    /\ job \in [Conns -> [What -> {"none", "run", "reply", "wait", "end"}]]
    /\ buffer \in [Conns -> [What -> Pads]]
    /\ copies \in [Conns -> [What -> 0..opts.maxCopies]]
    /\ acked \in [Conns -> SUBSET What] /\ cancelled \subseteq Conns
    /\ served \in [Conns -> SUBSET What]
    /\ told \subseteq opts.apps
    /\ passed \in [Conns -> {"no"} \cup States]

-----------------------------------------------------------------------------
(* changeState: CONNECTED without a cipher counts as EXCHANGED_SECRET, and *)
(* EXCHANGED_SECRET without NeedLogin as LOGINED.                          *)
NeedLogin(e) == IF e[1] = "cli" THEN opts.cliNeedLogin ELSE opts.hubNeedLogin

Exchanged(e) == IF NeedLogin(e) THEN "EXCHANGED_SECRET" ELSE "LOGINED"

Connected(e) == IF opts.useCipher THEN "CONNECTED" ELSE Exchanged(e)

Init ==
    /\ opts \in Options
    /\ state = [e \in Ends |-> Connected(e)]
    /\ cipher = [x \in AllCiphers |-> [key |-> Nil, enc |-> Start, dec |-> Start]]
    /\ wire = [e \in Ends |-> <<>>]
    /\ rx = [e \in Ends |-> <<>>]
    /\ conn = [e \in Ends |-> "open"]
    /\ out = [e \in Ends |-> [g \in Routines |-> Nil]]
    /\ hasAcked = [e \in Ends |-> FALSE]
    /\ login = [n \in Conns |-> "start"]
    /\ results = [n \in Conns |-> {}]
    /\ job = [n \in Conns |-> [w \in What |-> "none"]]
    /\ buffer = [n \in Conns |-> [w \in What |-> {}]]
    /\ copies = [n \in Conns |-> [w \in What |-> 0]]
    /\ acked = [n \in Conns |-> {}]
    /\ cancelled = {}
    /\ served = [n \in Conns |-> {}]
    /\ told = {}
    /\ passed = [n \in Conns |-> "no"]

-----------------------------------------------------------------------------
(* Encoding, sending and receiving *)

Codes(e) == opts.useCipher /\ state[e] \in {"EXCHANGED_SECRET", "LOGINED"}

Toggle(pads, pad) == IF pad \in pads THEN pads \ {pad} ELSE pads \cup {pad}

Encoded(e, pads) == LET c == cipher[CipherOf(e)]
                    IN IF Codes(e) THEN Toggle(pads, <<c.key, c.enc>>) ELSE pads

(* SendMessage of goroutine g up to conn.SendMessage *)
Send(e, g, kind, pads) ==
    /\ out[e][g] = Nil
    /\ out' = [out EXCEPT ![e][g] = [kind |-> kind, pads |-> Encoded(e, pads)]]
    /\ cipher' = IF Codes(e) THEN [cipher EXCEPT ![CipherOf(e)].enc[kind] = @ + 1] ELSE cipher

(* conn.SendMessage: the writer takes the messages in the order of txQueue *)
(* until the connection is closed.                                         *)
Queue(e, g) ==
    /\ out[e][g] # Nil
    /\ wire' = IF conn[e] = "open" THEN [wire EXCEPT ![Peer(e)] = Append(@, out[e][g])] ELSE wire
    /\ out' = [out EXCEPT ![e][g] = Nil]
    /\ UNCHANGED <<state, cipher, rx, conn, hasAcked, cliVars, hubVars, passed>>

(* Nothing happens at e unless a message arrives *)
AtRest(e) == LET n == e[2] IN
    /\ rx[e] = <<>>
    /\ \A g \in Routines : out[e][g] = Nil
    /\ IF e[1] = "cli"
       THEN login[n] \in {"exchange", "login", "done"} /\ login[n] \notin results[n]
       ELSE \A w \in What : /\ job[n][w] \in {"none", "wait", "end"}
                            /\ job[n][w] = "wait" => w \notin acked[n]

(* mutant: responses do not pass before the login *)
NoResponse(s, kind) == kind[1] \in {"ack", "req"} \/ s = "LOGINED"

(* What receiveMessage lets through in each state: everything also in      *)
(* DISCONNECT, the default branch of its switch.                           *)
LetThrough(s, kind) ==
    \/ kind[1] \in {"ack", "resp"}
    \/ kind = <<"req", "exchange">>
    \/ kind = <<"req", "login">> /\ s # "CONNECTED"
    \/ s \in {"LOGINED", "DISCONNECT"}

(* receiveMessage, of a reader that ends when it finds its ctx cancelled,  *)
(* and may have a message in its hands by then.  A message that cannot be  *)
(* unmarshalled is dropped.                                                *)
Read(e) == LET m == Head(wire[e])
               c == cipher[CipherOf(e)]
               pads == IF Codes(e) THEN Toggle(m.pads, <<c.key, c.dec>>) ELSE m.pads
               passes == pads = {} /\ LetThrough(state[e], m.kind) IN
    /\ wire[e] # <<>> /\ conn[e] # "over"
    /\ opts.calm => AtRest(e)
    /\ wire' = [wire EXCEPT ![e] = Tail(@)]
    /\ cipher' = IF Codes(e) THEN [cipher EXCEPT ![CipherOf(e)].dec[m.kind] = @ + 1] ELSE cipher
    /\ rx' = IF passes THEN [rx EXCEPT ![e] = Append(@, m.kind)] ELSE rx
    /\ passed' = IF passes /\ e[1] = "hub" /\ m.kind = <<"pub", "app">>
                 THEN [passed EXCEPT ![e[2]] = state[e]] ELSE passed
    /\ conn' = IF conn[e] = "closed" THEN [conn EXCEPT ![e] = "over"] ELSE conn
    /\ UNCHANGED <<state, out, hasAcked, cliVars, hubVars>>

-----------------------------------------------------------------------------
(* conn.Close of an end, whose OnDisconnect changes the state: the peer is *)
(* gone, a write failed, or a heartbeat is missing                         *)
Disconnect(e) ==
    /\ e[2] \in opts.mayClose /\ conn[e] = "open"
    /\ conn' = [conn EXCEPT ![e] = "closed"]
    /\ state' = [state EXCEPT ![e] = "DISCONNECT"]
    /\ UNCHANGED <<cipher, wire, rx, out, hasAcked, cliVars, hubVars, passed>>

(* Client.Dispose of the hub cancels ctx and then closes the connection *)
Cancel(n) ==
    /\ n \in opts.mayClose \ cancelled
    /\ cancelled' = cancelled \cup {n}
    /\ UNCHANGED <<endVars, cliVars, opts, job, buffer, copies, acked, served, passed>>

-----------------------------------------------------------------------------
(* The run loop of an end handles a packet: first it acks it *)

(* mutants: publications are acked; responses are not *)
AcksAll(type)  == type # "ack"
AcksRequests(type) == type = "req"

Acks(type) == type \in {"req", "resp"}

SendAck(e) == LET kind == Head(rx[e]) IN
    /\ rx[e] # <<>> /\ Acks(kind[1]) /\ ~hasAcked[e]
    /\ Send(e, "loop", <<"ack", kind[2]>>, {})
    /\ hasAcked' = [hasAcked EXCEPT ![e] = TRUE]
    /\ UNCHANGED <<state, wire, rx, conn, cliVars, hubVars, passed>>

Loop(e, kind) ==
    /\ rx[e] # <<>> /\ Head(rx[e]) = kind
    /\ Acks(kind[1]) => hasAcked[e]
    /\ out[e]["loop"] = Nil
    /\ rx' = [rx EXCEPT ![e] = Tail(@)]
    /\ hasAcked' = [hasAcked EXCEPT ![e] = FALSE]
    /\ UNCHANGED <<state, cipher, wire, conn, out, login, told, opts, buffer, copies, cancelled,
                   served, passed>>

(* onReceiveRequest starts a job *)
OnReceiveRequest(n, w) ==
    /\ Loop(Hub(n), <<"req", w>>)
    /\ job' = [job EXCEPT ![n][w] = IF @ = "none" THEN "run" ELSE @]
    /\ UNCHANGED <<results, acked>>

(* onReceiveResponse hands the result to Login *)
OnReceiveResponse(n, w) ==
    /\ Loop(Cli(n), <<"resp", w>>)
    /\ results' = [results EXCEPT ![n] = @ \cup {w}]
    /\ UNCHANGED <<job, acked>>

OnReceiveAck(e, w) ==
    /\ Loop(e, <<"ack", w>>)
    /\ acked' = IF e[1] = "hub" THEN [acked EXCEPT ![e[2]] = @ \cup {w}] ELSE acked
    /\ UNCHANGED <<results, job>>

OnReceivePublish(n) ==
    /\ Loop(Hub(n), <<"pub", "app">>)
    /\ UNCHANGED <<results, job, acked>>

-----------------------------------------------------------------------------
(* Client.Login *)

Secret(n, x) == cipher' = [cipher EXCEPT ![x] = [key |-> n, enc |-> Start, dec |-> Start]]

StartExchange(n) ==
    /\ n \in opts.conns /\ opts.useCipher /\ login[n] = "start"
    /\ Send(Cli(n), "caller", <<"req", "exchange">>, {})
    /\ login' = [login EXCEPT ![n] = "exchange"]
    /\ UNCHANGED <<state, wire, rx, conn, hasAcked, results, told, hubVars, passed>>

(* mutant: any response ends the wait *)
SomeResult(n, w) == results[n] # {}

Result(n, w) == w \in results[n]

(* ComputeSecret and changeState(EXCHANGED_SECRET) *)
FinishExchange(n) ==
    /\ login[n] = "exchange" /\ out[Cli(n)]["caller"] = Nil
    /\ Result(n, "exchange")
    /\ Secret(n, Cli(n))
    /\ state' = [state EXCEPT ![Cli(n)] = Exchanged(Cli(n))]
    /\ login' = [login EXCEPT ![n] = "exchanged"]
    /\ UNCHANGED <<wire, rx, conn, out, hasAcked, results, told, hubVars, passed>>

StartLogin(n) ==
    /\ n \in opts.conns
    /\ login[n] = (IF opts.useCipher THEN "exchanged" ELSE "start")
    /\ Send(Cli(n), "caller", <<"req", "login">>, {})
    /\ login' = [login EXCEPT ![n] = "login"]
    /\ UNCHANGED <<state, wire, rx, conn, hasAcked, results, told, hubVars, passed>>

FinishLogin(n) ==
    /\ login[n] = "login" /\ out[Cli(n)]["caller"] = Nil
    /\ Result(n, "login")
    /\ state' = [state EXCEPT ![Cli(n)] = "LOGINED"]
    /\ login' = [login EXCEPT ![n] = "done"]
    /\ UNCHANGED <<cipher, wire, rx, conn, out, hasAcked, results, told, hubVars, passed>>

(* Publish of an application, in a goroutine of its own *)
AppPublish(n) ==
    /\ n \in opts.apps \ told
    /\ Send(Cli(n), "app", <<"pub", "app">>, {})
    /\ told' = told \cup {n}
    /\ UNCHANGED <<state, wire, rx, conn, hasAcked, login, results, hubVars, passed>>

-----------------------------------------------------------------------------
(* A job of the hub *)

(* The handlers of hub.go:38-64 *)
Execute(n, w) ==
    /\ job[n][w] = "run"
    /\ job' = [job EXCEPT ![n][w] = "reply"]
    /\ served' = [served EXCEPT ![n] = @ \cup {w}]
    /\ IF w = "exchange" THEN Secret(n, opts.cryptoOf[n]) ELSE UNCHANGED cipher
    /\ UNCHANGED <<state, wire, rx, conn, out, hasAcked, cliVars, opts, buffer, copies, acked, cancelled,
                   passed>>

(* SendPacketWithRetry sends the response, and sends it again while the    *)
(* ack is missing: always the same packet, which SendMessage encodes in    *)
(* place.                                                                  *)
Reply(n, w) ==
    /\ job[n][w] \in {"reply", "wait"}
    /\ copies[n][w] < opts.maxCopies
    /\ Send(Hub(n), w, <<"resp", w>>, buffer[n][w])
    /\ buffer' = [buffer EXCEPT ![n][w] = Encoded(Hub(n), @)]
    /\ copies' = [copies EXCEPT ![n][w] = @ + 1]
    /\ job' = [job EXCEPT ![n][w] = "wait"]
    /\ UNCHANGED <<state, wire, rx, conn, hasAcked, cliVars, opts, acked, cancelled, served, passed>>

(* mutant: the error of SendPacketWithRetry is not looked at *)
ErrorIgnored(n, w) == w \in acked[n] \/ n \in cancelled \cup opts.mayTimeout

(* SendPacketWithRetry returns nil: the ack came, or ctx has ended *)
AckCame(n, w) == w \in acked[n] \/ n \in cancelled

Finish(n, w) ==
    /\ job[n][w] = "wait" /\ out[Hub(n)][w] = Nil
    /\ AckCame(n, w)
    /\ job' = [job EXCEPT ![n][w] = "end"]
    /\ state' = [state EXCEPT ![Hub(n)] = IF w = "exchange" THEN Exchanged(Hub(n)) ELSE "LOGINED"]
    /\ UNCHANGED <<cipher, wire, rx, conn, out, hasAcked, cliVars, opts, buffer, copies, acked, cancelled,
                   served, passed>>

GiveUp(n, w) ==
    /\ n \in opts.mayTimeout
    /\ job[n][w] = "wait" /\ out[Hub(n)][w] = Nil
    /\ job' = [job EXCEPT ![n][w] = "end"]
    /\ UNCHANGED <<endVars, cliVars, opts, buffer, copies, acked, cancelled, served, passed>>

-----------------------------------------------------------------------------
ReadOrQueue(e) == Read(e) \/ \E g \in Routines : Queue(e, g)

Login(n) == StartExchange(n) \/ FinishExchange(n) \/ StartLogin(n) \/ FinishLogin(n)

Handle(n) ==
    \/ SendAck(Cli(n)) \/ SendAck(Hub(n)) \/ OnReceivePublish(n)
    \/ \E w \in What : \/ OnReceiveRequest(n, w) \/ OnReceiveResponse(n, w)
                       \/ OnReceiveAck(Hub(n), w) \/ OnReceiveAck(Cli(n), w)

Next ==
    \/ \E e \in Ends : ReadOrQueue(e) \/ Disconnect(e)
    \/ \E n \in Conns : Login(n) \/ Handle(n) \/ AppPublish(n) \/ Cancel(n)
    \/ \E n \in Conns, w \in What : Execute(n, w) \/ Reply(n, w) \/ Finish(n, w) \/ GiveUp(n, w)

Spec == Init /\ [][Next]_vars

(* A goroutine that can go on goes on; nobody has to publish, or to send again *)
Fairness ==
    /\ \A e \in Ends : WF_vars(Read(e)) /\ \A g \in Routines : WF_vars(Queue(e, g))
    /\ \A n \in Conns : WF_vars(Login(n)) /\ WF_vars(Handle(n))
    /\ \A n \in Conns, w \in What :
         /\ WF_vars(Execute(n, w) \/ Finish(n, w))
         /\ WF_vars(Reply(n, w) /\ copies[n][w] = 0)

FairSpec == Spec /\ Fairness

-----------------------------------------------------------------------------
(* A client that says "login succeeded" (client.go:280) was served by the  *)
(* hub's login handler if it needs a login, and by the exchange if it has  *)
(* a cipher.                                                               *)
LoginedIsServed ==
    \A n \in opts.conns : state[Cli(n)] = "LOGINED" =>
        /\ opts.cliNeedLogin => "login" \in served[n]
        /\ opts.useCipher => "exchange" \in served[n]

(* "no valid packet: the client has not logged in yet" (client.go:227,     *)
(* 232): the hub lets no publication of a connection through before it has *)
(* served what it needs, the login or the exchange of the secret, and the  *)
(* client has acked that or the Client is disposed.  Not so once the       *)
(* connection is closed: the last message of its reader is let through as  *)
(* it is (client.go:245).                                                  *)
Over(n, w) == w \in served[n] /\ (w \in acked[n] \/ n \in cancelled)

PublishAfterLogin ==
    \A n \in Conns : passed[n] \notin {"no", "DISCONNECT"} =>
        /\ opts.hubNeedLogin => Over(n, "login")
        /\ opts.useCipher => Over(n, "exchange")

OwnCrypto == \A m, n \in opts.conns : opts.cryptoOf[m] = opts.cryptoOf[n] => m = n

(* Without a cipher under every timing, and with a Crypto for each         *)
(* connection where messages meet an end that waits for them, both ends    *)
(* are logged in in the end, if the hub waits for the acks (client.go:     *)
(* 680-701) and nobody closes the connection.                              *)
LoginCompletes ==
    \A n \in Conns :
      <>(\/ n \notin opts.conns \/ n \in opts.mayTimeout \cup opts.mayClose
         \/ opts.useCipher /\ ~(opts.calm /\ OwnCrypto)
         \/ state[Cli(n)] = "LOGINED" /\ state[Hub(n)] = "LOGINED")
=============================================================================
