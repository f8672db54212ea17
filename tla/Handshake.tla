----------------------------- MODULE Handshake ------------------------------
(***************************************************************************)
(* How LSP connections come to be and are declared lost: clients           *)
(* (lsp/client_impl.go) ask one server (lsp/server_impl.go) for a          *)
(* connection, get an ID from it, and both ends count epochs of silence.   *)
(*                                                                         *)
(* Each client process has an address of its own and connects once.  It    *)
(* writes one message, number 1, which is all the data this module needs:  *)
(* the first Data message makes the server end established, and messages   *)
(* name their connection by ConnID only, so it matters whose ID a client   *)
(* puts in them.  SlidingWindow has the rest of the data path.             *)
(*                                                                         *)
(* UDP datagrams in flight are a set, as in SlidingWindow.  The field      *)
(* peer is the client's address, the source or the destination.            *)
(*                                                                         *)
(* Each operator named after another with a suffix (SilentTooLate,         *)
(* AskOnce, ...) is a mistake the code does not make.  No action uses it;  *)
(* it takes the place of the other when a property is tested.              *)
(***************************************************************************)
EXTENDS Integers, FiniteSets

CONSTANTS Addrs,        \* the clients, by address
          EpochLimit,   \* Params.EpochLimit, the same at both ends
          MaxConn       \* bound: how many connections the server makes

ASSUME EpochLimitAssumption == EpochLimit \in Nat \ {0}
ASSUME MaxConnAssumption == MaxConn \in Nat \ {0}

VARIABLES
  \* A client.
  phase,        \* where its NewClient is
  conId,        \* conId, 0 before the server's Ack
  csilent,      \* conn.receive - conn.lastrece
  cseq,         \* conn.seq
  unacked,      \* message 1 is in conn.databuf
  wrote,        \* sendct is 2: the client wrote its message
  \* The server.
  conn,         \* IDs of the connections in s.conn
  owner,        \* conn[id].addr
  addmap,       \* addmap: address -> ID, 0 if there is none
  pendconn,     \* IDs in s.pendconn
  ssilent,      \* conn[id].receive - conn[id].lastrece
  gotdata,      \* connections with message 1 in conn[id].ackbuf
  connCt,       \* connCt: the next ID
  \* The network, and what the server's application saw.
  net,          \* the datagrams in flight
  reads         \* pairs <<id, c>>: Read gave c's message as from id

clientVars == <<phase, conId, csilent, cseq, unacked, wrote>>
serverVars == <<conn, owner, addmap, pendconn, ssilent, gotdata, connCt, reads>>
vars       == <<clientVars, serverVars, net>>

ConnIds == 1 .. MaxConn
Message(t, c, i) == [type |-> t, peer |-> c, id |-> i]

\* phase: "off" before NewClient, "asking" until the Ack is handled, "built"
\* until NewClient has taken the value from the channel build, "up" when it
\* has returned, "lost" when the handler has closed the connection.
Init ==
  /\ phase = [c \in Addrs |-> "off"] /\ conId = [c \in Addrs |-> 0]
  /\ csilent = [c \in Addrs |-> 0] /\ cseq = [c \in Addrs |-> 0]
  /\ unacked = {} /\ wrote = {}
  /\ conn = {} /\ owner = <<>> /\ addmap = [c \in Addrs |-> 0]
  /\ pendconn = {} /\ ssilent = [i \in ConnIds |-> 0] /\ gotdata = {}
  /\ connCt = 1
  /\ net = {} /\ reads = {}

\* A connection with n epochs of silence is lost.
TooSilentLate(n) == n > EpochLimit
TooSilent(n) == n >= EpochLimit

-----------------------------------------------------------------------------
(***************************************************************************)
(* A client.                                                               *)
(***************************************************************************)

\* NewClient starts the goroutines and posts cconnects; handleEstab sends
\* Connect.
NewClient(c) ==
  /\ phase[c] = "off"
  /\ phase' = [phase EXCEPT ![c] = "asking"]
  /\ net' = net \cup {Message("connect", c, 0)}
  /\ UNCHANGED <<conId, csilent, cseq, unacked, wrote, serverVars>>

\* handleReceive, Ack 0 before there is an ID: the client takes the ID the
\* Ack carries.
Established(c, i) ==
  /\ Message("ack0", c, i) \in net
  /\ phase[c] = "asking"
  /\ conId' = [conId EXCEPT ![c] = i]
  /\ cseq' = [cseq EXCEPT ![c] = @ + 1]
  /\ phase' = [phase EXCEPT ![c] = "built"]
  /\ UNCHANGED <<csilent, unacked, wrote, serverVars, net>>

\* NewClient takes the value from build and returns.
NewClientReturns(c) ==
  /\ phase[c] = "built"
  /\ phase' = [phase EXCEPT ![c] = "up"]
  /\ csilent' = [csilent EXCEPT ![c] = 0]
  /\ UNCHANGED <<conId, cseq, unacked, wrote, serverVars, net>>

\* handleReceive, Ack 0 after NewClient has returned: the server is alive.
ServerAlive(c, i) ==
  /\ Message("ack0", c, i) \in net
  /\ phase[c] = "up"
  /\ csilent' = [csilent EXCEPT ![c] = 0]
  /\ UNCHANGED <<phase, conId, cseq, unacked, wrote, serverVars, net>>

\* The application writes message 1 (handleWrite; always inside the window).
Write(c) ==
  /\ phase[c] = "up" /\ c \notin wrote
  /\ wrote' = wrote \cup {c}
  /\ unacked' = unacked \cup {c}
  /\ net' = net \cup {Message("data", c, conId[c])}
  /\ UNCHANGED <<phase, conId, csilent, cseq, serverVars>>

\* handleReceive, Ack 1: whichever connection it is for, it acknowledges the
\* client's message 1 as long as the base of the window is not above it.
DataAcked(c, i) ==
  /\ Message("dataAck", c, i) \in net
  /\ phase[c] \in {"asking", "built", "up"}
  /\ cseq[c] <= 1
  /\ csilent' = [csilent EXCEPT ![c] = 0]
  /\ unacked' = unacked \ {c}
  /\ cseq' = [cseq EXCEPT ![c] = IF @ = 1 THEN 2 ELSE @]
  /\ UNCHANGED <<phase, conId, wrote, serverVars, net>>

\* handleEpoch without an ID: Connect again, and no silence is counted.
AskOnce(c) == phase[c] = "asking" /\ UNCHANGED vars
AskAgain(c) ==
  /\ phase[c] = "asking"
  /\ net' = net \cup {Message("connect", c, 0)}
  /\ UNCHANGED <<phase, conId, csilent, cseq, unacked, wrote, serverVars>>

\* handleEpoch with an ID: the keepalive Ack 0, one more epoch of silence,
\* which may be the last, and the unacknowledged message again.
ClientEpoch(c) ==
  /\ phase[c] \in {"built", "up"}
  /\ LET gone == TooSilent(csilent[c] + 1)
     IN  /\ csilent' = [csilent EXCEPT ![c] = @ + 1]
         /\ phase' = [phase EXCEPT ![c] = IF gone THEN "lost" ELSE @]
         /\ net' = net \cup {Message("keepalive", c, conId[c])}
                       \cup (IF c \in unacked /\ ~ gone
                               THEN {Message("data", c, conId[c])} ELSE {})
  /\ UNCHANGED <<conId, cseq, unacked, wrote, serverVars>>

-----------------------------------------------------------------------------
(***************************************************************************)
(* The server.                                                             *)
(***************************************************************************)

\* The Ack of a new connection from c.
WelcomeNextId(c) == Message("ack0", c, connCt + 1)
Welcome(c) == Message("ack0", c, connCt)

\* The ID in the Ack a pending connection i gets every epoch: the value of
\* pendconn, not the key.
RepeatedIdLatest(i) == connCt - 1
RepeatedId(i) == 1

\* addmap when some connections are dropped.
ForgottenLater(dropped) == addmap
Forgotten(dropped) ==
  [c \in Addrs |-> IF \E i \in dropped : owner[i] = c THEN 0 ELSE addmap[c]]

\* handleReceive, Connect: from a new address it makes a connection, pending
\* until its first data; from a pending one it is answered again; from an
\* established one it only shows that the client is alive.
ServerConnect(c) ==
  /\ Message("connect", c, 0) \in net
  /\ LET i == addmap[c]
     IN \/ /\ i = 0 /\ connCt <= MaxConn
           /\ addmap' = [addmap EXCEPT ![c] = connCt]
           /\ conn' = conn \cup {connCt}
           /\ owner' = [k \in 1 .. connCt |-> IF k = connCt THEN c ELSE owner[k]]
           /\ pendconn' = pendconn \cup {connCt}
           /\ connCt' = connCt + 1
           /\ net' = net \cup {Welcome(c)}
           /\ UNCHANGED ssilent
        \/ /\ i \in pendconn
           /\ net' = net \cup {Message("ack0", c, i)}
           /\ UNCHANGED <<addmap, conn, owner, pendconn, connCt, ssilent>>
        \/ /\ i \in conn \ pendconn
           /\ ssilent' = [ssilent EXCEPT ![i] = 0]
           /\ UNCHANGED <<addmap, conn, owner, pendconn, connCt, net>>
  /\ UNCHANGED <<gotdata, reads, clientVars>>

ServerKeepaliveUncounted(c, i) ==
  /\ Message("keepalive", c, i) \in net
  /\ i \in conn \ pendconn
  /\ net' = net \cup {Message("ack0", owner[i], i)}
  /\ UNCHANGED <<conn, owner, addmap, pendconn, ssilent, gotdata, connCt,
                 reads, clientVars>>

\* handleReceive, Ack 0: answered if the connection is established.  That of
\* a pending connection is ignored.
ServerKeepalive(c, i) ==
  /\ Message("keepalive", c, i) \in net
  /\ i \in conn \ pendconn
  /\ net' = net \cup {Message("ack0", owner[i], i)}
  /\ ssilent' = [ssilent EXCEPT ![i] = 0]
  /\ UNCHANGED <<conn, owner, addmap, pendconn, gotdata, connCt, reads,
                 clientVars>>

\* handleReceive, Data 1: the connection it names is established; the Ack
\* goes to the address of that connection; new data goes to Read, with the
\* ID of that connection.
ServerData(c, i) ==
  /\ Message("data", c, i) \in net
  /\ i \in conn
  /\ pendconn' = pendconn \ {i}
  /\ ssilent' = [ssilent EXCEPT ![i] = 0]
  /\ net' = net \cup {Message("dataAck", owner[i], i)}
  /\ gotdata' = gotdata \cup {i}
  /\ reads' = IF i \in gotdata THEN reads ELSE reads \cup {<<i, c>>}
  /\ UNCHANGED <<conn, owner, addmap, connCt, clientVars>>

\* handleEpoch: every connection counts an epoch of silence.  One that has
\* been silent for EpochLimit epochs is dropped; a pending one gets its Ack
\* again; an established one gets the Acks of its data again.
ServerEpoch ==
  /\ conn # {}
  /\ LET dropped == {i \in conn : TooSilent(ssilent[i] + 1)}
         kept    == conn \ dropped
     IN  /\ conn' = kept
         /\ pendconn' = pendconn \ dropped
         /\ addmap' = Forgotten(dropped)
         /\ gotdata' = gotdata \ dropped
         /\ ssilent' = [i \in ConnIds |->
                         IF i \in kept THEN ssilent[i] + 1 ELSE 0]
         /\ net' = net
              \cup {Message("ack0", owner[i], RepeatedId(i)) :
                      i \in kept \cap pendconn}
              \cup {Message("dataAck", owner[i], i) :
                      i \in (kept \ pendconn) \cap gotdata}
  /\ UNCHANGED <<owner, connCt, reads, clientVars>>

-----------------------------------------------------------------------------
Lose(m) == /\ net' = net \ {m}
           /\ UNCHANGED <<clientVars, serverVars>>

Step ==
  \/ \E c \in Addrs : \/ NewClient(c) \/ NewClientReturns(c) \/ Write(c)
                      \/ AskAgain(c) \/ ClientEpoch(c) \/ ServerConnect(c)
  \/ \E c \in Addrs, i \in ConnIds : \/ Established(c, i) \/ ServerAlive(c, i)
                                     \/ DataAcked(c, i)
                                     \/ ServerKeepalive(c, i)
                                     \/ ServerData(c, i)
  \/ ServerEpoch

Next == Step \/ \E m \in net : Lose(m)

Safety == Init /\ [][Next]_vars

\* A datagram that may arrive need not, so Lose takes no variable but net to
\* a value it would not have without it: for an invariant that does not
\* speak of net, this has the behaviours that count.
SafetyNoLoss == Init /\ [][Step]_vars

(***************************************************************************)
(* The tickers tick, NewClient takes what its channel holds, and what is   *)
(* sent again and again gets through.                                      *)
(***************************************************************************)
Fairness ==
  /\ WF_vars(ServerEpoch)
  /\ \A c \in Addrs :
       /\ WF_vars(AskAgain(c)) /\ WF_vars(ClientEpoch(c))
       /\ WF_vars(NewClientReturns(c)) /\ SF_vars(ServerConnect(c))
  /\ \A c \in Addrs, i \in ConnIds :
       /\ SF_vars(Established(c, i)) /\ SF_vars(ServerAlive(c, i))
       /\ SF_vars(DataAcked(c, i)) /\ SF_vars(ServerKeepalive(c, i))
       /\ SF_vars(ServerData(c, i))

Spec == Safety /\ Fairness

\* Only the client can be relied on.
ClientFairness ==
  \A c \in Addrs : /\ WF_vars(AskAgain(c)) /\ WF_vars(ClientEpoch(c))
                   /\ WF_vars(NewClientReturns(c))

ClientSpec == Safety /\ ClientFairness
-----------------------------------------------------------------------------
Messages ==
  [type : {"connect"}, peer : Addrs, id : {0}]
  \cup [type : {"ack0", "dataAck", "keepalive", "data"}, peer : Addrs,
        id : ConnIds]

TypeOK ==
  /\ phase \in [Addrs -> {"off", "asking", "built", "up", "lost"}]
  /\ conId \in [Addrs -> 0 .. MaxConn]
  /\ csilent \in [Addrs -> 0 .. EpochLimit] /\ cseq \in [Addrs -> 0 .. 2]
  /\ unacked \subseteq wrote /\ wrote \subseteq Addrs
  /\ connCt \in 1 .. MaxConn + 1 /\ owner \in [1 .. connCt - 1 -> Addrs]
  /\ conn \subseteq ConnIds /\ pendconn \subseteq ConnIds
  /\ gotdata \subseteq ConnIds
  /\ addmap \in [Addrs -> 0 .. MaxConn]
  /\ ssilent \in [ConnIds -> 0 .. EpochLimit]
  /\ net \subseteq Messages /\ reads \subseteq ConnIds \X Addrs

\* The server's maps name the same connections: handleReceive indexes conn
\* with an ID it found in addmap or in pendconn.
MapsAgree ==
  /\ \A i \in conn : addmap[owner[i]] = i
  /\ \A c \in Addrs : addmap[c] # 0 => addmap[c] \in conn
  /\ pendconn \subseteq conn

\* A client takes an ID the server made for its address, or 1, the ID every
\* repeated Ack carries.
AdoptedId ==
  \A c \in Addrs :
    \/ conId[c] \in {0, 1}
    \/ conId[c] < connCt /\ owner[conId[c]] = c

\* No message is read as coming from a connection other than its sender's,
\* connection 1 apart.
OthersReadRight == \A r \in reads : r[1] = 1 \/ owner[r[1]] = r[2]

\* A client that asks for a connection gets one, as long as there are IDs
\* left in the model.
EventuallyConnected ==
  \A c \in Addrs : phase[c] = "asking" ~> phase[c] # "asking" \/ connCt > MaxConn

\* server_api.go: Read returns "the connection ID associated with the client
\* that sent the message".
ReadNamesSender == \A r \in reads : owner[r[1]] = r[2]

\* client_impl.go: NewClient returns once it has an Ack, and an error if
\* "after K epochs, the client still hasn't received an Ack message from the
\* server": whatever the server and the network do, it returns.
NewClientReturnsAnyway ==
  \A c \in Addrs : phase[c] = "asking" ~> phase[c] # "asking"
=============================================================================
