-------------------------- MODULE Handshake_proofs --------------------------
(***************************************************************************)
(* Proofs about Handshake, for any clients, EpochLimit and MaxConn: types, *)
(* the agreement of the server's maps, and which IDs a client can take.    *)
(***************************************************************************)
EXTENDS Handshake, TLAPS

\* A client that has no ID is at the base 0 of its window; one that has an
\* ID got it from the server; a client that counts EpochLimit epochs is lost.
ClientInv ==
  \A c \in Addrs :
    /\ phase[c] \in {"off", "asking"} => conId[c] = 0 /\ cseq[c] = 0
    /\ phase[c] \in {"built", "up", "lost"} => conId[c] \in ConnIds
    /\ phase[c] # "lost" => csilent[c] < EpochLimit

\* The server has made the connections below connCt, one at a time for an
\* address, and counts fewer than EpochLimit epochs of silence for each.
ServerInv ==
  /\ \A c \in Addrs : addmap[c] # 0 => owner[addmap[c]] = c
  /\ \A i \in conn : i < connCt
  /\ \A i \in ConnIds : ssilent[i] < EpochLimit
  /\ \A r \in reads : r[1] < connCt

\* Connection i is c's, or 1, the ID every repeated Ack carries.
MadeFor(i, c) == i = 1 \/ (i < connCt /\ owner[i] = c)

\* The Acks that carry an ID, and the messages of a client, name a connection
\* that was made for it.
NetInv ==
  \A m \in net : m.type \in {"ack0", "data"} => MadeFor(m.id, m.peer)

HInv == TypeOK /\ MapsAgree /\ AdoptedId /\ OthersReadRight
        /\ ClientInv /\ ServerInv /\ NetInv

USE EpochLimitAssumption, MaxConnAssumption
-----------------------------------------------------------------------------
\* The initial state satisfies the invariant.
LEMMA InitInv == Init => HInv
<1>. SUFFICES ASSUME Init PROVE HInv
  OBVIOUS
<1>1. TypeOK
  <2>1. owner \in [1 .. connCt - 1 -> Addrs]
    BY DEF Init
  <2>. QED
    BY <2>1 DEF Init, TypeOK, ConnIds
<1>2. MapsAgree /\ AdoptedId /\ OthersReadRight
  BY DEF Init, MapsAgree, AdoptedId, OthersReadRight
<1>3. ClientInv /\ ServerInv /\ NetInv
  BY DEF Init, ClientInv, ServerInv, NetInv
<1>. QED
  BY <1>1, <1>2, <1>3 DEF HInv

\* What a datagram is, by its type.
LEMMA MessageTypes ==
  ASSUME NEW c \in Addrs
  PROVE  /\ Message("connect", c, 0) \in Messages
         /\ \A i \in ConnIds, t \in {"ack0", "dataAck", "keepalive", "data"} :
              Message(t, c, i) \in Messages
  BY DEF Message, Messages

\* A step that leaves the server alone keeps what is said about the server.
LEMMA ServerKept ==
  ASSUME HInv, UNCHANGED serverVars
  PROVE  /\ MapsAgree' /\ OthersReadRight' /\ ServerInv'
         /\ \A i, c : MadeFor(i, c)' <=> MadeFor(i, c)
  BY DEF HInv, serverVars, MapsAgree, OthersReadRight, ServerInv, MadeFor

\* A client's steps keep the invariant.
LEMMA NewClientInv == ASSUME HInv, NEW c \in Addrs, NewClient(c) PROVE HInv'
<1>1. TypeOK'
  BY MessageTypes DEF HInv, TypeOK, NewClient, serverVars
<1>2. AdoptedId' /\ ClientInv'
  BY DEF HInv, TypeOK, AdoptedId, ClientInv, NewClient, serverVars
<1>3. NetInv'
  BY ServerKept DEF HInv, NetInv, NewClient, Message
<1>. QED
  BY <1>1, <1>2, <1>3, ServerKept DEF HInv, NewClient

\* The Ack with the ID: the client adopts an ID that is its own, or 1.
LEMMA EstablishedInv ==
  ASSUME HInv, NEW c \in Addrs, NEW i \in ConnIds, Established(c, i)
  PROVE  HInv'
<1>1. MadeFor(i, c)
  BY DEF HInv, NetInv, Established, Message
<1>2. TypeOK'
  BY SMTT(30) DEF HInv, TypeOK, ClientInv, Established, serverVars, ConnIds
<1>3. AdoptedId'
  BY <1>1 DEF HInv, TypeOK, AdoptedId, Established, serverVars, MadeFor
<1>4. ClientInv'
  BY DEF HInv, TypeOK, ClientInv, Established
<1>5. NetInv'
  BY ServerKept DEF HInv, NetInv, Established
<1>. QED
  BY <1>2, <1>3, <1>4, <1>5, ServerKept DEF HInv, Established

\* The calling goroutine only sets estab.
LEMMA NewClientReturnsInv ==
  ASSUME HInv, NEW c \in Addrs, NewClientReturns(c) PROVE HInv'
<1>1. TypeOK'
  BY DEF HInv, TypeOK, NewClientReturns, serverVars
<1>2. AdoptedId' /\ ClientInv'
  BY DEF HInv, TypeOK, AdoptedId, ClientInv, NewClientReturns, serverVars
<1>3. NetInv'
  BY ServerKept DEF HInv, NetInv, NewClientReturns
<1>. QED
  BY <1>1, <1>2, <1>3, ServerKept DEF HInv, NewClientReturns

\* A later Ack 0: the client hears the server, nothing else.
LEMMA ServerAliveInv ==
  ASSUME HInv, NEW c \in Addrs, NEW i \in ConnIds, ServerAlive(c, i)
  PROVE  HInv'
<1>1. TypeOK'
  BY DEF HInv, TypeOK, ServerAlive, serverVars
<1>2. AdoptedId' /\ ClientInv'
  BY DEF HInv, TypeOK, AdoptedId, ClientInv, ServerAlive, serverVars
<1>3. NetInv'
  BY ServerKept DEF HInv, NetInv, ServerAlive
<1>. QED
  BY <1>1, <1>2, <1>3, ServerKept DEF HInv, ServerAlive

\* A client's messages name the connection it took: it is made for it.
LEMMA WriteInv == ASSUME HInv, NEW c \in Addrs, Write(c) PROVE HInv'
<1>1. conId[c] \in ConnIds
  BY DEF HInv, ClientInv, Write
<1>2. MadeFor(conId[c], c)
  BY <1>1 DEF HInv, AdoptedId, MadeFor, ConnIds
<1>3. TypeOK'
  BY <1>1, MessageTypes DEF HInv, TypeOK, Write, serverVars
<1>4. AdoptedId' /\ ClientInv'
  BY DEF HInv, AdoptedId, ClientInv, Write, serverVars
<1>5. NetInv'
  BY <1>2, ServerKept DEF HInv, NetInv, Write, Message
<1>. QED
  BY <1>3, <1>4, <1>5, ServerKept DEF HInv, Write

\* The Ack of the first message lets the client's window slide.
LEMMA DataAckedInv ==
  ASSUME HInv, NEW c \in Addrs, NEW i \in ConnIds, DataAcked(c, i)
  PROVE  HInv'
<1>1. TypeOK'
  BY DEF HInv, TypeOK, DataAcked, serverVars
<1>2. AdoptedId' /\ ClientInv'
  BY DEF HInv, TypeOK, AdoptedId, ClientInv, DataAcked, serverVars
<1>3. NetInv'
  BY ServerKept DEF HInv, NetInv, DataAcked
<1>. QED
  BY <1>1, <1>2, <1>3, ServerKept DEF HInv, DataAcked

\* The epoch of a client without an ID: Connect again.
LEMMA AskAgainInv == ASSUME HInv, NEW c \in Addrs, AskAgain(c) PROVE HInv'
<1>1. TypeOK'
  BY MessageTypes DEF HInv, TypeOK, AskAgain, serverVars
<1>2. AdoptedId' /\ ClientInv'
  BY DEF HInv, AdoptedId, ClientInv, AskAgain, serverVars
<1>3. NetInv'
  BY ServerKept DEF HInv, NetInv, AskAgain, Message
<1>. QED
  BY <1>1, <1>2, <1>3, ServerKept DEF HInv, AskAgain

\* The epoch of a client with an ID: it counts, and may find the loss.
LEMMA ClientEpochInv ==
  ASSUME HInv, NEW c \in Addrs, ClientEpoch(c) PROVE HInv'
<1>1. conId[c] \in ConnIds
  BY DEF HInv, ClientInv, ClientEpoch
<1>2. MadeFor(conId[c], c)
  BY <1>1 DEF HInv, AdoptedId, MadeFor, ConnIds
<1>3. csilent[c] \in Nat /\ csilent[c] < EpochLimit
  BY DEF HInv, TypeOK, ClientInv, ClientEpoch
<1>4. TypeOK'
  <2>1. net' \subseteq Messages
    BY <1>1, MessageTypes DEF HInv, TypeOK, ClientEpoch
  <2>. QED
    BY <1>3, <2>1 DEF HInv, TypeOK, ClientEpoch, serverVars
<1>5. AdoptedId'
  BY DEF HInv, AdoptedId, ClientEpoch, serverVars
<1>6. ClientInv'
  BY <1>3 DEF HInv, TypeOK, ClientInv, ClientEpoch, TooSilent
<1>7. NetInv'
  BY <1>2, ServerKept DEF HInv, NetInv, ClientEpoch, Message
<1>. QED
  BY <1>4, <1>5, <1>6, <1>7, ServerKept DEF HInv, ClientEpoch
-----------------------------------------------------------------------------
\* A step that leaves the clients alone and drops no connection's owner keeps
\* what is said about the clients.
LEMMA ClientKept ==
  ASSUME HInv, UNCHANGED clientVars, UNCHANGED <<owner, connCt>>
  PROVE  /\ AdoptedId' /\ ClientInv'
         /\ \A i, c : MadeFor(i, c)' <=> MadeFor(i, c)
  BY DEF HInv, clientVars, AdoptedId, ClientInv, MadeFor

\* A Connect keeps the invariant: a new address gets the next ID.
LEMMA ServerConnectInv ==
  ASSUME HInv, NEW c \in Addrs, ServerConnect(c) PROVE HInv'
<1>. DEFINE i == addmap[c]
<1>1. UNCHANGED <<gotdata, reads, clientVars>>
  BY DEF ServerConnect
<1>2. CASE /\ i = 0 /\ connCt <= MaxConn
           /\ addmap' = [addmap EXCEPT ![c] = connCt]
           /\ conn' = conn \cup {connCt}
           /\ owner' = [k \in 1 .. connCt |-> IF k = connCt THEN c ELSE owner[k]]
           /\ pendconn' = pendconn \cup {connCt}
           /\ connCt' = connCt + 1
           /\ net' = net \cup {Welcome(c)}
           /\ UNCHANGED ssilent
  <2>1. /\ connCt \in ConnIds /\ connCt \in Nat /\ connCt' - 1 = connCt
        /\ connCt' \in 1 .. MaxConn + 1
    BY <1>2 DEF HInv, TypeOK, ConnIds
  <2>2. owner' \in [1 .. connCt -> Addrs] /\ owner'[connCt] = c
    BY <1>2, <2>1 DEF HInv, TypeOK
  <2>3. \A k \in Nat \ {0} : k < connCt => owner'[k] = owner[k] /\ k < connCt'
    BY <1>2, <2>1
  <2>4. TypeOK'
    <3>1. net' \subseteq Messages
      BY <1>2, <2>1, MessageTypes DEF HInv, TypeOK, Welcome
    <3>2. owner' \in [1 .. connCt' - 1 -> Addrs]
      BY <2>1, <2>2
    <3>3. /\ addmap' \in [Addrs -> 0 .. MaxConn]
          /\ conn' \subseteq ConnIds /\ pendconn' \subseteq ConnIds
      BY <1>2, <2>1 DEF HInv, TypeOK, ConnIds
    <3>. QED
      BY <1>1, <1>2, <2>1, <3>1, <3>2, <3>3 DEF HInv, TypeOK, clientVars
  <2>5. MapsAgree'
    <3>1. \A k \in conn : k \in Nat \ {0} /\ k < connCt /\ owner[k] # c
      BY <1>2, SMTT(30) DEF HInv, TypeOK, MapsAgree, ServerInv, ConnIds
    <3>2. \A k \in conn : owner[k] \in Addrs
      BY <2>1, <3>1 DEF HInv, TypeOK
    <3>3. \A k \in conn' : addmap'[owner'[k]] = k
      BY <1>2, <2>1, <2>2, <2>3, <3>1, <3>2 DEF HInv, TypeOK, MapsAgree
    <3>. QED
      BY <1>2, <3>3 DEF HInv, TypeOK, MapsAgree
  <2>6. AdoptedId'
    <3>1. \A d \in Addrs : conId[d] \in Nat
      BY DEF HInv, TypeOK
    <3>. QED
      BY <1>1, <2>3, <3>1 DEF HInv, AdoptedId, clientVars
  <2>7. OthersReadRight'
    <3>. SUFFICES ASSUME NEW r \in reads
                  PROVE  r[1] = 1 \/ owner'[r[1]] = r[2]
      BY <1>1 DEF OthersReadRight
    <3>1. r[1] \in Nat \ {0} /\ r[1] < connCt
      <4>1. r \in ConnIds \X Addrs
        BY DEF HInv, TypeOK
      <4>. QED
        BY <4>1 DEF HInv, ServerInv, ConnIds
    <3>2. owner'[r[1]] = owner[r[1]]
      BY <2>3, <3>1
    <3>. QED
      BY <3>2 DEF HInv, OthersReadRight
  <2>8. ClientInv'
    BY <1>1 DEF HInv, ClientInv, clientVars
  <2>9. ServerInv'
    <3>1. ASSUME NEW d \in Addrs, addmap'[d] # 0 PROVE owner'[addmap'[d]] = d
      <4>1. CASE d = c
        BY <4>1, <1>2, <2>2 DEF HInv, TypeOK
      <4>2. CASE d # c
        <5>1. addmap'[d] = addmap[d] /\ addmap[d] \in Nat /\ addmap[d] \in conn
          BY <1>2, <3>1, <4>2 DEF HInv, TypeOK, MapsAgree
        <5>2. owner'[addmap[d]] = owner[addmap[d]]
          BY <2>3, <3>1, <5>1 DEF HInv, ServerInv
        <5>. QED
          BY <3>1, <5>1, <5>2 DEF HInv, ServerInv
      <4>. QED
        BY <4>1, <4>2
    <3>2. \A k \in conn' : k < connCt'
      BY <1>2, <2>1 DEF HInv, TypeOK, ServerInv, ConnIds
    <3>3. \A r \in reads' : r[1] < connCt'
      <4>1. \A r \in reads : r[1] \in Nat /\ r[1] < connCt
        BY DEF HInv, TypeOK, ServerInv, ConnIds
      <4>. QED
        BY <1>1, <1>2, <2>1, <4>1
    <3>. QED
      BY <1>2, <3>1, <3>2, <3>3 DEF HInv, ServerInv
  <2>10. NetInv'
    <3>1. \A m \in net : m.type \in {"ack0", "data"} => MadeFor(m.id, m.peer)'
      <4>. SUFFICES ASSUME NEW m \in net, m.type \in {"ack0", "data"}
                    PROVE  MadeFor(m.id, m.peer)'
        OBVIOUS
      <4>1. m.id \in Nat \ {0}
        BY DEF HInv, TypeOK, Messages, ConnIds
      <4>. QED
        BY <2>3, <4>1 DEF HInv, NetInv, MadeFor
    <3>2. connCt < connCt' /\ owner'[connCt] = c
      BY <1>2, <2>1, <2>2
    <3>. QED
      BY <1>2, <3>1, <3>2 DEF NetInv, MadeFor, Welcome, Message
  <2>. QED
    BY <2>4, <2>5, <2>6, <2>7, <2>8, <2>9, <2>10 DEF HInv
<1>3. CASE /\ i \in pendconn
           /\ net' = net \cup {Message("ack0", c, i)}
           /\ UNCHANGED <<addmap, conn, owner, pendconn, connCt, ssilent>>
  <2>1. i \in ConnIds /\ i \in conn /\ i # 0
    BY <1>3 DEF HInv, TypeOK, MapsAgree, ConnIds
  <2>2. MadeFor(i, c)
    BY <2>1 DEF HInv, ServerInv, MadeFor
  <2>3. TypeOK'
    BY <1>1, <1>3, <2>1, MessageTypes DEF HInv, TypeOK, clientVars
  <2>4. NetInv'
    BY <1>1, <1>3, <2>2, ClientKept DEF HInv, NetInv, Message
  <2>. QED
    BY <1>1, <1>3, <2>3, <2>4, ClientKept
    DEF HInv, MapsAgree, OthersReadRight, ServerInv
<1>4. CASE /\ i \in conn \ pendconn
           /\ ssilent' = [ssilent EXCEPT ![i] = 0]
           /\ UNCHANGED <<addmap, conn, owner, pendconn, connCt, net>>
  <2>1. TypeOK' /\ ServerInv'
    BY <1>1, <1>4 DEF HInv, TypeOK, ServerInv, clientVars
  <2>2. NetInv'
    BY <1>1, <1>4, ClientKept DEF HInv, NetInv
  <2>. QED
    BY <1>1, <1>4, <2>1, <2>2, ClientKept DEF HInv, MapsAgree, OthersReadRight
<1>. QED
  BY <1>2, <1>3, <1>4 DEF ServerConnect

\* A keepalive keeps the invariant: its answer goes to the owner.
LEMMA OwnerIsMadeFor ==
  ASSUME HInv, NEW i \in conn
  PROVE  i \in ConnIds /\ owner[i] \in Addrs /\ MadeFor(i, owner[i])
  BY DEF HInv, TypeOK, ServerInv, MadeFor, ConnIds

\* An Ack 0 of a client the server knows: at most its silence is reset.
LEMMA ServerKeepaliveInv ==
  ASSUME HInv, NEW c \in Addrs, NEW i \in ConnIds, ServerKeepalive(c, i)
  PROVE  HInv'
<1>1. i \in conn /\ owner[i] \in Addrs /\ MadeFor(i, owner[i])
  BY OwnerIsMadeFor DEF ServerKeepalive
<1>2. TypeOK'
  <2>1. ssilent' \in [ConnIds -> 0 .. EpochLimit]
    BY DEF HInv, TypeOK, ServerKeepalive
  <2>2. net' \subseteq Messages
    BY <1>1, MessageTypes DEF HInv, TypeOK, ServerKeepalive
  <2>. QED
    BY <2>1, <2>2 DEF HInv, TypeOK, ServerKeepalive, clientVars
<1>3. MapsAgree' /\ OthersReadRight' /\ ServerInv'
  BY DEF HInv, TypeOK, MapsAgree, OthersReadRight, ServerInv, ServerKeepalive
<1>4. AdoptedId' /\ ClientInv'
  BY ClientKept DEF ServerKeepalive
<1>5. NetInv'
  BY <1>1, ClientKept DEF HInv, NetInv, ServerKeepalive, Message
<1>. QED
  BY <1>2, <1>3, <1>4, <1>5 DEF HInv

\* Data keeps the invariant: it names a connection that was made for its
\* sender, unless it names connection 1.
LEMMA ServerDataInv ==
  ASSUME HInv, NEW c \in Addrs, NEW i \in ConnIds, ServerData(c, i)
  PROVE  HInv'
<1>1. i \in conn /\ owner[i] \in Addrs /\ i < connCt
  BY OwnerIsMadeFor DEF HInv, ServerInv, ServerData
<1>2. MadeFor(i, c)
  BY DEF HInv, NetInv, ServerData, Message
<1>3. TypeOK'
  <2>1. ssilent' \in [ConnIds -> 0 .. EpochLimit]
    BY DEF HInv, TypeOK, ServerData
  <2>2. net' \subseteq Messages
    BY <1>1, MessageTypes DEF HInv, TypeOK, ServerData
  <2>3. reads' \subseteq ConnIds \X Addrs
    BY DEF HInv, TypeOK, ServerData
  <2>4. pendconn' \subseteq ConnIds /\ gotdata' \subseteq ConnIds
    BY DEF HInv, TypeOK, ServerData
  <2>. QED
    BY <2>1, <2>2, <2>3, <2>4 DEF HInv, TypeOK, ServerData, clientVars
<1>4. MapsAgree'
  BY DEF HInv, MapsAgree, ServerData
<1>5. OthersReadRight'
  BY <1>2 DEF HInv, OthersReadRight, MadeFor, ServerData
<1>6. ServerInv'
  BY <1>1 DEF HInv, TypeOK, ServerInv, ServerData
<1>7. AdoptedId' /\ ClientInv'
  BY ClientKept DEF ServerData
<1>8. NetInv'
  BY ClientKept DEF HInv, NetInv, ServerData, Message
<1>. QED
  BY <1>3, <1>4, <1>5, <1>6, <1>7, <1>8 DEF HInv

\* An epoch of the server keeps the invariant: what addmap forgets is what
\* conn drops.
LEMMA ServerEpochInv == ASSUME HInv, ServerEpoch PROVE HInv'
<1>. DEFINE dropped == {i \in conn : TooSilent(ssilent[i] + 1)}
            kept == conn \ dropped
<1>1. /\ conn' = kept /\ pendconn' = pendconn \ dropped
      /\ addmap' = Forgotten(dropped) /\ gotdata' = gotdata \ dropped
      /\ ssilent' = [i \in ConnIds |-> IF i \in kept THEN ssilent[i] + 1 ELSE 0]
      /\ net' = net
           \cup {Message("ack0", owner[i], RepeatedId(i)) :
                   i \in kept \cap pendconn}
           \cup {Message("dataAck", owner[i], i) :
                   i \in (kept \ pendconn) \cap gotdata}
      /\ UNCHANGED <<owner, connCt, reads, clientVars>>
  BY DEF ServerEpoch
<1>2. \A i \in conn : i \in ConnIds /\ owner[i] \in Addrs /\ i < connCt
  BY OwnerIsMadeFor DEF HInv, ServerInv
<1>3. \A i \in kept : ssilent[i] + 1 < EpochLimit
  BY <1>2 DEF TooSilent, HInv, TypeOK
<1>4. \A c \in Addrs :
        addmap'[c] = IF \E i \in dropped : owner[i] = c THEN 0 ELSE addmap[c]
  BY <1>1 DEF Forgotten
<1>5. \A c \in Addrs : addmap'[c] # 0 => addmap'[c] = addmap[c]
  BY <1>4
<1>6. TypeOK'
  <2>1. addmap' \in [Addrs -> 0 .. MaxConn]
    BY <1>1 DEF HInv, TypeOK, Forgotten
  <2>2. ssilent' \in [ConnIds -> 0 .. EpochLimit]
    <3>1. \A i \in kept : ssilent[i] + 1 \in 0 .. EpochLimit
      BY <1>2, <1>3 DEF HInv, TypeOK
    <3>. HIDE DEF kept
    <3>. QED
      BY <1>1, <3>1
  <2>3. net' \subseteq Messages
    <3>1. 1 \in ConnIds
      BY DEF ConnIds
    <3>2. \A i \in conn : /\ Message("ack0", owner[i], RepeatedId(i)) \in Messages
                          /\ Message("dataAck", owner[i], i) \in Messages
      BY <1>2, <3>1, MessageTypes DEF RepeatedId
    <3>. QED
      BY <1>1, <3>2 DEF HInv, TypeOK
  <2>4. conn' \subseteq ConnIds /\ pendconn' \subseteq ConnIds
        /\ gotdata' \subseteq ConnIds
    BY <1>1 DEF HInv, TypeOK
  <2>. QED
    BY <1>1, <2>1, <2>2, <2>3, <2>4 DEF HInv, TypeOK, clientVars
<1>7. MapsAgree'
  <2>1. \A i \in conn' : addmap'[owner'[i]] = i
    BY <1>1, <1>2, <1>4 DEF HInv, MapsAgree
  <2>2. ASSUME NEW c \in Addrs, addmap'[c] # 0 PROVE addmap'[c] \in conn'
    <3>1. addmap[c] \in conn /\ owner[addmap[c]] = c /\ addmap'[c] = addmap[c]
      BY <1>5, <2>2 DEF HInv, MapsAgree, ServerInv
    <3>2. addmap[c] \notin dropped
      BY <1>4, <2>2, <3>1
    <3>. QED
      BY <1>1, <3>1, <3>2
  <2>3. pendconn' \subseteq conn'
    BY <1>1 DEF HInv, MapsAgree
  <2>. QED
    BY <2>1, <2>2, <2>3 DEF MapsAgree
<1>8. OthersReadRight'
  BY <1>1 DEF HInv, OthersReadRight
<1>9. ServerInv'
  BY <1>1, <1>2, <1>3, <1>5 DEF HInv, ServerInv
<1>10. AdoptedId' /\ ClientInv'
  BY <1>1, ClientKept
<1>11. NetInv'
  BY <1>1, ClientKept DEF HInv, NetInv, RepeatedId, MadeFor, Message
<1>. QED
  BY <1>6, <1>7, <1>8, <1>9, <1>10, <1>11 DEF HInv
-----------------------------------------------------------------------------
\* A datagram lost, or a step that changes nothing, keeps the invariant.
LEMMA LoseInv == ASSUME HInv, NEW m, Lose(m) PROVE HInv'
<1>1. TypeOK'
  BY DEF HInv, TypeOK, Lose, clientVars, serverVars
<1>2. AdoptedId' /\ ClientInv'
  BY DEF HInv, AdoptedId, ClientInv, Lose, clientVars, serverVars
<1>3. NetInv'
  BY ServerKept DEF HInv, NetInv, Lose
<1>. QED
  BY <1>1, <1>2, <1>3, ServerKept DEF HInv, Lose

\* Steps that change nothing.
LEMMA StutterInv == ASSUME HInv, UNCHANGED vars PROVE HInv'
<1>1. TypeOK'
  BY DEF HInv, TypeOK, vars, clientVars, serverVars
<1>2. AdoptedId' /\ ClientInv'
  BY DEF HInv, AdoptedId, ClientInv, vars, clientVars, serverVars
<1>3. NetInv'
  BY ServerKept DEF HInv, NetInv, vars
<1>. QED
  BY <1>1, <1>2, <1>3, ServerKept DEF HInv, vars

\* Every step keeps the invariant.
LEMMA NextInv == ASSUME HInv, [Next]_vars PROVE HInv'
<1>1. ASSUME NEW c \in Addrs,
             NewClient(c) \/ NewClientReturns(c) \/ Write(c) \/ AskAgain(c)
               \/ ClientEpoch(c) \/ ServerConnect(c)
      PROVE  HInv'
  BY <1>1, NewClientInv, NewClientReturnsInv, WriteInv, AskAgainInv,
     ClientEpochInv, ServerConnectInv
<1>2. ASSUME NEW c \in Addrs, NEW i \in ConnIds,
             Established(c, i) \/ ServerAlive(c, i) \/ DataAcked(c, i)
               \/ ServerKeepalive(c, i) \/ ServerData(c, i)
      PROVE  HInv'
  BY <1>2, EstablishedInv, ServerAliveInv, DataAckedInv, ServerKeepaliveInv,
     ServerDataInv
<1>. QED
  BY <1>1, <1>2, ServerEpochInv, LoseInv, StutterInv DEF Next, Step

\* In every reachable state, with any losses, the invariant holds.
THEOREM Inductive == Safety => []HInv
  BY InitInv, NextInv, PTL DEF Safety

\* Types.
THEOREM TypeCorrect == Safety => []TypeOK
<1>1. HInv => TypeOK
  BY DEF HInv
<1>. QED
  BY Inductive, <1>1, PTL

\* The maps conn, addmap and pendconn name the same connections, so that
\* handleReceive never indexes conn with an ID it does not have.
THEOREM MapsAlwaysAgree == Safety => []MapsAgree
<1>1. HInv => MapsAgree
  BY DEF HInv
<1>. QED
  BY Inductive, <1>1, PTL

\* The only ID a client can take that was not made for it is 1.
THEOREM OnlyIdOneIsShared == Safety => []AdoptedId
<1>1. HInv => AdoptedId
  BY DEF HInv
<1>. QED
  BY Inductive, <1>1, PTL

\* What Read returns as from connection i # 1 was sent by i's client.
THEOREM OthersAlwaysReadRight == Safety => []OthersReadRight
<1>1. HInv => OthersReadRight
  BY DEF HInv
<1>. QED
  BY Inductive, <1>1, PTL
=============================================================================
