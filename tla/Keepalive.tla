----------------------------- MODULE Keepalive ------------------------------
(***************************************************************************)
(* What the keepalives of lsp/client_impl.go are for: while they reach the *)
(* server (lsp/server_impl.go) in time, the connection is not declared     *)
(* lost.  Handshake, with a variable that keeps what reached the server.   *)
(*                                                                         *)
(* quiet[i] counts the server's epochs since a datagram of connection i    *)
(* reached its handler, whatever the handler did with it (EpochLimit       *)
(* stands for more).                                                       *)
(***************************************************************************)
EXTENDS Handshake

VARIABLE quiet

heardVars == <<vars, quiet>>

InitHeard == Init /\ quiet = [i \in ConnIds |-> 0]

\* A keepalive of a pending connection reaches the handler, which ignores it.
KeepaliveIgnored(c, i) ==
  /\ Message("keepalive", c, i) \in net
  /\ i \in conn \cap pendconn
  /\ UNCHANGED vars

CountedEpoch ==
  /\ ServerEpoch
  /\ quiet' = [i \in ConnIds |-> IF i \in conn /\ quiet[i] < EpochLimit
                                   THEN quiet[i] + 1 ELSE quiet[i]]

HeardFrom(c, i) ==
  /\ ServerKeepalive(c, i) \/ KeepaliveIgnored(c, i) \/ ServerData(c, i)
  /\ quiet' = [quiet EXCEPT ![i] = 0]

ClientStep ==
  \/ \E c \in Addrs : \/ NewClient(c) \/ NewClientReturns(c) \/ Write(c)
                      \/ AskAgain(c) \/ ClientEpoch(c)
  \/ \E c \in Addrs, i \in ConnIds : \/ Established(c, i) \/ ServerAlive(c, i)
                                     \/ DataAcked(c, i)

NextHeard ==
  \/ (ClientStep \/ \E c \in Addrs : ServerConnect(c)) /\ UNCHANGED quiet
  \/ \E c \in Addrs, i \in ConnIds : HeardFrom(c, i)
  \/ CountedEpoch

SafetyHeard == InitHeard /\ [][NextHeard]_heardVars
-----------------------------------------------------------------------------
\* The client of connection i has it, too, is there, and was heard in time.
Alive(i) == /\ phase[owner[i]] = "up" /\ conId[owner[i]] = i
            /\ quiet[i] + 1 < EpochLimit

\* The server does not declare the connection of a client lost that is alive
\* and has sent data: each keepalive counts, also after epochs in which the
\* connection was pending.
EstablishedKept ==
  [][\A i \in conn \ pendconn : Alive(i) => i \in conn']_heardVars

\* client_impl.go: every epoch the client sends something "to keep
\* connection": the server keeps the connection of a client that is alive.
LiveClientKept == [][\A i \in conn : Alive(i) => i \in conn']_heardVars
=============================================================================
