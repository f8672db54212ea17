----------------------------- MODULE CloseConn ------------------------------
(***************************************************************************)
(* What Server.CloseConn does to the messages that are under way           *)
(* (lsp/server_impl.go): SlidingWindow with the server as the sender,      *)
(* which closes the connection at some point: it leaves conn, what was     *)
(* not acknowledged moves to banclose and is sent again every epoch,       *)
(* without a window, until it is acknowledged or the client is silent for  *)
(* EpochLimit epochs.                                                      *)
(*                                                                         *)
(* The client's end (lsp/client_impl.go) counts silence, too, and is not   *)
(* told: the server answers the keepalives of a closed connection no more, *)
(* so that the client hears what banclose sends and nothing else, declares *)
(* the loss in the end, and drops what Read has not taken by then.         *)
(*                                                                         *)
(* Each operator named after another with a suffix is a mistake the code   *)
(* does not make, used only to test a property.                            *)
(***************************************************************************)
EXTENDS SlidingWindow

CONSTANT EpochLimit     \* Params.EpochLimit

ASSUME EpochLimitAssumption == EpochLimit \in Nat \ {0}

VARIABLES
  closed,       \* CloseConn was called
  ban,          \* banclose[id].databuf: numbers it still sends again
  silent,       \* banclose[id].rece - banclose[id].lastEpo
  unheard       \* the client's conn.receive - conn.lastrece

banVars == <<closed, ban, silent>>
allVars == <<vars, banVars, unheard>>

InitOpen == Init /\ closed = FALSE /\ ban = {} /\ silent = 0 /\ unheard = 0

\* The entry of banclose was deleted for its client's silence.
GivenUp == silent >= EpochLimit

\* The client's end declared the loss: its handler is gone.
Lost == unheard >= EpochLimit

\* handleclosecon: what moves to banclose.
PendingSent == databuf
Pending == databuf \cup writebuf

\* CloseConn: what waited in writebuf is sent at once.
ServerCloseConn ==
  /\ ~ closed /\ closed' = TRUE
  /\ ban' = Pending
  /\ dataNet' = dataNet \cup writebuf
  /\ databuf' = {} /\ writebuf' = {}
  /\ UNCHANGED <<seq, sendct, written, windowVars, readVars, ackNet, silent,
                 unheard>>

\* handleEpoch: one more epoch of silence, the last one or one that sends
\* everything again.
BanEpochNothing ==
  /\ closed /\ ban # {} /\ ~ GivenUp
  /\ silent' = silent + 1
  /\ UNCHANGED <<vars, closed, ban, unheard>>
BanEpoch ==
  /\ closed /\ ban # {} /\ ~ GivenUp
  /\ silent' = silent + 1
  /\ dataNet' = IF silent + 1 >= EpochLimit THEN dataNet ELSE dataNet \cup ban
  /\ UNCHANGED <<senderVars, windowVars, readVars, ackNet, closed, ban,
                 unheard>>

\* handleReceive, an Ack of a connection in banclose: n, or 0, a keepalive,
\* which the client sends every epoch.
BanUnacked(n) == ban \ {n}

BanAck(n) ==
  /\ closed /\ ban # {} /\ ~ GivenUp
  /\ n \in ackNet \cup {0}
  /\ ban' = BanUnacked(n)
  /\ silent' = 0
  /\ UNCHANGED <<vars, closed, unheard>>

\* The client's handleEpoch: one more epoch of silence, the last one or one
\* that sends its Acks again.
ClientEpoch ==
  /\ ~ Lost
  /\ unheard' = unheard + 1
  /\ IF unheard + 1 >= EpochLimit THEN UNCHANGED vars ELSE ReceiverEpoch
  /\ UNCHANGED banVars

\* Its handleReceive: a message not below ack, or an answer to a keepalive.
\* The server gives answers until CloseConn; one may come later, or again, or
\* none may come any more.
ClientRecvData(n) ==
  /\ ~ Lost /\ RecvData(n)
  /\ unheard' = 0
  /\ UNCHANGED banVars

ClientRecvAnswer ==
  /\ ~ Lost
  /\ unheard' = 0
  /\ UNCHANGED <<vars, banVars>>

\* A Read under way returns what it was handed before the loss.
ClientRead ==
  /\ (~ Lost /\ (Sread \/ ReadCall)) \/ ReadReturn
  /\ UNCHANGED <<banVars, unheard>>

NextClosing ==
  \/ ~ closed /\ Sender /\ UNCHANGED <<banVars, unheard>>
  \/ Network /\ UNCHANGED <<banVars, unheard>>
  \/ ServerCloseConn
  \/ BanEpoch
  \/ \E n \in Seqs \cup {0} : BanAck(n)
  \/ \E n \in Seqs : ClientRecvData(n)
  \/ ClientEpoch \/ ClientRecvAnswer \/ ClientRead

SafetyClosing == InitOpen /\ [][NextClosing]_allVars

(***************************************************************************)
(* The server's ticker ticks, and what is sent again every epoch gets      *)
(* through in the end to a client that still listens.  The keepalives and  *)
(* their answers may or may not, and nobody has to read.                   *)
(***************************************************************************)
FairClosing ==
  /\ WF_allVars(BanEpoch)
  /\ \A n \in Seqs : SF_allVars(ClientRecvData(n))

SpecClosing == SafetyClosing /\ FairClosing
-----------------------------------------------------------------------------
\* No message is forgotten that the client does not have, unless the client
\* was silent: CloseConn takes what waits for the window, too, and an Ack
\* that comes late, twice or out of order stands for its message alone.
NothingForgotten ==
  \/ GivenUp
  \/ \A n \in 1 .. sendct - 1 : n \in databuf \cup writebuf \cup ban \cup Received

\* If nothing waited for the window when the connection was closed, the
\* client's end receives everything, unless one end found the other silent.
\* Whether its application reads it in time is another matter: the client's
\* loss, when nothing is sent to it any more, drops what is in readbuf then.
ReceivesInWindow ==
  (closed /\ sendct <= seq + WindowSize)
    ~> (GivenUp \/ Lost \/ 1 .. sendct - 1 \subseteq Received)

\* server_api.go on CloseConn: "All pending messages to the client should be
\* sent and acknowledged": the client must still acknowledge, when it gets
\* it, what banclose sends again.
BanAccepted == \A n \in ban : n >= ack
=============================================================================
