----------------------------- MODULE LspServer ------------------------------
(***************************************************************************)
(* The LSP server with several connections (lsp/server_impl.go): one       *)
(* handler goroutine, one Read for all connections, and the three ways a   *)
(* connection ends: loss, CloseConn and Close.                             *)
(*                                                                         *)
(* The clients are the environment.  Each connects once, by the protocol   *)
(* of Handshake; its datagrams may be late, repeated, reordered or lost,   *)
(* and it may fall silent for good.  One arrives only if LSP can have sent *)
(* it: the Ack of a message that was sent to it, a keepalive, or a message *)
(* inside its window (what SlidingWindow proves of either direction).      *)
(*                                                                         *)
(* The request channel is the number of sread and sclose packets in it.    *)
(* Nothing says when a datagram or an epoch is handled with respect to     *)
(* them, and Write and CloseConn wait for their answer, so that a call is  *)
(* one step.  The capacities of channels belong to LspClient.              *)
(*                                                                         *)
(* Each operator named after another with a suffix is a mistake the code   *)
(* does not make, used only to test a property.                            *)
(***************************************************************************)
EXTENDS Window, Sequences, FiniteSets

CONSTANTS Clients,      \* the clients that may connect, 1 .. some n
          EpochLimit,   \* Params.EpochLimit
          MaxPosted,    \* bound: no more sclose packets are posted, or
                        \* packets put in over, while so many wait
          MaxWrites,    \* bound: messages the application writes to each
          MaxData,      \* bound: messages each client sends
          MaxReads      \* bound: calls of Read

\* Connection IDs count from 1.
ASSUME ClientsAssumption == Clients \subseteq Nat \ {0}
ASSUME EpochLimitAssumption == EpochLimit \in Nat \ {0}
ASSUME BoundsAssumption ==
  MaxPosted \in Nat /\ MaxWrites \in Nat /\ MaxData \in Nat /\ MaxReads \in Nat

VARIABLES
  connect,      \* the Connect of each client, kept when it has left conn
  conn,         \* IDs in s.conn
  pendconn,     \* IDs in s.pendconn: no data of theirs came yet
  closepend,    \* IDs whose closepend is true
  closeack,     \* IDs whose closeack is true
  banclose,     \* IDs in s.banclose, closed by CloseConn
  ban,          \* ban[i]: what banclose[i] still sends again, and its silence
  connCt,       \* connCt: the next ID
  readclose,    \* readclose: Close was called
  sreads, scloses, \* packets in req
  reply,        \* answers to Read: <<ID, number>>, number 0 for a loss
  over,         \* packets in over
  \* The application and the clients.
  closing,      \* the application's Close: "no", "called", "done"
  reading,      \* the application is in Read, at <-reply
  results,      \* what Read returned, as in reply; <<0, 0>>: server closed
  dismissed,    \* the connections the application closed with CloseConn
  up            \* the clients that are still there

mapVars  == <<conn, pendconn, closepend, closeack>>
banVars  == <<banclose, ban, dismissed>>
appVars  == <<closing, readclose, reading, results>>
reqVars  == <<sreads, scloses>>
vars == <<connect, mapVars, banVars, connCt, reqVars, reply, over, appVars, up>>

\* NewConnection and handleReceive, Connect.
NewConnect == [seq |-> 1, sendct |-> 1, databuf |-> {}, writebuf |-> {},
               ack |-> 1, ackbuf |-> {}, readbuf |-> {}, readct |-> 1,
               silent |-> 0, losted |-> FALSE]

Init ==
  /\ connect = [i \in Clients |-> NewConnect]
  /\ conn = {} /\ pendconn = {} /\ closepend = {} /\ closeack = {}
  /\ banclose = {} /\ ban = [i \in Clients |-> [databuf |-> {}, silent |-> 0]]
  /\ connCt = 1 /\ readclose = FALSE
  /\ sreads = 0 /\ scloses = 0 /\ reply = <<>> /\ over = 0
  /\ closing = "no" /\ reading = FALSE /\ results = <<>> /\ dismissed = {}
  /\ up = Clients

\* An epoch makes it n epochs of silence.
TooSilent(n) == n >= EpochLimit

-----------------------------------------------------------------------------
(***************************************************************************)
(* Datagrams of client i.  None is read any more when Close has returned.  *)
(***************************************************************************)
Arrives(i) == i \in up /\ i < connCt /\ closing # "done"

\* Connect from a new address.
Connect(i) ==
  /\ i \in up /\ i = connCt /\ closing # "done"
  /\ connCt' = connCt + 1
  /\ conn' = conn \cup {i} /\ pendconn' = pendconn \cup {i}
  /\ UNCHANGED <<connect, closepend, closeack, banVars, reqVars, reply, over,
                 appVars, up>>

\* What Close, and CloseConn, still have to see acknowledged.
WaitingSent(c) == c.databuf
Waiting(c) == c.databuf \cup c.writebuf

\* Message n of client i: the first one establishes the connection; nothing
\* is read any more when Close waits for the connection.
Receive(i, n) ==
  /\ Arrives(i)
  /\ i \in conn \ closepend
  /\ LET c == connect[i]
         new == n \notin c.ackbuf
     IN  /\ n >= c.ack
         /\ 1 .. n - WindowSize \subseteq 1 .. c.readct - 1 \cup c.readbuf
         /\ connect' = [connect EXCEPT ![i] =
              [c EXCEPT !.silent = 0,
                        !.ack = AckFloor(c.ack, n),
                        !.ackbuf = KeptAcks(c.ack, c.ackbuf, n),
                        !.readbuf = IF new THEN @ \cup {n} ELSE @]]
         /\ sreads' = sreads + (IF new THEN 1 ELSE 0)
  /\ pendconn' = pendconn \ {i}
  /\ UNCHANGED <<conn, closepend, closeack, banVars, connCt, scloses, reply,
                 over, appVars, up>>

\* Any Ack, a keepalive included, makes the handler look whether Close still
\* has to wait for the connection.
AckToClose(i) ==
  /\ Arrives(i)
  /\ i \in closepend /\ Waiting(connect[i]) = {} /\ scloses < MaxPosted
  /\ closeack' = closeack \cup {i}
  /\ scloses' = scloses + 1
  /\ UNCHANGED <<connect, conn, pendconn, closepend, banVars, connCt, sreads,
                 reply, over, appVars, up>>

StillWaits(i) == i \in closepend => Waiting(connect[i]) # {}

\* Ack 0 of an established connection; that of a pending one is ignored.
Keepalive(i) ==
  /\ Arrives(i)
  /\ i \in conn \ pendconn /\ StillWaits(i)
  /\ connect' = [connect EXCEPT ![i].silent = 0]
  /\ UNCHANGED <<mapVars, banVars, connCt, reqVars, reply, over, appVars, up>>

\* The Ack of a message to client i, which establishes its connection, too.
Ack(i, n) ==
  /\ Arrives(i)
  /\ i \in conn /\ StillWaits(i)
  /\ LET c == connect[i]
     IN  /\ n \in 1 .. c.sendct - 1 \ c.writebuf
         /\ AckInWindow(c.seq, n)
         /\ \E s \in c.seq .. c.seq + WindowSize :
              /\ IF n = c.seq THEN NewBase(c.seq, c.databuf \ {n}, s)
                              ELSE s = c.seq
              /\ connect' = [connect EXCEPT ![i] =
                   [c EXCEPT !.silent = 0, !.seq = s,
                     !.databuf = (@ \ {n}) \cup Released(c.seq, s, c.writebuf),
                     !.writebuf = @ \ Released(c.seq, s, c.writebuf)]]
  /\ pendconn' = pendconn \ {i}
  /\ UNCHANGED <<conn, closepend, closeack, banVars, connCt, reqVars, reply,
                 over, appVars, up>>

\* Any Ack of a connection that CloseConn closed; 0 is a keepalive.
BanAck(i, n) ==
  /\ Arrives(i)
  /\ i \in banclose /\ n \in 0 .. connect[i].sendct - 1
  /\ ban' = [ban EXCEPT ![i] = [databuf |-> @.databuf \ {n}, silent |-> 0]]
  /\ banclose' = IF ban[i].databuf \ {n} = {} THEN banclose \ {i} ELSE banclose
  /\ UNCHANGED <<connect, mapVars, dismissed, connCt, reqVars, reply, over,
                 appVars, up>>

-----------------------------------------------------------------------------
(***************************************************************************)
(* handleEpoch.                                                            *)
(***************************************************************************)

\* The orders in which a map with the keys S may be walked.
Walks(S) == {w \in [1 .. Cardinality(S) -> S] :
               \A i, j \in DOMAIN w : w[i] = w[j] => i = j}

\* The lost connections that Close waits for: it is told that it need not.
ReportedNone(lost) == {}
Reported(lost) == lost \cap (closepend \cup (IF readclose THEN pendconn ELSE {}))

\* The others are forgotten: pending ones, and established ones with
\* handleclosecon, which has nothing to send to a lost client.
ForgottenPending(lost) == (lost \cap pendconn) \ Reported(lost)
Forgotten(lost) == lost \ Reported(lost)

StillPendingAll(gone) == pendconn
StillPending(gone) == pendconn \ gone

Epoch ==
  /\ closing # "done" /\ scloses < MaxPosted
  /\ LET lost == {i \in conn : TooSilent(connect[i].silent + 1)}
         gone == Forgotten(lost)
         given == {i \in banclose : TooSilent(ban[i].silent + 1)}
     IN  /\ conn \cup banclose # {}
         /\ connect' = [i \in Clients |->
              IF i \notin conn THEN connect[i] ELSE
              [connect[i] EXCEPT
                 !.silent = IF TooSilent(@) THEN @ ELSE @ + 1,
                 !.losted = @ \/ i \in lost \ pendconn]]
         /\ \E w \in Walks(lost \ pendconn) :
              reply' = reply \o [k \in DOMAIN w |-> <<w[k], 0>>]
         /\ closeack' = (closeack \cup Reported(lost)) \ gone
         /\ scloses' = scloses + Cardinality(Reported(lost))
         /\ conn' = conn \ gone /\ pendconn' = StillPending(gone)
         /\ closepend' = closepend \ gone
         /\ banclose' = banclose \ given
         /\ ban' = [i \in Clients |->
              IF i \in given THEN [databuf |-> {}, silent |-> 0]
              ELSE IF i \in banclose THEN [ban[i] EXCEPT !.silent = @ + 1]
              ELSE ban[i]]
  /\ UNCHANGED <<dismissed, connCt, sreads, over, appVars, up>>

-----------------------------------------------------------------------------
(***************************************************************************)
(* The packets sread and sclose.                                           *)
(***************************************************************************)
Ready(i) == i \notin pendconn /\ connect[i].readct \in connect[i].readbuf

\* The walk over conn comes to its end without a message.
NothingReadyFirst == conn = {} \/ \E i \in conn : ~ Ready(i)
NothingReady == \A i \in conn : ~ Ready(i)

\* sread: one connection that has its next message hands it to Read.
Sread ==
  /\ sreads > 0 /\ sreads' = sreads - 1
  /\ \/ /\ NothingReady
        /\ UNCHANGED <<connect, reply>>
     \/ \E i \in conn :
          /\ Ready(i)
          /\ reply' = Append(reply, <<i, connect[i].readct>>)
          /\ connect' = [connect EXCEPT ![i].readct = @ + 1,
                           ![i].readbuf = @ \ {connect[i].readct}]
  /\ UNCHANGED <<mapVars, banVars, connCt, scloses, over, appVars, up>>

\* sclose: banclose is emptied, Close waits for every established connection
\* that is not lost, and for a pending one if both its buffers hold messages;
\* it forgets those it need not wait for any more: all, or those the walk
\* meets before one that it still waits for.
Sclose ==
  /\ scloses > 0 /\ scloses' = scloses - 1 /\ over < MaxPosted
  /\ banclose' = {}
  /\ LET estab  == conn \ pendconn
         lost   == {i \in estab : connect[i].losted}
         full   == {i \in conn \cap pendconn :
                      connect[i].databuf # {} /\ connect[i].writebuf # {}}
         waited == (closepend \cup estab \cup full) \ lost
         still  == waited \ closeack
     IN \E done \in SUBSET (waited \cap closeack) :
          /\ still = {} => done = waited
          /\ conn' = conn \ (lost \cup done)
          /\ closepend' = waited \ done
          /\ closeack' = closeack \ (lost \cup done)
          /\ over' = over + (IF still = {} THEN 1 ELSE 0)
  /\ UNCHANGED <<connect, pendconn, ban, dismissed, connCt, sreads, reply,
                 appVars, up>>

-----------------------------------------------------------------------------
(***************************************************************************)
(* The application.  Once it has called Close it calls nothing; a Read may *)
(* already be under way.                                                   *)
(***************************************************************************)
Write(i) ==
  /\ closing = "no" /\ i \in conn
  /\ LET c == connect[i]
     IN  /\ c.sendct <= MaxWrites
         /\ connect' = [connect EXCEPT ![i] =
              IF InWindow(c.seq, c.sendct)
                THEN [c EXCEPT !.sendct = @ + 1, !.databuf = @ \cup {c.sendct}]
                ELSE [c EXCEPT !.sendct = @ + 1, !.writebuf = @ \cup {c.sendct}]]
  /\ UNCHANGED <<mapVars, banVars, connCt, reqVars, reply, over, appVars, up>>

\* CloseConn: an established connection leaves conn and what waits for an Ack,
\* or for the window, moves to banclose (handleclosecon); a pending one is
\* forgotten with what was written to it.
CloseConn(i) ==
  /\ closing = "no" /\ i \in conn
  /\ IF i \in pendconn
       THEN UNCHANGED <<banclose, ban, closepend, closeack>>
       ELSE /\ ban' = [ban EXCEPT ![i] =
                        [databuf |-> Waiting(connect[i]), silent |-> 0]]
            /\ banclose' = banclose \cup {i}
            /\ closepend' = closepend \ {i} /\ closeack' = closeack \ {i}
  /\ conn' = conn \ {i} /\ pendconn' = pendconn \ {i}
  /\ dismissed' = dismissed \cup {i}
  /\ UNCHANGED <<connect, connCt, reqVars, reply, over, appVars, up>>

Close ==
  /\ closing = "no" /\ closing' = "called"
  /\ readclose' = TRUE
  /\ scloses' = scloses + 1
  /\ UNCHANGED <<connect, mapVars, banVars, connCt, sreads, reply, over,
                 reading, results, up>>

CloseReturns ==
  /\ closing = "called" /\ over > 0
  /\ closing' = "done" /\ over' = over - 1
  /\ UNCHANGED <<connect, mapVars, banVars, connCt, reqVars, reply, readclose,
                 reading, results, up>>

Read ==
  /\ ~ reading /\ closing # "done" /\ Len(results) < MaxReads
  /\ IF readclose
       THEN results' = Append(results, <<0, 0>>) /\ UNCHANGED <<reading, sreads>>
       ELSE reading' = TRUE /\ sreads' = sreads + 1 /\ UNCHANGED results
  /\ UNCHANGED <<connect, mapVars, banVars, connCt, scloses, reply, over,
                 closing, readclose, up>>

ReadReturns ==
  /\ reading /\ reply # <<>>
  /\ reading' = FALSE
  /\ results' = Append(results, Head(reply))
  /\ reply' = Tail(reply)
  /\ UNCHANGED <<connect, mapVars, banVars, connCt, reqVars, over, closing,
                 readclose, up>>

\* Client i, or the way to it, is gone for good.
ClientStops(i) ==
  /\ i \in up /\ up' = up \ {i}
  /\ UNCHANGED <<connect, mapVars, banVars, connCt, reqVars, reply, over,
                 appVars>>

-----------------------------------------------------------------------------
Step ==
  \/ \E i \in Clients :
       \/ Connect(i) \/ AckToClose(i) \/ Keepalive(i) \/ ClientStops(i)
       \/ \E n \in 1 .. MaxData : Receive(i, n)
       \/ \E n \in 1 .. MaxWrites : Ack(i, n)
       \/ \E n \in 0 .. MaxWrites : BanAck(i, n)
  \/ Epoch \/ Sread \/ Sclose
  \/ Close \/ CloseReturns \/ Read \/ ReadReturns

\* The application writes to the connections whose ID Read gave it ...
Known == {results[k][1] : k \in DOMAIN results}

Next == Step \/ \E i \in Clients : i \in Known /\ (Write(i) \/ CloseConn(i))

Safety == Init /\ [][Next]_vars

\* ... or, as the server of lsp4_test.go, to any connection there is.
NextAnyId == Step \/ \E i \in Clients : Write(i) \/ CloseConn(i)

SafetyAnyId == Init /\ [][NextAnyId]_vars

(***************************************************************************)
(* The handler runs, the ticker ticks, a client that is there gets         *)
(* everything through in the end that it sends again every epoch, and      *)
(* Close takes what over holds.  The application has to call nothing.      *)
(***************************************************************************)
Fairness ==
  /\ SF_vars(Epoch) /\ WF_vars(Sread) /\ WF_vars(Sclose)
  /\ WF_vars(CloseReturns) /\ WF_vars(ReadReturns)
  /\ \A i \in Clients : /\ SF_vars(AckToClose(i) \/ Keepalive(i))
                         /\ \A n \in 1 .. MaxWrites : SF_vars(Ack(i, n))

Spec == Safety /\ Fairness

\* The application keeps reading, too.
ReaderSpec == Spec /\ WF_vars(Read)
-----------------------------------------------------------------------------
Numbers == 1 .. MaxWrites
Received == 1 .. MaxData

TypeOK ==
  /\ connect \in [Clients ->
       [seq : 1 .. MaxWrites + WindowSize, sendct : 1 .. MaxWrites + 1,
        databuf : SUBSET Numbers, writebuf : SUBSET Numbers,
        ack : 1 .. MaxData + 1, ackbuf : SUBSET Received,
        readbuf : SUBSET Received, readct : 1 .. MaxData + 1,
        silent : 0 .. EpochLimit, losted : BOOLEAN]]
  /\ conn \subseteq Clients /\ pendconn \subseteq Clients
  /\ closepend \subseteq Clients /\ closeack \subseteq Clients
  /\ banclose \subseteq Clients /\ dismissed \subseteq Clients
  /\ ban \in [Clients -> [databuf : SUBSET Numbers, silent : 0 .. EpochLimit]]
  /\ connCt \in Nat /\ readclose \in BOOLEAN
  /\ sreads \in Nat /\ scloses \in Nat /\ over \in 0 .. MaxPosted
  /\ reply \in Seq(Clients \X (0 .. MaxData))
  /\ closing \in {"no", "called", "done"} /\ reading \in BOOLEAN
  /\ results \in Seq((Clients \cup {0}) \X (0 .. MaxData))
  /\ up \subseteq Clients

\* handleReceive and handleEpoch use the connection of an ID they found in
\* pendconn or closepend: it must be in conn, or a nil Connect is used.
NoNilConnect == pendconn \cup closepend \subseteq conn

\* server_api.go: Close blocks "until all pending messages for each client
\* are sent and acknowledged", lost clients apart, and apart from connections
\* closed by CloseConn, whose messages it throws away (CloseConnAcked).
CloseWaitsForAcks ==
  closing = "done" =>
    \A i \in Clients \ dismissed :
      connect[i].losted \/ connect[i].databuf \cup connect[i].writebuf = {}

\* A Read that waits while some connection has its next message will be
\* woken, whichever connections the sread packets were used up on.
NoLostWakeup ==
  (reading /\ reply = <<>> /\ \E i \in conn : Ready(i)) => sreads > 0

\* Read returns the messages of each client in order from the first one, and
\* no more of them after its loss: what it returned of client i before message
\* n are the messages 1 to n - 1, and no loss.
ReadsInOrder ==
  \A k \in DOMAIN results :
    LET i == results[k][1]
        n == results[k][2]
    IN  n # 0 =>
          /\ \A j \in 1 .. k - 1 :
               results[j][1] = i => results[j][2] \in 1 .. n - 1
          /\ \A m \in 1 .. n - 1 : \E j \in 1 .. k - 1 : results[j] = <<i, m>>

\* Read reports the loss of a client once, until Close is called.
LossReportedOnce ==
  closing = "no" =>
    \A i \in Clients :
      Cardinality({k \in DOMAIN results : results[k] = <<i, 0>>}) <= 1

\* While Close waits and no sclose packet is posted, some connection is still
\* to acknowledge or to be found lost, and will bring the next packet:
\* wherever the walk of the last one stopped, whoever was lost since.
CloseNotForgotten ==
  (closing = "called" /\ scloses = 0 /\ over = 0) => closepend \ closeack # {}

\* Close returns: every client acknowledges everything or is found lost.
CloseEnds == closing = "called" ~> closing = "done"

\* server_api.go: Read returns an error if "the server has been closed".
ReadReturnsAfterClose ==
  (reading /\ closing = "no") ~> (~ reading \/ [](closing # "done"))

\* server_api.go: Read returns an error and the ID if "the connection to some
\* client has been explicitly closed".
CloseConnReported ==
  \A i \in Clients :
    i \in banclose ~> \/ \E k \in DOMAIN results : results[k] = <<i, 0>>
                      \/ Len(results) = MaxReads \/ readclose

\* server_api.go: Read reports a loss when "no other messages from that
\* client are waiting to be returned".
LossReportedLast ==
  \A k \in DOMAIN results :
    LET i == results[k][1] IN results[k][2] = 0 /\ i # 0 => ~ Ready(i)

\* server_api.go: CloseConn's "pending messages to the client should be sent
\* and acknowledged", and Close blocks until those of each client are.
CloseConnAcked == closing = "done" => \A i \in Clients : ban[i].databuf = {}
=============================================================================
