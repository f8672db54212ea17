----------------------------- MODULE LspClient ------------------------------
(***************************************************************************)
(* One established LSP client (lsp/client_impl.go): its handler goroutine, *)
(* the channels the handler shares with the application's goroutines, and  *)
(* the two ways a connection ends, Close and loss.                         *)
(*                                                                         *)
(* The application is one goroutine that writes and then closes, and one   *)
(* that reads.  The server is the environment: its datagrams may arrive in *)
(* any order, late, twice or not at all, and it may fall silent for good.  *)
(* A datagram arrives only if LSP can have sent it: the Ack of a message   *)
(* that was sent, a keepalive, or a message inside the server's window     *)
(* (what SlidingWindow proves of either direction).                        *)
(*                                                                         *)
(* The handler blocks when it puts a packet on a channel that is full, so  *)
(* its operations on channels are steps of their own: todo holds those it  *)
(* still has to do for the packet it took.                                 *)
(*                                                                         *)
(* Each operator named after another with a suffix is a mistake the code   *)
(* does not make, used only to test a property.                            *)
(***************************************************************************)
EXTENDS Window, Sequences, FiniteSets

CONSTANTS EpochLimit,   \* Params.EpochLimit
          ReqCap,       \* capacity of req (1000 in the code)
          ReplyCap,     \* capacity of replyread (100)
          OverCap,      \* capacity of over (1000)
          MaxWaiting,   \* bound: epochs and datagrams come to a shorter req
          MaxWrites,    \* bound: messages the application writes
          MaxData,      \* bound: messages the server sends
          MaxReads      \* bound: calls of Read

ASSUME BoundsAssumption == MaxData \in Nat

VARIABLES
  \* The channels.
  req,          \* packets for the handler
  replyread,    \* answers to Read: the number of a message, 0 for the loss
  over,         \* number of packets in over
  exit,         \* number of values in exit
  \* The handler.
  pc,           \* "top": about to test exit; "take": at <-req; "gone"
  todo,         \* channel operations left for the packet it took
  seq, sendct, databuf, writebuf,       \* its send window
  ack, ackbuf, readbuf, readct,         \* its receive window
  silent,       \* conn.receive - conn.lastrece
  losted,       \* conn.losted
  closepend,    \* closepend
  closeack,     \* closeack
  shut,         \* a Close got its packet from over: socket and timer are
                \* stopped and conn.estab is false
  \* The application and the server.
  closing,      \* the application's Close: "no", "called", "done"
  reading,      \* the application is in Read, at <-replyread
  results,      \* what Read returned: numbers of messages, 0 for an error
  serverUp      \* the server is still there

sendVars    == <<seq, sendct, databuf, writebuf>>
recvVars    == <<ack, ackbuf, readbuf, readct>>
endVars     == <<losted, closepend, closeack, shut>>
appVars     == <<closing, reading, results>>
channelVars == <<replyread, over, exit>>
vars == <<req, channelVars, pc, todo, sendVars, recvVars, silent, endVars,
          appVars, serverUp>>

Packet(kind, n) == <<kind, n>>
cread  == Packet("cread", 0)
cclose == Packet("cclose", 0)
cwrite == Packet("cwrite", 0)
timer  == Packet("timer", 0)

\* Connection established: NewClient has returned, seq is 1.
Init ==
  /\ req = <<>> /\ replyread = <<>> /\ over = 0 /\ exit = 0
  /\ pc = "take" /\ todo = <<>>
  /\ seq = 1 /\ sendct = 1 /\ databuf = {} /\ writebuf = {}
  /\ ack = 1 /\ ackbuf = {} /\ readbuf = {} /\ readct = 1
  /\ silent = 0
  /\ losted = FALSE /\ closepend = FALSE /\ closeack = FALSE /\ shut = FALSE
  /\ closing = "no" /\ reading = FALSE /\ results = <<>>
  /\ serverUp = TRUE

-----------------------------------------------------------------------------
(***************************************************************************)
(* The handler.  A pass tests exit, takes a packet and handles it.         *)
(***************************************************************************)
Top ==
  /\ pc = "top" /\ todo = <<>>
  /\ IF exit > 0 THEN pc' = "gone" /\ exit' = exit - 1
                 ELSE pc' = "take" /\ UNCHANGED exit
  /\ UNCHANGED <<req, replyread, over, todo, sendVars, recvVars, silent,
                 endVars, appVars, serverUp>>

\* The handler takes p.
Take(p) ==
  /\ pc = "take"
  /\ req # <<>> /\ Head(req) = p
  /\ req' = Tail(req)
  /\ pc' = "top"
  /\ UNCHANGED <<channelVars, appVars, serverUp>>

\* cread: the next message in order, if it is there, goes to Read.
HandleRead ==
  /\ Take(cread)
  /\ IF readct \in readbuf
       THEN /\ readbuf' = readbuf \ {readct}
            /\ readct' = readct + 1
            /\ todo' = <<Packet("reply", readct)>>
       ELSE UNCHANGED <<readbuf, readct, todo>>
  /\ UNCHANGED <<ack, ackbuf, sendVars, silent, endVars>>

\* handleWrite.
HandleWrite ==
  /\ Take(cwrite)
  /\ IF InWindow(seq, sendct)
       THEN databuf' = databuf \cup {sendct} /\ UNCHANGED writebuf
       ELSE writebuf' = writebuf \cup {sendct} /\ UNCHANGED databuf
  /\ sendct' = sendct + 1
  /\ UNCHANGED <<seq, todo, recvVars, silent, endVars>>

\* cclose: Close may return when everything was acknowledged or the
\* connection is lost.
HandleClose ==
  /\ Take(cclose)
  /\ IF shut
       THEN UNCHANGED <<closepend, todo>>
       ELSE /\ closepend' = TRUE
            /\ todo' = IF losted \/ closeack THEN <<Packet("over", 0)>>
                                             ELSE <<>>
  /\ UNCHANGED <<losted, closeack, shut, sendVars, recvVars, silent>>

\* What the loss of the connection obliges the handler to do: it answers one
\* Read; if Close waits, it reports that to itself; if not, it puts a packet
\* on over and calls Close itself, which posts cclose and takes from over.
LossReported == <<Packet("reply", 0), cclose>>
LossCloses == <<Packet("reply", 0), Packet("over", 0), cclose,
                Packet("shut", 0)>>
OnLossAlwaysCloses == LossCloses
OnLossStays == <<Packet("reply", 0)>>
OnLossUnheard == IF closepend THEN <<cclose>> ELSE Tail(LossCloses)
OnLoss == IF closepend THEN LossReported ELSE LossCloses

\* handleEpoch: another epoch of silence, which may be the last one.  (That
\* it sends databuf and ackbuf again is what lets their Acks arrive.)
HandleEpoch ==
  /\ Take(timer)
  /\ IF silent + 1 >= EpochLimit
       THEN /\ silent' = EpochLimit
            /\ losted' = TRUE
            /\ closeack' = (closeack \/ closepend)
            /\ todo' = OnLoss
       ELSE /\ silent' = silent + 1
            /\ UNCHANGED <<losted, closeack, todo>>
  /\ UNCHANGED <<closepend, shut, sendVars, recvVars>>

\* Close has to wait for what is not acknowledged, sent or not.
AllAckedSent == databuf = {}
AllAcked == databuf = {} /\ writebuf = {}

\* handleReceive while Close waits: any datagram makes it look whether
\* Close may return.  Data is ignored from then on.
HandleReceiveDone(p) ==
  /\ Take(p)
  /\ closepend /\ (AllAcked \/ losted)
  /\ closeack' = TRUE
  /\ todo' = <<cclose>>
  /\ UNCHANGED <<losted, closepend, shut, sendVars, recvVars, silent>>

\* handleReceive, the Ack of message n, or the server's keepalive (n = 0).
HandleAck(n) ==
  /\ Take(Packet("ack", n))
  /\ ~ (closepend /\ (AllAcked \/ losted))
  /\ \/ /\ n = 0
        /\ silent' = IF shut THEN silent ELSE 0
        /\ UNCHANGED sendVars
     \/ /\ n > 0 /\ ~ AckInWindow(seq, n)
        /\ UNCHANGED <<silent, sendVars>>
     \/ /\ n > 0 /\ AckInWindow(seq, n) /\ n # seq
        /\ silent' = 0
        /\ databuf' = databuf \ {n}
        /\ UNCHANGED <<seq, sendct, writebuf>>
     \/ /\ n > 0 /\ n = seq
        /\ silent' = 0
        /\ \E s \in seq + 1 .. seq + WindowSize :
             /\ NewBase(seq, databuf \ {n}, s)
             /\ seq' = s
             /\ databuf' = (databuf \ {n}) \cup Released(seq, s, writebuf)
             /\ writebuf' = writebuf \ Released(seq, s, writebuf)
        /\ UNCHANGED sendct
  /\ UNCHANGED <<todo, recvVars, endVars>>

\* New data is followed by a cread packet, which the handler posts to itself.
WakeNot == <<>>
Wake == <<cread>>

\* handleReceive, message n.
HandleData(n) ==
  /\ Take(Packet("data", n))
  /\ ~ (closepend /\ (AllAcked \/ losted))
  /\ IF ~ closepend /\ n >= ack /\ ~ losted /\ ~ shut
       THEN /\ silent' = 0
            /\ ack' = AckFloor(ack, n)
            /\ ackbuf' = KeptAcks(ack, ackbuf, n)
            /\ readbuf' = IF n \in ackbuf THEN readbuf ELSE readbuf \cup {n}
            /\ todo' = IF n \in ackbuf THEN <<>> ELSE Wake
            /\ UNCHANGED readct
       ELSE UNCHANGED <<silent, recvVars, todo>>
  /\ UNCHANGED <<sendVars, endVars>>

\* Close, once it has its packet from over: the socket is closed, the timer
\* and the handler get their exit values, estab is false.
Shut == shut' = TRUE /\ exit' = exit + 1

\* The next operation on a channel; it waits when the channel is full, or
\* empty.
Channel ==
  /\ todo # <<>>
  /\ todo' = Tail(todo)
  /\ LET p == Head(todo)
     IN \/ /\ p \in {cread, cclose} /\ Len(req) < ReqCap
           /\ req' = Append(req, p)
           /\ UNCHANGED <<channelVars, shut>>
        \/ /\ p[1] = "reply" /\ Len(replyread) < ReplyCap
           /\ replyread' = Append(replyread, p[2])
           /\ UNCHANGED <<req, over, exit, shut>>
        \/ /\ p[1] = "over" /\ over < OverCap
           /\ over' = over + 1
           /\ UNCHANGED <<req, replyread, exit, shut>>
        \/ /\ p[1] = "shut" /\ over > 0
           /\ over' = over - 1
           /\ Shut
           /\ UNCHANGED <<req, replyread>>
  /\ UNCHANGED <<pc, sendVars, recvVars, silent, losted, closepend, closeack,
                 appVars, serverUp>>

-----------------------------------------------------------------------------
(***************************************************************************)
(* Those who post to req.                                                  *)
(***************************************************************************)
Post(p) ==
  /\ req' = Append(req, p)
  /\ UNCHANGED <<pc, todo, sendVars, recvVars, silent, losted, closepend,
                 closeack>>

\* The timer goroutine.
Tick ==
  /\ ~ shut /\ Len(req) < MaxWaiting
  /\ Post(timer)
  /\ UNCHANGED <<channelVars, shut, appVars, serverUp>>

\* The datagrams that the server can have sent.
Sent == 1 .. sendct - 1 \ writebuf
Got  == 1 .. readct - 1 \cup readbuf
Arriving ==
  {Packet("ack", n) : n \in Sent \cup {0}}
  \cup {Packet("data", n) : n \in {m \in 1 .. MaxData :
                                     1 .. m - WindowSize \subseteq Got}}

\* connectHandler passes a datagram on.
Receive(p) ==
  /\ serverUp /\ ~ shut /\ Len(req) < MaxWaiting
  /\ p \in Arriving
  /\ Post(p)
  /\ UNCHANGED <<channelVars, shut, appVars, serverUp>>

\* The server, or the way to it, is gone for good.
ServerStops ==
  /\ serverUp /\ serverUp' = FALSE
  /\ UNCHANGED <<req, channelVars, pc, todo, sendVars, recvVars, silent,
                 endVars, appVars>>

Written == sendct - 1 + Cardinality({i \in DOMAIN req : req[i] = cwrite})

Write ==
  /\ closing = "no" /\ Written < MaxWrites /\ Len(req) < ReqCap
  /\ Post(cwrite)
  /\ UNCHANGED <<channelVars, shut, appVars, serverUp>>

Close ==
  /\ closing = "no" /\ Len(req) < ReqCap
  /\ closing' = "called"
  /\ Post(cclose)
  /\ UNCHANGED <<channelVars, shut, reading, results, serverUp>>

CloseReturns ==
  /\ closing = "called" /\ over > 0
  /\ closing' = "done"
  /\ over' = over - 1
  /\ Shut
  /\ UNCHANGED <<req, replyread, pc, todo, sendVars, recvVars, silent, losted,
                 closepend, closeack, reading, results, serverUp>>

\* Read gives up at once when closepend is set, and otherwise posts cread.
Read ==
  /\ ~ reading /\ closing # "done" /\ Len(results) < MaxReads
  /\ \/ /\ closepend
        /\ results' = Append(results, 0)
        /\ UNCHANGED <<req, pc, todo, sendVars, recvVars, silent, losted,
                       closepend, closeack, reading>>
     \/ /\ ~ closepend /\ Len(req) < ReqCap
        /\ reading' = TRUE
        /\ Post(cread)
        /\ UNCHANGED results
  /\ UNCHANGED <<channelVars, shut, closing, serverUp>>

ReadReturns ==
  /\ reading /\ replyread # <<>>
  /\ reading' = FALSE
  /\ results' = Append(results, Head(replyread))
  /\ replyread' = Tail(replyread)
  /\ UNCHANGED <<req, over, exit, pc, todo, sendVars, recvVars, silent,
                 endVars, closing, serverUp>>

-----------------------------------------------------------------------------
Datagrams == {Packet("ack", n) : n \in 0 .. MaxWrites}
             \cup {Packet("data", n) : n \in 1 .. MaxData}

Handler ==
  \/ Top \/ HandleRead \/ HandleWrite \/ HandleClose \/ HandleEpoch
  \/ \E p \in Datagrams : HandleReceiveDone(p)
  \/ \E n \in 0 .. MaxWrites : HandleAck(n)
  \/ \E n \in 1 .. MaxData : HandleData(n)
  \/ Channel

Next ==
  \/ Handler
  \/ Tick \/ ServerStops \/ \E p \in Datagrams : Receive(p)
  \/ Write \/ Close \/ CloseReturns \/ Read \/ ReadReturns

Safety == Init /\ [][Next]_vars

(***************************************************************************)
(* The goroutines run, and as long as the server is there every Ack it     *)
(* owes gets through in the end: messages and Acks are sent again every    *)
(* epoch.  Nothing obliges the application to call anything.               *)
(***************************************************************************)
Fairness ==
  /\ WF_vars(Handler) /\ SF_vars(Tick)
  /\ \A n \in 0 .. MaxWrites : SF_vars(Receive(Packet("ack", n)))
  /\ WF_vars(CloseReturns) /\ WF_vars(ReadReturns)

Spec == Safety /\ Fairness
-----------------------------------------------------------------------------
Packets == Datagrams \cup {cread, cwrite, cclose, timer}
Numbers == 1 .. MaxWrites

TypeOK ==
  /\ req \in Seq(Packets) /\ Len(req) <= ReqCap
  /\ replyread \in Seq(0 .. MaxData) /\ Len(replyread) <= ReplyCap
  /\ over \in 0 .. OverCap /\ exit \in Nat
  /\ pc \in {"top", "take", "gone"}
  /\ todo \in Seq({cread, cclose, Packet("over", 0), Packet("shut", 0)}
                  \cup {Packet("reply", n) : n \in 0 .. MaxData})
  /\ seq \in 1 .. MaxWrites + WindowSize /\ sendct \in 1 .. MaxWrites + 1
  /\ databuf \subseteq Numbers /\ writebuf \subseteq Numbers
  /\ ack \in 1 .. MaxData + 1 /\ ackbuf \subseteq 1 .. MaxData
  /\ readbuf \subseteq 1 .. MaxData /\ readct \in 1 .. MaxData + 1
  /\ silent \in 0 .. EpochLimit
  /\ losted \in BOOLEAN /\ closepend \in BOOLEAN /\ closeack \in BOOLEAN
  /\ shut \in BOOLEAN /\ closing \in {"no", "called", "done"}
  /\ reading \in BOOLEAN /\ results \in Seq(0 .. MaxData)
  /\ serverUp \in BOOLEAN

\* client_api.go: Close blocks "until all pending messages to the server have
\* been sent and acknowledged", or the connection is lost.
CloseWaitsForAcks ==
  closing = "done" => databuf \cup writebuf = {} \/ losted

\* A Read that waits while its message is there will be woken, as long as
\* the connection is not lost: its message or a cread packet is on its way.
NoLostWakeup ==
  (reading /\ replyread = <<>> /\ readct \in readbuf /\ ~ losted) =>
    \/ \E i \in DOMAIN req : req[i] = cread
    \/ \E i \in DOMAIN todo : todo[i] = cread \/ todo[i][1] = "reply"

\* Read returns the server's messages in order from the first one, and after
\* an error nothing but errors.
ReadsInOrder ==
  \A i \in DOMAIN results :
    \/ results[i] = i
    \/ results[i] = 0 /\ \A j \in i .. Len(results) : results[j] = 0

\* The first Read after the loss hears of it: the error, or a message before
\* it, is on its way to a Read that waits.
LossHeard ==
  (reading /\ losted /\ \A i \in DOMAIN results : results[i] # 0) =>
    replyread # <<>> \/ \E i \in DOMAIN todo : todo[i][1] = "reply"

\* exit holds one value: the loss of the connection and the application's
\* Close must not both get a packet from over, or the second one blocks.
ExitFits == exit <= 1

\* Once the handler knows that a Close it has seen may return, a packet for
\* that Close is on its way, whether the Acks or the loss came first.
CloseNotForgotten ==
  (closepend /\ (closeack \/ losted) /\ ~ shut) =>
    \/ over > 0 \/ \E i \in DOMAIN req : req[i] = cclose
    \/ \E i \in DOMAIN todo : todo[i] = cclose \/ todo[i][1] = "over"

\* client_api.go: Close blocks until everything is sent and acknowledged, and
\* client_impl.go: if the connection is lost "during this time, the remaining
\* pending messages should simply be discarded".  In either case it returns.
CloseAlwaysReturns == closing = "called" ~> closing = "done"

\* client_api.go: once Close returns, "all goroutines running in the
\* background should exit".
HandlerExits == (closing = "done" /\ ~ losted) ~> pc = "gone"

\* client_api.go: Read returns an error if "the connection has been lost ...
\* and no other messages are waiting to be returned".
ReadReturnsAfterLoss == (reading /\ losted /\ closing = "no") ~> ~ reading

\* client_api.go: Read returns an error if "the connection has been
\* explicitly closed": one that waits when Close is called returns, if Close
\* does.
ReadReturnsAfterClose ==
  (reading /\ closing = "no") ~> (~ reading \/ [](closing # "done"))

\* client_api.go: Write "should NOT block": req, when full, gets room again.
WriteGetsRoom == Len(req) = ReqCap ~> Len(req) < ReqCap
=============================================================================
