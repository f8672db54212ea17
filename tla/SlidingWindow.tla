--------------------------- MODULE SlidingWindow ----------------------------
(***************************************************************************)
(* One direction of an established LSP connection: the application at the  *)
(* client writes, the application at the server reads.  The sender is the  *)
(* client (lsp/client_impl.go), the receiver the server                    *)
(* (lsp/server_impl.go); the other direction runs the same code with the   *)
(* two files exchanged.                                                    *)
(*                                                                         *)
(* A message is made once (NewData), never changed, and identified in      *)
(* every map of the code by its SeqNum, so a buffer map[int]*Message is    *)
(* the set of its keys and message n carries the payload written[n].       *)
(*                                                                         *)
(* UDP may lose, duplicate and reorder datagrams.  A datagram in flight is *)
(* an element of a set; receiving it leaves it there, so that it may       *)
(* arrive again, and losing it takes it away.                              *)
(*                                                                         *)
(* Each end's handler goroutine takes packets one at a time from its       *)
(* request channel, so a handler runs atomically.  Whether the connection  *)
(* is declared lost, or is being closed, is not part of this module.       *)
(*                                                                         *)
(* Each operator named after another with a suffix (UnackedCumulative,     *)
(* NewToRead, ...) is a mistake the code does not make.  No action uses    *)
(* it; it takes the place of the other when a property is tested.          *)
(***************************************************************************)
EXTENDS Window, Sequences

CONSTANTS Data,         \* the payloads the application can write
          MaxWrites     \* bound: how many messages the application writes

ASSUME MaxWritesAssumption == MaxWrites \in Nat

VARIABLES
  \* The sender.
  seq,          \* conn.seq: the base of the send window
  sendct,       \* sendct: the number the next message gets
  databuf,      \* conn.databuf: messages sent and not acknowledged
  writebuf,     \* conn.writebuf: messages waiting for the window to move
  \* The receiver.
  ack,          \* conn.ack: the lowest number it still acknowledges
  ackbuf,       \* conn.ackbuf: numbers whose Ack every epoch sends again
  readbuf,      \* conn.readbuf: messages received and not handed to Read
  readct,       \* readct: the number of the next message to hand to Read
  sreads,       \* how many sread packets wait in the request channel
  reply,        \* the reply channel: messages handed to Read, in order
  reading,      \* the application is inside Read, waiting on reply
  \* The network.
  dataNet,      \* numbers of the Data datagrams in flight
  ackNet,       \* numbers of the Ack datagrams in flight
  \* What the two applications saw.
  written,      \* payloads given to Write, in order
  delivered     \* payloads returned by Read, in order

senderVars   == <<seq, sendct, databuf, writebuf, written>>
windowVars   == <<ack, ackbuf>>
readVars     == <<readbuf, readct, sreads, reply, reading, delivered>>
netVars      == <<dataNet, ackNet>>
vars         == <<senderVars, windowVars, readVars, netVars>>

Seqs == 1 .. MaxWrites

Init == /\ seq = 1 /\ sendct = 1 /\ databuf = {} /\ writebuf = {}
        /\ ack = 1 /\ ackbuf = {}
        /\ readbuf = {} /\ readct = 1 /\ sreads = 0
        /\ reply = <<>> /\ reading = FALSE
        /\ dataNet = {} /\ ackNet = {}
        /\ written = <<>> /\ delivered = <<>>

-----------------------------------------------------------------------------
(***************************************************************************)
(* The sender.                                                             *)
(***************************************************************************)

\* handleWrite: the message goes out if it is inside the window, and waits
\* in writebuf otherwise.
Write(d) ==
  /\ sendct <= MaxWrites
  /\ IF InWindow(seq, sendct)
       THEN /\ databuf' = databuf \cup {sendct}
            /\ dataNet' = dataNet \cup {sendct}
            /\ UNCHANGED writebuf
       ELSE /\ writebuf' = writebuf \cup {sendct}
            /\ UNCHANGED <<databuf, dataNet>>
  /\ sendct' = sendct + 1
  /\ written' = Append(written, d)
  /\ UNCHANGED <<seq, ackNet, windowVars, readVars>>

\* What stays unacknowledged after the Ack of n; an Ack is not cumulative.
UnackedCumulative(n) == databuf \ 1 .. n
Unacked(n) == databuf \ {n}

\* handleReceive, MsgAck with SeqNum n > 0: an Ack inside the window drops n
\* from databuf; the Ack of the base also slides the window and sends what
\* the slide lets out.
RecvAck(n) ==
  /\ n \in ackNet
  /\ AckInWindow(seq, n)
  /\ \/ /\ n # seq
        /\ databuf' = Unacked(n)
        /\ UNCHANGED <<seq, writebuf, dataNet>>
     \/ /\ n = seq
        /\ \E s \in seq + 1 .. seq + WindowSize :
             /\ NewBase(seq, Unacked(n), s)
             /\ seq' = s
             /\ databuf' = Unacked(n) \cup Released(seq, s, writebuf)
             /\ writebuf' = writebuf \ Released(seq, s, writebuf)
             /\ dataNet' = dataNet \cup Released(seq, s, writebuf)
  /\ UNCHANGED <<sendct, written, ackNet, windowVars, readVars>>

\* handleEpoch sends every unacknowledged message again.
SenderEpochSilent == UNCHANGED vars

SenderEpoch ==
  /\ dataNet' = dataNet \cup databuf
  /\ UNCHANGED <<ackNet, senderVars, windowVars, readVars>>

-----------------------------------------------------------------------------
(***************************************************************************)
(* The receiver.                                                           *)
(***************************************************************************)

\* A message is new when its number is not in ackbuf.
NewToRead(n) == n \notin readbuf
NewToAck(n) == n \notin ackbuf

\* handleReceive, MsgData with SeqNum n: a number below ack is ignored, not
\* acknowledged.  Any other is acknowledged, and a new message goes to
\* readbuf, with an sread packet for the handler.
RecvData(n) ==
  /\ n \in dataNet
  /\ n >= ack
  /\ ackNet' = ackNet \cup {n}
  /\ ack' = AckFloor(ack, n)
  /\ ackbuf' = KeptAcks(ack, ackbuf, n)
  /\ IF NewToAck(n)
       THEN /\ readbuf' = readbuf \cup {n}
            /\ sreads' = sreads + 1
       ELSE UNCHANGED <<readbuf, sreads>>
  /\ UNCHANGED <<readct, reply, reading, delivered, dataNet, senderVars>>

\* handleEpoch sends the Acks of ackbuf again.
ReceiverEpoch ==
  /\ ackNet' = ackNet \cup ackbuf
  /\ UNCHANGED <<dataNet, senderVars, windowVars, readVars>>

\* Message readct goes to the reply channel, and the next one is due.
HandOverUncounted ==
  /\ reply' = Append(reply, readct)
  /\ UNCHANGED <<readbuf, readct>>
HandOver ==
  /\ reply' = Append(reply, readct)
  /\ readbuf' = readbuf \ {readct}
  /\ readct' = readct + 1

Due == readct \in readbuf

\* The handler takes one sread packet: the next message in order, if it is
\* there, is handed over; at most one message moves.
Sread ==
  /\ sreads > 0
  /\ sreads' = sreads - 1
  /\ IF Due THEN HandOver ELSE UNCHANGED <<reply, readbuf, readct>>
  /\ UNCHANGED <<reading, delivered, windowVars, senderVars, netVars>>

\* Read posts an sread packet and waits on the reply channel ...
ReadCallUnposted ==
  /\ ~ reading
  /\ reading' = TRUE
  /\ UNCHANGED <<sreads, readbuf, readct, reply, delivered, windowVars,
                 senderVars, netVars>>

ReadCall ==
  /\ ~ reading
  /\ reading' = TRUE
  /\ sreads' = sreads + 1
  /\ UNCHANGED <<readbuf, readct, reply, delivered, windowVars, senderVars,
                 netVars>>

\* ... and returns the payload of the message it gets there.
ReadReturn ==
  /\ reading
  /\ reply # <<>>
  /\ reading' = FALSE
  /\ delivered' = Append(delivered, written[Head(reply)])
  /\ reply' = Tail(reply)
  /\ UNCHANGED <<readbuf, readct, sreads, windowVars, senderVars, netVars>>

-----------------------------------------------------------------------------
(***************************************************************************)
(* The network loses a datagram (lspnet drops some on purpose).            *)
(***************************************************************************)
LoseData(n) == /\ n \in dataNet
               /\ dataNet' = dataNet \ {n}
               /\ UNCHANGED <<ackNet, senderVars, windowVars, readVars>>

LoseAck(n) == /\ n \in ackNet
              /\ ackNet' = ackNet \ {n}
              /\ UNCHANGED <<dataNet, senderVars, windowVars, readVars>>

Sender   == \/ \E d \in Data : Write(d)
            \/ \E n \in Seqs : RecvAck(n)
            \/ SenderEpoch

Receiver == \/ \E n \in Seqs : RecvData(n)
            \/ ReceiverEpoch
            \/ Sread
            \/ ReadCall
            \/ ReadReturn

Network  == \E n \in Seqs : LoseData(n) \/ LoseAck(n)

Next == Sender \/ Receiver \/ Network

Safety == Init /\ [][Next]_vars

(***************************************************************************)
(* The tickers post their epochs, the handlers run, the application keeps  *)
(* calling Read, and a datagram sent again and again gets through: strong  *)
(* fairness, for the network may lose it between any two epochs.  Nothing  *)
(* obliges the application to write.                                       *)
(***************************************************************************)
Fairness == /\ WF_vars(SenderEpoch)
            /\ WF_vars(ReceiverEpoch)
            /\ WF_vars(Sread)
            /\ WF_vars(ReadCall)
            /\ WF_vars(ReadReturn)
            /\ \A n \in Seqs : SF_vars(RecvData(n)) /\ SF_vars(RecvAck(n))

Spec == Safety /\ Fairness
-----------------------------------------------------------------------------
TypeOK ==
  /\ seq \in Nat \ {0} /\ sendct \in 1 .. MaxWrites + 1
  /\ databuf \subseteq Seqs /\ writebuf \subseteq Seqs
  /\ ack \in Nat \ {0} /\ ackbuf \subseteq Seqs
  /\ readbuf \subseteq Seqs /\ readct \in Nat \ {0} /\ sreads \in Nat
  /\ reply \in Seq(Seqs) /\ reading \in BOOLEAN
  /\ dataNet \subseteq Seqs /\ ackNet \subseteq Seqs
  /\ written \in Seq(Data) /\ delivered \in Seq(Data)

\* Every message that ever reached the receiver's readbuf.
Received == 1 .. readct - 1 \cup readbuf

\* params.go promises at most WindowSize unacknowledged messages in flight:
\* what is unacknowledged lies in the WindowSize numbers from the base on,
\* and what waits in writebuf lies beyond them.
WindowBound ==
  /\ databuf \subseteq seq .. seq + WindowSize - 1
  /\ \A n \in writebuf : n >= seq + WindowSize

\* The receiver acknowledges no number below ack, so a message the sender
\* still sends again must never be below it, or it is sent for ever.
RetransmitAccepted == \A n \in databuf : n >= ack

\* An Ack in flight, or kept to be sent again, is of a message received: no
\* message is dropped from databuf that the receiver does not have.
AckedWasReceived ==
  /\ ackNet \cup ackbuf \subseteq Received
  /\ \A n \in 1 .. sendct - 1 : n \in databuf \cup writebuf \cup Received

\* A message handed to Read is never taken into readbuf again, by whichever
\* duplicate of it arrives and although ackbuf has forgotten old numbers.
OnceOnly == readbuf \cap 1 .. readct - 1 = {}

\* The sender waits for the Ack of every message in databuf and of its base,
\* which the slide may leave on a number acknowledged long ago: if the
\* receiver has such a message, its Ack is still in ackbuf, to be sent again.
UnackedIsAckable ==
  \A n \in databuf \cup {seq} : n \in Received => n \in ackbuf

\* A Read that waits while its message is ready will be woken: an sread
\* packet is on its way (one sread moves at most one message).
NoLostWakeup ==
  (reading /\ reply = <<>> /\ readct \in readbuf) => sreads > 0

\* The connection delivers what was written, once and in order; and all of it
\* in the end, however many datagrams are lost.
Stream == INSTANCE ReliableStream
StreamSafety == Stream!Safety
StreamSpec == Stream!Spec
=============================================================================
