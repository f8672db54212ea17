-------------------------- MODULE CloseConn_proofs --------------------------
(***************************************************************************)
(* Proofs about CloseConn, for every WindowSize, EpochLimit, MaxWrites and *)
(* Data: whatever is closed when, no message is forgotten that the client  *)
(* does not have, and what the client reads is what was written.           *)
(*                                                                         *)
(* After CloseConn the server sends without a window, and the client's ack *)
(* may pass the base of the window: the invariant of SlidingWindow_proofs  *)
(* does not hold here.  This one says nothing of the window.               *)
(***************************************************************************)
EXTENDS CloseConn, SlidingWindow_proofs

\* The numbers that are kept anywhere.
Known == databuf \cup writebuf \cup ban \cup dataNet \cup Received

\* They are numbers of messages that were written ...
KnownSent == \A n \in Known : n \in Seqs /\ n < sendct

\* ... and what was written is kept to be sent, or was received.
NoneLost ==
  \A n \in Seqs :
    n < sendct => n \in databuf \cup writebuf \cup ban \cup Received

\* banclose gets its entry from CloseConn.
BanOpen == closed \in BOOLEAN /\ (ban # {} => closed)

CInv == /\ BanOpen /\ NumbersOK /\ KnownSent /\ NoneLost /\ AckKept /\ OnceOnly
        /\ StreamsOK /\ ReplyInv

USE WindowSizeAssumption, MaxWritesAssumption
-----------------------------------------------------------------------------
\* Nothing was written when the connection is made.
LEMMA InitClosing == InitOpen => CInv
<1>. SUFFICES ASSUME InitOpen PROVE CInv
  OBVIOUS
<1>1. NumbersOK /\ AckKept /\ OnceOnly /\ StreamsOK /\ ReplyInv
  BY InitInv DEF InitOpen, IInv, WindowInv, ReadInv, AckInv
<1>2. Known = {} /\ sendct = 1
  BY DEF InitOpen, Init, Known, Received
<1>3. KnownSent /\ NoneLost
  BY <1>2 DEF KnownSent, NoneLost, Seqs
<1>4. BanOpen
  BY Zenon DEF InitOpen, BanOpen
<1>. QED
  BY <1>1, <1>3, <1>4 DEF CInv

\* A step that leaves banclose alone.
LEMMA BanKept == ASSUME BanOpen, UNCHANGED banVars PROVE BanOpen'
  BY Zenon DEF BanOpen, banVars

\* The sender's steps, before CloseConn.
LEMMA WriteClosing ==
  ASSUME CInv, NEW d \in Data, Write(d), UNCHANGED banVars PROVE CInv'
<1> USE DEF CInv
<1>1. /\ UNCHANGED <<seq, ack, ackbuf, readbuf, readct, sreads, ackNet, ban>>
      /\ sendct' = sendct + 1 /\ sendct <= MaxWrites
      /\ databuf \subseteq databuf' /\ databuf' \subseteq databuf \cup {sendct}
      /\ writebuf \subseteq writebuf'
      /\ writebuf' \subseteq writebuf \cup {sendct}
      /\ dataNet' \subseteq dataNet \cup {sendct}
      /\ sendct \in databuf' \cup writebuf'
  BY DEF Write, windowVars, readVars, banVars
<1>2. sendct \in Seqs /\ sendct \in Nat
  BY <1>1 DEF NumbersOK, Seqs
<1>3. NumbersOK'
  <2>1. sendct' \in 1 .. MaxWrites + 1
    BY <1>1, <1>2
  <2>2. databuf' \subseteq Seqs /\ writebuf' \subseteq Seqs
        /\ dataNet' \subseteq Seqs
    BY <1>1, <1>2 DEF NumbersOK
  <2>. QED
    BY <1>1, <2>1, <2>2 DEF NumbersOK
<1>4. Received' = Received
  BY <1>1 DEF Received
<1>5. KnownSent'
  <2>1. Known' \subseteq Known \cup {sendct}
    BY <1>1, <1>4 DEF Known
  <2>2. \A n \in Known : n \in Nat /\ n < sendct
    BY DEF KnownSent, Seqs
  <2>. QED
    BY <1>1, <1>2, <2>1, <2>2 DEF KnownSent
<1>6. NoneLost'
  <2>1. ASSUME NEW n \in Seqs, n < sendct'
        PROVE  n \in databuf' \cup writebuf' \cup ban' \cup Received'
    <3>1. n < sendct \/ n = sendct
      BY <1>1, <1>2, <2>1 DEF Seqs
    <3>. QED
      BY <1>1, <1>4, <3>1 DEF NoneLost
  <2>. QED
    BY <2>1 DEF NoneLost
<1>7. AckKept' /\ OnceOnly'
  BY <1>1, <1>4 DEF AckKept, OnceOnly
<1>8. StreamsOK' /\ ReplyInv'
  BY DEF Write, readVars, StreamsOK, ReplyInv, NumbersOK
<1>. QED
  BY <1>3, <1>5, <1>6, <1>7, <1>8, BanKept

\* An Ack speaks of a message that was received, and what the slide lets out
\* moves from writebuf to databuf.
LEMMA RecvAckClosing ==
  ASSUME CInv, NEW n \in Seqs, RecvAck(n), UNCHANGED banVars PROVE CInv'
<1> USE DEF CInv
<1>1. UNCHANGED <<sendct, ackNet, ack, ackbuf, readbuf, readct, sreads, ban>>
  BY DEF RecvAck, windowVars, readVars, banVars
<1>2. PICK out \in SUBSET writebuf :
        /\ databuf' = (databuf \ {n}) \cup out
        /\ writebuf' = writebuf \ out
        /\ dataNet' = dataNet \cup out
        /\ seq' \in Nat \ {0}
  <2>1. CASE n # seq
    <3>1. {} \in SUBSET writebuf
      OBVIOUS
    <3>. QED
      BY <2>1, <3>1 DEF RecvAck, Unacked, NumbersOK
  <2>2. CASE n = seq
    <3>1. PICK s \in seq + 1 .. seq + WindowSize :
            /\ seq' = s
            /\ databuf' = (databuf \ {n}) \cup Released(seq, s, writebuf)
            /\ writebuf' = writebuf \ Released(seq, s, writebuf)
            /\ dataNet' = dataNet \cup Released(seq, s, writebuf)
      BY <2>2 DEF RecvAck, Unacked
    <3>2. Released(seq, s, writebuf) \in SUBSET writebuf
      BY DEF Released
    <3>3. s \in Nat \ {0}
      BY DEF NumbersOK
    <3>. QED
      BY <3>1, <3>2, <3>3
  <2>. QED
    BY <2>1, <2>2
<1>3. Received' = Received /\ n \in Received
  BY <1>1 DEF Received, RecvAck, AckKept
<1>4. NumbersOK'
  BY <1>1, <1>2 DEF NumbersOK
<1>5. KnownSent'
  <2>1. Known' \subseteq Known
    BY <1>1, <1>2, <1>3 DEF Known
  <2>. QED
    BY <1>1, <2>1 DEF KnownSent
<1>6. NoneLost'
  BY <1>1, <1>2, <1>3 DEF NoneLost
<1>7. AckKept' /\ OnceOnly'
  BY <1>1, <1>3 DEF AckKept, OnceOnly
<1>8. StreamsOK' /\ ReplyInv'
  BY DEF RecvAck, readVars, StreamsOK, ReplyInv
<1>. QED
  BY <1>4, <1>5, <1>6, <1>7, <1>8, BanKept

\* The client's steps, before and after CloseConn.
LEMMA RecvDataClosing ==
  ASSUME CInv, NEW n \in Seqs, RecvData(n), UNCHANGED banVars PROVE CInv'
<1> USE DEF CInv
<1>1. /\ UNCHANGED <<sendct, databuf, writebuf, dataNet, ban>>
      /\ n \in dataNet
  BY DEF RecvData, senderVars, banVars
<1>2. NumbersOK' /\ AckKept' /\ OnceOnly' /\ Received' = Received \cup {n}
  BY RecvDataKeeps
<1>3. KnownSent' /\ NoneLost'
  BY <1>1, <1>2 DEF KnownSent, Known, NoneLost
<1>4. StreamsOK' /\ ReplyInv'
  BY DEF RecvData, senderVars, StreamsOK, ReplyInv
<1>. QED
  BY <1>2, <1>3, <1>4, BanKept

\* Read and the sread packets only touch what was received.
LEMMA ReadClosing ==
  ASSUME CInv, Sread \/ ReadCall \/ ReadReturn, UNCHANGED banVars PROVE CInv'
<1> USE DEF CInv
<1>1. UNCHANGED <<sendct, databuf, writebuf, dataNet, ban, ack, ackbuf, ackNet>>
  BY DEF Sread, ReadCall, ReadReturn, windowVars, senderVars, netVars, banVars
<1>2. NumbersOK' /\ OnceOnly' /\ StreamsOK' /\ ReplyInv' /\ Received' = Received
  <2>1. CASE Sread
    BY <2>1, SreadKeeps
  <2>2. CASE ReadCall
    BY <2>2 DEF ReadCall, windowVars, senderVars, netVars, NumbersOK,
                OnceOnly, StreamsOK, ReplyInv, Received
  <2>3. CASE ReadReturn
    <3>1. ReceivedSent
      BY DEF KnownSent, Known, ReceivedSent
    <3>2. OnceOnly'
      BY <2>3 DEF ReadReturn, OnceOnly
    <3>. QED
      BY <2>3, <3>1, <3>2, ReadReturnKeeps
  <2>. QED
    BY <2>1, <2>2, <2>3
<1>3. KnownSent' /\ NoneLost' /\ AckKept'
  BY <1>1, <1>2 DEF KnownSent, Known, NoneLost, AckKept
<1>. QED
  BY <1>2, <1>3, BanKept

\* What is sent again was sent before, and is still kept.
LEMMA NetworkClosing ==
  ASSUME CInv,
         \/ /\ \/ SenderEpoch \/ ReceiverEpoch \/ UNCHANGED vars
               \/ \E n \in Seqs : LoseData(n) \/ LoseAck(n)
            /\ UNCHANGED banVars
         \/ BanEpoch
         \/ UNCHANGED allVars
  PROVE  CInv'
<1> USE DEF CInv
<1>1. /\ UNCHANGED <<senderVars, windowVars, readVars, ban>>
      /\ dataNet' \subseteq dataNet \cup databuf \cup ban
      /\ ackNet' \subseteq ackNet \cup ackbuf
  BY DEF SenderEpoch, ReceiverEpoch, LoseData, LoseAck, BanEpoch, banVars,
         allVars, vars, netVars
<1>2. /\ UNCHANGED <<seq, sendct, databuf, writebuf, ack, ackbuf, readbuf,
                     readct, sreads, ban>>
      /\ UNCHANGED <<reply, written, delivered>>
  BY <1>1 DEF senderVars, windowVars, readVars
<1>3. Received' = Received
  BY <1>2 DEF Received
<1>4. NumbersOK'
  <2>1. dataNet' \subseteq Seqs
    BY <1>1 DEF KnownSent, Known
  <2>2. ackNet' \subseteq Seqs
    BY <1>1 DEF NumbersOK
  <2>. QED
    BY <1>2, <2>1, <2>2 DEF NumbersOK
<1>5. KnownSent'
  <2>1. Known' \subseteq Known
    BY <1>1, <1>2, <1>3 DEF Known
  <2>. QED
    BY <1>2, <2>1 DEF KnownSent
<1>6. NoneLost' /\ OnceOnly'
  BY <1>2, <1>3 DEF NoneLost, OnceOnly
<1>7. AckKept'
  BY <1>1, <1>2, <1>3 DEF AckKept, NumbersOK
<1>8. StreamsOK' /\ ReplyInv'
  BY <1>2 DEF StreamsOK, ReplyInv
<1>9. BanOpen'
  <2>1. UNCHANGED <<closed, ban>>
    BY DEF SenderEpoch, ReceiverEpoch, LoseData, LoseAck, BanEpoch, banVars,
           allVars
  <2>. QED
    BY <2>1, Zenon DEF BanOpen
<1>. QED
  BY <1>4, <1>5, <1>6, <1>7, <1>8, <1>9

\* CloseConn moves databuf and writebuf to ban, together.
LEMMA ServerCloseConnClosing ==
  ASSUME CInv, ServerCloseConn PROVE CInv'
<1> USE DEF CInv
<1>1. /\ UNCHANGED <<seq, sendct, ack, ackbuf, readbuf, readct, sreads,
                     ackNet>>
      /\ UNCHANGED <<reply, written, delivered>>
      /\ databuf' = {} /\ writebuf' = {} /\ ban' = databuf \cup writebuf
      /\ dataNet' = dataNet \cup writebuf
  BY DEF ServerCloseConn, Pending, windowVars, readVars
<1>2. ban = {}
  BY DEF ServerCloseConn, BanOpen
<1>3. Received' = Received
  BY <1>1 DEF Received
<1>4. NumbersOK'
  BY <1>1 DEF NumbersOK
<1>5. KnownSent'
  <2>1. Known' = Known
    BY <1>1, <1>2, <1>3 DEF Known
  <2>. QED
    BY <1>1, <2>1 DEF KnownSent
<1>6. NoneLost'
  BY <1>1, <1>2, <1>3 DEF NoneLost
<1>7. AckKept' /\ OnceOnly'
  BY <1>1, <1>3 DEF AckKept, OnceOnly
<1>8. StreamsOK' /\ ReplyInv'
  BY <1>1 DEF StreamsOK, ReplyInv
<1>9. BanOpen'
  BY Zenon DEF ServerCloseConn, BanOpen
<1>. QED
  BY <1>4, <1>5, <1>6, <1>7, <1>8, <1>9

\* An Ack takes from ban the message it speaks of, which was received; a
\* keepalive takes nothing.
LEMMA BanAckClosing ==
  ASSUME CInv, NEW n \in Seqs \cup {0}, BanAck(n) PROVE CInv'
<1> USE DEF CInv
<1>1. /\ UNCHANGED <<seq, sendct, databuf, writebuf, ack, ackbuf, readbuf,
                     readct, sreads, dataNet, ackNet>>
      /\ UNCHANGED <<reply, written, delivered>>
      /\ ban' = ban \ {n} /\ n \in ackNet \cup {0}
  BY DEF BanAck, BanUnacked, vars, senderVars, windowVars, readVars, netVars
<1>2. n = 0 \/ n \in Received
  BY <1>1 DEF AckKept
<1>3. Received' = Received
  BY <1>1 DEF Received
<1>4. NumbersOK'
  BY <1>1 DEF NumbersOK
<1>5. KnownSent'
  <2>1. Known' \subseteq Known
    BY <1>1, <1>3 DEF Known
  <2>. QED
    BY <1>1, <2>1 DEF KnownSent
<1>6. NoneLost'
  BY <1>1, <1>2, <1>3 DEF NoneLost, Seqs
<1>7. AckKept' /\ OnceOnly'
  BY <1>1, <1>3 DEF AckKept, OnceOnly
<1>8. StreamsOK' /\ ReplyInv'
  BY <1>1 DEF StreamsOK, ReplyInv
<1>9. BanOpen'
  BY Zenon DEF BanAck, BanOpen
<1>. QED
  BY <1>4, <1>5, <1>6, <1>7, <1>8, <1>9

\* In every state, closed or not, the invariant holds.
LEMMA NextClosingInv == ASSUME CInv, [NextClosing]_allVars PROVE CInv'
<1>1. CASE ~ closed /\ Sender /\ UNCHANGED <<banVars, unheard>>
  BY <1>1, WriteClosing, RecvAckClosing, NetworkClosing DEF Sender
<1>2. CASE Network /\ UNCHANGED <<banVars, unheard>>
  BY <1>2, NetworkClosing DEF Network
<1>3. ASSUME NEW n \in Seqs, ClientRecvData(n) PROVE CInv'
  BY <1>3, RecvDataClosing DEF ClientRecvData
<1>4. CASE ClientEpoch \/ ClientRecvAnswer
  BY <1>4, NetworkClosing DEF ClientEpoch, ClientRecvAnswer
<1>5. CASE ClientRead
  BY <1>5, ReadClosing DEF ClientRead
<1>. QED
  BY <1>1, <1>2, <1>3, <1>4, <1>5, ServerCloseConnClosing, BanAckClosing,
     NetworkClosing DEF NextClosing

\* A stream whose sender may be given to CloseConn at any point: whatever was
\* written is still to be sent again or was received, and what is read is what
\* was written.
THEOREM InductiveClosing == SafetyClosing => []CInv
  BY InitClosing, NextClosingInv, PTL DEF SafetyClosing

\* CloseConn forgets no message: the client has it, or it is sent again.
THEOREM NothingIsForgotten == SafetyClosing => []NothingForgotten
<1>1. CInv => NothingForgotten
  BY DEF CInv, NoneLost, NothingForgotten, NumbersOK, Seqs
<1>. QED
  BY InductiveClosing, <1>1, PTL

\* No message is taken into readbuf twice, also of those that are sent after
\* CloseConn without regard to the window.
THEOREM OnceWhenClosing == SafetyClosing => []OnceOnly
<1>1. CInv => OnceOnly
  BY DEF CInv
<1>. QED
  BY InductiveClosing, <1>1, PTL
-----------------------------------------------------------------------------
\* A step with CloseConn, or after it, is one of the reliable stream, too.
LEMMA ClosingStreamStep ==
  CInv /\ [NextClosing]_allVars => [Stream!Next]_(Stream!streamVars)
<1>. SUFFICES ASSUME CInv, [NextClosing]_allVars
              PROVE  [Stream!Next]_(Stream!streamVars)
  OBVIOUS
<1>1. ASSUME NEW d \in Data, Write(d) PROVE Stream!Send(d)
  BY <1>1 DEF Write, readVars, Stream!Send
<1>2. CASE ReadReturn
  <2>1. delivered' = Append(delivered, written[Head(reply)]) /\ reply # <<>>
        /\ written' = written
    BY <1>2 DEF ReadReturn, senderVars
  <2>2. Head(reply) = Len(delivered) + 1 /\ Head(reply) \in 1 .. Len(written)
    BY <2>1, HeadOfReply DEF CInv, KnownSent, Known, ReceivedSent
  <2>3. Len(delivered) \in Nat /\ Len(written) \in Nat
    BY DEF CInv, StreamsOK
  <2>. QED
    BY <2>1, <2>2, <2>3 DEF Stream!Recv, Stream!Next
<1>3. CASE \/ \E n \in Seqs : RecvAck(n) \/ RecvData(n)
           \/ SenderEpoch \/ ReceiverEpoch \/ Sread \/ ReadCall \/ Network
           \/ UNCHANGED vars
  BY <1>3 DEF RecvAck, RecvData, SenderEpoch, ReceiverEpoch, Sread, ReadCall,
     Network, LoseData, LoseAck, vars, senderVars, readVars, Stream!streamVars
<1>4. CASE \/ ServerCloseConn \/ BanEpoch \/ \E n \in Seqs \cup {0} : BanAck(n)
           \/ UNCHANGED allVars
  BY <1>4 DEF ServerCloseConn, BanEpoch, BanAck, allVars, vars, senderVars,
     readVars, Stream!streamVars
<1>. QED
  BY <1>1, <1>2, <1>3, <1>4 DEF NextClosing, Sender, ClientRecvData,
     ClientEpoch, ClientRecvAnswer, ClientRead, Stream!Next

\* Whenever the server closes the connection, what the client reads is what
\* was written, each payload once, in the order written.
THEOREM ClosingImplements == SafetyClosing => StreamSafety
<1>1. InitOpen => Stream!Init
  BY DEF InitOpen, Init, Stream!Init
<1>. QED
  BY <1>1, ClosingStreamStep, InductiveClosing, PTL
  DEF SafetyClosing, StreamSafety, Stream!Safety
=============================================================================
