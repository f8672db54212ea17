------------------------ MODULE SlidingWindow_proofs ------------------------
(***************************************************************************)
(* Proofs about SlidingWindow, for every WindowSize > 0, every MaxWrites   *)
(* and every set Data: type correctness, the safety invariants that the    *)
(* runs check, and the implementation of ReliableStream's safety part.     *)
(***************************************************************************)
EXTENDS SlidingWindow, Window_proofs

\* The sender's buffers split what was written at the window's far end.
SenderInv ==
  /\ seq <= sendct
  /\ \A n \in databuf : seq <= n /\ n < seq + WindowSize /\ n < sendct
  /\ \A n \in Seqs : n \in writebuf <=> seq + WindowSize <= n /\ n < sendct

\* Only what the sender let out of its window travels and is received.
SentInv ==
  /\ \A n \in dataNet : n < sendct /\ n < seq + WindowSize
  /\ \A n \in Received : n \in Seqs /\ n < sendct /\ n < seq + WindowSize

\* The receiver's acknowledgement window holds the Acks of all that was
\* received from ack on, and only what was received is acknowledged.
AckKept ==
  /\ \A n \in Seqs : n \in ackbuf <=> n \in Received /\ ack <= n
  /\ \A n \in ackNet : n \in Received

\* It trails the sender's base, and below ack nothing is missing.
AckInv ==
  /\ ack <= seq
  /\ \A n \in 1 .. ack - 1 : n \in Received
  /\ AckKept

\* A message sent and no longer in databuf was received.
KeptInv ==
  \A n \in Seqs :
    n < sendct /\ n < seq + WindowSize /\ n \notin databuf => n \in Received

\* The reply channel holds the numbers between what was delivered and readct.
ReplyInv ==
  /\ Len(delivered) + Len(reply) = readct - 1
  /\ \A i \in 1 .. Len(reply) : reply[i] = Len(delivered) + i
  /\ Len(written) = sendct - 1

\* TypeOK in three parts, for the steps of the proofs need one at a time.
NumbersOK ==
  /\ seq \in Nat \ {0} /\ sendct \in 1 .. MaxWrites + 1
  /\ databuf \subseteq Seqs /\ writebuf \subseteq Seqs
  /\ ack \in Nat \ {0} /\ ackbuf \subseteq Seqs
  /\ readbuf \subseteq Seqs /\ readct \in Nat \ {0} /\ sreads \in Nat
  /\ dataNet \subseteq Seqs /\ ackNet \subseteq Seqs

StreamsOK ==
  /\ reply \in Seq(Seqs)
  /\ written \in Seq(Data) /\ delivered \in Seq(Data)

ReadingOK == reading \in BOOLEAN

WindowInv == NumbersOK /\ SenderInv /\ SentInv /\ AckInv /\ KeptInv
             /\ OnceOnly

ReadInv == StreamsOK /\ ReplyInv

IInv == WindowInv /\ ReadInv /\ ReadingOK /\ NoLostWakeup

USE WindowSizeAssumption, MaxWritesAssumption
-----------------------------------------------------------------------------
\* The parts of the type invariant are the type invariant.
LEMMA TypeParts == TypeOK <=> NumbersOK /\ StreamsOK /\ ReadingOK
  BY Zenon DEF TypeOK, NumbersOK, StreamsOK, ReadingOK

\* The initial state satisfies the invariant: nothing was written.
LEMMA InitInv == Init => IInv
<1>. SUFFICES ASSUME Init PROVE IInv
  OBVIOUS
<1>1. NumbersOK
  BY DEF Init, NumbersOK, Seqs
<1>2. StreamsOK /\ ReplyInv
  BY DEF Init, StreamsOK, ReplyInv
<1>3. Received = {}
  BY DEF Init, Received
<1>4. SenderInv /\ SentInv /\ AckInv /\ KeptInv /\ OnceOnly
  BY <1>3 DEF Init, SenderInv, SentInv, AckInv, AckKept, KeptInv, OnceOnly,
     Seqs
<1>5. ReadingOK /\ NoLostWakeup
  BY Zenon DEF Init, ReadingOK, NoLostWakeup
<1>. QED
  BY <1>1, <1>2, <1>4, <1>5 DEF IInv, WindowInv, ReadInv

\* A step that changes nothing about Read keeps what is said about Read.
LEMMA ReadUnchanged ==
  ASSUME ReadingOK, NoLostWakeup, UNCHANGED readVars
  PROVE  ReadingOK' /\ NoLostWakeup'
  BY Zenon DEF ReadingOK, NoLostWakeup, readVars

\* Write keeps the invariant: the new message is the last one written.
LEMMA WriteInv == ASSUME IInv, NEW d \in Data, Write(d) PROVE IInv'
<1> USE DEF IInv, WindowInv, ReadInv
<1>1. /\ UNCHANGED <<seq, ack, ackbuf, readbuf, readct, sreads, ackNet>>
      /\ sendct' = sendct + 1 /\ sendct <= MaxWrites
      /\ \/ /\ sendct < seq + WindowSize
            /\ databuf' = databuf \cup {sendct}
            /\ dataNet' = dataNet \cup {sendct}
            /\ writebuf' = writebuf
         \/ /\ ~ (sendct < seq + WindowSize)
            /\ writebuf' = writebuf \cup {sendct}
            /\ databuf' = databuf
            /\ dataNet' = dataNet
  BY DEF Write, InWindow, windowVars, readVars
<1>2. /\ sendct \in Seqs /\ sendct' \in 1 .. MaxWrites + 1
      /\ seq \in Nat /\ sendct \in Nat
  BY <1>1 DEF NumbersOK, Seqs
<1>3. NumbersOK'
  <2>1. databuf' \subseteq Seqs /\ writebuf' \subseteq Seqs
        /\ dataNet' \subseteq Seqs
    BY <1>1, <1>2 DEF NumbersOK
  <2>. QED
    BY <1>1, <1>2, <2>1 DEF NumbersOK
<1>4. Received' = Received
  BY <1>1 DEF Received
<1>5. SenderInv' /\ SentInv' /\ KeptInv'
  <2>. SUFFICES ASSUME \A n \in Seqs : n \in Nat
                PROVE  SenderInv' /\ SentInv' /\ KeptInv'
    BY DEF Seqs
  <2>1. /\ databuf \subseteq Seqs /\ dataNet \subseteq Seqs
        /\ writebuf \subseteq Seqs /\ seq' = seq /\ sendct' = sendct + 1
        /\ seq + WindowSize \in Nat
    BY <1>1, <1>2 DEF NumbersOK
  <2>2. \A n \in Received : n \in Seqs
    BY DEF SentInv
  <2>3. CASE sendct < seq + WindowSize
    <3>1. /\ databuf' = databuf \cup {sendct}
          /\ dataNet' = dataNet \cup {sendct} /\ writebuf' = writebuf
      BY <1>1, <2>3
    <3>2. SenderInv'
      BY <1>2, <2>1, <2>3, <3>1 DEF SenderInv
    <3>3. SentInv'
      <4>1. ASSUME NEW n \in dataNet'
            PROVE  n < sendct' /\ n < seq' + WindowSize
        BY <1>2, <2>1, <2>3, <3>1 DEF SentInv
      <4>2. ASSUME NEW n \in Received
            PROVE  n \in Seqs /\ n < sendct' /\ n < seq' + WindowSize
        <5>1. n \in Seqs /\ n < sendct /\ n < seq + WindowSize
          BY DEF SentInv
        <5>. QED
          BY <1>2, <2>1, <5>1
      <4>. QED
        BY <1>4, <4>1, <4>2 DEF SentInv
    <3>4. KeptInv'
      BY <1>2, <1>4, <2>1, <2>3, <3>1 DEF KeptInv
    <3>. QED
      BY <3>2, <3>3, <3>4
  <2>4. CASE ~ (sendct < seq + WindowSize)
    <3>1. /\ databuf' = databuf /\ dataNet' = dataNet
          /\ writebuf' = writebuf \cup {sendct}
      BY <1>1, <2>4
    <3>2. SenderInv'
      BY <1>2, <2>1, <2>4, <3>1 DEF SenderInv
    <3>3. SentInv'
      <4>1. ASSUME NEW n \in dataNet'
            PROVE  n < sendct' /\ n < seq' + WindowSize
        BY <1>2, <2>1, <2>4, <3>1 DEF SentInv
      <4>2. ASSUME NEW n \in Received
            PROVE  n \in Seqs /\ n < sendct' /\ n < seq' + WindowSize
        <5>1. n \in Seqs /\ n < sendct /\ n < seq + WindowSize
          BY DEF SentInv
        <5>. QED
          BY <1>2, <2>1, <5>1
      <4>. QED
        BY <1>4, <4>1, <4>2 DEF SentInv
    <3>4. KeptInv'
      BY <1>2, <1>4, <2>1, <2>4, <3>1 DEF KeptInv
    <3>. QED
      BY <3>2, <3>3, <3>4
  <2>. QED
    BY <2>3, <2>4
<1>6. AckInv' /\ OnceOnly'
  BY <1>1, <1>4 DEF AckInv, AckKept, OnceOnly
<1>7. StreamsOK' /\ ReplyInv'
  BY DEF Write, readVars, StreamsOK, ReplyInv, NumbersOK
<1>8. ReadingOK' /\ NoLostWakeup'
  BY ReadUnchanged DEF Write
<1>. QED
  BY <1>3, <1>5, <1>6, <1>7, <1>8

\* The new base lies after the old one, inside what was written and behind
\* every message still unacknowledged.
LEMMA NewBaseBound ==
  ASSUME NumbersOK, SenderInv, SentInv, seq \in Received,
         NEW s, NewBase(seq, databuf \ {seq}, s)
  PROVE  /\ s \in Nat /\ seq < s /\ s <= seq + WindowSize /\ s <= sendct
         /\ \A n \in databuf \ {seq} : s <= n
<1>1. seq \in Nat /\ sendct \in Nat /\ seq < sendct
  BY DEF NumbersOK, SentInv, Seqs
<1>2. \A n \in databuf \ {seq} : n \in Nat /\ seq < n /\ n < sendct
  BY <1>1 DEF NumbersOK, SenderInv, Seqs
<1>. QED
  BY <1>1, <1>2, NewBaseIs

\* An Ack keeps the invariant, whether or not it slides the window.
LEMMA RecvAckInv == ASSUME IInv, NEW n \in Seqs, RecvAck(n) PROVE IInv'
<1> USE DEF IInv, WindowInv, ReadInv
<1>1. n \in Received
  BY DEF RecvAck, AckInv, AckKept
<1>2. UNCHANGED <<sendct, ackNet, ack, ackbuf, readbuf, readct, sreads>>
  BY DEF RecvAck, windowVars, readVars
<1>3. Received' = Received
  BY <1>2 DEF Received
<1>4. OnceOnly'
  BY <1>2 DEF OnceOnly
<1>5. StreamsOK' /\ ReplyInv'
  BY DEF RecvAck, readVars, StreamsOK, ReplyInv
<1>6. ReadingOK' /\ NoLostWakeup'
  BY ReadUnchanged DEF RecvAck, Unacked
<1>7. CASE n # seq
  <2>1. databuf' = databuf \ {n} /\ UNCHANGED <<seq, writebuf, dataNet>>
    BY <1>7 DEF RecvAck, Unacked
  <2>2. NumbersOK' /\ SenderInv'
    BY <1>2, <2>1 DEF NumbersOK, SenderInv
  <2>3. SentInv' /\ AckInv'
    BY <1>2, <1>3, <2>1 DEF SentInv, AckInv, AckKept
  <2>4. KeptInv'
    BY <1>1, <1>2, <1>3, <2>1 DEF KeptInv
  <2>. QED
    BY <1>4, <1>5, <1>6, <2>2, <2>3, <2>4
<1>8. CASE n = seq
  <2>1. PICK s \in seq + 1 .. seq + WindowSize :
          /\ NewBase(seq, databuf \ {seq}, s)
          /\ seq' = s
          /\ databuf' = (databuf \ {seq}) \cup Released(seq, s, writebuf)
          /\ writebuf' = writebuf \ Released(seq, s, writebuf)
          /\ dataNet' = dataNet \cup Released(seq, s, writebuf)
    BY <1>8 DEF RecvAck, Unacked
  <2>2. /\ s \in Nat /\ seq < s /\ s <= seq + WindowSize /\ s <= sendct
        /\ \A m \in databuf \ {seq} : s <= m
    BY <1>1, <1>8, <2>1, NewBaseBound
  <2>3. \A m \in Seqs : m \in Released(seq, s, writebuf)
          <=> m < sendct /\ seq + WindowSize <= m /\ m < s + WindowSize
    BY <2>2 DEF Released, SenderInv, NumbersOK, Seqs
  <2>4. Released(seq, s, writebuf) \subseteq Seqs
    BY DEF Released, NumbersOK
  <2>5. NumbersOK'
    BY <1>2, <2>1, <2>2, <2>4 DEF NumbersOK
  <2>6. SenderInv'
    BY <1>2, <2>1, <2>2, <2>3, <2>4 DEF SenderInv, NumbersOK, Seqs
  <2>7. SentInv'
    BY <1>2, <1>3, <2>1, <2>2, <2>3, <2>4 DEF SentInv, NumbersOK, Seqs
  <2>8. AckInv'
    BY <1>2, <1>3, <2>1, <2>2 DEF AckInv, AckKept, NumbersOK
  <2>9. KeptInv'
    <3>. SUFFICES ASSUME NEW m \in Seqs,
                         m < sendct, m < s + WindowSize, m \notin databuf'
                  PROVE  m \in Received
      BY <1>2, <1>3, <2>1 DEF KeptInv
    <3>1. m < seq + WindowSize
      BY <2>1, <2>2, <2>3 DEF NumbersOK, Seqs
    <3>2. CASE m = seq
      BY <3>2, <1>1, <1>8
    <3>3. CASE m # seq
      BY <3>1, <3>3, <2>1 DEF KeptInv
    <3>. QED
      BY <3>2, <3>3
  <2>. QED
    BY <1>4, <1>5, <1>6, <2>5, <2>6, <2>7, <2>8, <2>9
<1>. QED
  BY <1>7, <1>8

\* A Data message, whatever its number: the window of Acks moves up to it, and
\* it is taken into readbuf unless it was received before.
LEMMA RecvDataKeeps ==
  ASSUME NumbersOK, AckKept, OnceOnly, NEW n \in Seqs, RecvData(n)
  PROVE  /\ NumbersOK' /\ AckKept' /\ OnceOnly'
         /\ Received' = Received \cup {n}
<1>1. n \in Nat /\ n >= ack /\ ack \in Nat \ {0}
  BY DEF RecvData, NumbersOK, Seqs
<1>2. UNCHANGED <<seq, sendct, databuf, writebuf, dataNet, readct>>
  BY DEF RecvData, senderVars
<1>3. n \in ackbuf <=> n \in Received
  BY <1>1 DEF AckKept
<1>4. Received' = Received \cup {n}
  BY <1>3 DEF RecvData, NewToAck, Received
<1>5. ackNet' = ackNet \cup {n}
  BY DEF RecvData
<1>6. \A m \in ackbuf : m \in Nat /\ ack <= m
  BY DEF AckKept, NumbersOK, Seqs
<1>7. /\ ack' \in Nat \ {0} /\ ack <= ack' /\ ack' <= n
      /\ \A m : m \in ackbuf' <=> m \in ackbuf \cup {n} /\ ack' <= m
  BY <1>1, <1>6, KeptAcksAre DEF RecvData
<1>8. NumbersOK'
  <2>1. readbuf' \subseteq Seqs /\ sreads' \in Nat /\ ackNet' \subseteq Seqs
    BY <1>5 DEF RecvData, NumbersOK
  <2>2. ackbuf' \subseteq Seqs
    BY <1>7 DEF NumbersOK
  <2>. QED
    BY <1>2, <1>7, <2>1, <2>2 DEF NumbersOK
<1>9. AckKept'
  <2>1. \A m \in Seqs : m \in ackbuf' <=> m \in Received' /\ ack' <= m
    BY <1>1, <1>4, <1>7 DEF AckKept, Seqs
  <2>2. \A m \in ackNet' : m \in Received'
    BY <1>4, <1>5 DEF AckKept
  <2>. QED
    BY <2>1, <2>2 DEF AckKept
<1>10. OnceOnly'
  BY <1>2, <1>3 DEF RecvData, NewToAck, OnceOnly, Received
<1>. QED
  BY <1>4, <1>8, <1>9, <1>10

\* A Data message keeps the invariant: ack never passes the sender's base.
LEMMA RecvDataInv == ASSUME IInv, NEW n \in Seqs, RecvData(n) PROVE IInv'
<1> USE DEF IInv, WindowInv, ReadInv
<1>1. /\ n \in Nat /\ n >= ack /\ n < sendct /\ n < seq + WindowSize
      /\ ack <= seq /\ ack \in Nat /\ seq \in Nat /\ sendct \in Nat
  BY DEF RecvData, SentInv, AckInv, NumbersOK, Seqs
<1>2. UNCHANGED <<seq, sendct, databuf, writebuf, dataNet, readct>>
  BY DEF RecvData, senderVars
<1>3. NumbersOK' /\ AckKept' /\ OnceOnly' /\ Received' = Received \cup {n}
  BY RecvDataKeeps DEF AckInv
<1>4. ack' \in Nat \ {0} /\ ack' <= seq'
  BY <1>1, <1>2, <1>3 DEF RecvData, AckFloor, NumbersOK
<1>5. SenderInv' /\ KeptInv' /\ SentInv'
  BY <1>1, <1>2, <1>3 DEF SenderInv, KeptInv, SentInv
<1>6. AckInv'
  <2>1. ASSUME NEW m \in Nat \ {0}, m < ack' PROVE m \in Received'
    <3>1. m \in Seqs /\ m < seq /\ m < sendct
      <4>1. m < seq
        BY <1>1, <1>2, <1>4, <2>1
      <4>2. seq <= sendct /\ sendct <= MaxWrites + 1
        BY DEF SenderInv, NumbersOK
      <4>. QED
        BY <1>1, <4>1, <4>2 DEF Seqs
    <3>2. m \notin databuf
      BY <1>1, <3>1 DEF SenderInv, Seqs
    <3>3. m < seq + WindowSize
      BY <1>1, <3>1 DEF Seqs
    <3>. QED
      BY <1>3, <3>1, <3>2, <3>3 DEF KeptInv
  <2>2. \A m \in 1 .. ack' - 1 : m \in Received'
    <3>. DEFINE a == ack'
    <3>1. a \in Nat /\ \A m \in Nat \ {0} : m < a => m \in Received'
      BY <1>4, <2>1
    <3>. HIDE DEF a
    <3>2. \A m \in 1 .. a - 1 : m \in Received'
      BY <3>1
    <3>. QED
      BY <3>2 DEF a
  <2>. QED
    BY <1>3, <1>4, <2>2 DEF AckInv
<1>7. StreamsOK' /\ ReplyInv'
  BY DEF RecvData, senderVars, StreamsOK, ReplyInv
<1>8. ReadingOK' /\ NoLostWakeup'
  <2>1. reading' = reading /\ reply' = reply
    BY DEF RecvData
  <2>2. CASE n \in ackbuf
    <3>1. UNCHANGED readVars
      BY <2>2 DEF RecvData, NewToAck, readVars
    <3>. QED
      BY <3>1, ReadUnchanged
  <2>3. CASE n \notin ackbuf
    <3>1. sreads' > 0
      BY <2>3 DEF RecvData, NewToAck, NumbersOK
    <3>. QED
      BY <2>1, <3>1, Zenon DEF ReadingOK, NoLostWakeup
  <2>. QED
    BY <2>2, <2>3
<1>. QED
  BY <1>3, <1>5, <1>6, <1>7, <1>8

\* A handler step that takes one sread packet moves at most one message from
\* readbuf to the reply channel, inside the set of received messages.
LEMMA SreadKeeps ==
  ASSUME NumbersOK, StreamsOK, ReplyInv, OnceOnly, Sread
  PROVE  /\ NumbersOK' /\ StreamsOK' /\ ReplyInv' /\ OnceOnly'
         /\ Received' = Received
         /\ readct \in readbuf => reply' # <<>>
<1>1. /\ sreads > 0 /\ sreads' = sreads - 1
      /\ UNCHANGED <<seq, sendct, databuf, writebuf, ack, ackbuf, dataNet,
                     ackNet>>
      /\ UNCHANGED <<delivered, written>>
  BY DEF Sread, windowVars, senderVars, netVars
<1>2. CASE readct \notin readbuf
  <2>1. UNCHANGED <<reply, readbuf, readct>>
    BY <1>2 DEF Sread, Due
  <2>2. Received' = Received /\ OnceOnly'
    BY <2>1 DEF Received, OnceOnly
  <2>3. NumbersOK'
    BY <1>1, <2>1 DEF NumbersOK
  <2>4. StreamsOK' /\ ReplyInv'
    BY <1>1, <2>1 DEF StreamsOK, ReplyInv
  <2>. QED
    BY <1>2, <2>2, <2>3, <2>4
<1>3. CASE readct \in readbuf
  <2>1. /\ reply' = Append(reply, readct) /\ readbuf' = readbuf \ {readct}
        /\ readct' = readct + 1
    BY <1>3 DEF Sread, Due, HandOver
  <2>2. Received' = Received
    BY <1>3, <2>1 DEF Received, NumbersOK
  <2>3. NumbersOK'
    BY <1>1, <2>1 DEF NumbersOK
  <2>4. OnceOnly'
    BY <2>1 DEF OnceOnly, NumbersOK
  <2>5. StreamsOK'
    BY <1>1, <1>3, <2>1 DEF StreamsOK, NumbersOK
  <2>6. ReplyInv'
    <3>1. Len(reply') = Len(reply) + 1
      BY <2>1 DEF StreamsOK
    <3>2. reply'[Len(reply) + 1] = readct
          /\ \A i \in 1 .. Len(reply) : reply'[i] = reply[i]
      BY <2>1 DEF StreamsOK
    <3>3. /\ Len(reply) \in Nat /\ Len(delivered) \in Nat /\ readct \in Nat
          /\ delivered' = delivered /\ readct' = readct + 1
          /\ Len(written') = sendct' - 1
      BY <1>1, <2>1 DEF StreamsOK, NumbersOK, ReplyInv
    <3>4. ASSUME NEW i \in 1 .. Len(reply')
          PROVE  reply'[i] = Len(delivered') + i
      <4>1. CASE i = Len(reply) + 1
        BY <3>2, <3>3, <4>1 DEF ReplyInv
      <4>2. CASE i \in 1 .. Len(reply)
        BY <3>2, <3>3, <4>2 DEF ReplyInv
      <4>. QED
        BY <3>1, <3>3, <4>1, <4>2
    <3>5. Len(delivered') + Len(reply') = readct' - 1
      BY <3>1, <3>3 DEF ReplyInv
    <3>. QED
      BY <3>3, <3>4, <3>5 DEF ReplyInv
  <2>7. reply' # <<>>
    BY <2>1 DEF StreamsOK
  <2>. QED
    BY <2>2, <2>3, <2>4, <2>5, <2>6, <2>7
<1>. QED
  BY <1>2, <1>3

\* The sread packet: at most one message moves from readbuf to reply.
LEMMA SreadInv == ASSUME IInv, Sread PROVE IInv'
<1> USE DEF IInv, WindowInv, ReadInv
<1>1. /\ sreads > 0 /\ sreads' = sreads - 1
      /\ UNCHANGED <<seq, sendct, databuf, writebuf, ack, ackbuf, dataNet,
                     ackNet>>
      /\ reading' = reading
  BY DEF Sread, windowVars, senderVars, netVars
<1>2. /\ NumbersOK' /\ StreamsOK' /\ ReplyInv' /\ OnceOnly'
      /\ Received' = Received
      /\ readct \in readbuf => reply' # <<>>
  BY SreadKeeps
<1>3. SenderInv' /\ SentInv' /\ AckInv' /\ KeptInv'
  BY <1>1, <1>2 DEF SenderInv, SentInv, AckInv, AckKept, KeptInv
<1>4. ReadingOK' /\ NoLostWakeup'
  <2>1. CASE readct \in readbuf
    BY <1>1, <1>2, <2>1, Zenon DEF ReadingOK, NoLostWakeup
  <2>2. CASE readct \notin readbuf
    <3>1. UNCHANGED <<readbuf, readct>>
      BY <2>2 DEF Sread, Due
    <3>. QED
      BY <1>1, <2>2, <3>1, Zenon DEF ReadingOK, NoLostWakeup
  <2>. QED
    BY <2>1, <2>2
<1>. QED
  BY <1>2, <1>3, <1>4

\* What was received was written.
ReceivedSent == \A n \in Received : n \in Seqs /\ n < sendct

\* The head of the reply channel is the message after the last one delivered,
\* and it was written.
LEMMA HeadOfReply ==
  ASSUME NumbersOK, ReceivedSent, StreamsOK, ReplyInv, reply # <<>>
  PROVE  /\ Head(reply) = Len(delivered) + 1
         /\ Head(reply) \in 1 .. Len(written)
<1>1. Len(reply) > 0 /\ Len(delivered) \in Nat
  BY DEF StreamsOK
<1>2. Head(reply) = Len(delivered) + 1
  BY <1>1 DEF StreamsOK, ReplyInv
<1>3. Len(delivered) + 1 \in Received
  BY <1>1 DEF ReplyInv, Received, StreamsOK, NumbersOK
<1>. QED
  BY <1>1, <1>2, <1>3 DEF ReceivedSent, ReplyInv, NumbersOK, Seqs

\* Read takes the head of the reply channel.
LEMMA ReadReturnKeeps ==
  ASSUME NumbersOK, ReceivedSent, StreamsOK, ReplyInv, ReadReturn
  PROVE  NumbersOK' /\ StreamsOK' /\ ReplyInv' /\ Received' = Received
<1>1. /\ UNCHANGED <<seq, sendct, databuf, writebuf, ack, ackbuf, dataNet,
                     ackNet, readbuf, readct, sreads, written>>
      /\ reply # <<>> /\ reply' = Tail(reply)
      /\ delivered' = Append(delivered, written[Head(reply)])
  BY DEF ReadReturn, windowVars, senderVars, netVars
<1>2. Received' = Received
  BY <1>1 DEF Received
<1>3. NumbersOK'
  BY <1>1 DEF NumbersOK
<1>4. written[Head(reply)] \in Data
  BY <1>1, HeadOfReply DEF StreamsOK
<1>5. StreamsOK'
  BY <1>1, <1>4 DEF StreamsOK
<1>6. ReplyInv'
  <2>1. Len(delivered') = Len(delivered) + 1
    BY <1>1, <1>4 DEF StreamsOK
  <2>2. Len(reply') = Len(reply) - 1
    BY <1>1 DEF StreamsOK
  <2>3. ASSUME NEW i \in 1 .. Len(reply')
        PROVE  reply'[i] = Len(delivered') + i
    <3>1. reply'[i] = reply[i + 1] /\ i + 1 \in 1 .. Len(reply)
      BY <1>1, <2>2 DEF StreamsOK
    <3>. QED
      BY <3>1, <2>1 DEF ReplyInv, StreamsOK
  <2>. QED
    BY <1>1, <2>1, <2>2, <2>3 DEF ReplyInv, StreamsOK, NumbersOK
<1>. QED
  BY <1>2, <1>3, <1>5, <1>6

\* Read takes the first message of reply.
LEMMA ReadReturnInv == ASSUME IInv, ReadReturn PROVE IInv'
<1> USE DEF IInv, WindowInv, ReadInv
<1>1. /\ UNCHANGED <<seq, sendct, databuf, writebuf, ack, ackbuf, dataNet,
                     ackNet, readbuf, readct>>
      /\ reading' = FALSE
  BY DEF ReadReturn, windowVars, senderVars, netVars
<1>2. NumbersOK' /\ StreamsOK' /\ ReplyInv' /\ Received' = Received
  BY ReadReturnKeeps DEF SentInv, ReceivedSent
<1>3. SenderInv' /\ SentInv' /\ AckInv' /\ KeptInv' /\ OnceOnly'
  BY <1>1, <1>2 DEF SenderInv, SentInv, AckInv, AckKept, KeptInv, OnceOnly
<1>4. ReadingOK' /\ NoLostWakeup'
  BY <1>1, Zenon DEF ReadingOK, NoLostWakeup
<1>. QED
  BY <1>2, <1>3, <1>4

\* A call of Read posts an sread packet.
LEMMA ReadCallInv == ASSUME IInv, ReadCall PROVE IInv'
<1> USE DEF IInv, WindowInv, ReadInv
<1>1. /\ UNCHANGED <<seq, sendct, databuf, writebuf, ack, ackbuf, dataNet,
                     ackNet, readbuf, readct, reply, delivered, written>>
      /\ sreads' = sreads + 1 /\ reading' = TRUE
  BY DEF ReadCall, windowVars, senderVars, netVars
<1>2. NumbersOK' /\ sreads' > 0
  BY <1>1 DEF NumbersOK
<1>3. Received' = Received
  BY <1>1 DEF Received
<1>4. SenderInv' /\ SentInv' /\ AckInv' /\ KeptInv' /\ OnceOnly'
  BY <1>1, <1>3 DEF SenderInv, SentInv, AckInv, AckKept, KeptInv, OnceOnly
<1>5. StreamsOK' /\ ReplyInv'
  BY <1>1 DEF StreamsOK, ReplyInv
<1>6. ReadingOK' /\ NoLostWakeup'
  BY <1>1, <1>2, Zenon DEF ReadingOK, NoLostWakeup
<1>. QED
  BY <1>2, <1>4, <1>5, <1>6

\* The epochs and the losses change only what is in flight: a message sent
\* again was sent before, and an Ack sent again is of a message received.
LEMMA NetworkInv ==
  ASSUME IInv,
         \/ SenderEpoch \/ ReceiverEpoch
         \/ \E n \in Seqs : LoseData(n) \/ LoseAck(n)
         \/ UNCHANGED vars
  PROVE  IInv'
<1> USE DEF IInv, WindowInv, ReadInv
<1>1. /\ UNCHANGED <<senderVars, windowVars, readVars>>
      /\ dataNet' \subseteq dataNet \cup databuf
      /\ ackNet' \subseteq ackNet \cup ackbuf
  <2>1. CASE SenderEpoch
    BY <2>1 DEF SenderEpoch
  <2>2. CASE ReceiverEpoch
    BY <2>2 DEF ReceiverEpoch
  <2>3. CASE \E n \in Seqs : LoseData(n) \/ LoseAck(n)
    BY <2>3 DEF LoseData, LoseAck
  <2>4. CASE UNCHANGED vars
    BY <2>4 DEF vars, netVars
  <2>. QED
    BY <2>1, <2>2, <2>3, <2>4
<1>2. /\ UNCHANGED <<seq, sendct, databuf, writebuf, ack, ackbuf, readbuf,
                     readct, sreads>>
      /\ UNCHANGED <<reply, written, delivered>>
  BY <1>1 DEF senderVars, windowVars, readVars
<1>3. Received' = Received
  BY <1>2 DEF Received
<1>4. NumbersOK'
  BY <1>1, <1>2 DEF NumbersOK
<1>5. SenderInv' /\ KeptInv' /\ OnceOnly'
  BY <1>2, <1>3 DEF SenderInv, KeptInv, OnceOnly
<1>6. SentInv'
  BY <1>1, <1>2, <1>3 DEF SentInv, SenderInv
<1>7. AckInv'
  BY <1>1, <1>2, <1>3 DEF AckInv, AckKept, NumbersOK
<1>8. StreamsOK' /\ ReplyInv'
  BY <1>2 DEF StreamsOK, ReplyInv
<1>9. ReadingOK' /\ NoLostWakeup'
  BY <1>1, ReadUnchanged
<1>. QED
  BY <1>4, <1>5, <1>6, <1>7, <1>8, <1>9

\* The inductive invariant holds of every state the connection can reach.
THEOREM Inductive == Safety => []IInv
<1>1. IInv /\ [Next]_vars => IInv'
  <2>. SUFFICES ASSUME IInv, [Next]_vars PROVE IInv'
    OBVIOUS
  <2>1. CASE Sender
    BY <2>1, WriteInv, RecvAckInv, NetworkInv DEF Sender
  <2>2. CASE Receiver
    BY <2>2, RecvDataInv, NetworkInv, SreadInv, ReadCallInv, ReadReturnInv
       DEF Receiver
  <2>3. CASE Network
    BY <2>3, NetworkInv DEF Network
  <2>4. CASE UNCHANGED vars
    BY <2>4, NetworkInv
  <2>. QED
    BY <2>1, <2>2, <2>3, <2>4 DEF Next
<1>. QED
  BY InitInv, <1>1, PTL DEF Safety
-----------------------------------------------------------------------------
\* The variables keep their types.
THEOREM TypeCorrect == Safety => []TypeOK
<1>1. IInv => TypeOK
  BY TypeParts, Zenon DEF IInv, WindowInv, ReadInv
<1>. QED
  BY Inductive, <1>1, PTL

\* params.go, WindowSize: at most WindowSize messages are sent and not
\* acknowledged, all of them from the base on.
THEOREM WindowCorrect == Safety => []WindowBound
<1>1. IInv => WindowBound
  <2>. SUFFICES ASSUME IInv PROVE WindowBound
    OBVIOUS
  <2>1. \A n \in databuf : n \in seq .. seq + WindowSize - 1
    BY DEF IInv, WindowInv, NumbersOK, SenderInv, Seqs
  <2>2. \A n \in writebuf : n >= seq + WindowSize
    BY DEF IInv, WindowInv, NumbersOK, SenderInv, Seqs
  <2>. QED
    BY <2>1, <2>2 DEF WindowBound
<1>. QED
  BY Inductive, <1>1, PTL

\* No message is sent again that the receiver would not acknowledge.
THEOREM RetransmitCorrect == Safety => []RetransmitAccepted
<1>1. IInv => RetransmitAccepted
  BY DEF IInv, WindowInv, NumbersOK, SenderInv, AckInv, RetransmitAccepted,
         Seqs
<1>. QED
  BY Inductive, <1>1, PTL

\* An Ack speaks of a message that was received, so nothing is dropped from
\* databuf that the receiver does not have.
THEOREM AckCorrect == Safety => []AckedWasReceived
<1>1. IInv => AckedWasReceived
  <2>. SUFFICES ASSUME IInv PROVE AckedWasReceived
    OBVIOUS
  <2> USE DEF IInv, WindowInv
  <2>1. ackNet \cup ackbuf \subseteq Received
    BY DEF AckInv, AckKept, NumbersOK
  <2>2. ASSUME NEW n \in 1 .. sendct - 1
        PROVE  n \in databuf \cup writebuf \cup Received
    <3>1. n \in Seqs /\ n < sendct /\ seq + WindowSize \in Nat /\ n \in Nat
      BY DEF NumbersOK, Seqs
    <3>2. CASE n < seq + WindowSize
      BY <3>1, <3>2 DEF KeptInv
    <3>3. CASE ~ (n < seq + WindowSize)
      BY <3>1, <3>3 DEF SenderInv
    <3>. QED
      BY <3>2, <3>3
  <2>. QED
    BY <2>1, <2>2 DEF AckedWasReceived
<1>. QED
  BY Inductive, <1>1, PTL

\* A message handed to Read never comes back into readbuf.
THEOREM OnceCorrect == Safety => []OnceOnly
<1>1. IInv => OnceOnly
  BY DEF IInv, WindowInv
<1>. QED
  BY Inductive, <1>1, PTL

\* The Ack the sender waits for is still there to be sent again.
THEOREM AckableCorrect == Safety => []UnackedIsAckable
<1>1. IInv => UnackedIsAckable
  BY DEF IInv, WindowInv, NumbersOK, SenderInv, AckInv, AckKept, SentInv,
         UnackedIsAckable, Seqs
<1>. QED
  BY Inductive, <1>1, PTL

\* A Read that waits for a message that is there will be woken.
THEOREM WakeupCorrect == Safety => []NoLostWakeup
<1>1. IInv => NoLostWakeup
  BY DEF IInv
<1>. QED
  BY Inductive, <1>1, PTL
-----------------------------------------------------------------------------
\* Every step of the connection is a step of the reliable stream, or leaves
\* the two applications where they are.
LEMMA StreamStep == IInv /\ [Next]_vars => [Stream!Next]_(Stream!streamVars)
<1>. SUFFICES ASSUME IInv, [Next]_vars
              PROVE  [Stream!Next]_(Stream!streamVars)
  OBVIOUS
<1>1. ASSUME NEW d \in Data, Write(d) PROVE Stream!Send(d)
  BY <1>1 DEF Write, readVars, Stream!Send
<1>2. CASE ReadReturn
  <2>1. delivered' = Append(delivered, written[Head(reply)]) /\ reply # <<>>
        /\ written' = written
    BY <1>2 DEF ReadReturn, senderVars
  <2>2. Head(reply) = Len(delivered) + 1 /\ Head(reply) \in 1 .. Len(written)
    BY <2>1, HeadOfReply DEF IInv, WindowInv, ReadInv, SentInv, ReceivedSent
  <2>3. Len(delivered) \in Nat /\ Len(written) \in Nat
    BY DEF IInv, ReadInv, StreamsOK
  <2>. QED
    BY <2>1, <2>2, <2>3 DEF Stream!Recv, Stream!Next
<1>3. CASE \/ \E n \in Seqs : RecvAck(n) \/ RecvData(n)
           \/ SenderEpoch \/ ReceiverEpoch \/ Sread \/ ReadCall \/ Network
           \/ UNCHANGED vars
  BY <1>3 DEF RecvAck, RecvData, SenderEpoch, ReceiverEpoch, Sread, ReadCall,
     Network, LoseData, LoseAck, vars, senderVars, readVars, Stream!streamVars
<1>. QED
  BY <1>1, <1>2, <1>3 DEF Next, Sender, Receiver, Stream!Next

\* The connection implements the safety part of the reliable stream: what is
\* read is what was written, each payload once, in the order written.
THEOREM Implements == Safety => StreamSafety
<1>1. Init => Stream!Init
  BY DEF Init, Stream!Init
<1>. QED
  BY <1>1, StreamStep, Inductive, PTL DEF Safety, StreamSafety, Stream!Safety
=============================================================================
