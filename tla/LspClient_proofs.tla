-------------------------- MODULE LspClient_proofs --------------------------
(***************************************************************************)
(* Proofs about LspClient, for any WindowSize, EpochLimit, capacities of   *)
(* the channels and bounds: what Read returns, what wakes it, what Close   *)
(* waits for, and that exit never holds two values.                        *)
(***************************************************************************)
EXTENDS LspClient, Window_proofs, SequenceTheorems

\* What is left to do of what the loss obliges the handler to do when it has
\* to call Close itself: put a packet on over, post cclose, take from over.
CloseOver == <<Packet("over", 0), cclose, Packet("shut", 0)>>
ClosePost == <<cclose, Packet("shut", 0)>>
CloseShut == <<Packet("shut", 0)>>
Closes == {LossCloses, CloseOver, ClosePost, CloseShut}

\* The handler has an answer for Read to put on replyread.
Answer == {<<Packet("reply", n)>> : n \in 0 .. MaxData}
Replying == Answer \cup {LossReported, LossCloses}

OverPut == <<Packet("over", 0)>>
Todos == Replying \cup Closes \cup {<<>>, <<cread>>, <<cclose>>, OverPut}

TodoInv == todo \in Todos /\ (todo # <<>> => pc = "top")

ReqOK == req \in Seq(Packets)

AnswersOK == replyread \in Seq(0 .. MaxData) /\ results \in Seq(0 .. MaxData)

CountsOK == over \in Nat /\ exit \in Nat /\ readct \in Nat

FlagsOK ==
  /\ losted \in BOOLEAN /\ closepend \in BOOLEAN /\ closeack \in BOOLEAN
  /\ shut \in BOOLEAN /\ reading \in BOOLEAN
  /\ closing \in {"no", "called", "done"} /\ pc \in {"top", "take", "gone"}

ReadbufOK == readbuf \subseteq 1 .. MaxData

Types == TodoInv /\ ReqOK /\ AnswersOK /\ CountsOK /\ FlagsOK /\ ReadbufOK

USE BoundsAssumption
-----------------------------------------------------------------------------
(***************************************************************************)
(* Packets, and what the handler has left to do.                           *)
(***************************************************************************)

\* The kinds of packets in req are different.
LEMMA PacketsDiffer ==
  /\ cread # cclose /\ cread # cwrite /\ cread # timer
  /\ cclose # cwrite /\ cclose # timer /\ cwrite # timer
  /\ \A p \in Datagrams : p \notin {cread, cclose, cwrite, timer}
  /\ {cread, cclose, cwrite, timer} \cup Datagrams \subseteq Packets
<1>1. \A p \in {cread, cclose, cwrite, timer} : p[1] \notin {"ack", "data"}
  BY DEF cread, cclose, cwrite, timer, Packet
<1>2. \A p \in Datagrams : p[1] \in {"ack", "data"}
  BY DEF Datagrams, Packet
<1>3. /\ cread # cclose /\ cread # cwrite /\ cread # timer
      /\ cclose # cwrite /\ cclose # timer /\ cwrite # timer
  BY DEF cread, cclose, cwrite, timer, Packet
<1>4. \A p \in Datagrams : p \notin {cread, cclose, cwrite, timer}
  BY <1>1, <1>2
<1>5. {cread, cclose, cwrite, timer} \cup Datagrams \subseteq Packets
  BY DEF Packets
<1>. QED
  BY <1>3, <1>4, <1>5

\* What may be left to do, by its first operation and its length.
LEMMA TodosDiffer ==
  /\ \A t \in Answer : /\ t # <<>> /\ Len(t) = 1 /\ t[1][1] = "reply"
                       /\ t[1][2] \in 0 .. MaxData /\ Tail(t) = <<>>
  /\ /\ Len(LossReported) = 2 /\ LossReported[1] = Packet("reply", 0)
     /\ LossReported # <<>> /\ Tail(LossReported) = <<cclose>>
  /\ /\ Len(LossCloses) = 4 /\ LossCloses[1] = Packet("reply", 0)
     /\ LossCloses # <<>> /\ Tail(LossCloses) = CloseOver
  /\ /\ Len(CloseOver) = 3 /\ CloseOver[1] = Packet("over", 0)
     /\ CloseOver # <<>> /\ Tail(CloseOver) = ClosePost
  /\ /\ Len(ClosePost) = 2 /\ ClosePost[1] = cclose
     /\ ClosePost # <<>> /\ Tail(ClosePost) = CloseShut
  /\ /\ Len(CloseShut) = 1 /\ CloseShut[1] = Packet("shut", 0)
     /\ CloseShut # <<>> /\ Tail(CloseShut) = <<>>
  /\ /\ Len(OverPut) = 1 /\ OverPut[1] = Packet("over", 0)
     /\ OverPut # <<>> /\ Tail(OverPut) = <<>>
  /\ Len(<<cread>>) = 1 /\ <<cread>> # <<>> /\ Tail(<<cread>>) = <<>>
  /\ Len(<<cclose>>) = 1 /\ <<cclose>> # <<>> /\ Tail(<<cclose>>) = <<>>
<1>1. ASSUME NEW n \in 0 .. MaxData
      PROVE  LET t == <<Packet("reply", n)>>
             IN  /\ t # <<>> /\ Len(t) = 1 /\ t[1][1] = "reply"
                 /\ t[1][2] \in 0 .. MaxData /\ Tail(t) = <<>>
  BY DEF Packet
<1>2. \A t \in Answer : /\ t # <<>> /\ Len(t) = 1 /\ t[1][1] = "reply"
                        /\ t[1][2] \in 0 .. MaxData /\ Tail(t) = <<>>
  BY <1>1 DEF Answer
<1>3. /\ Len(LossReported) = 2 /\ LossReported[1] = Packet("reply", 0)
      /\ LossReported # <<>> /\ Tail(LossReported) = <<cclose>>
  BY DEF LossReported
<1>4. /\ Len(LossCloses) = 4 /\ LossCloses[1] = Packet("reply", 0)
      /\ LossCloses # <<>> /\ Tail(LossCloses) = CloseOver
  BY DEF LossCloses, CloseOver
<1>5. /\ Len(CloseOver) = 3 /\ CloseOver[1] = Packet("over", 0)
      /\ CloseOver # <<>> /\ Tail(CloseOver) = ClosePost
  BY DEF CloseOver, ClosePost
<1>6. /\ Len(ClosePost) = 2 /\ ClosePost[1] = cclose
      /\ ClosePost # <<>> /\ Tail(ClosePost) = CloseShut
  BY DEF CloseShut, ClosePost
<1>7. /\ Len(CloseShut) = 1 /\ CloseShut[1] = Packet("shut", 0)
      /\ CloseShut # <<>> /\ Tail(CloseShut) = <<>>
  BY DEF CloseShut
<1>8. /\ Len(OverPut) = 1 /\ OverPut[1] = Packet("over", 0)
      /\ OverPut # <<>> /\ Tail(OverPut) = <<>>
  BY DEF OverPut
<1>9. /\ Len(<<cread>>) = 1 /\ <<cread>> # <<>> /\ Tail(<<cread>>) = <<>>
      /\ Len(<<cclose>>) = 1 /\ <<cclose>> # <<>> /\ Tail(<<cclose>>) = <<>>
  OBVIOUS
<1>. QED
  BY <1>2, <1>3, <1>4, <1>5, <1>6, <1>7, <1>8, <1>9, Zenon

\* The first operations differ.
LEMMA FirstDiffer ==
  /\ cread[1] = "cread" /\ cclose[1] = "cclose"
  /\ \A k, n : Packet(k, n)[1] = k /\ Packet(k, n)[2] = n
  BY DEF cread, cclose, Packet

\* What is left to do is one thing only: lengths and first operations differ.
LEMMA TodosApart ==
  /\ \A t \in Replying : t \notin {<<>>, <<cread>>, <<cclose>>, OverPut,
                                   CloseOver, ClosePost, CloseShut}
  /\ \A t \in Closes : t \notin {<<>>, <<cread>>, <<cclose>>, OverPut,
                                 LossReported} \cup Answer
  /\ LossCloses \notin {CloseOver, ClosePost, CloseShut}
  /\ CloseOver \notin {ClosePost, CloseShut} /\ ClosePost # CloseShut
  /\ <<cread>> \notin {<<>>, <<cclose>>, OverPut}
  /\ <<cclose>> \notin {<<>>, OverPut} /\ OverPut # <<>>
  /\ LossReported \notin Answer /\ LossCloses \notin Answer
<1>1. /\ Packet("reply", 0)[1] = "reply" /\ Packet("over", 0)[1] = "over"
      /\ Packet("shut", 0)[1] = "shut"
      /\ cread[1] = "cread" /\ cclose[1] = "cclose"
  BY FirstDiffer
<1>2. /\ <<cread>>[1] = cread /\ <<cclose>>[1] = cclose
  OBVIOUS
<1>3. ASSUME NEW t \in Replying
      PROVE  t # <<>> /\ t[1][1] = "reply"
  BY <1>1, TodosDiffer DEF Replying
<1>4. \A t \in Replying : t \notin {<<>>, <<cread>>, <<cclose>>, OverPut,
                                    CloseOver, ClosePost, CloseShut}
  BY <1>1, <1>2, <1>3, TodosDiffer
<1>5. /\ LossCloses \notin {CloseOver, ClosePost, CloseShut, LossReported}
      /\ CloseOver \notin {ClosePost, CloseShut} /\ ClosePost # CloseShut
      /\ \A t \in Answer : t # LossCloses /\ t # LossReported
  BY TodosDiffer
<1>6. /\ <<cread>> \notin {<<>>, <<cclose>>, OverPut}
      /\ <<cclose>> \notin {<<>>, OverPut} /\ OverPut # <<>>
  BY <1>1, <1>2, TodosDiffer
<1>7. /\ CloseOver \notin {<<>>, <<cread>>, <<cclose>>, OverPut}
      /\ ClosePost \notin {<<>>, <<cread>>, <<cclose>>, OverPut}
  BY TodosDiffer
<1>8. CloseShut \notin {<<>>, <<cread>>, <<cclose>>, OverPut}
  BY <1>1, <1>2, TodosDiffer
<1>9. Answer \subseteq Replying /\ LossReported \in Replying
      /\ LossCloses \in Replying
  BY DEF Replying
<1>. QED
  BY <1>4, <1>5, <1>6, <1>7, <1>8, <1>9, Zenon DEF Closes

-----------------------------------------------------------------------------
(***************************************************************************)
(* The steps: a packet is taken from req, or put there, and the handler    *)
(* does the next operation on a channel.                                   *)
(***************************************************************************)

\* What Append adds, and what Head and Tail take.
LEMMA AppendIs ==
  ASSUME NEW S, NEW s \in Seq(S), NEW e \in S
  PROVE  /\ Append(s, e) \in Seq(S) /\ Len(Append(s, e)) = Len(s) + 1
         /\ Len(s) \in Nat /\ DOMAIN s = 1 .. Len(s)
         /\ DOMAIN Append(s, e) = 1 .. Len(s) + 1
         /\ \A k \in 1 .. Len(s) : Append(s, e)[k] = s[k]
         /\ Append(s, e)[Len(s) + 1] = e
  BY AppendProperties, LenProperties

\* The head taken off a sequence.
LEMMA HeadIs ==
  ASSUME NEW S, NEW s \in Seq(S), s # <<>>
  PROVE  /\ Tail(s) \in Seq(S) /\ Len(Tail(s)) = Len(s) - 1
         /\ Len(s) \in Nat /\ Len(s) > 0 /\ Head(s) = s[1] /\ s[1] \in S
         /\ DOMAIN s = 1 .. Len(s) /\ DOMAIN Tail(s) = 1 .. Len(s) - 1
         /\ \A k \in 1 .. Len(s) - 1 : Tail(s)[k] = s[k + 1]
  BY HeadTailProperties, LenProperties, EmptySeq

\* The handler takes the first packet of req, with nothing left to do.
LEMMA TakeIs ==
  ASSUME Types, NEW p, Take(p)
  PROVE  /\ req # <<>> /\ req' = Tail(req) /\ p = req[1]
         /\ todo = <<>> /\ pc = "take" /\ pc' = "top"
         /\ Len(req) \in Nat /\ Len(req) > 0 /\ Len(req') = Len(req) - 1
         /\ DOMAIN req = 1 .. Len(req) /\ DOMAIN req' = 1 .. Len(req) - 1
         /\ \A k \in DOMAIN req' : k + 1 \in DOMAIN req /\ req'[k] = req[k + 1]
         /\ req' \in Seq(Packets)
         /\ UNCHANGED <<replyread, over, exit, closing, reading, results,
                        serverUp>>
<1>1. req # <<>> /\ req' = Tail(req) /\ p = Head(req)
  BY DEF Take
<1>2. req \in Seq(Packets)
  BY DEF Types, ReqOK
<1>3. todo = <<>> /\ pc = "take" /\ pc' = "top"
  BY DEF Types, TodoInv, Take
<1>4. UNCHANGED <<replyread, over, exit, closing, reading, results, serverUp>>
  BY DEF Take, channelVars, appVars
<1>5. /\ Tail(req) \in Seq(Packets) /\ Len(Tail(req)) = Len(req) - 1
      /\ Len(req) \in Nat /\ Len(req) > 0 /\ Head(req) = req[1]
      /\ DOMAIN req = 1 .. Len(req) /\ DOMAIN Tail(req) = 1 .. Len(req) - 1
      /\ \A k \in 1 .. Len(req) - 1 : Tail(req)[k] = req[k + 1]
  BY <1>1, <1>2, HeadIs
<1>6. \A k \in DOMAIN Tail(req) :
        k + 1 \in DOMAIN req /\ Tail(req)[k] = req[k + 1]
  BY <1>5
<1>. QED
  BY <1>1, <1>3, <1>4, <1>5, <1>6

\* A packet is put at the end of req.
LEMMA PutIs ==
  ASSUME Types, NEW p \in Packets, req' = Append(req, p)
  PROVE  /\ req' \in Seq(Packets)
         /\ Len(req) \in Nat /\ Len(req') = Len(req) + 1
         /\ DOMAIN req = 1 .. Len(req) /\ DOMAIN req' = 1 .. Len(req) + 1
         /\ \A k \in DOMAIN req : k \in DOMAIN req' /\ req'[k] = req[k]
         /\ Len(req') \in DOMAIN req' /\ req'[Len(req')] = p
<1>1. req \in Seq(Packets)
  BY DEF Types, ReqOK
<1>2. /\ Append(req, p) \in Seq(Packets) /\ Len(req) \in Nat
      /\ Len(Append(req, p)) = Len(req) + 1 /\ DOMAIN req = 1 .. Len(req)
      /\ DOMAIN Append(req, p) = 1 .. Len(req) + 1
      /\ \A k \in 1 .. Len(req) : Append(req, p)[k] = req[k]
      /\ Append(req, p)[Len(req) + 1] = p
  BY <1>1, AppendIs
<1>. QED
  BY <1>2

\* What is left to do after the next operation of the handler.
AfterReply ==
  IF todo = LossReported THEN <<cclose>>
  ELSE IF todo = LossCloses THEN CloseOver ELSE <<>>
AfterOver == IF todo = CloseOver THEN ClosePost ELSE <<>>
AfterPost == IF todo = ClosePost THEN CloseShut ELSE <<>>

\* The operations on the channels, one by one.
PostsRead ==
  /\ todo = <<cread>> /\ todo' = <<>> /\ req' = Append(req, cread)
  /\ UNCHANGED <<replyread, over, exit, shut>>
PostsClose ==
  /\ todo \in {<<cclose>>, ClosePost} /\ todo' = AfterPost
  /\ req' = Append(req, cclose) /\ UNCHANGED <<replyread, over, exit, shut>>
Replies ==
  /\ todo \in Replying /\ todo' = AfterReply
  /\ replyread' = Append(replyread, todo[1][2])
  /\ UNCHANGED <<req, over, exit, shut>>
PutsOver ==
  /\ todo \in {OverPut, CloseOver} /\ todo' = AfterOver
  /\ over' = over + 1 /\ UNCHANGED <<req, replyread, exit, shut>>
ShutsDown ==
  /\ todo = CloseShut /\ todo' = <<>> /\ over > 0 /\ over' = over - 1
  /\ shut' = TRUE /\ exit' = exit + 1 /\ UNCHANGED <<req, replyread>>

\* Every operation on a channel is one of these.
LEMMA ChannelIs ==
  ASSUME Types, Channel
  PROVE  /\ PostsRead \/ PostsClose \/ Replies \/ PutsOver \/ ShutsDown
         /\ todo # <<>> /\ pc = "top" /\ pc' = "top"
         /\ UNCHANGED <<sendVars, recvVars, losted, closepend, closeack,
                        closing, reading, results>>
<1>. DEFINE p == Head(todo)
<1>1. /\ todo # <<>> /\ todo' = Tail(todo) /\ pc = "top" /\ pc' = "top"
      /\ UNCHANGED <<sendVars, recvVars, losted, closepend, closeack,
                     closing, reading, results>>
  BY DEF Channel, Types, TodoInv, appVars
<1>2. \/ /\ p \in {cread, cclose} /\ req' = Append(req, p)
         /\ UNCHANGED <<replyread, over, exit, shut>>
      \/ /\ p[1] = "reply" /\ replyread' = Append(replyread, p[2])
         /\ UNCHANGED <<req, over, exit, shut>>
      \/ /\ p[1] = "over" /\ over' = over + 1
         /\ UNCHANGED <<req, replyread, exit, shut>>
      \/ /\ p[1] = "shut" /\ over > 0 /\ over' = over - 1
         /\ shut' = TRUE /\ exit' = exit + 1 /\ UNCHANGED <<req, replyread>>
  BY Zenon DEF Channel, channelVars, Shut
<1>3. p = todo[1]
  OBVIOUS
<1>4. todo \in Todos
  BY DEF Types, TodoInv
<1>5. /\ \A k, n : Packet(k, n)[1] = k
      /\ cread[1] = "cread" /\ cclose[1] = "cclose"
  BY FirstDiffer
<1>6. CASE todo \in Replying
  <2>1. p[1] = "reply"
    BY <1>3, <1>5, <1>6, TodosDiffer DEF Replying
  <2>2. todo' = AfterReply
    BY <1>1, <1>6, TodosDiffer, TodosApart DEF Replying, AfterReply
  <2>. QED
    BY <1>1, <1>2, <1>3, <1>5, <1>6, <2>1, <2>2 DEF Replies
<1>7. CASE todo \in {OverPut, CloseOver}
  <2>1. p[1] = "over"
    BY <1>3, <1>5, <1>7, TodosDiffer
  <2>2. todo' = AfterOver
    BY <1>1, <1>7, TodosDiffer, TodosApart DEF AfterOver
  <2>. QED
    BY <1>1, <1>2, <1>5, <1>7, <2>1, <2>2 DEF PutsOver
<1>8. CASE todo \in {<<cclose>>, ClosePost}
  <2>1. p = cclose
    BY <1>3, <1>8, TodosDiffer
  <2>2. todo' = AfterPost
    BY <1>1, <1>8, TodosDiffer, TodosApart DEF AfterPost
  <2>. QED
    BY <1>1, <1>2, <1>5, <1>8, <2>1, <2>2 DEF PostsClose
<1>9. CASE todo = <<cread>>
  <2>1. p = cread /\ todo' = <<>>
    BY <1>1, <1>3, <1>9, TodosDiffer
  <2>. QED
    BY <1>1, <1>2, <1>5, <1>9, <2>1 DEF PostsRead
<1>10. CASE todo = CloseShut
  <2>1. p[1] = "shut" /\ todo' = <<>>
    BY <1>1, <1>3, <1>5, <1>10, TodosDiffer
  <2>. QED
    BY <1>1, <1>2, <1>5, <1>10, <2>1 DEF ShutsDown
<1>11. \/ todo \in Replying \/ todo \in {OverPut, CloseOver}
       \/ todo \in {<<cclose>>, ClosePost} \/ todo = <<cread>>
       \/ todo = CloseShut
  BY <1>1, <1>4 DEF Todos, Closes, Replying
<1>. QED
  BY <1>1, <1>6, <1>7, <1>8, <1>9, <1>10, <1>11

-----------------------------------------------------------------------------
(***************************************************************************)
(* The types of the channels and of what the proofs speak of.              *)
(***************************************************************************)

\* The handler takes packets from req, and others append packets.
LEMMA ReqStep ==
  ASSUME Types, [Next]_vars
  PROVE  ReqOK'
<1>1. /\ {cread, cclose, cwrite, timer} \subseteq Packets
      /\ Datagrams \subseteq Packets
  BY PacketsDiffer
<1>2. ASSUME NEW p, Take(p) PROVE ReqOK'
  BY <1>2, TakeIs DEF ReqOK
<1>3. ASSUME NEW p \in Packets, req' = Append(req, p) PROVE ReqOK'
  BY <1>3, PutIs DEF ReqOK
<1>4. ASSUME UNCHANGED req PROVE ReqOK'
  BY <1>4 DEF ReqOK, Types
<1>5. CASE HandleRead \/ HandleWrite \/ HandleClose \/ HandleEpoch
  BY <1>2, <1>5 DEF HandleRead, HandleWrite, HandleClose, HandleEpoch
<1>6. CASE \E p \in Datagrams : HandleReceiveDone(p)
  BY <1>2, <1>6 DEF HandleReceiveDone
<1>7. CASE \/ \E n \in 0 .. MaxWrites : HandleAck(n)
           \/ \E n \in 1 .. MaxData : HandleData(n)
  BY <1>2, <1>7 DEF HandleAck, HandleData
<1>8. CASE Channel
  BY <1>1, <1>3, <1>4, <1>8, ChannelIs
     DEF PostsRead, PostsClose, Replies, PutsOver, ShutsDown
<1>9. CASE Tick \/ Write \/ Close
  BY <1>1, <1>3, <1>9 DEF Tick, Write, Close, Post
<1>10. CASE \E p \in Datagrams : Receive(p)
  BY <1>1, <1>3, <1>10 DEF Receive, Post
<1>11. CASE Read
  BY <1>1, <1>3, <1>4, <1>11 DEF Read, Post
<1>12. CASE Top \/ ServerStops \/ CloseReturns \/ ReadReturns
  BY <1>4, <1>12 DEF Top, ServerStops, CloseReturns, ReadReturns
<1>13. CASE UNCHANGED vars
  BY <1>4, <1>13 DEF vars
<1>. QED
  BY <1>5, <1>6, <1>7, <1>8, <1>9, <1>10, <1>11, <1>12, <1>13
     DEF Next, Handler

\* What the handler has left to do for the packet it took.
LEMMA TodoStep ==
  ASSUME Types, [Next]_vars
  PROVE  TodoInv'
<1>1. todo \in Todos /\ (todo # <<>> => pc = "top")
  BY DEF Types, TodoInv
<1>2. ASSUME UNCHANGED <<todo, pc>> PROVE TodoInv'
  BY <1>1, <1>2 DEF TodoInv
<1>3. /\ {<<>>, <<cread>>, <<cclose>>, OverPut} \subseteq Todos
      /\ {LossReported, LossCloses, CloseOver, ClosePost, CloseShut}
           \subseteq Todos
      /\ Answer \subseteq Todos
  BY DEF Todos, Replying, Closes
<1>4. ASSUME NEW p, Take(p), todo' \in Todos PROVE TodoInv'
  BY <1>4, TakeIs DEF TodoInv
<1>5. ASSUME NEW p, Take(p), UNCHANGED todo PROVE TodoInv'
  BY <1>1, <1>4, <1>5
<1>6. CASE HandleRead
  <2>1. CASE readct \in readbuf
    <3>1. readct \in 0 .. MaxData
      BY <2>1 DEF Types, ReadbufOK
    <3>2. todo' = <<Packet("reply", readct)>>
      BY <1>6, <2>1 DEF HandleRead
    <3>3. todo' \in Answer
      BY <3>1, <3>2 DEF Answer
    <3>. QED
      BY <1>3, <1>4, <1>6, <3>3 DEF HandleRead
  <2>2. CASE readct \notin readbuf
    BY <1>5, <1>6, <2>2 DEF HandleRead
  <2>. QED
    BY <2>1, <2>2
<1>7. CASE HandleWrite
  BY <1>5, <1>7 DEF HandleWrite
<1>8. CASE HandleClose
  <2>1. todo' \in {todo, <<>>, OverPut}
    BY <1>8 DEF HandleClose, OverPut
  <2>. QED
    BY <1>1, <1>3, <1>4, <1>8, <2>1 DEF HandleClose
<1>9. CASE HandleEpoch
  <2>1. todo' \in {todo, LossReported, LossCloses}
    BY <1>9 DEF HandleEpoch, OnLoss
  <2>. QED
    BY <1>1, <1>3, <1>4, <1>9, <2>1 DEF HandleEpoch
<1>10. ASSUME NEW p \in Datagrams, HandleReceiveDone(p) PROVE TodoInv'
  BY <1>3, <1>4, <1>10 DEF HandleReceiveDone
<1>11. ASSUME NEW n, HandleAck(n) PROVE TodoInv'
  BY <1>5, <1>11 DEF HandleAck
<1>12. ASSUME NEW n, HandleData(n) PROVE TodoInv'
  <2>1. todo' \in {todo, <<>>, <<cread>>}
    BY <1>12 DEF HandleData, Wake
  <2>. QED
    BY <1>1, <1>3, <1>4, <1>12, <2>1 DEF HandleData
<1>13. CASE Channel
  <2>1. pc' = "top"
    BY <1>13, ChannelIs
  <2>2. todo' \in Todos
    BY <1>3, <1>13, ChannelIs
       DEF PostsRead, PostsClose, Replies, PutsOver, ShutsDown, AfterPost,
           AfterReply, AfterOver
  <2>. QED
    BY <2>1, <2>2 DEF TodoInv
<1>14. CASE Top
  BY <1>3, <1>14 DEF Top, TodoInv
<1>15. CASE Tick \/ Write \/ Close \/ Read \/ \E p \in Datagrams : Receive(p)
  BY <1>2, <1>15 DEF Tick, Write, Close, Read, Receive, Post
<1>16. CASE ServerStops \/ CloseReturns \/ ReadReturns
  BY <1>2, <1>16 DEF ServerStops, CloseReturns, ReadReturns
<1>17. CASE UNCHANGED vars
  BY <1>2, <1>17 DEF vars
<1>. QED
  BY <1>6, <1>7, <1>8, <1>9, <1>10, <1>11, <1>12, <1>13, <1>14, <1>15,
     <1>16, <1>17 DEF Next, Handler

\* The answers are numbers of messages.
LEMMA AnswersStep ==
  ASSUME Types, [Next]_vars
  PROVE  AnswersOK'
<1>1. replyread \in Seq(0 .. MaxData) /\ results \in Seq(0 .. MaxData)
  BY DEF Types, AnswersOK
<1>2. ASSUME UNCHANGED <<replyread, results>> PROVE AnswersOK'
  BY <1>1, <1>2 DEF AnswersOK
<1>3. ASSUME NEW p, Take(p) PROVE AnswersOK'
  BY <1>2, <1>3, TakeIs
<1>4. CASE HandleRead \/ HandleWrite \/ HandleClose \/ HandleEpoch
  BY <1>3, <1>4 DEF HandleRead, HandleWrite, HandleClose, HandleEpoch
<1>5. CASE \E p \in Datagrams : HandleReceiveDone(p)
  BY <1>3, <1>5 DEF HandleReceiveDone
<1>6. CASE \/ \E n \in 0 .. MaxWrites : HandleAck(n)
           \/ \E n \in 1 .. MaxData : HandleData(n)
  BY <1>3, <1>6 DEF HandleAck, HandleData
<1>7. CASE Channel
  <2>1. CASE Replies
    <3>1. todo[1][2] \in 0 .. MaxData
      BY <2>1, TodosDiffer, FirstDiffer DEF Replies, Replying
    <3>2. Append(replyread, todo[1][2]) \in Seq(0 .. MaxData)
      BY <1>1, <3>1, AppendIs
    <3>3. UNCHANGED results
      BY <1>7, ChannelIs
    <3>. QED
      BY <1>1, <2>1, <3>2, <3>3 DEF Replies, AnswersOK
  <2>2. CASE PostsRead \/ PostsClose \/ PutsOver \/ ShutsDown
    BY <1>2, <1>7, <2>2, ChannelIs
       DEF PostsRead, PostsClose, PutsOver, ShutsDown
  <2>. QED
    BY <1>7, <2>1, <2>2, ChannelIs
<1>8. CASE Read
  <2>1. UNCHANGED replyread
    BY <1>8 DEF Read, channelVars
  <2>2. results' = Append(results, 0) \/ UNCHANGED results
    BY <1>8 DEF Read
  <2>3. Append(results, 0) \in Seq(0 .. MaxData)
    BY <1>1, AppendIs
  <2>. QED
    BY <1>1, <2>1, <2>2, <2>3 DEF AnswersOK
<1>9. CASE ReadReturns
  <2>1. /\ replyread # <<>> /\ replyread' = Tail(replyread)
        /\ results' = Append(results, Head(replyread))
    BY <1>9 DEF ReadReturns
  <2>2. /\ Tail(replyread) \in Seq(0 .. MaxData)
        /\ Head(replyread) \in 0 .. MaxData
    BY <1>1, <2>1, HeadIs
  <2>3. Append(results, Head(replyread)) \in Seq(0 .. MaxData)
    BY <1>1, <2>2, AppendIs
  <2>. QED
    BY <2>1, <2>2, <2>3 DEF AnswersOK
<1>10. CASE Tick \/ Write \/ Close \/ \E p \in Datagrams : Receive(p)
  BY <1>2, <1>10 DEF Tick, Write, Close, Receive, channelVars, appVars
<1>11. CASE Top \/ ServerStops \/ CloseReturns
  BY <1>2, <1>11 DEF Top, ServerStops, CloseReturns, channelVars, appVars
<1>12. CASE UNCHANGED vars
  BY <1>2, <1>12 DEF vars, channelVars, appVars
<1>. QED
  BY <1>4, <1>5, <1>6, <1>7, <1>8, <1>9, <1>10, <1>11, <1>12
     DEF Next, Handler

\* The numbers of packets in over and in exit, and the next message to read.
LEMMA CountsStep ==
  ASSUME Types, [Next]_vars
  PROVE  CountsOK'
<1>1. over \in Nat /\ exit \in Nat /\ readct \in Nat
  BY DEF Types, CountsOK
<1>2. ASSUME UNCHANGED <<over, exit, readct>> PROVE CountsOK'
  BY <1>1, <1>2 DEF CountsOK
<1>3. ASSUME NEW p, Take(p), UNCHANGED readct PROVE CountsOK'
  BY <1>2, <1>3, TakeIs
<1>4. CASE HandleRead
  <2>1. readct' \in Nat
    BY <1>1, <1>4 DEF HandleRead
  <2>2. UNCHANGED <<over, exit>>
    BY <1>4, TakeIs DEF HandleRead
  <2>. QED
    BY <1>1, <2>1, <2>2 DEF CountsOK
<1>5. CASE HandleWrite \/ HandleClose \/ HandleEpoch
  BY <1>3, <1>5 DEF HandleWrite, HandleClose, HandleEpoch, recvVars
<1>6. CASE \E p \in Datagrams : HandleReceiveDone(p)
  BY <1>3, <1>6 DEF HandleReceiveDone, recvVars
<1>7. CASE \/ \E n \in 0 .. MaxWrites : HandleAck(n)
           \/ \E n \in 1 .. MaxData : HandleData(n)
  BY <1>3, <1>7 DEF HandleAck, HandleData, recvVars
<1>8. CASE Channel
  <2>1. UNCHANGED readct
    BY <1>8, ChannelIs DEF recvVars
  <2>2. UNCHANGED over \/ over' = over + 1 \/ (over > 0 /\ over' = over - 1)
    BY <1>8, ChannelIs
       DEF PostsRead, PostsClose, Replies, PutsOver, ShutsDown
  <2>3. exit' \in {exit, exit + 1}
    BY <1>8, ChannelIs
       DEF PostsRead, PostsClose, Replies, PutsOver, ShutsDown
  <2>. QED
    BY <1>1, <2>1, <2>2, <2>3 DEF CountsOK
<1>9. CASE Top
  <2>1. UNCHANGED <<over, readct>>
    BY <1>9 DEF Top, recvVars
  <2>2. exit' = exit \/ (exit > 0 /\ exit' = exit - 1)
    BY <1>9 DEF Top
  <2>. QED
    BY <1>1, <2>1, <2>2 DEF CountsOK
<1>10. CASE CloseReturns
  <2>1. over > 0 /\ over' = over - 1 /\ exit' = exit + 1 /\ UNCHANGED readct
    BY <1>10 DEF CloseReturns, Shut, recvVars
  <2>. QED
    BY <1>1, <2>1 DEF CountsOK
<1>11. CASE Tick \/ Write \/ Close \/ Read \/ \E p \in Datagrams : Receive(p)
  BY <1>2, <1>11 DEF Tick, Write, Close, Read, Receive, Post, channelVars,
                     recvVars
<1>12. CASE ServerStops \/ ReadReturns
  BY <1>2, <1>12 DEF ServerStops, ReadReturns, channelVars, recvVars
<1>13. CASE UNCHANGED vars
  BY <1>2, <1>13 DEF vars, channelVars, recvVars
<1>. QED
  BY <1>4, <1>5, <1>6, <1>7, <1>8, <1>9, <1>10, <1>11, <1>12, <1>13
     DEF Next, Handler

\* What the handler and the application know of the end.
LEMMA EndFlagsStep ==
  ASSUME Types, [Next]_vars
  PROVE  /\ losted' \in BOOLEAN /\ closepend' \in BOOLEAN
         /\ closeack' \in BOOLEAN /\ shut' \in BOOLEAN
<1>1. FlagsOK
  BY DEF Types
<1>2. CASE HandleRead \/ HandleWrite \/ HandleClose \/ HandleEpoch
  BY <1>1, <1>2, Zenon DEF HandleRead, HandleWrite, HandleClose,
                           HandleEpoch, FlagsOK, endVars
<1>3. CASE \E p \in Datagrams : HandleReceiveDone(p)
  BY <1>1, <1>3, Zenon DEF HandleReceiveDone, FlagsOK
<1>4. CASE \/ \E n \in 0 .. MaxWrites : HandleAck(n)
           \/ \E n \in 1 .. MaxData : HandleData(n)
  BY <1>1, <1>4, Zenon DEF HandleAck, HandleData, FlagsOK, endVars
<1>5. CASE Channel
  <2>1. UNCHANGED <<losted, closepend, closeack>>
    BY <1>5, ChannelIs
  <2>2. UNCHANGED shut \/ shut' = TRUE
    BY <1>5, ChannelIs
       DEF PostsRead, PostsClose, Replies, PutsOver, ShutsDown
  <2>. QED
    BY <1>1, <2>1, <2>2, Zenon DEF FlagsOK
<1>6. CASE Top \/ ServerStops \/ ReadReturns
  BY <1>1, <1>6, Zenon DEF Top, ServerStops, ReadReturns, endVars, FlagsOK
<1>7. CASE Tick \/ Write \/ Close \/ \E p \in Datagrams : Receive(p)
  BY <1>1, <1>7, Zenon DEF Tick, Write, Close, Receive, Post, FlagsOK
<1>8. CASE Read
  BY <1>1, <1>8, Zenon DEF Read, Post, FlagsOK
<1>9. CASE CloseReturns
  BY <1>1, <1>9, Zenon DEF CloseReturns, Shut, FlagsOK
<1>10. CASE UNCHANGED vars
  BY <1>1, <1>10, Zenon DEF vars, endVars, FlagsOK
<1>. QED
  BY <1>2, <1>3, <1>4, <1>5, <1>6, <1>7, <1>8, <1>9, <1>10
     DEF Next, Handler

\* What the handler and the application are at.
LEMMA FlagsStep ==
  ASSUME Types, [Next]_vars
  PROVE  FlagsOK'
<1>1. FlagsOK
  BY DEF Types
<1>2. SUFFICES /\ closing' \in {"no", "called", "done"}
               /\ reading' \in BOOLEAN /\ pc' \in {"top", "take", "gone"}
  BY EndFlagsStep, Zenon DEF FlagsOK
<1>3. ASSUME NEW p, Take(p)
      PROVE  pc' = "top" /\ UNCHANGED <<closing, reading>>
  BY <1>3, TakeIs
<1>4. CASE HandleRead \/ HandleWrite \/ HandleClose \/ HandleEpoch
  BY <1>1, <1>3, <1>4, Zenon
     DEF HandleRead, HandleWrite, HandleClose, HandleEpoch, FlagsOK
<1>5. CASE \E p \in Datagrams : HandleReceiveDone(p)
  BY <1>1, <1>3, <1>5, Zenon DEF HandleReceiveDone, FlagsOK
<1>6. CASE \/ \E n \in 0 .. MaxWrites : HandleAck(n)
           \/ \E n \in 1 .. MaxData : HandleData(n)
  BY <1>1, <1>3, <1>6, Zenon DEF HandleAck, HandleData, FlagsOK
<1>7. CASE Channel
  <2>1. pc' = "top" /\ UNCHANGED <<closing, reading>>
    BY <1>7, ChannelIs
  <2>. QED
    BY <1>1, <2>1, Zenon DEF FlagsOK
<1>8. CASE Top \/ ServerStops \/ ReadReturns
  BY <1>1, <1>8, Zenon DEF Top, ServerStops, ReadReturns, appVars, FlagsOK
<1>9. CASE Tick \/ Write \/ Close \/ \E p \in Datagrams : Receive(p)
  BY <1>1, <1>9, Zenon DEF Tick, Write, Close, Receive, Post, appVars,
                           FlagsOK
<1>10. CASE Read
  BY <1>1, <1>10, Zenon DEF Read, Post, FlagsOK
<1>11. CASE CloseReturns
  BY <1>1, <1>11, Zenon DEF CloseReturns, FlagsOK
<1>12. CASE UNCHANGED vars
  BY <1>1, <1>12, Zenon DEF vars, appVars, FlagsOK
<1>. QED
  BY <1>4, <1>5, <1>6, <1>7, <1>8, <1>9, <1>10, <1>11, <1>12
     DEF Next, Handler

\* What is there to be read.
LEMMA ReadbufStep ==
  ASSUME Types, [Next]_vars
  PROVE  ReadbufOK'
<1>1. readbuf \subseteq 1 .. MaxData
  BY DEF Types, ReadbufOK
<1>2. ASSUME UNCHANGED readbuf PROVE ReadbufOK'
  BY <1>1, <1>2 DEF ReadbufOK
<1>3. CASE HandleRead
  BY <1>1, <1>3 DEF HandleRead, ReadbufOK
<1>4. ASSUME NEW n \in 1 .. MaxData, HandleData(n) PROVE ReadbufOK'
  <2>1. readbuf' = readbuf \/ readbuf' = readbuf \cup {n}
    BY <1>4 DEF HandleData, recvVars
  <2>. QED
    BY <1>1, <2>1 DEF ReadbufOK
<1>5. CASE HandleWrite \/ HandleClose \/ HandleEpoch
  BY <1>2, <1>5 DEF HandleWrite, HandleClose, HandleEpoch, recvVars
<1>6. CASE \/ \E p \in Datagrams : HandleReceiveDone(p)
           \/ \E n \in 0 .. MaxWrites : HandleAck(n)
  BY <1>2, <1>6 DEF HandleReceiveDone, HandleAck, recvVars
<1>7. CASE Channel
  BY <1>2, <1>7, ChannelIs DEF recvVars
<1>8. CASE Top \/ ServerStops \/ ReadReturns \/ CloseReturns
  BY <1>2, <1>8 DEF Top, ServerStops, ReadReturns, CloseReturns, recvVars
<1>9. CASE Tick \/ Write \/ Close \/ \E p \in Datagrams : Receive(p)
  BY <1>2, <1>9 DEF Tick, Write, Close, Receive, Post, recvVars
<1>10. CASE Read
  BY <1>2, <1>10 DEF Read, Post, recvVars
<1>11. CASE UNCHANGED vars
  BY <1>2, <1>11 DEF vars, recvVars
<1>. QED
  BY <1>3, <1>4, <1>5, <1>6, <1>7, <1>8, <1>9, <1>10, <1>11
     DEF Next, Handler

\* All of them.
LEMMA TypesStep ==
  ASSUME Types, [Next]_vars
  PROVE  Types'
  BY TodoStep, ReqStep, AnswersStep, CountsStep, FlagsStep, ReadbufStep
     DEF Types

-----------------------------------------------------------------------------
(***************************************************************************)
(* The connection is shut once, by the application's Close or by the       *)
(* handler's.  Only after a loss that found no Close waiting does the      *)
(* handler go through Closes; otherwise over is filled for a Close that    *)
(* was seen, and the handler that is shut leaves at its next test of exit. *)
(***************************************************************************)
ShutInv ==
  /\ exit = IF shut /\ pc # "gone" THEN 1 ELSE 0
  /\ pc = "gone" => shut /\ todo = <<>>
  /\ closing = "done" => shut
  /\ closepend /\ shut => closing = "done"
  /\ todo \in Closes => losted /\ ~ closepend
  /\ todo \in {LossCloses, CloseOver} => over = 0 /\ ~ shut
  /\ todo \in {ClosePost, CloseShut} =>
       (over = 1 /\ ~ shut) \/ (over = 0 /\ shut)
  /\ ~ closepend /\ todo \notin Closes =>
       /\ over = 0 /\ (losted => shut)
       /\ shut => todo = <<>> /\ pc # "take"
  /\ todo = LossReported => losted
  /\ todo = OverPut => closepend

\* What is left to do may be none of the Closes.
LEMMA NotClosing ==
  /\ \A t \in {<<>>, <<cread>>, <<cclose>>, OverPut} \cup Answer :
       /\ t \notin Closes /\ t # LossReported
       /\ t \notin {LossCloses, CloseOver, ClosePost, CloseShut}
  /\ <<>> # OverPut /\ <<cread>> # OverPut /\ <<cclose>> # OverPut
  /\ \A t \in Answer : t # OverPut
  BY TodosApart DEF Closes, Replying

\* What a packet taken leaves of the connection's end.
LEMMA ShutTake ==
  ASSUME Types, ShutInv, NEW p, Take(p),
         \/ /\ UNCHANGED <<losted, closepend, shut>>
            /\ todo' \in {<<>>, <<cread>>, <<cclose>>} \cup Answer
         \/ /\ HandleClose \/ HandleEpoch
  PROVE  ShutInv'
<1>1. /\ todo = <<>> /\ pc = "take" /\ pc' = "top"
      /\ UNCHANGED <<over, exit, closing>>
  BY TakeIs
<1>2. FlagsOK
  BY DEF Types
<1>3. ~ closepend => ~ shut /\ ~ losted /\ over = 0
  BY <1>1, NotClosing, Zenon DEF ShutInv
<1>4. CASE /\ UNCHANGED <<losted, closepend, shut>>
           /\ todo' \in {<<>>, <<cread>>, <<cclose>>} \cup Answer
  <2>1. todo' \notin Closes /\ todo' # LossReported /\ todo' # OverPut
        /\ todo' \notin {LossCloses, CloseOver, ClosePost, CloseShut}
    BY <1>4, NotClosing
  <2>. QED
    BY <1>1, <1>2, <1>3, <1>4, <2>1 DEF ShutInv, FlagsOK
<1>5. CASE HandleClose
  <2>1. UNCHANGED <<losted, shut>>
    BY <1>5 DEF HandleClose
  <2>2. CASE shut
    <3>1. UNCHANGED <<closepend, todo>>
      BY <1>5, <2>2 DEF HandleClose
    <3>. QED
      BY <1>1, <1>4, <2>1, <3>1
  <2>3. CASE ~ shut
    <3>1. closepend' /\ todo' \in {<<>>, OverPut}
      BY <1>5, <2>3 DEF HandleClose, OverPut
    <3>2. todo' \notin Closes /\ todo' # LossReported
          /\ todo' \notin {LossCloses, CloseOver, ClosePost, CloseShut}
      BY <3>1, NotClosing
    <3>. QED
      BY <1>1, <1>2, <2>1, <2>3, <3>1, <3>2 DEF ShutInv, FlagsOK
  <2>. QED
    BY <2>2, <2>3
<1>6. CASE HandleEpoch
  <2>1. UNCHANGED <<closepend, shut>>
    BY <1>6 DEF HandleEpoch
  <2>2. CASE UNCHANGED <<losted, todo>>
    BY <1>1, <1>4, <2>1, <2>2
  <2>3. CASE losted' = TRUE /\ closepend /\ todo' = LossReported
    <3>1. todo' \notin Closes /\ todo' # OverPut
          /\ todo' \notin {LossCloses, CloseOver, ClosePost, CloseShut}
      BY <2>3, TodosApart DEF Closes, Replying
    <3>. QED
      BY <1>1, <1>2, <2>1, <2>3, <3>1 DEF ShutInv, FlagsOK
  <2>4. CASE losted' = TRUE /\ ~ closepend /\ todo' = LossCloses
    <3>1. todo' \in Closes /\ todo' # OverPut /\ todo' # LossReported
          /\ todo' \notin {ClosePost, CloseShut}
      BY <2>4, TodosApart DEF Closes, Replying
    <3>. QED
      BY <1>1, <1>2, <1>3, <2>1, <2>4, <3>1 DEF ShutInv, FlagsOK
  <2>. QED
    BY <1>2, <1>6, <2>2, <2>3, <2>4, Zenon DEF HandleEpoch, OnLoss, FlagsOK
<1>. QED
  BY <1>4, <1>5, <1>6

\* What an operation on a channel leaves of the connection's end.
LEMMA ShutChannel ==
  ASSUME Types, ShutInv, Channel
  PROVE  ShutInv'
<1>1. /\ todo # <<>> /\ pc = "top" /\ pc' = "top"
      /\ UNCHANGED <<losted, closepend, closing>>
  BY ChannelIs
<1>2. FlagsOK /\ over \in Nat /\ exit \in Nat
  BY DEF Types, CountsOK
<1>3. <<>> \notin Closes /\ <<>> # LossReported /\ <<>> # OverPut
      /\ <<>> \notin {LossCloses, CloseOver, ClosePost, CloseShut}
  BY NotClosing
<1>4. ASSUME UNCHANGED <<over, exit, shut>>, todo \notin Closes,
             todo' \in {<<>>, <<cclose>>}, todo # OverPut
      PROVE  ShutInv'
  <2>1. todo' \notin Closes /\ todo' # LossReported /\ todo' # OverPut
        /\ todo' \notin {LossCloses, CloseOver, ClosePost, CloseShut}
    BY <1>4, NotClosing
  <2>2. ~ closepend => ~ shut /\ ~ losted /\ over = 0
    BY <1>1, <1>4, Zenon DEF ShutInv
  <2>. QED
    BY <1>1, <1>2, <1>4, <2>1, <2>2 DEF ShutInv, FlagsOK
<1>5. CASE PostsRead
  BY <1>4, <1>5, NotClosing DEF PostsRead
<1>6. CASE PostsClose
  <2>1. CASE todo = <<cclose>>
    BY <1>4, <1>6, <2>1, NotClosing, TodosApart DEF PostsClose, AfterPost
  <2>2. CASE todo = ClosePost
    <3>1. todo' = CloseShut /\ UNCHANGED <<over, exit, shut>>
      BY <1>6, <2>2 DEF PostsClose, AfterPost
    <3>2. /\ todo \in Closes /\ todo' \in Closes /\ todo' # LossReported
          /\ todo' # OverPut /\ todo' \notin {LossCloses, CloseOver}
      BY <2>2, <3>1, TodosApart DEF Closes
    <3>. QED
      BY <1>1, <1>2, <2>2, <3>1, <3>2 DEF ShutInv, FlagsOK
  <2>. QED
    BY <1>6, <2>1, <2>2 DEF PostsClose
<1>7. CASE Replies
  <2>1. CASE todo \in Answer \cup {LossReported}
    <3>1. todo \notin Closes /\ todo # OverPut
      BY <2>1, NotClosing, TodosApart DEF Closes, Replying
    <3>2. todo' \in {<<>>, <<cclose>>} /\ UNCHANGED <<over, exit, shut>>
      BY <1>7, <2>1, NotClosing, TodosApart DEF Replies, AfterReply
    <3>. QED
      BY <1>4, <3>1, <3>2
  <2>2. CASE todo = LossCloses
    <3>1. todo' = CloseOver /\ UNCHANGED <<over, exit, shut>>
      BY <1>7, <2>2, TodosApart DEF Replies, AfterReply, Closes
    <3>2. /\ todo \in Closes /\ todo' \in Closes /\ todo' # LossReported
          /\ todo' # OverPut /\ todo' \notin {ClosePost, CloseShut}
      BY <2>2, <3>1, TodosApart DEF Closes
    <3>. QED
      BY <1>1, <1>2, <2>2, <3>1, <3>2 DEF ShutInv, FlagsOK
  <2>. QED
    BY <1>7, <2>1, <2>2 DEF Replies, Replying
<1>8. CASE PutsOver
  <2>1. over' = over + 1 /\ UNCHANGED <<exit, shut>>
    BY <1>8 DEF PutsOver
  <2>2. CASE todo = OverPut
    <3>1. todo' = <<>>
      BY <1>8, <2>2, NotClosing DEF PutsOver, AfterOver
    <3>2. closepend
      BY <2>2 DEF ShutInv
    <3>. QED
      BY <1>1, <1>2, <1>3, <2>1, <3>1, <3>2 DEF ShutInv, FlagsOK
  <2>3. CASE todo = CloseOver
    <3>1. todo' = ClosePost
      BY <1>8, <2>3 DEF PutsOver, AfterOver
    <3>2. /\ todo \in Closes /\ todo' \in Closes /\ todo' # LossReported
          /\ todo' # OverPut /\ todo' \notin {LossCloses, CloseOver}
      BY <2>3, <3>1, TodosApart DEF Closes
    <3>. QED
      BY <1>1, <1>2, <2>1, <2>3, <3>1, <3>2 DEF ShutInv, FlagsOK
  <2>. QED
    BY <1>8, <2>2, <2>3 DEF PutsOver
<1>9. CASE ShutsDown
  <2>1. /\ todo = CloseShut /\ todo' = <<>> /\ over > 0 /\ over' = over - 1
        /\ shut' = TRUE /\ exit' = exit + 1
    BY <1>9 DEF ShutsDown
  <2>2. over = 1 /\ ~ shut
    BY <1>2, <2>1 DEF ShutInv
  <2>3. ~ closepend
    BY <2>1 DEF ShutInv, Closes
  <2>. QED
    BY <1>1, <1>2, <1>3, <2>1, <2>2, <2>3 DEF ShutInv, FlagsOK
<1>. QED
  BY <1>5, <1>6, <1>7, <1>8, <1>9, ChannelIs

\* Every step.
LEMMA ShutStep ==
  ASSUME Types, ShutInv, [Next]_vars
  PROVE  ShutInv'
<1>1. FlagsOK /\ over \in Nat /\ exit \in Nat
  BY DEF Types, CountsOK
<1>2. ASSUME UNCHANGED <<over, exit, pc, todo, losted, closepend, shut,
                         closing>>
      PROVE  ShutInv'
  BY <1>2, Zenon DEF ShutInv
<1>3. CASE HandleClose \/ HandleEpoch
  BY <1>3, ShutTake DEF HandleClose, HandleEpoch
<1>4. CASE HandleRead
  <2>1. todo' \in {<<>>} \cup Answer
    <3>1. CASE readct \in readbuf
      <4>1. readct \in 0 .. MaxData /\ todo' = <<Packet("reply", readct)>>
        BY <1>4, <3>1 DEF HandleRead, Types, ReadbufOK
      <4>. QED
        BY <4>1 DEF Answer
    <3>2. CASE readct \notin readbuf
      BY <1>4, <3>2, TakeIs DEF HandleRead
    <3>. QED
      BY <3>1, <3>2
  <2>. QED
    BY <1>4, <2>1, ShutTake DEF HandleRead, endVars
<1>5. CASE HandleWrite
  BY <1>5, ShutTake, TakeIs DEF HandleWrite, endVars
<1>6. CASE \E p \in Datagrams : HandleReceiveDone(p)
  BY <1>6, ShutTake DEF HandleReceiveDone
<1>7. CASE \E n \in 0 .. MaxWrites : HandleAck(n)
  BY <1>7, ShutTake, TakeIs DEF HandleAck, endVars
<1>8. ASSUME NEW n \in 1 .. MaxData, HandleData(n) PROVE ShutInv'
  <2>1. Take(Packet("data", n)) /\ UNCHANGED <<losted, closepend, shut>>
    BY <1>8 DEF HandleData, endVars
  <2>2. todo' \in {todo, <<>>, <<cread>>}
    BY <1>8 DEF HandleData, Wake
  <2>3. todo' \in {<<>>, <<cread>>}
    BY <2>1, <2>2, TakeIs
  <2>. QED
    BY <2>1, <2>3, ShutTake
<1>9. CASE Top
  <2>1. /\ pc = "top" /\ todo = <<>>
        /\ UNCHANGED <<over, todo, losted, closepend, shut, closing>>
    BY <1>9 DEF Top, endVars, appVars
  <2>2. CASE exit > 0
    <3>1. pc' = "gone" /\ exit' = exit - 1
      BY <1>9, <2>2 DEF Top
    <3>. QED
      BY <1>1, <2>1, <2>2, <3>1 DEF ShutInv, FlagsOK
  <2>3. CASE ~ (exit > 0)
    <3>1. pc' = "take" /\ exit' = exit
      BY <1>9, <2>3 DEF Top
    <3>. QED
      BY <1>1, <2>1, <2>3, <3>1 DEF ShutInv, FlagsOK
  <2>. QED
    BY <2>2, <2>3
<1>10. CASE CloseReturns
  <2>1. /\ closing = "called" /\ over > 0 /\ closing' = "done"
        /\ over' = over - 1 /\ shut' = TRUE /\ exit' = exit + 1
        /\ UNCHANGED <<pc, todo, losted, closepend>>
    BY <1>10 DEF CloseReturns, Shut
  <2>2. ~ shut
    <3>1. CASE closepend
      BY <2>1, <3>1 DEF ShutInv
    <3>2. CASE ~ closepend
      BY <1>1, <2>1, <3>2 DEF ShutInv, Closes
    <3>. QED
      BY <3>1, <3>2
  <2>3. pc # "gone" /\ exit = 0
    BY <2>2 DEF ShutInv
  <2>4. ~ closepend => todo \in {ClosePost, CloseShut} /\ over = 1
    BY <1>1, <2>1 DEF ShutInv, Closes
  <2>5. \A t \in {ClosePost, CloseShut} :
          t \notin {LossCloses, CloseOver} /\ t \in Closes
    BY TodosApart DEF Closes
  <2>6. todo \in Closes => ~ closepend
    BY DEF ShutInv
  <2>7. /\ todo' \in Closes => losted' /\ ~ closepend'
        /\ todo' \notin {LossCloses, CloseOver}
        /\ todo' = LossReported => losted'
        /\ todo' = OverPut => closepend'
    BY <2>1, <2>4, <2>5, <2>6 DEF ShutInv, Closes
  <2>8. todo' \in {ClosePost, CloseShut} => over' = 0
    BY <2>1, <2>4, <2>5, <2>6
  <2>9. ~ closepend' => todo' \in Closes
    BY <2>1, <2>4, <2>5
  <2>10. exit' = 1 /\ pc' # "gone" /\ shut' /\ closing' = "done"
    BY <2>1, <2>3
  <2>. QED
    BY <2>7, <2>8, <2>9, <2>10 DEF ShutInv
<1>11. CASE Close
  <2>1. /\ closing = "no" /\ closing' = "called"
        /\ UNCHANGED <<over, exit, pc, todo, losted, closepend, shut>>
    BY <1>11 DEF Close, Post, channelVars
  <2>2. ~ (closepend /\ shut)
    BY <2>1 DEF ShutInv
  <2>. QED
    BY <2>1, <2>2, Zenon DEF ShutInv
<1>12. CASE Tick \/ Write \/ \E p \in Datagrams : Receive(p)
  BY <1>2, <1>12 DEF Tick, Write, Receive, Post, channelVars, appVars
<1>13. CASE Read
  BY <1>2, <1>13 DEF Read, Post, channelVars
<1>14. CASE ServerStops \/ ReadReturns
  BY <1>2, <1>14 DEF ServerStops, ReadReturns, channelVars, endVars, appVars
<1>15. CASE UNCHANGED vars
  BY <1>2, <1>15 DEF vars, channelVars, endVars, appVars
<1>. QED
  BY <1>3, <1>4, <1>5, <1>6, <1>7, <1>8, <1>9, <1>10, <1>11, <1>12, <1>13,
     <1>14, <1>15, ShutChannel DEF Next, Handler

-----------------------------------------------------------------------------
(***************************************************************************)
(* As long as the connection is not lost, cclose is posted for the         *)
(* application's Close alone, nothing is written after it, and closeack    *)
(* says that everything was acknowledged: what was written before Close    *)
(* was called is in the buffers by the time the handler sees cclose.       *)
(***************************************************************************)
InReq(p) == \E i \in DOMAIN req : req[i] = p

ClosesLast ==
  \A i, j \in DOMAIN req : i < j /\ req[i] = cclose => req[j] # cwrite

CloseInv == ~ losted =>
  /\ ClosesLast
  /\ closepend => ~ InReq(cwrite)
  /\ closing = "no" => ~ closepend /\ todo # <<cclose>> /\ ~ InReq(cclose)
  /\ closeack => closepend /\ AllAcked
  /\ over > 0 \/ todo = OverPut \/ closing = "done" => closeack

\* A packet that is not in req is not there when one is taken, nor when
\* another is put there.
LEMMA NoneLeft ==
  ASSUME Types, NEW p, Take(p), NEW x
  PROVE  /\ ~ InReq(x) => ~ InReq(x)'
         /\ ClosesLast => ClosesLast' /\ (p = cclose => ~ InReq(cwrite)')
         /\ InReq(p)
         /\ InReq(x) /\ x # p => InReq(x)'
<1>1. /\ p = req[1] /\ Len(req) \in Nat /\ Len(req) > 0
      /\ DOMAIN req = 1 .. Len(req) /\ DOMAIN req' = 1 .. Len(req) - 1
      /\ \A k \in DOMAIN req' : k + 1 \in DOMAIN req /\ req'[k] = req[k + 1]
  BY TakeIs
<1>2. ~ InReq(x) => ~ InReq(x)'
  BY <1>1 DEF InReq
<1>3. ASSUME ClosesLast PROVE ClosesLast'
  <2>. SUFFICES ASSUME NEW i \in DOMAIN req', NEW j \in DOMAIN req', i < j,
                       req'[i] = cclose
                PROVE  req'[j] # cwrite
    BY DEF ClosesLast
  <2>1. i + 1 < j + 1 /\ req[i + 1] = cclose /\ req'[j] = req[j + 1]
    BY <1>1
  <2>. QED
    BY <1>1, <1>3, <2>1 DEF ClosesLast
<1>4. ASSUME ClosesLast, p = cclose PROVE ~ InReq(cwrite)'
  <2>. SUFFICES ASSUME NEW j \in DOMAIN req'
                PROVE  req'[j] # cwrite
    BY DEF InReq
  <2>1. 1 < j + 1 /\ 1 \in DOMAIN req /\ req'[j] = req[j + 1]
    BY <1>1
  <2>. QED
    BY <1>1, <1>4, <2>1 DEF ClosesLast
<1>5. InReq(p)
  BY <1>1 DEF InReq
<1>6. ASSUME InReq(x), x # p PROVE InReq(x)'
  <2>1. PICK i \in DOMAIN req : req[i] = x
    BY <1>6 DEF InReq
  <2>2. i - 1 \in DOMAIN req' /\ req'[i - 1] = x
    BY <1>1, <1>6, <2>1
  <2>. QED
    BY <2>2 DEF InReq
<1>. QED
  BY <1>2, <1>3, <1>4, <1>5, <1>6

\* A packet put on req: nothing else is in req that was not, and a cclose stays
\* after all cwrites unless a Write follows it.
LEMMA NoneMore ==
  ASSUME Types, NEW p \in Packets, req' = Append(req, p), NEW x
  PROVE  /\ ~ InReq(x) /\ x # p => ~ InReq(x)'
         /\ ClosesLast /\ (p # cwrite \/ ~ InReq(cclose)) => ClosesLast'
         /\ InReq(p)'
         /\ InReq(x) => InReq(x)'
<1>1. /\ Len(req) \in Nat /\ Len(req') = Len(req) + 1
      /\ DOMAIN req = 1 .. Len(req) /\ DOMAIN req' = 1 .. Len(req) + 1
      /\ \A k \in DOMAIN req : k \in DOMAIN req' /\ req'[k] = req[k]
      /\ Len(req') \in DOMAIN req' /\ req'[Len(req')] = p
  BY PutIs
<1>2. \A k \in DOMAIN req' : k \in DOMAIN req \/ k = Len(req')
  BY <1>1
<1>3. /\ ~ InReq(x) /\ x # p => ~ InReq(x)'
      /\ InReq(p)' /\ (InReq(x) => InReq(x)')
  BY <1>1, <1>2 DEF InReq
<1>4. ASSUME ClosesLast, p # cwrite \/ ~ InReq(cclose) PROVE ClosesLast'
  <2>. SUFFICES ASSUME NEW i \in DOMAIN req', NEW j \in DOMAIN req', i < j,
                       req'[i] = cclose
                PROVE  req'[j] # cwrite
    BY DEF ClosesLast
  <2>1. i \in DOMAIN req /\ req[i] = cclose
    BY <1>1
  <2>2. CASE j \in DOMAIN req
    BY <1>1, <1>4, <2>1, <2>2 DEF ClosesLast
  <2>3. CASE j = Len(req')
    BY <1>1, <1>4, <2>1, <2>3 DEF InReq
  <2>. QED
    BY <1>2, <2>2, <2>3
<1>. QED
  BY <1>3, <1>4

\* What a packet taken leaves of it.
LEMMA CloseTake ==
  ASSUME Types, ShutInv, CloseInv, ~ losted', NEW p, Take(p), ~ losted,
         \/ /\ UNCHANGED <<closepend, closeack, sendVars>>
            /\ todo' \in {<<>>, <<cread>>} \cup Answer
         \/ HandleWrite /\ p = cwrite
         \/ HandleClose /\ p = cclose
         \/ HandleReceiveDone(p)
         \/ \E n \in 0 .. MaxWrites : HandleAck(n)
  PROVE  CloseInv'
<1>1. todo = <<>> /\ UNCHANGED <<over, closing>>
  BY TakeIs
<1>2. /\ ~ InReq(cwrite) => ~ InReq(cwrite)'
      /\ ~ InReq(cclose) => ~ InReq(cclose)'
      /\ ClosesLast'
      /\ p = cclose => ~ InReq(cwrite)'
      /\ InReq(p)
  BY NoneLeft DEF CloseInv
<1>3. \A t \in {<<>>, <<cread>>} \cup Answer : t # <<cclose>> /\ t # OverPut
  BY TodosApart DEF Replying
<1>4. <<cclose>> # OverPut /\ OverPut # <<cclose>>
  BY TodosApart
<1>5. CASE /\ UNCHANGED <<closepend, closeack, sendVars>>
           /\ todo' \in {<<>>, <<cread>>} \cup Answer
  <2>1. todo' # <<cclose>> /\ todo' # OverPut
    BY <1>3, <1>5
  <2>2. AllAcked' <=> AllAcked
    BY <1>5 DEF AllAcked, sendVars
  <2>3. closepend' = closepend /\ closeack' = closeack
    BY <1>5
  <2>. QED
    BY <1>1, <1>2, <2>1, <2>2, <2>3, Zenon DEF CloseInv
<1>6. CASE HandleWrite /\ p = cwrite
  <2>1. ~ closepend /\ ~ closeack
    BY <1>2, <1>6 DEF CloseInv
  <2>2. closepend' = closepend /\ closeack' = closeack /\ todo' = todo
    BY <1>6 DEF HandleWrite, endVars
  <2>. QED
    BY <1>1, <1>2, <1>3, <2>1, <2>2, Zenon DEF CloseInv
<1>7. CASE HandleClose /\ p = cclose
  <2>1. closeack' = closeack /\ UNCHANGED sendVars
    BY <1>7 DEF HandleClose
  <2>2. AllAcked' <=> AllAcked
    BY <2>1 DEF AllAcked, sendVars
  <2>3. closing # "no"
    BY <1>2, <1>7 DEF CloseInv
  <2>4. CASE shut
    BY <1>1, <1>5, <1>7, <2>1, <2>4 DEF HandleClose
  <2>5. CASE ~ shut
    <3>1. closepend' /\ todo' \in {OverPut, <<>>}
          /\ (todo' = OverPut => closeack)
      BY <1>3, <1>7, <2>5 DEF HandleClose, OverPut
    <3>2. ~ InReq(cwrite)'
      BY <1>2, <1>7
    <3>3. closeack => AllAcked
      BY DEF CloseInv
    <3>4. over > 0 \/ closing = "done" => closeack
      BY DEF CloseInv
    <3>. QED
      BY <1>1, <1>2, <2>1, <2>2, <2>3, <3>1, <3>2, <3>3, <3>4, Zenon
         DEF CloseInv
  <2>. QED
    BY <2>4, <2>5
<1>8. CASE HandleReceiveDone(p)
  <2>1. /\ closepend /\ AllAcked /\ closeack' = TRUE /\ todo' = <<cclose>>
        /\ closepend' = closepend /\ UNCHANGED sendVars
    BY <1>8 DEF HandleReceiveDone
  <2>2. AllAcked'
    BY <2>1 DEF AllAcked, sendVars
  <2>3. closing # "no" /\ ~ InReq(cwrite)
    BY <2>1 DEF CloseInv
  <2>. QED
    BY <1>1, <1>2, <1>4, <2>1, <2>2, <2>3, Zenon DEF CloseInv
<1>9. ASSUME NEW n \in 0 .. MaxWrites, HandleAck(n) PROVE CloseInv'
  <2>1. /\ ~ (closepend /\ AllAcked)
        /\ closepend' = closepend /\ closeack' = closeack /\ todo' = todo
    BY <1>9 DEF HandleAck, endVars
  <2>2. ~ closeack
    BY <2>1 DEF CloseInv
  <2>. QED
    BY <1>1, <1>2, <1>3, <2>1, <2>2, Zenon DEF CloseInv
<1>. QED
  BY <1>5, <1>6, <1>7, <1>8, <1>9

\* A connection that was lost stays so.
LEMMA LostForGood ==
  ASSUME Types, [Next]_vars, losted
  PROVE  losted'
<1>1. CASE HandleRead \/ HandleWrite \/ HandleClose \/ HandleEpoch
  BY <1>1, Zenon DEF HandleRead, HandleWrite, HandleClose, HandleEpoch,
                     endVars
<1>2. CASE \/ \E p \in Datagrams : HandleReceiveDone(p)
           \/ \E n \in 0 .. MaxWrites : HandleAck(n)
           \/ \E n \in 1 .. MaxData : HandleData(n)
  BY <1>2, Zenon DEF HandleReceiveDone, HandleAck, HandleData, endVars
<1>3. CASE Channel
  BY <1>3, ChannelIs
<1>4. CASE Top \/ ServerStops \/ ReadReturns \/ CloseReturns
  BY <1>4, Zenon DEF Top, ServerStops, ReadReturns, CloseReturns, endVars
<1>5. CASE Tick \/ Write \/ Close \/ \E p \in Datagrams : Receive(p)
  BY <1>5, Zenon DEF Tick, Write, Close, Receive, Post
<1>6. CASE Read
  BY <1>6, Zenon DEF Read, Post
<1>7. CASE UNCHANGED vars
  BY <1>7, Zenon DEF vars, endVars
<1>. QED
  BY <1>1, <1>2, <1>3, <1>4, <1>5, <1>6, <1>7 DEF Next, Handler

\* It holds after a step that changes nothing of what was acknowledged.
LEMMA CloseCarried ==
  ASSUME CloseInv, ~ losted,
         UNCHANGED <<closepend, closeack, databuf, writebuf>>,
         ClosesLast', closepend => ~ InReq(cwrite)',
         closing' = "no" =>
           ~ closepend /\ todo' # <<cclose>> /\ ~ InReq(cclose)',
         over' > 0 \/ todo' = OverPut \/ closing' = "done" => closeack
  PROVE  CloseInv'
<1>1. closepend' = closepend /\ closeack' = closeack
  OBVIOUS
<1>2. AllAcked' <=> AllAcked
  BY DEF AllAcked
<1>3. closeack => closepend /\ AllAcked
  BY DEF CloseInv
<1>4. /\ closepend' => ~ InReq(cwrite)'
      /\ closing' = "no" =>
           ~ closepend' /\ todo' # <<cclose>> /\ ~ InReq(cclose)'
      /\ closeack' => closepend' /\ AllAcked'
      /\ over' > 0 \/ todo' = OverPut \/ closing' = "done" => closeack'
  BY <1>1, <1>2, <1>3
<1>. QED
  BY <1>4 DEF CloseInv

\* The steps that append packets to req or only touch over.
LEMMA CloseOthers ==
  ASSUME Types, ShutInv, CloseInv, ~ losted, ~ losted',
         UNCHANGED <<closepend, closeack, databuf, writebuf>>,
         \/ /\ req' = req \/ \E p \in Packets \ {cclose, cwrite} :
                                req' = Append(req, p)
            /\ todo' = todo \/ todo' \in {<<>>, <<cread>>}
            /\ UNCHANGED <<over, closing>>
         \/ /\ req' = Append(req, cclose)
            /\ closing' # "no" /\ (closing = "done" \/ closing' # "done")
            /\ todo' = todo \/ todo' = <<>>
            /\ UNCHANGED over
         \/ /\ req' = Append(req, cwrite) /\ closing = "no"
            /\ UNCHANGED <<todo, over, closing>>
         \/ /\ req' = req /\ over > 0 /\ closing' = "done" /\ UNCHANGED todo
         \/ /\ req' = req /\ todo = OverPut /\ todo' = <<>>
            /\ UNCHANGED closing
  PROVE  CloseInv'
<1>1. /\ ClosesLast /\ (closepend => ~ InReq(cwrite))
      /\ closing = "no" =>
           ~ closepend /\ todo # <<cclose>> /\ ~ InReq(cclose)
      /\ over > 0 \/ todo = OverPut \/ closing = "done" => closeack
  BY DEF CloseInv
<1>2. SUFFICES
        /\ ClosesLast' /\ (closepend => ~ InReq(cwrite)')
        /\ closing' = "no" =>
             ~ closepend /\ todo' # <<cclose>> /\ ~ InReq(cclose)'
        /\ over' > 0 \/ todo' = OverPut \/ closing' = "done" => closeack
  BY <1>2, CloseCarried
<1>3. /\ <<>> # <<cclose>> /\ <<cread>> # <<cclose>>
      /\ <<>> # OverPut /\ <<cread>> # OverPut
  BY TodosApart
<1>4. cclose # cwrite /\ cclose \in Packets /\ cwrite \in Packets
  BY PacketsDiffer
<1>5. ASSUME req' = req
      PROVE  /\ InReq(cclose)' <=> InReq(cclose)
             /\ InReq(cwrite)' <=> InReq(cwrite)
             /\ ClosesLast' <=> ClosesLast
  BY <1>5 DEF InReq, ClosesLast
<1>6. CASE /\ req' = req \/ \E p \in Packets \ {cclose, cwrite} :
                               req' = Append(req, p)
           /\ todo' = todo \/ todo' \in {<<>>, <<cread>>}
           /\ UNCHANGED <<over, closing>>
  <2>1. /\ ~ InReq(cwrite) => ~ InReq(cwrite)'
        /\ ~ InReq(cclose) => ~ InReq(cclose)'
        /\ ClosesLast'
    <3>1. CASE req' = req
      BY <1>1, <1>5, <3>1
    <3>2. CASE \E p \in Packets \ {cclose, cwrite} : req' = Append(req, p)
      BY <1>1, <3>2, NoneMore
    <3>. QED
      BY <1>6, <3>1, <3>2
  <2>2. todo' = todo \/ (todo' # <<cclose>> /\ todo' # OverPut)
    BY <1>3, <1>6
  <2>. QED
    BY <1>1, <1>6, <2>1, <2>2, SMT
<1>7. CASE /\ req' = Append(req, cclose)
           /\ closing' # "no" /\ (closing = "done" \/ closing' # "done")
           /\ todo' = todo \/ todo' = <<>>
           /\ UNCHANGED over
  <2>1. (~ InReq(cwrite) => ~ InReq(cwrite)') /\ ClosesLast'
    BY <1>4, <1>7, NoneMore DEF CloseInv
  <2>2. todo' = OverPut => todo = OverPut
    BY <1>3, <1>7
  <2>. QED
    BY <1>1, <1>7, <2>1, <2>2, SMT
<1>8. CASE /\ req' = Append(req, cwrite) /\ closing = "no"
           /\ UNCHANGED <<todo, over, closing>>
  <2>1. ~ closepend /\ ~ InReq(cclose)
    BY <1>8 DEF CloseInv
  <2>2. ~ InReq(cclose)' /\ ClosesLast'
    BY <1>4, <1>8, <2>1, NoneMore DEF CloseInv
  <2>. QED
    BY <1>1, <1>8, <2>1, <2>2, SMT
<1>9. CASE \/ /\ req' = req /\ over > 0 /\ closing' = "done"
              /\ UNCHANGED todo
           \/ /\ req' = req /\ todo = OverPut /\ todo' = <<>>
              /\ UNCHANGED closing
  <2>1. closeack
    BY <1>9 DEF CloseInv
  <2>2. closing' = closing \/ closing' = "done"
    BY <1>9
  <2>3. todo' = todo \/ todo' = <<>>
    BY <1>9
  <2>4. /\ closing' = "no" => closing = "no"
        /\ todo' = <<cclose>> => todo = <<cclose>>
    BY <1>3, <2>2, <2>3
  <2>. QED
    BY <1>1, <1>5, <1>9, <2>1, <2>4, SMT
<1>. QED
  BY <1>6, <1>7, <1>8, <1>9

\* Every step.
LEMMA CloseStep ==
  ASSUME Types, ShutInv, CloseInv, [Next]_vars
  PROVE  CloseInv'
<1>1. CASE losted'
  BY <1>1, Zenon DEF CloseInv
<1>2. CASE ~ losted'
  <2>1. ~ losted
    BY <1>2, LostForGood
  <2>2. /\ cread \in Packets \ {cclose, cwrite}
        /\ timer \in Packets \ {cclose, cwrite}
        /\ \A p \in Datagrams : p \in Packets \ {cclose, cwrite}
    BY PacketsDiffer
  <2>3. CASE HandleRead
    <3>1. todo' \in {<<>>} \cup Answer
      <4>1. CASE readct \in readbuf
        <5>1. readct \in 0 .. MaxData /\ todo' = <<Packet("reply", readct)>>
          BY <2>3, <4>1 DEF HandleRead, Types, ReadbufOK
        <5>. QED
          BY <5>1 DEF Answer
      <4>2. CASE readct \notin readbuf
        BY <2>3, <4>2, TakeIs DEF HandleRead
      <4>. QED
        BY <4>1, <4>2
    <3>. QED
      BY <1>2, <2>1, <2>3, <3>1, CloseTake DEF HandleRead, endVars
  <2>4. CASE HandleWrite
    BY <1>2, <2>1, <2>4, CloseTake DEF HandleWrite
  <2>5. CASE HandleClose
    BY <1>2, <2>1, <2>5, CloseTake DEF HandleClose
  <2>6. CASE HandleEpoch
    <3>1. /\ Take(timer) /\ todo' = todo
          /\ UNCHANGED <<closepend, closeack, sendVars>>
      BY <1>2, <2>6, Zenon DEF HandleEpoch
    <3>. QED
      BY <1>2, <2>1, <3>1, CloseTake, TakeIs
  <2>7. CASE \E p \in Datagrams : HandleReceiveDone(p)
    BY <1>2, <2>1, <2>7, CloseTake DEF HandleReceiveDone
  <2>8. CASE \E n \in 0 .. MaxWrites : HandleAck(n)
    BY <1>2, <2>1, <2>8, CloseTake DEF HandleAck
  <2>9. ASSUME NEW n \in 1 .. MaxData, HandleData(n) PROVE CloseInv'
    <3>1. /\ Take(Packet("data", n))
          /\ UNCHANGED <<closepend, closeack, sendVars>>
      BY <2>9 DEF HandleData, endVars
    <3>2. todo' \in {todo, <<>>, <<cread>>}
      BY <2>9 DEF HandleData, Wake
    <3>3. todo' \in {<<>>, <<cread>>}
      BY <3>1, <3>2, TakeIs
    <3>. QED
      BY <1>2, <2>1, <3>1, <3>3, CloseTake
  <2>10. CASE Channel
    <3>1. UNCHANGED <<closepend, closeack, databuf, writebuf, closing>>
      BY <2>10, ChannelIs DEF sendVars
    <3>2. todo \notin Closes /\ todo # LossReported
      BY <2>1 DEF ShutInv
    <3>3. CASE PostsRead
      BY <1>2, <2>1, <2>2, <3>1, <3>3, CloseOthers DEF PostsRead
    <3>4. CASE PostsClose
      <4>1. /\ todo = <<cclose>> /\ todo' = <<>>
            /\ req' = Append(req, cclose) /\ UNCHANGED over
        BY <3>2, <3>4 DEF PostsClose, AfterPost, Closes
      <4>2. closing # "no"
        BY <2>1, <4>1 DEF CloseInv
      <4>3. closing = "done" \/ closing' # "done"
        BY <3>1
      <4>. QED
        BY <1>2, <2>1, <3>1, <4>1, <4>2, <4>3, CloseOthers
    <3>5. CASE Replies
      <4>1. todo' = <<>> /\ UNCHANGED <<req, over>>
        BY <3>2, <3>5 DEF Replies, AfterReply, Closes
      <4>. QED
        BY <1>2, <2>1, <3>1, <4>1, CloseOthers
    <3>6. CASE PutsOver
      <4>1. todo = OverPut /\ todo' = <<>> /\ UNCHANGED req
        BY <3>2, <3>6 DEF PutsOver, AfterOver, Closes
      <4>. QED
        BY <1>2, <2>1, <3>1, <4>1, CloseOthers
    <3>7. ~ ShutsDown
      BY <3>2 DEF ShutsDown, Closes
    <3>. QED
      BY <2>10, <3>3, <3>4, <3>5, <3>6, <3>7, ChannelIs
  <2>11. CASE Top
    BY <1>2, <2>1, <2>11, CloseOthers DEF Top, sendVars, endVars, appVars
  <2>12. CASE Tick
    BY <1>2, <2>1, <2>2, <2>12, CloseOthers
       DEF Tick, Post, sendVars, channelVars, appVars
  <2>13. CASE \E p \in Datagrams : Receive(p)
    BY <1>2, <2>1, <2>2, <2>13, CloseOthers
       DEF Receive, Post, sendVars, channelVars, appVars
  <2>14. CASE Write
    BY <1>2, <2>1, <2>14, CloseOthers
       DEF Write, Post, sendVars, channelVars, appVars
  <2>15. CASE Close
    BY <1>2, <2>1, <2>15, CloseOthers
       DEF Close, Post, sendVars, channelVars
  <2>16. CASE CloseReturns
    BY <1>2, <2>1, <2>16, CloseOthers DEF CloseReturns, sendVars
  <2>17. CASE Read
    <3>1. req' = req \/ req' = Append(req, cread)
      BY <2>17 DEF Read, Post
    <3>2. UNCHANGED <<todo, over, closing, closepend, closeack, databuf,
                      writebuf>>
      BY <2>17 DEF Read, Post, sendVars, channelVars
    <3>. QED
      BY <1>2, <2>1, <2>2, <3>1, <3>2, CloseOthers
  <2>18. CASE ServerStops \/ ReadReturns
    BY <1>2, <2>1, <2>18, CloseOthers
       DEF ServerStops, ReadReturns, sendVars, endVars, appVars, channelVars
  <2>19. CASE UNCHANGED vars
    BY <1>2, <2>1, <2>19, CloseOthers
       DEF vars, sendVars, endVars, appVars, channelVars
  <2>. QED
    BY <2>3, <2>4, <2>5, <2>6, <2>7, <2>8, <2>9, <2>10, <2>11, <2>12, <2>13,
       <2>14, <2>15, <2>16, <2>17, <2>18, <2>19 DEF Next, Handler
<1>. QED
  BY <1>1, <1>2

-----------------------------------------------------------------------------
(***************************************************************************)
(* A Close that may return is told so: a packet for it is in over, or      *)
(* cclose is in req, or the handler is about to put one of them there.     *)
(***************************************************************************)
CloseTold == todo \in {<<cclose>>, LossReported, OverPut}

CloseComes ==
  (closepend /\ (closeack \/ losted) /\ ~ shut) =>
    over > 0 \/ InReq(cclose) \/ CloseTold

\* It holds after a step that keeps cclose in req and what over holds.
LEMMA ComesCarried ==
  ASSUME FlagsOK, CloseComes,
         UNCHANGED <<closepend, closeack, losted, shut>>,
         over > 0 => over' > 0, InReq(cclose) => InReq(cclose)',
         CloseTold => CloseTold' \/ InReq(cclose)' \/ over' > 0
  PROVE  CloseComes'
<1>1. /\ closepend' = closepend /\ closeack' = closeack
      /\ losted' = losted /\ shut' = shut
  OBVIOUS
<1>. QED
  BY <1>1 DEF CloseComes, FlagsOK

\* The packet for a Close that may return is kept, or comes, in every step.
LEMMA ComesStep ==
  ASSUME Types, ShutInv, CloseComes, [Next]_vars
  PROVE  CloseComes'
<1>1. FlagsOK /\ over \in Nat
  BY DEF Types, CountsOK
<1>2. /\ \A p \in Datagrams : p # cclose /\ p \in Packets
      /\ cread # cclose /\ cwrite # cclose /\ timer # cclose
      /\ {cread, cclose, cwrite, timer} \subseteq Packets
  BY PacketsDiffer
<1>3. ASSUME NEW p, Take(p), p # cclose,
             UNCHANGED <<closepend, closeack, losted, shut>>
      PROVE  CloseComes'
  <2>1. todo = <<>> /\ over' = over
    BY <1>3, TakeIs
  <2>2. ~ CloseTold
    BY <2>1, TodosApart DEF CloseTold, Replying
  <2>3. InReq(cclose) => InReq(cclose)'
    BY <1>3, NoneLeft
  <2>. QED
    BY <1>1, <1>3, <2>1, <2>2, <2>3, ComesCarried
<1>4. ASSUME UNCHANGED <<closepend, closeack, losted, shut, over, todo>>,
             req' = req \/ \E p \in Packets : req' = Append(req, p)
      PROVE  CloseComes'
  <2>1. InReq(cclose) => InReq(cclose)'
    BY <1>4, NoneMore DEF InReq
  <2>2. CloseTold => CloseTold'
    BY <1>4 DEF CloseTold
  <2>. QED
    BY <1>1, <1>4, <2>1, <2>2, ComesCarried
<1>5. CASE HandleRead \/ HandleWrite
  BY <1>2, <1>3, <1>5 DEF HandleRead, HandleWrite, endVars
<1>6. CASE HandleClose
  <2>1. CASE shut
    BY <1>6, <2>1, Zenon DEF HandleClose, CloseComes
  <2>2. CASE ~ shut
    <3>1. losted' = losted /\ closeack' = closeack
      BY <1>6 DEF HandleClose
    <3>2. losted \/ closeack => todo' = OverPut
      BY <1>6, <2>2 DEF HandleClose, OverPut
    <3>. QED
      BY <3>1, <3>2, Zenon DEF CloseComes, CloseTold
  <2>. QED
    BY <2>1, <2>2
<1>7. CASE HandleEpoch
  <2>1. closepend' = closepend /\ shut' = shut
    BY <1>7 DEF HandleEpoch
  <2>2. CASE todo' = OnLoss
    <3>1. closepend => todo' = LossReported
      BY <2>2 DEF OnLoss
    <3>. QED
      BY <2>1, <3>1, Zenon DEF CloseComes, CloseTold
  <2>3. CASE UNCHANGED <<losted, closeack, todo>>
    BY <1>2, <1>3, <1>7, <2>1, <2>3 DEF HandleEpoch
  <2>. QED
    BY <1>7, <2>2, <2>3, Zenon DEF HandleEpoch
<1>8. CASE \E p \in Datagrams : HandleReceiveDone(p)
  <2>1. todo' = <<cclose>>
    BY <1>8 DEF HandleReceiveDone
  <2>. QED
    BY <2>1 DEF CloseComes, CloseTold
<1>9. CASE \/ \E n \in 0 .. MaxWrites : HandleAck(n)
           \/ \E n \in 1 .. MaxData : HandleData(n)
  <2>1. \A n : Packet("ack", n) # cclose /\ Packet("data", n) # cclose
    BY DEF Packet, cclose
  <2>. QED
    BY <1>3, <1>9, <2>1 DEF HandleAck, HandleData, endVars
<1>10. CASE Channel
  <2>1. UNCHANGED <<closepend, closeack, losted>>
    BY <1>10, ChannelIs
  <2>2. CASE PostsRead
    <3>1. ~ CloseTold /\ UNCHANGED <<over, shut>>
      BY <2>2, TodosApart DEF PostsRead, CloseTold, Replying
    <3>2. InReq(cclose) => InReq(cclose)'
      BY <1>2, <2>2, NoneMore DEF PostsRead
    <3>. QED
      BY <1>1, <2>1, <3>1, <3>2, ComesCarried
  <2>3. CASE PostsClose
    <3>1. InReq(cclose)'
      BY <1>2, <2>3, NoneMore DEF PostsClose
    <3>. QED
      BY <3>1 DEF CloseComes
  <2>4. CASE Replies
    <3>1. UNCHANGED <<req, over, shut>>
      BY <2>4 DEF Replies
    <3>2. InReq(cclose) => InReq(cclose)'
      BY <3>1 DEF InReq
    <3>3. ASSUME CloseTold PROVE CloseTold'
      <4>1. todo = LossReported
        BY <2>4, <3>3, TodosApart DEF Replies, CloseTold
      <4>2. todo' = <<cclose>>
        BY <2>4, <4>1 DEF Replies, AfterReply
      <4>. QED
        BY <4>2 DEF CloseTold
    <3>. QED
      BY <1>1, <2>1, <3>1, <3>2, <3>3, ComesCarried
  <2>5. CASE PutsOver
    <3>1. over' > 0
      BY <1>1, <2>5 DEF PutsOver
    <3>. QED
      BY <3>1 DEF CloseComes
  <2>6. CASE ShutsDown
    <3>1. shut' = TRUE
      BY <2>6 DEF ShutsDown
    <3>. QED
      BY <3>1 DEF CloseComes
  <2>. QED
    BY <1>10, <2>2, <2>3, <2>4, <2>5, <2>6, ChannelIs
<1>11. CASE Top \/ ServerStops \/ ReadReturns
  BY <1>4, <1>11 DEF Top, ServerStops, ReadReturns, endVars, channelVars
<1>12. CASE Tick \/ Write \/ Close \/ \E p \in Datagrams : Receive(p)
  BY <1>2, <1>4, <1>12 DEF Tick, Write, Close, Receive, Post, channelVars
<1>13. CASE Read
  BY <1>2, <1>4, <1>13 DEF Read, Post, channelVars
<1>14. CASE CloseReturns
  <2>1. shut' = TRUE
    BY <1>14 DEF CloseReturns, Shut
  <2>. QED
    BY <2>1 DEF CloseComes
<1>15. CASE UNCHANGED vars
  BY <1>4, <1>15 DEF vars, endVars, channelVars
<1>. QED
  BY <1>5, <1>6, <1>7, <1>8, <1>9, <1>10, <1>11, <1>12, <1>13, <1>14, <1>15
     DEF Next, Handler

-----------------------------------------------------------------------------
(***************************************************************************)
(* A Read that waits while its message is there is woken: a cread packet   *)
(* is in req, or on its way there, or the message is on its way to Read.   *)
(***************************************************************************)
ReadTold == todo \in {<<cread>>} \cup Replying

ReadComes ==
  (reading /\ replyread = <<>> /\ readct \in readbuf /\ ~ losted) =>
    InReq(cread) \/ ReadTold

\* It holds after a step that keeps cread in req.
LEMMA WakeCarried ==
  ASSUME ReadComes, UNCHANGED <<reading, replyread, readct, readbuf>>,
         losted => losted', InReq(cread) => InReq(cread)',
         ReadTold => ReadTold' \/ InReq(cread)'
  PROVE  ReadComes'
<1>1. /\ reading' = reading /\ replyread' = replyread
      /\ readct' \in readbuf' <=> readct \in readbuf
  OBVIOUS
<1>. QED
  BY <1>1 DEF ReadComes

\* So does what wakes a Read whose message is there.
LEMMA WakeStep ==
  ASSUME Types, ReadComes, [Next]_vars
  PROVE  ReadComes'
<1>1. losted => losted'
  BY LostForGood
<1>2. /\ \A p \in Datagrams : p # cread /\ p \in Packets
      /\ cread # cclose /\ cwrite # cread /\ timer # cread
      /\ {cread, cclose, cwrite, timer} \subseteq Packets
  BY PacketsDiffer
<1>3. ASSUME NEW p, Take(p), p # cread, UNCHANGED <<readct, readbuf>>
      PROVE  ReadComes'
  <2>1. todo = <<>> /\ UNCHANGED <<reading, replyread>>
    BY <1>3, TakeIs
  <2>2. ~ ReadTold
    BY <2>1, TodosApart DEF ReadTold
  <2>3. InReq(cread) => InReq(cread)'
    BY <1>3, NoneLeft
  <2>. QED
    BY <1>1, <1>3, <2>1, <2>2, <2>3, WakeCarried
<1>4. ASSUME UNCHANGED <<reading, replyread, readct, readbuf, todo>>,
             req' = req \/ \E p \in Packets : req' = Append(req, p)
      PROVE  ReadComes'
  <2>1. InReq(cread) => InReq(cread)'
    BY <1>4, NoneMore DEF InReq
  <2>2. ReadTold => ReadTold'
    BY <1>4 DEF ReadTold
  <2>. QED
    BY <1>1, <1>4, <2>1, <2>2, WakeCarried
<1>5. CASE HandleRead
  <2>1. CASE readct \in readbuf
    <3>1. readct \in 0 .. MaxData /\ todo' = <<Packet("reply", readct)>>
      BY <1>5, <2>1 DEF HandleRead, Types, ReadbufOK
    <3>. QED
      BY <3>1 DEF ReadComes, ReadTold, Replying, Answer
  <2>2. CASE readct \notin readbuf
    <3>1. UNCHANGED <<readct, readbuf>>
      BY <1>5, <2>2 DEF HandleRead
    <3>. QED
      BY <2>2, <3>1 DEF ReadComes
  <2>. QED
    BY <2>1, <2>2
<1>6. CASE HandleWrite \/ HandleClose \/ HandleEpoch
  BY <1>2, <1>3, <1>6 DEF HandleWrite, HandleClose, HandleEpoch, recvVars
<1>7. CASE \E p \in Datagrams : HandleReceiveDone(p)
  BY <1>2, <1>3, <1>7 DEF HandleReceiveDone, recvVars
<1>8. \A n : Packet("ack", n) # cread /\ Packet("data", n) # cread
  BY DEF Packet, cread
<1>9. CASE \E n \in 0 .. MaxWrites : HandleAck(n)
  BY <1>3, <1>8, <1>9 DEF HandleAck, recvVars
<1>10. ASSUME NEW n \in 1 .. MaxData, HandleData(n) PROVE ReadComes'
  <2>1. todo' = <<cread>> \/ UNCHANGED <<readct, readbuf>>
    BY <1>10 DEF HandleData, recvVars, Wake
  <2>2. CASE todo' = <<cread>>
    BY <2>2 DEF ReadComes, ReadTold
  <2>3. CASE UNCHANGED <<readct, readbuf>>
    BY <1>3, <1>8, <1>10, <2>3 DEF HandleData
  <2>. QED
    BY <2>1, <2>2, <2>3
<1>11. CASE Channel
  <2>1. UNCHANGED <<reading, readct, readbuf>>
    BY <1>11, ChannelIs DEF recvVars
  <2>2. CASE PostsRead
    <3>1. InReq(cread)'
      BY <1>2, <2>2, NoneMore DEF PostsRead
    <3>. QED
      BY <3>1 DEF ReadComes
  <2>3. CASE PostsClose
    <3>1. ~ ReadTold /\ UNCHANGED replyread
      BY <2>3, TodosApart DEF PostsClose, ReadTold, Closes
    <3>2. InReq(cread) => InReq(cread)'
      BY <1>2, <2>3, NoneMore DEF PostsClose
    <3>. QED
      BY <1>1, <2>1, <3>1, <3>2, WakeCarried
  <2>4. CASE Replies
    <3>1. todo[1][2] \in 0 .. MaxData
      BY <2>4, TodosDiffer, FirstDiffer DEF Replies, Replying
    <3>2. replyread \in Seq(0 .. MaxData)
      BY DEF Types, AnswersOK
    <3>3. Len(replyread') > 0
      BY <2>4, <3>1, <3>2, AppendIs DEF Replies
    <3>4. replyread' # <<>>
      BY <3>3
    <3>. QED
      BY <3>4 DEF ReadComes
  <2>5. CASE PutsOver \/ ShutsDown
    <3>1. ~ ReadTold
      BY <2>5, TodosApart DEF PutsOver, ShutsDown, ReadTold, Closes
    <3>2. UNCHANGED <<req, replyread>>
      BY <2>5 DEF PutsOver, ShutsDown
    <3>3. InReq(cread) => InReq(cread)'
      BY <3>2 DEF InReq
    <3>. QED
      BY <1>1, <2>1, <3>1, <3>2, <3>3, WakeCarried
  <2>. QED
    BY <1>11, <2>2, <2>3, <2>4, <2>5, ChannelIs
<1>12. CASE Top \/ ServerStops \/ CloseReturns
  BY <1>4, <1>12 DEF Top, ServerStops, CloseReturns, recvVars, appVars,
                     channelVars
<1>13. CASE Tick \/ Write \/ Close \/ \E p \in Datagrams : Receive(p)
  BY <1>2, <1>4, <1>13 DEF Tick, Write, Close, Receive, Post, recvVars,
                           appVars, channelVars
<1>14. CASE Read
  <2>1. CASE req' = Append(req, cread)
    <3>1. InReq(cread)'
      BY <1>2, <2>1, NoneMore
    <3>. QED
      BY <3>1 DEF ReadComes
  <2>2. CASE UNCHANGED reading
    BY <1>14, <2>2, Zenon DEF Read, ReadComes
  <2>. QED
    BY <1>14, <2>1, <2>2, Zenon DEF Read, Post
<1>15. CASE ReadReturns
  <2>1. reading' = FALSE
    BY <1>15 DEF ReadReturns
  <2>. QED
    BY <2>1 DEF ReadComes
<1>16. CASE UNCHANGED vars
  BY <1>4, <1>16 DEF vars, recvVars, appVars, channelVars
<1>. QED
  BY <1>5, <1>6, <1>7, <1>9, <1>10, <1>11, <1>12, <1>13, <1>14, <1>15, <1>16
     DEF Next, Handler

-----------------------------------------------------------------------------
(***************************************************************************)
(* The loss of the connection is told to one Read: the error was returned, *)
(* or waits in replyread, or is about to be put there.                     *)
(***************************************************************************)
Zero(s) == \E i \in DOMAIN s : s[i] = 0

LossTold == todo \in {<<Packet("reply", 0)>>, LossReported, LossCloses}

LossInv == losted => Zero(results) \/ Zero(replyread) \/ LossTold

\* An error that is appended is there, and one that was there is still there,
\* or it was the first.
LEMMA ZeroIs ==
  ASSUME NEW S, NEW s \in Seq(S)
  PROVE  /\ \A e \in S : Zero(s) => Zero(Append(s, e))
         /\ \A e \in S : e = 0 => Zero(Append(s, e))
         /\ s # <<>> /\ Zero(s) => Head(s) = 0 \/ Zero(Tail(s))
<1>1. ASSUME NEW e \in S
      PROVE  (Zero(s) \/ e = 0) => Zero(Append(s, e))
  <2>1. /\ Len(s) \in Nat /\ DOMAIN s = 1 .. Len(s)
        /\ DOMAIN Append(s, e) = 1 .. Len(s) + 1
        /\ \A k \in 1 .. Len(s) : Append(s, e)[k] = s[k]
        /\ Append(s, e)[Len(s) + 1] = e
    BY AppendIs
  <2>. QED
    BY <2>1 DEF Zero
<1>2. ASSUME s # <<>>, Zero(s) PROVE Head(s) = 0 \/ Zero(Tail(s))
  <2>1. /\ Len(s) \in Nat /\ Len(s) > 0 /\ Head(s) = s[1]
        /\ DOMAIN s = 1 .. Len(s) /\ DOMAIN Tail(s) = 1 .. Len(s) - 1
        /\ \A k \in 1 .. Len(s) - 1 : Tail(s)[k] = s[k + 1]
    BY <1>2, HeadIs
  <2>2. PICK i \in DOMAIN s : s[i] = 0
    BY <1>2 DEF Zero
  <2>3. CASE i = 1
    BY <2>1, <2>2, <2>3
  <2>4. CASE i # 1
    <3>1. i - 1 \in DOMAIN Tail(s) /\ Tail(s)[i - 1] = 0
      BY <2>1, <2>2, <2>4
    <3>. QED
      BY <3>1 DEF Zero
  <2>. QED
    BY <2>3, <2>4
<1>. QED
  BY <1>1, <1>2

\* And the answer that tells Read of the loss.
LEMMA LossStep ==
  ASSUME Types, LossInv, [Next]_vars
  PROVE  LossInv'
<1>1. /\ FlagsOK /\ replyread \in Seq(0 .. MaxData)
      /\ results \in Seq(0 .. MaxData)
  BY DEF Types, AnswersOK
<1>2. /\ Zero(replyread) /\ replyread' = replyread => Zero(replyread')
      /\ Zero(results) /\ results' = results => Zero(results')
  OBVIOUS
<1>3. 0 \in 0 .. MaxData
  OBVIOUS
<1>4. ASSUME NEW p, Take(p), losted' = losted \/ LossTold' PROVE LossInv'
  <2>1. todo = <<>> /\ UNCHANGED <<replyread, results>>
    BY <1>4, TakeIs
  <2>2. ~ LossTold
    BY <2>1, TodosDiffer DEF LossTold, Packet
  <2>. QED
    BY <1>2, <1>4, <2>1, <2>2, Zenon DEF LossInv
<1>5. ASSUME losted' = losted, UNCHANGED <<replyread, todo>>,
             Zero(results) => Zero(results')
      PROVE  LossInv'
  BY <1>2, <1>5, Zenon DEF LossInv, LossTold
<1>6. CASE HandleRead \/ HandleWrite \/ HandleClose
  BY <1>4, <1>6 DEF HandleRead, HandleWrite, HandleClose, endVars
<1>7. CASE HandleEpoch
  <2>1. todo' = OnLoss \/ losted' = losted
    BY <1>7 DEF HandleEpoch
  <2>2. LossTold' \/ losted' = losted
    BY <2>1 DEF LossTold, OnLoss
  <2>. QED
    BY <1>4, <1>7, <2>2 DEF HandleEpoch
<1>8. CASE \/ \E p \in Datagrams : HandleReceiveDone(p)
           \/ \E n \in 0 .. MaxWrites : HandleAck(n)
           \/ \E n \in 1 .. MaxData : HandleData(n)
  BY <1>4, <1>8 DEF HandleReceiveDone, HandleAck, HandleData, endVars
<1>9. CASE Channel
  <2>1. losted' = losted /\ results' = results
    BY <1>9, ChannelIs
  <2>2. CASE Replies
    <3>1. /\ todo[1][2] \in 0 .. MaxData
          /\ replyread' = Append(replyread, todo[1][2])
      BY <2>2, TodosDiffer, FirstDiffer DEF Replies, Replying
    <3>2. LossTold => todo[1][2] = 0
      BY TodosDiffer, FirstDiffer DEF LossTold
    <3>3. Zero(replyread) \/ LossTold => Zero(replyread')
      BY <1>1, <3>1, <3>2, ZeroIs
    <3>. QED
      BY <1>2, <2>1, <3>3, Zenon DEF LossInv
  <2>3. CASE PostsRead \/ PostsClose \/ PutsOver \/ ShutsDown
    <3>1. replyread' = replyread
      BY <2>3 DEF PostsRead, PostsClose, PutsOver, ShutsDown
    <3>2. todo \notin Replying \/ todo = LossCloses
      BY <2>3, TodosApart
         DEF PostsRead, PostsClose, PutsOver, ShutsDown, Closes
    <3>3. todo # LossCloses
      BY <2>3, TodosApart
         DEF PostsRead, PostsClose, PutsOver, ShutsDown, Closes, Replying
    <3>4. <<Packet("reply", 0)>> \in Replying
      BY <1>3 DEF Replying, Answer
    <3>5. ~ LossTold
      BY <3>2, <3>3, <3>4 DEF LossTold, Replying
    <3>. QED
      BY <1>2, <2>1, <3>1, <3>5, Zenon DEF LossInv
  <2>. QED
    BY <1>9, <2>2, <2>3, ChannelIs
<1>10. CASE Read
  <2>1. results' = Append(results, 0) \/ results' = results
    BY <1>10 DEF Read
  <2>2. Zero(results) => Zero(results')
    BY <1>1, <1>3, <2>1, ZeroIs
  <2>3. losted' = losted /\ UNCHANGED <<replyread, todo>>
    BY <1>10 DEF Read, Post, channelVars
  <2>. QED
    BY <1>5, <2>2, <2>3
<1>11. CASE ReadReturns
  <2>1. /\ replyread # <<>> /\ replyread' = Tail(replyread)
        /\ results' = Append(results, Head(replyread))
        /\ losted' = losted /\ todo' = todo
    BY <1>11 DEF ReadReturns, endVars
  <2>2. Head(replyread) \in 0 .. MaxData
    BY <1>1, <2>1, HeadIs
  <2>3. /\ Zero(results) => Zero(results')
        /\ Zero(replyread) => Zero(results') \/ Zero(replyread')
    BY <1>1, <2>1, <2>2, ZeroIs
  <2>. QED
    BY <2>1, <2>3, Zenon DEF LossInv, LossTold
<1>12. CASE Tick \/ Write \/ Close \/ \E p \in Datagrams : Receive(p)
  BY <1>2, <1>5, <1>12 DEF Tick, Write, Close, Receive, Post, channelVars,
                           appVars
<1>13. CASE Top \/ ServerStops
  BY <1>2, <1>5, <1>13 DEF Top, ServerStops, channelVars, appVars, endVars
<1>14. CASE CloseReturns
  BY <1>2, <1>5, <1>14 DEF CloseReturns
<1>15. CASE UNCHANGED vars
  BY <1>2, <1>5, <1>15 DEF vars, channelVars, appVars, endVars
<1>. QED
  BY <1>6, <1>7, <1>8, <1>9, <1>10, <1>11, <1>12, <1>13, <1>14, <1>15
     DEF Next, Handler

-----------------------------------------------------------------------------
(***************************************************************************)
(* What Read returned, and the answers that wait for it.  Until the        *)
(* handler sees a Close these are the messages from the first one on, the  *)
(* last of them the error if the connection is lost; from then on Read     *)
(* posts nothing more, and the next answer is the next message or the      *)
(* error.                                                                  *)
(***************************************************************************)
Pending ==
  IF todo \in Replying THEN Append(replyread, todo[1][2]) ELSE replyread

Total == Len(results) + Len(Pending)

OrderOpen ==
  /\ \A i \in 1 .. Len(results) :
       results[i] = IF losted /\ i = Total THEN 0 ELSE i
  /\ \A k \in 1 .. Len(Pending) :
       Pending[k] = IF losted /\ Len(results) + k = Total
                      THEN 0 ELSE Len(results) + k
  /\ ~ losted => readct = Total + 1

OrderClosing ==
  /\ \A i \in 1 .. Len(results) : results[i] = i
  /\ Pending = <<>> => readct = Len(results) + 1
  /\ Pending # <<>> => Pending[1] \in {0, Len(results) + 1}

OrderInv ==
  /\ ~ closepend => OrderOpen
  /\ closepend /\ reading => OrderClosing
  /\ closepend /\ ~ reading => ReadsInOrder

\* The answers that wait are numbers of messages, and those in replyread
\* come first.
LEMMA PendingIs ==
  ASSUME Types
  PROVE  /\ Pending \in Seq(0 .. MaxData) /\ results \in Seq(0 .. MaxData)
         /\ Len(Pending) \in Nat /\ Len(results) \in Nat
         /\ DOMAIN results = 1 .. Len(results)
         /\ todo \notin Replying => Pending = replyread
         /\ todo \in Replying => todo[1][2] \in 0 .. MaxData
         /\ replyread # <<>> => Pending # <<>> /\ Pending[1] = Head(replyread)
         /\ Pending = <<>> <=> Len(Pending) = 0
<1>1. replyread \in Seq(0 .. MaxData) /\ results \in Seq(0 .. MaxData)
  BY DEF Types, AnswersOK
<1>2. ASSUME todo \in Replying PROVE todo[1][2] \in 0 .. MaxData
  BY <1>2, TodosDiffer, FirstDiffer DEF Replying
<1>3. Pending \in Seq(0 .. MaxData)
  BY <1>1, <1>2, AppendIs DEF Pending
<1>4. ASSUME replyread # <<>>
      PROVE  Pending # <<>> /\ Pending[1] = Head(replyread)
  <2>1. Len(replyread) \in Nat /\ Len(replyread) > 0
        /\ Head(replyread) = replyread[1]
    BY <1>1, <1>4, HeadIs
  <2>2. CASE todo \in Replying
    <3>1. /\ Pending = Append(replyread, todo[1][2])
          /\ Len(Append(replyread, todo[1][2])) = Len(replyread) + 1
          /\ \A k \in 1 .. Len(replyread) :
               Append(replyread, todo[1][2])[k] = replyread[k]
      BY <1>1, <1>2, <2>2, AppendIs DEF Pending
    <3>2. Len(Pending) > 0 /\ Pending[1] = replyread[1]
      BY <2>1, <3>1
    <3>3. Pending # <<>>
      BY <3>2
    <3>. QED
      BY <2>1, <3>2, <3>3
  <2>3. CASE todo \notin Replying
    BY <1>4, <2>1, <2>3 DEF Pending
  <2>. QED
    BY <2>2, <2>3
<1>5. /\ Len(Pending) \in Nat /\ Len(results) \in Nat
      /\ DOMAIN results = 1 .. Len(results)
  BY <1>1, <1>3, LenProperties
<1>6. Pending = <<>> <=> Len(Pending) = 0
  BY <1>3, EmptySeq
<1>. QED
  BY <1>1, <1>2, <1>3, <1>4, <1>5, <1>6 DEF Pending

\* A step that leaves the answers alone.
LEMMA OrderSame ==
  ASSUME OrderInv,
         Pending' = Pending, UNCHANGED <<results, readct, losted, closepend>>,
         closepend => reading' = reading
  PROVE  OrderInv'
<1>1. /\ results' = results /\ readct' = readct /\ losted' = losted
      /\ closepend' = closepend
  OBVIOUS
<1>2. OrderOpen' <=> OrderOpen
  BY <1>1 DEF OrderOpen, Total
<1>3. OrderClosing' <=> OrderClosing
  BY <1>1 DEF OrderClosing
<1>4. ReadsInOrder' <=> ReadsInOrder
  BY <1>1 DEF ReadsInOrder
<1>5. /\ ~ closepend => OrderOpen
      /\ closepend /\ reading => OrderClosing
      /\ closepend /\ ~ reading => ReadsInOrder
  BY DEF OrderInv
<1>6. /\ ~ closepend' => OrderOpen'
      /\ closepend' /\ reading' => OrderClosing'
      /\ closepend' /\ ~ reading' => ReadsInOrder'
  BY <1>1, <1>2, <1>3, <1>4, <1>5
<1>. QED
  BY <1>6 DEF OrderInv

\* Another answer: the next message, or the error for the connection that is
\* lost now, or, when Close waits and the answer is not the first, any.
LEMMA OrderGrows ==
  ASSUME Types, OrderInv, NEW x \in 0 .. MaxData,
         Pending' = Append(Pending, x), UNCHANGED <<results, closepend>>,
         reading' = reading,
         ~ closepend =>
           \/ x = readct /\ readct' = readct + 1 /\ ~ losted /\ ~ losted'
           \/ x = 0 /\ ~ losted /\ losted',
         x \in {0, readct}
  PROVE  OrderInv'
<1>1. /\ Pending \in Seq(0 .. MaxData) /\ results \in Seq(0 .. MaxData)
      /\ Len(Pending) \in Nat /\ Len(results) \in Nat
      /\ Pending = <<>> <=> Len(Pending) = 0
  BY PendingIs
<1>2. /\ Len(Pending') = Len(Pending) + 1
      /\ \A k \in 1 .. Len(Pending) : Pending'[k] = Pending[k]
      /\ Pending'[Len(Pending) + 1] = x
  BY <1>1, AppendIs
<1>3. results' = results /\ closepend' = closepend
  OBVIOUS
<1>4. ASSUME ~ closepend PROVE OrderOpen'
  <2>1. ~ losted /\ readct = Total + 1
    BY <1>4 DEF OrderInv, OrderOpen
  <2>2. Total' = Total + 1 /\ Total = Len(results) + Len(Pending)
    BY <1>1, <1>2, <1>3 DEF Total
  <2>3. /\ \A i \in 1 .. Len(results) : results[i] = i
        /\ \A k \in 1 .. Len(Pending) : Pending[k] = Len(results) + k
    BY <1>4, <2>1 DEF OrderInv, OrderOpen
  <2>4. ASSUME NEW i \in 1 .. Len(results')
        PROVE  results'[i] = IF losted' /\ i = Total' THEN 0 ELSE i
    BY <1>1, <1>3, <2>2, <2>3, <2>4
  <2>5. ASSUME NEW k \in 1 .. Len(Pending')
        PROVE  Pending'[k] = IF losted' /\ Len(results') + k = Total'
                               THEN 0 ELSE Len(results') + k
    <3>1. CASE k \in 1 .. Len(Pending)
      BY <1>1, <1>2, <1>3, <2>2, <2>3, <3>1, SMTT(30)
    <3>2. CASE k = Len(Pending) + 1
      BY <1>1, <1>2, <1>3, <1>4, <2>1, <2>2, <3>2
    <3>. QED
      BY <1>1, <1>2, <2>5, <3>1, <3>2
  <2>6. ~ losted' => readct' = Total' + 1
    BY <1>1, <1>4, <2>1, <2>2
  <2>. QED
    BY <2>4, <2>5, <2>6 DEF OrderOpen
<1>5. ASSUME closepend, reading PROVE OrderClosing'
  <2>1. OrderClosing
    BY <1>5 DEF OrderInv
  <2>2. Pending'[1] \in {0, Len(results') + 1}
    <3>1. CASE Pending = <<>>
      BY <1>1, <1>2, <1>3, <2>1, <3>1 DEF OrderClosing
    <3>2. CASE Pending # <<>>
      BY <1>1, <1>2, <1>3, <2>1, <3>2 DEF OrderClosing
    <3>. QED
      BY <3>1, <3>2
  <2>3. Pending' # <<>>
    BY <1>1, <1>2
  <2>. QED
    BY <1>3, <2>1, <2>2, <2>3 DEF OrderClosing
<1>6. ASSUME closepend, ~ reading PROVE ReadsInOrder'
  BY <1>3, <1>6 DEF OrderInv, ReadsInOrder
<1>7. /\ ~ closepend' => OrderOpen'
      /\ closepend' /\ reading' => OrderClosing'
      /\ closepend' /\ ~ reading' => ReadsInOrder'
  BY <1>3, <1>4, <1>5, <1>6
<1>. QED
  BY <1>7 DEF OrderInv

\* The packets that the handler takes.
LEMMA OrderTake ==
  ASSUME Types, ShutInv, OrderInv, NEW p, Take(p),
         \/ /\ UNCHANGED <<readct, losted, closepend>>
            /\ todo' \notin Replying
         \/ HandleRead \/ HandleClose \/ HandleEpoch
  PROVE  OrderInv'
<1>1. /\ todo = <<>> /\ pc = "take"
      /\ results' = results /\ replyread' = replyread /\ reading' = reading
  BY TakeIs
<1>2. todo \notin Replying /\ Pending = replyread
  BY <1>1, TodosApart DEF Pending
<1>3. ~ closepend => ~ losted
  BY <1>1, NotClosing, Zenon DEF ShutInv
<1>4. CASE /\ UNCHANGED <<readct, losted, closepend>>
           /\ todo' \notin Replying
  <2>1. Pending' = Pending
    BY <1>1, <1>2, <1>4 DEF Pending
  <2>. QED
    BY <1>1, <1>4, <2>1, OrderSame
<1>5. CASE HandleRead
  <2>1. CASE readct \in readbuf
    <3>1. /\ readct \in 0 .. MaxData /\ todo' = <<Packet("reply", readct)>>
          /\ readct' = readct + 1
          /\ losted' = losted /\ closepend' = closepend
      BY <1>5, <2>1 DEF HandleRead, Types, ReadbufOK, endVars
    <3>2. todo' \in Replying /\ todo'[1][2] = readct
      BY <3>1, FirstDiffer DEF Replying, Answer
    <3>3. Pending' = Append(Pending, readct)
      BY <1>1, <1>2, <3>2 DEF Pending
    <3>4. ~ closepend => ~ losted /\ ~ losted'
      BY <1>3, <3>1
    <3>. QED
      BY <1>1, <3>1, <3>3, <3>4, OrderGrows
  <2>2. CASE readct \notin readbuf
    <3>1. todo' = <<>> /\ UNCHANGED <<readct, losted, closepend>>
      BY <1>1, <1>5, <2>2 DEF HandleRead, endVars
    <3>. QED
      BY <1>1, <1>2, <1>4, <3>1
  <2>. QED
    BY <2>1, <2>2
<1>6. CASE HandleClose
  <2>1. UNCHANGED <<readct, losted>> /\ todo' \in {<<>>, OverPut}
    BY <1>1, <1>6 DEF HandleClose, recvVars, OverPut
  <2>2. todo' \notin Replying
    BY <2>1, TodosApart
  <2>3. CASE closepend' = closepend
    BY <1>4, <2>1, <2>2, <2>3
  <2>4. CASE closepend' = TRUE /\ ~ closepend
    <3>1. Pending' = Pending
      BY <1>1, <1>2, <2>2 DEF Pending
    <3>2. /\ Len(Pending) \in Nat /\ Len(results) \in Nat
          /\ DOMAIN results = 1 .. Len(results)
          /\ Pending = <<>> <=> Len(Pending) = 0
      BY PendingIs
    <3>3. ~ losted /\ OrderOpen
      BY <1>3, <2>4 DEF OrderInv
    <3>4. /\ \A i \in 1 .. Len(results) : results[i] = i
          /\ \A k \in 1 .. Len(Pending) : Pending[k] = Len(results) + k
          /\ readct = Len(results) + Len(Pending) + 1
      BY <3>3 DEF OrderOpen, Total
    <3>5. OrderClosing'
      <4>1. \A i \in 1 .. Len(results') : results'[i] = i
        BY <1>1, <3>4
      <4>2. Pending' = <<>> => readct' = Len(results') + 1
        BY <1>1, <2>1, <3>1, <3>2, <3>4
      <4>3. Pending' # <<>> => Pending'[1] \in {0, Len(results') + 1}
        BY <1>1, <3>1, <3>2, <3>4
      <4>. QED
        BY <4>1, <4>2, <4>3 DEF OrderClosing
    <3>6. ReadsInOrder'
      BY <1>1, <3>2, <3>4 DEF ReadsInOrder
    <3>. QED
      BY <2>4, <3>5, <3>6 DEF OrderInv
  <2>5. closepend' = closepend \/ closepend' = TRUE
    BY <1>6 DEF HandleClose
  <2>6. closepend \in BOOLEAN
    BY DEF Types, FlagsOK
  <2>. QED
    BY <2>3, <2>4, <2>5, <2>6
<1>7. CASE HandleEpoch
  <2>1. readct' = readct /\ closepend' = closepend
    BY <1>7 DEF HandleEpoch, recvVars
  <2>2. CASE UNCHANGED <<losted, todo>>
    BY <1>2, <1>4, <2>1, <2>2
  <2>3. CASE losted' = TRUE /\ todo' = OnLoss
    <3>1. todo' \in {LossReported, LossCloses}
      BY <2>3 DEF OnLoss
    <3>2. todo' \in Replying /\ todo'[1][2] = 0
      BY <3>1, TodosDiffer, FirstDiffer DEF Replying
    <3>3. Pending' = Append(Pending, 0)
      BY <1>1, <1>2, <3>2 DEF Pending
    <3>4. 0 \in 0 .. MaxData
      OBVIOUS
    <3>. QED
      BY <1>1, <1>3, <2>1, <2>3, <3>3, <3>4, OrderGrows
  <2>. QED
    BY <1>7, <2>2, <2>3, Zenon DEF HandleEpoch
<1>. QED
  BY <1>4, <1>5, <1>6, <1>7

\* Read takes the first of the answers that wait.
LEMMA OrderReturns ==
  ASSUME Types, OrderInv, ReadReturns
  PROVE  OrderInv'
<1>1. /\ replyread # <<>> /\ replyread' = Tail(replyread)
      /\ results' = Append(results, Head(replyread))
      /\ reading = TRUE /\ reading' = FALSE
      /\ losted' = losted /\ todo' = todo /\ readct' = readct
      /\ closepend' = closepend
  BY DEF ReadReturns, endVars, recvVars, Types, FlagsOK
<1>2. /\ Pending \in Seq(0 .. MaxData) /\ results \in Seq(0 .. MaxData)
      /\ Len(Pending) \in Nat /\ Len(results) \in Nat
      /\ Pending # <<>> /\ Pending[1] = Head(replyread)
      /\ DOMAIN results = 1 .. Len(results)
  BY <1>1, PendingIs
<1>3. replyread \in Seq(0 .. MaxData)
  BY DEF Types, AnswersOK
<1>4. /\ Head(replyread) \in 0 .. MaxData
      /\ Len(replyread) \in Nat /\ Len(replyread) > 0
      /\ Tail(replyread) \in Seq(0 .. MaxData)
      /\ Len(Tail(replyread)) = Len(replyread) - 1
      /\ \A k \in 1 .. Len(replyread) - 1 :
           Tail(replyread)[k] = replyread[k + 1]
  BY <1>1, <1>3, HeadIs
<1>5. /\ Len(results') = Len(results) + 1
      /\ DOMAIN results' = 1 .. Len(results) + 1
      /\ \A k \in 1 .. Len(results) : results'[k] = results[k]
      /\ results'[Len(results) + 1] = Pending[1]
  BY <1>1, <1>2, <1>4, AppendIs
<1>6. /\ Len(Pending') = Len(Pending) - 1
      /\ \A k \in 1 .. Len(Pending) - 1 : Pending'[k] = Pending[k + 1]
  <2>1. CASE todo \notin Replying
    BY <1>1, <1>4, <2>1 DEF Pending
  <2>2. CASE todo \in Replying
    <3>. DEFINE x == todo[1][2]
    <3>1. x \in 0 .. MaxData
      BY <2>2, PendingIs
    <3>2. Pending = Append(replyread, x) /\ Pending' = Append(replyread', x)
      BY <1>1, <2>2 DEF Pending
    <3>. HIDE DEF x
    <3>3. /\ Len(Pending) = Len(replyread) + 1
          /\ \A k \in 1 .. Len(replyread) : Pending[k] = replyread[k]
          /\ Pending[Len(replyread) + 1] = x
      BY <1>3, <3>1, <3>2, AppendIs
    <3>4. /\ Len(Pending') = Len(replyread') + 1
          /\ \A k \in 1 .. Len(replyread') : Pending'[k] = replyread'[k]
          /\ Pending'[Len(replyread') + 1] = x
      BY <1>1, <1>4, <3>1, <3>2, AppendIs
    <3>5. Len(replyread') = Len(replyread) - 1
      BY <1>1, <1>4
    <3>6. \A k \in 1 .. Len(replyread') : Pending'[k] = replyread[k + 1]
      BY <1>1, <1>4, <3>4, <3>5
    <3>7. ASSUME NEW k \in 1 .. Len(Pending) - 1
          PROVE  Pending'[k] = Pending[k + 1]
      <4>1. CASE k \in 1 .. Len(replyread')
        BY <1>4, <3>3, <3>5, <3>6, <4>1
      <4>2. CASE k = Len(replyread)
        BY <1>4, <3>3, <3>4, <3>5, <4>2
      <4>3. k \in 1 .. Len(replyread)
        BY <1>4, <3>3
      <4>4. k \in 1 .. Len(replyread) - 1 \/ k = Len(replyread)
        BY <1>4, <4>3
      <4>. QED
        BY <3>5, <4>1, <4>2, <4>4
    <3>. QED
      BY <1>4, <3>3, <3>4, <3>5, <3>7
  <2>. QED
    BY <2>1, <2>2
<1>7. ASSUME ~ closepend PROVE OrderOpen'
  <2>1. OrderOpen
    BY <1>7 DEF OrderInv
  <2>2. Len(Pending) > 0
    BY <1>2, PendingIs
  <2>3. Total' = Total /\ Total = Len(results) + Len(Pending)
    BY <1>2, <1>5, <1>6, <2>2 DEF Total
  <2>4. ASSUME NEW i \in 1 .. Len(results')
        PROVE  results'[i] = IF losted' /\ i = Total' THEN 0 ELSE i
    <3>1. CASE i \in 1 .. Len(results)
      BY <1>1, <1>5, <2>1, <2>3, <3>1 DEF OrderOpen
    <3>2. CASE i = Len(results) + 1
      <4>1. Pending[1] = IF losted /\ Len(results) + 1 = Total
                           THEN 0 ELSE Len(results) + 1
        BY <1>2, <2>1, <2>2, SMTT(30) DEF OrderOpen
      <4>. QED
        BY <1>1, <1>5, <2>3, <3>2, <4>1
    <3>. QED
      BY <1>2, <1>5, <2>4, <3>1, <3>2
  <2>5. ASSUME NEW k \in 1 .. Len(Pending')
        PROVE  Pending'[k] = IF losted' /\ Len(results') + k = Total'
                               THEN 0 ELSE Len(results') + k
    <3>1. k + 1 \in 1 .. Len(Pending) /\ Pending'[k] = Pending[k + 1]
      BY <1>2, <1>6, <2>5
    <3>2. Pending[k + 1] = IF losted /\ Len(results) + (k + 1) = Total
                             THEN 0 ELSE Len(results) + (k + 1)
      BY <2>1, <3>1 DEF OrderOpen
    <3>3. Len(results') + k = Len(results) + (k + 1)
      BY <1>2, <1>5
    <3>. QED
      BY <1>1, <2>3, <3>1, <3>2, <3>3
  <2>6. ~ losted' => readct' = Total' + 1
    BY <1>1, <2>1, <2>3 DEF OrderOpen
  <2>. QED
    BY <2>4, <2>5, <2>6 DEF OrderOpen
<1>8. ASSUME closepend PROVE ReadsInOrder'
  <2>1. OrderClosing
    BY <1>1, <1>8 DEF OrderInv
  <2>2. /\ \A i \in 1 .. Len(results) : results'[i] = i
        /\ results'[Len(results) + 1] \in {0, Len(results) + 1}
    BY <1>2, <1>5, <2>1 DEF OrderClosing
  <2>. QED
    BY <1>2, <1>5, <2>2 DEF ReadsInOrder
<1>. QED
  BY <1>1, <1>7, <1>8 DEF OrderInv

\* Every step.
LEMMA OrderStep ==
  ASSUME Types, ShutInv, OrderInv, [Next]_vars
  PROVE  OrderInv'
<1>1. /\ {<<>>, <<cread>>, <<cclose>>} \cap Replying = {}
      /\ {CloseOver, ClosePost, CloseShut} \cap Replying = {}
  BY TodosApart
<1>2. ASSUME UNCHANGED <<todo, replyread, results, readct, losted, closepend>>,
             closepend => reading' = reading
      PROVE  OrderInv'
  <2>1. Pending' = Pending
    BY <1>2 DEF Pending
  <2>. QED
    BY <1>2, <2>1, OrderSame
<1>3. CASE HandleRead \/ HandleClose \/ HandleEpoch
  BY <1>3, OrderTake DEF HandleRead, HandleClose, HandleEpoch
<1>4. CASE HandleWrite
  BY <1>1, <1>4, OrderTake, TakeIs DEF HandleWrite, endVars, recvVars
<1>5. CASE \E p \in Datagrams : HandleReceiveDone(p)
  BY <1>1, <1>5, OrderTake DEF HandleReceiveDone, recvVars
<1>6. CASE \E n \in 0 .. MaxWrites : HandleAck(n)
  BY <1>1, <1>6, OrderTake, TakeIs DEF HandleAck, endVars, recvVars
<1>7. ASSUME NEW n \in 1 .. MaxData, HandleData(n) PROVE OrderInv'
  <2>1. /\ Take(Packet("data", n)) /\ UNCHANGED <<readct, losted, closepend>>
        /\ todo' \in {todo, <<>>, <<cread>>}
    BY <1>7 DEF HandleData, endVars, recvVars, Wake
  <2>2. todo' \notin Replying
    BY <1>1, <2>1, TakeIs
  <2>. QED
    BY <2>1, <2>2, OrderTake
<1>8. CASE Channel
  <2>1. UNCHANGED <<readct, losted, closepend, reading, results>>
    BY <1>8, ChannelIs DEF recvVars
  <2>2. todo' \notin Replying
    BY <1>1, <1>8, ChannelIs
       DEF PostsRead, PostsClose, Replies, PutsOver, ShutsDown, AfterPost,
           AfterReply, AfterOver
  <2>3. Pending' = replyread'
    BY <2>2 DEF Pending
  <2>4. CASE Replies
    BY <2>1, <2>3, <2>4, OrderSame DEF Replies, Pending
  <2>5. CASE PostsRead \/ PostsClose \/ PutsOver \/ ShutsDown
    <3>1. replyread' = replyread
      BY <2>5 DEF PostsRead, PostsClose, PutsOver, ShutsDown
    <3>2. todo \notin Replying
      BY <2>5, TodosApart DEF PostsRead, PostsClose, PutsOver, ShutsDown
    <3>3. Pending = replyread
      BY <3>2 DEF Pending
    <3>. QED
      BY <2>1, <2>3, <3>1, <3>3, OrderSame
  <2>. QED
    BY <1>8, <2>4, <2>5, ChannelIs
<1>9. CASE Read
  <2>1. CASE ~ closepend
    BY <1>2, <1>9, <2>1, Zenon DEF Read, Post, recvVars, channelVars
  <2>2. CASE closepend
    <3>1. /\ ~ reading /\ reading' = reading /\ closepend' = closepend
          /\ results' = Append(results, 0)
      BY <1>9, <2>2 DEF Read
    <3>2. ReadsInOrder
      BY <2>2, <3>1 DEF OrderInv
    <3>3. results \in Seq(0 .. MaxData) /\ 0 \in 0 .. MaxData
      BY PendingIs
    <3>4. /\ Len(results) \in Nat /\ DOMAIN results = 1 .. Len(results)
          /\ Len(results') = Len(results) + 1
          /\ DOMAIN results' = 1 .. Len(results) + 1
          /\ \A k \in 1 .. Len(results) : results'[k] = results[k]
          /\ results'[Len(results) + 1] = 0
      BY <3>1, <3>3, AppendIs
    <3>5. ReadsInOrder'
      BY <3>2, <3>4 DEF ReadsInOrder
    <3>. QED
      BY <2>2, <3>1, <3>5 DEF OrderInv
  <2>. QED
    BY <2>1, <2>2
<1>10. CASE Top \/ ServerStops
  BY <1>2, <1>10 DEF Top, ServerStops, recvVars, channelVars, endVars, appVars
<1>11. CASE Tick \/ Write \/ \E p \in Datagrams : Receive(p)
  BY <1>2, <1>11 DEF Tick, Write, Receive, Post, recvVars, channelVars,
                     appVars
<1>12. CASE Close
  BY <1>2, <1>12 DEF Close, Post, recvVars, channelVars
<1>13. CASE CloseReturns
  BY <1>2, <1>13 DEF CloseReturns, recvVars
<1>14. CASE UNCHANGED vars
  BY <1>2, <1>14 DEF vars, recvVars, channelVars, endVars, appVars
<1>. QED
  BY <1>3, <1>4, <1>5, <1>6, <1>7, <1>8, <1>9, <1>10, <1>11, <1>12, <1>13,
     <1>14, OrderReturns DEF Next, Handler

-----------------------------------------------------------------------------
(***************************************************************************)
(* The invariant.                                                          *)
(***************************************************************************)
ClientInv ==
  /\ Types /\ ShutInv /\ CloseInv /\ CloseComes /\ ReadComes /\ LossInv
  /\ OrderInv

\* An established client starts with nothing written and nothing received.
LEMMA InitInv == ASSUME Init PROVE ClientInv
<1>1. /\ req = <<>> /\ replyread = <<>> /\ over = 0 /\ exit = 0
      /\ pc = "take" /\ todo = <<>>
      /\ databuf = {} /\ writebuf = {} /\ readbuf = {} /\ readct = 1
      /\ losted = FALSE /\ closepend = FALSE /\ closeack = FALSE
      /\ shut = FALSE /\ closing = "no" /\ reading = FALSE /\ results = <<>>
  BY DEF Init
<1>2. Types
  <2>1. TodoInv
    BY <1>1 DEF TodoInv, Todos
  <2>2. ReqOK /\ AnswersOK /\ CountsOK /\ ReadbufOK
    BY <1>1 DEF ReqOK, AnswersOK, CountsOK, ReadbufOK
  <2>3. FlagsOK
    BY <1>1 DEF FlagsOK
  <2>. QED
    BY <2>1, <2>2, <2>3 DEF Types
<1>3. todo \notin Closes /\ todo # LossReported /\ todo # OverPut
      /\ todo \notin {LossCloses, CloseOver, ClosePost, CloseShut}
      /\ todo # <<cclose>> /\ todo \notin Replying
  BY <1>1, NotClosing, TodosApart
<1>4. ShutInv
  BY <1>1, <1>3 DEF ShutInv
<1>5. CloseInv
  BY <1>1, <1>3 DEF CloseInv, ClosesLast, InReq, AllAcked
<1>6. CloseComes /\ ReadComes /\ LossInv
  BY <1>1 DEF CloseComes, ReadComes, LossInv
<1>7. OrderInv
  <2>1. Pending = <<>>
    BY <1>1, <1>3 DEF Pending
  <2>2. Len(<<>>) = 0
    OBVIOUS
  <2>3. OrderOpen
    BY <1>1, <2>1, <2>2 DEF OrderOpen, Total
  <2>. QED
    BY <1>1, <2>3 DEF OrderInv
<1>. QED
  BY <1>2, <1>4, <1>5, <1>6, <1>7 DEF ClientInv

\* Every step preserves every part, each by its own lemma.
LEMMA NextInv == ASSUME ClientInv, [Next]_vars PROVE ClientInv'
  BY TypesStep, ShutStep, CloseStep, ComesStep, WakeStep, LossStep, OrderStep
     DEF ClientInv

\* The inductive invariant: what the handler has left to do, who shuts the
\* connection, what closeack says, what wakes Read and Close, and the answers
\* that wait.
THEOREM InductiveClient == Safety => []ClientInv
<1>1. Init => ClientInv
  BY InitInv
<1>2. ClientInv /\ [Next]_vars => ClientInv'
  BY NextInv
<1>. QED
  BY <1>1, <1>2, PTL DEF Safety

\* When Close has returned, everything that was written before it was sent
\* and acknowledged, or the connection is lost.
THEOREM ClientCloseWaits == Safety => []CloseWaitsForAcks
<1>1. ClientInv => CloseWaitsForAcks
  BY DEF ClientInv, CloseInv, AllAcked, CloseWaitsForAcks
<1>. QED
  BY InductiveClient, <1>1, PTL

\* A Close that may return has a packet for it on its way.
THEOREM ClientCloseComes == Safety => []CloseNotForgotten
<1>1. ASSUME ClientInv PROVE CloseNotForgotten
  <2>1. CloseTold =>
          \E i \in DOMAIN todo : todo[i] = cclose \/ todo[i][1] = "over"
    <3>1. CASE todo = <<cclose>>
      BY <3>1
    <3>2. CASE todo = LossReported
      BY <3>2 DEF LossReported
    <3>3. CASE todo = OverPut
      BY <3>3, FirstDiffer DEF OverPut
    <3>. QED
      BY <3>1, <3>2, <3>3 DEF CloseTold
  <2>2. CloseComes
    BY <1>1 DEF ClientInv
  <2>. QED
    BY <2>1, <2>2, Zenon DEF CloseComes, CloseNotForgotten, InReq
<1>. QED
  BY InductiveClient, <1>1, PTL

\* The loss and the application's Close never both get a packet from over:
\* exit never holds a second value, which would block the one who puts it.
THEOREM ExitHoldsOne == Safety => []ExitFits
<1>1. ClientInv => ExitFits
  BY DEF ClientInv, ShutInv, ExitFits
<1>. QED
  BY InductiveClient, <1>1, PTL

\* A Read whose message is there is woken.
THEOREM ClientReadComes == Safety => []NoLostWakeup
<1>1. ASSUME ClientInv PROVE NoLostWakeup
  <2>1. ReadTold =>
          \E i \in DOMAIN todo : todo[i] = cread \/ todo[i][1] = "reply"
    <3>1. CASE todo = <<cread>>
      BY <3>1
    <3>2. CASE todo \in Answer
      BY <3>2 DEF Answer, Packet
    <3>3. CASE todo = LossReported \/ todo = LossCloses
      BY <3>3, FirstDiffer DEF LossReported, LossCloses
    <3>. QED
      BY <3>1, <3>2, <3>3 DEF ReadTold, Replying
  <2>2. ReadComes
    BY <1>1 DEF ClientInv
  <2>. QED
    BY <2>1, <2>2, Zenon DEF ReadComes, NoLostWakeup, InReq
<1>. QED
  BY InductiveClient, <1>1, PTL

\* The first Read after the loss hears of it.
THEOREM LossIsHeard == Safety => []LossHeard
<1>1. ASSUME ClientInv, losted, \A i \in DOMAIN results : results[i] # 0
      PROVE  replyread # <<>> \/ \E i \in DOMAIN todo : todo[i][1] = "reply"
  <2>1. Zero(replyread) \/ LossTold
    BY <1>1 DEF ClientInv, LossInv, Zero
  <2>2. Zero(replyread) => replyread # <<>>
    BY DEF Zero
  <2>3. LossTold => \E i \in DOMAIN todo : todo[i][1] = "reply"
    BY FirstDiffer DEF LossTold, LossReported, LossCloses
  <2>. QED
    BY <2>1, <2>2, <2>3
<1>2. ClientInv => LossHeard
  BY <1>1 DEF LossHeard
<1>. QED
  BY InductiveClient, <1>2, PTL

\* Read returns the server's messages in order from the first one, and after
\* an error nothing but errors, whether the connection ends by Close or loss.
THEOREM ClientReadOrdered == Safety => []ReadsInOrder
<1>1. ASSUME ClientInv PROVE ReadsInOrder
  <2>1. /\ Len(Pending) \in Nat /\ Len(results) \in Nat
        /\ DOMAIN results = 1 .. Len(results)
    BY <1>1, PendingIs DEF ClientInv
  <2>2. OrderInv
    BY <1>1 DEF ClientInv
  <2>3. CASE ~ closepend
    BY <2>1, <2>2, <2>3 DEF OrderInv, OrderOpen, Total, ReadsInOrder
  <2>4. CASE closepend
    BY <2>1, <2>2, <2>4 DEF OrderInv, OrderClosing, ReadsInOrder
  <2>. QED
    BY <2>3, <2>4
<1>. QED
  BY InductiveClient, <1>1, PTL
=============================================================================
