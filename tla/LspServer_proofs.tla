-------------------------- MODULE LspServer_proofs --------------------------
(***************************************************************************)
(* Proofs about LspServer, for any clients, WindowSize and EpochLimit, and *)
(* whatever the bounds: what Read returns and what wakes it and Close,     *)
(* whatever connections the application writes to; that the maps agree     *)
(* and what Close has waited for, when it writes to those it read from.    *)
(***************************************************************************)
EXTENDS LspServer, Window_proofs, FiniteSetTheorems,
        SequenceTheorems

\* TypeOK in parts, for the steps of the proofs need one at a time.
ConnectType ==
  [seq : 1 .. MaxWrites + WindowSize, sendct : 1 .. MaxWrites + 1,
   databuf : SUBSET Numbers, writebuf : SUBSET Numbers,
   ack : 1 .. MaxData + 1, ackbuf : SUBSET Received,
   readbuf : SUBSET Received, readct : 1 .. MaxData + 1,
   silent : 0 .. EpochLimit, losted : BOOLEAN]

ConnectOK == connect \in [Clients -> ConnectType]

BanOK ==
  ban \in [Clients -> [databuf : SUBSET Numbers, silent : 0 .. EpochLimit]]

SetsOK ==
  /\ conn \subseteq Clients /\ pendconn \subseteq Clients
  /\ closepend \subseteq Clients /\ closeack \subseteq Clients
  /\ banclose \subseteq Clients /\ dismissed \subseteq Clients
  /\ up \subseteq Clients

CountsOK ==
  connCt \in Nat /\ sreads \in Nat /\ scloses \in Nat /\ over \in 0 .. MaxPosted

AnswersOK ==
  /\ reply \in Seq(Clients \X (0 .. MaxData))
  /\ results \in Seq((Clients \cup {0}) \X (0 .. MaxData))

FlagsOK ==
  /\ readclose \in BOOLEAN /\ reading \in BOOLEAN
  /\ closing \in {"no", "called", "done"}

\* The IDs in closepend are in conn, and all were given out.
MapsInv ==
  /\ closepend \subseteq conn
  /\ \A i \in conn \cup pendconn : i < connCt
  /\ connCt > 0

\* Read hears only of connections that are no longer pending.
IdsInv ==
  /\ \A k \in DOMAIN results :
       results[k][1] < connCt /\ results[k][1] \notin pendconn
  /\ \A k \in DOMAIN reply :
       reply[k][1] < connCt /\ reply[k][1] \notin pendconn

\* Before Close is called nothing is done for it.
OpenInv ==
  /\ closing = "no" => /\ scloses = 0 /\ over = 0
                       /\ closepend = {} /\ closeack = {}
  /\ closing = "no" <=> readclose = FALSE

\* The server's window: no message below seq is unacknowledged, none that was
\* not written is sent or waits.
SendOK(c) ==
  /\ c.seq <= c.sendct
  /\ \A n \in c.databuf : c.seq <= n /\ n < c.sendct
  /\ \A n \in c.writebuf : n < c.sendct

SendInv == \A i \in Clients : SendOK(connect[i])

\* Nothing came of a connection that is pending, or not made yet.
Fresh(c) == c.readbuf = {} /\ c.readct = 1

FreshInv == \A i \in Clients : i \in pendconn \/ i >= connCt => Fresh(connect[i])

\* Nothing was written to a connection that is pending, or not made yet, so
\* that Close does not wait for it, and it leaves conn and pendconn together.
PendInv ==
  /\ pendconn \subseteq conn
  /\ closepend \cap pendconn = {}
  /\ \A i \in Clients : i \in pendconn \/ i >= connCt => Waiting(connect[i]) = {}

\* Close has nothing left to see acknowledged of the connections that are
\* gone, nor of those in closeack, nor, when over holds a packet, of any.
Done(i) == \/ connect[i].losted \/ Waiting(connect[i]) = {}
           \/ i \in dismissed

DoneInv ==
  /\ \A i \in Clients \ conn : Done(i)
  /\ \A i \in closeack : Done(i)
  /\ over > 0 \/ closing = "done" => \A i \in Clients : Done(i)

\* What Read returned and is sure to return still: everything in reply until
\* Close is called, then only what a Read that is under way finds there.
Last ==
  IF closing = "no" THEN Len(results) + Len(reply)
  ELSE IF reading /\ reply # <<>> THEN Len(results) + 1 ELSE Len(results)

Answers ==
  [k \in 1 .. Last |->
     IF k <= Len(results) THEN results[k] ELSE reply[k - Len(results)]]

\* The first l answers in a hold the messages 1 to n - 1 of client i, and
\* nothing else of it.
Before(a, l, i, n) ==
  /\ \A j \in 1 .. l : a[j][1] = i => a[j][2] \in 1 .. n - 1
  /\ \A m \in 1 .. n - 1 : \E j \in 1 .. l : a[j] = <<i, m>>

InOrder(a, l) ==
  \A k \in 1 .. l : a[k][2] # 0 => Before(a, k - 1, a[k][1], a[k][2])

\* The answers are in order, and when one more is sure to be returned, the
\* next message of each connection is next among them, too.
OrderInv ==
  /\ InOrder(Answers, Last)
  /\ closing = "no" \/ (reading /\ reply = <<>>) =>
       \A i \in conn : Before(Answers, Last, i, connect[i].readct)

\* No loss is reported twice.
OnceInv ==
  closing = "no" =>
    \A j, k \in 1 .. Last :
      Answers[j][2] = 0 /\ Answers[j] = Answers[k] => j = k

USE WindowSizeAssumption, ClientsAssumption, EpochLimitAssumption,
    BoundsAssumption
-----------------------------------------------------------------------------
\* An element appended to a sequence, and the head taken off one.
LEMMA AppendIs ==
  ASSUME NEW S, NEW s \in Seq(S), NEW e \in S
  PROVE  /\ Append(s, e) \in Seq(S) /\ Len(Append(s, e)) = Len(s) + 1
         /\ Len(s) \in Nat /\ DOMAIN s = 1 .. Len(s)
         /\ DOMAIN Append(s, e) = 1 .. Len(s) + 1
         /\ \A k \in 1 .. Len(s) : Append(s, e)[k] = s[k]
         /\ Append(s, e)[Len(s) + 1] = e
  BY AppendProperties, LenProperties

\* The head taken off a sequence.
LEMMA HeadIs ==
  ASSUME NEW S, NEW s \in Seq(S), s # <<>>
  PROVE  /\ Tail(s) \in Seq(S) /\ Len(Tail(s)) = Len(s) - 1
         /\ Len(s) \in Nat /\ Len(s) > 0 /\ Head(s) = s[1] /\ s[1] \in S
         /\ DOMAIN s = 1 .. Len(s) /\ DOMAIN Tail(s) = 1 .. Len(s) - 1
         /\ \A k \in 1 .. Len(s) - 1 : Tail(s)[k] = s[k + 1]
  BY HeadTailProperties, LenProperties, EmptySeq

\* What the steps leave of the answers to Read, the application's calls apart.
LEMMA AnswersFrame ==
  ASSUME [NextAnyId]_vars
  PROVE  \/ Epoch \/ Sread \/ Read \/ ReadReturns
         \/ (Close \/ CloseReturns) /\ UNCHANGED <<reading, results, reply>>
         \/ UNCHANGED <<appVars, reply>>
<1>. DEFINE kept == UNCHANGED <<appVars, reply>>
<1>1. ASSUME NEW i \in Clients,
             \/ Connect(i) \/ AckToClose(i) \/ Keepalive(i) \/ ClientStops(i)
             \/ Write(i) \/ CloseConn(i)
      PROVE  kept
  BY <1>1 DEF Connect, AckToClose, Keepalive, Write, CloseConn, ClientStops,
              appVars
<1>2. ASSUME NEW i \in Clients, NEW n, Receive(i, n) \/ Ack(i, n) \/ BanAck(i, n)
      PROVE  kept
  BY <1>2, Zenon DEF Receive, Ack, BanAck
<1>3. ASSUME Sclose \/ UNCHANGED vars PROVE kept
  BY <1>3 DEF Sclose, vars
<1>4. ASSUME Close \/ CloseReturns PROVE UNCHANGED <<reading, results, reply>>
  BY <1>4 DEF Close, CloseReturns
<1>. HIDE DEF kept
<1>5. ASSUME NextAnyId
      PROVE  \/ Epoch \/ Sread \/ Read \/ ReadReturns \/ Close \/ CloseReturns
             \/ kept
  BY <1>1, <1>2, <1>3, <1>5, Zenon DEF NextAnyId, Step
<1>. QED
  BY <1>3, <1>4, <1>5 DEF kept

\* What they leave of the maps, the sclose packets and Close.
LEMMA MapsFrame ==
  ASSUME [NextAnyId]_vars
  PROVE  \/ Epoch \/ Sclose \/ Close \/ CloseReturns
         \/ \E i \in Clients : Connect(i) \/ AckToClose(i) \/ CloseConn(i)
         \/ /\ UNCHANGED <<conn, closepend, closeack, connCt>>
            /\ UNCHANGED <<scloses, over, closing>>
            /\ pendconn' \subseteq pendconn
<1>. DEFINE kept == /\ UNCHANGED <<conn, closepend, closeack, connCt>>
                    /\ UNCHANGED <<scloses, over, closing>>
                    /\ pendconn' \subseteq pendconn
<1>1. ASSUME NEW i \in Clients, Keepalive(i) \/ ClientStops(i) \/ Write(i)
      PROVE  kept
  BY <1>1 DEF Keepalive, ClientStops, Write, mapVars, reqVars, appVars
<1>2. ASSUME NEW i \in Clients, NEW n, Receive(i, n) PROVE kept
  BY <1>2 DEF Receive, appVars
<1>3. ASSUME NEW i \in Clients, NEW n, Ack(i, n) PROVE kept
  BY <1>3 DEF Ack, reqVars, appVars
<1>4. ASSUME NEW i \in Clients, NEW n, BanAck(i, n) PROVE kept
  BY <1>4 DEF BanAck, mapVars, reqVars, appVars
<1>5. ASSUME Sread \/ Read \/ ReadReturns \/ UNCHANGED vars PROVE kept
  BY <1>5 DEF Sread, Read, ReadReturns, vars, mapVars, reqVars, appVars
<1>. HIDE DEF kept
<1>6. ASSUME NextAnyId
      PROVE  \/ Epoch \/ Sclose \/ Close \/ CloseReturns
             \/ \E i \in Clients : Connect(i) \/ AckToClose(i) \/ CloseConn(i)
             \/ kept
  BY <1>1, <1>2, <1>3, <1>4, <1>5, <1>6, Zenon DEF NextAnyId, Step
<1>. QED
  BY <1>5, <1>6 DEF kept

\* The parts of the type invariant are the type invariant.
LEMMA TypeParts ==
  TypeOK <=> ConnectOK /\ BanOK /\ SetsOK /\ CountsOK /\ AnswersOK /\ FlagsOK
  BY Zenon DEF TypeOK, ConnectOK, ConnectType, BanOK, SetsOK, CountsOK,
               AnswersOK, FlagsOK

\* The lost connections that Close waits for, and the others.
LEMMA LostSplit ==
  ASSUME NEW lost
  PROVE  /\ Forgotten(lost) \subseteq lost /\ Reported(lost) \subseteq lost
         /\ Forgotten(lost) \cap Reported(lost) = {}
         /\ lost \cap closepend \subseteq Reported(lost)
         /\ lost \subseteq Forgotten(lost) \cup Reported(lost)
  BY DEF Forgotten, Reported

\* What an epoch does to the maps.
LEMMA EpochMaps ==
  ASSUME Epoch
  PROVE  \E lost \in SUBSET conn :
           /\ conn' = conn \ Forgotten(lost)
           /\ pendconn' = pendconn \ Forgotten(lost)
           /\ closepend' = closepend \ Forgotten(lost)
           /\ closeack' = (closeack \cup Reported(lost)) \ Forgotten(lost)
           /\ scloses' = scloses + Cardinality(Reported(lost))
           /\ lost = {i \in conn : TooSilent(connect[i].silent + 1)}
           /\ connect' = [i \in Clients |->
                IF i \notin conn THEN connect[i] ELSE
                [connect[i] EXCEPT
                   !.silent = IF TooSilent(@) THEN @ ELSE @ + 1,
                   !.losted = @ \/ i \in lost \ pendconn]]
           /\ \E w \in Walks(lost \ pendconn) :
                reply' = reply \o [k \in DOMAIN w |-> <<w[k], 0>>]
<1>. DEFINE lost == {i \in conn : TooSilent(connect[i].silent + 1)}
<1>1. lost \in SUBSET conn
  OBVIOUS
<1>. QED
  BY <1>1 DEF Epoch, StillPending

\* The pending connections with messages in both buffers.
Full == {i \in conn \cap pendconn :
           connect[i].databuf # {} /\ connect[i].writebuf # {}}

\* What sclose does to the maps: it drops connections that are lost or no
\* longer waited for.
LEMMA ScloseMaps ==
  ASSUME Sclose
  PROVE  LET estab  == conn \ pendconn
             lost   == {i \in estab : connect[i].losted}
             waited == (closepend \cup estab \cup Full) \ lost
             still  == waited \ closeack
         IN  \E done \in SUBSET (waited \cap closeack) :
               /\ still = {} => done = waited
               /\ conn' = conn \ (lost \cup done)
               /\ closepend' = waited \ done
               /\ closeack' = closeack \ (lost \cup done)
               /\ over' = over + (IF still = {} THEN 1 ELSE 0)
               /\ pendconn' = pendconn
  BY DEF Sclose, Full

\* Every step keeps the maps in agreement.
LEMMA MapsStep ==
  ASSUME SetsOK, CountsOK, MapsInv, OpenInv, [NextAnyId]_vars PROVE MapsInv'
<1>1. ASSUME NEW i \in Clients, Connect(i) PROVE MapsInv'
  BY <1>1 DEF Connect, MapsInv, CountsOK, SetsOK
<1>2. ASSUME NEW i \in Clients, NEW n \in 1 .. MaxData, Receive(i, n)
      PROVE  MapsInv'
  BY <1>2 DEF Receive, MapsInv
<1>3. CASE Epoch
  <2>1. connCt' = connCt
    BY <1>3 DEF Epoch
  <2>. QED
    BY <1>3, <2>1, EpochMaps DEF MapsInv
<1>4. CASE Sclose
  <2>1. connCt' = connCt
    BY <1>4 DEF Sclose
  <2>. QED
    BY <1>4, <2>1, ScloseMaps DEF MapsInv, Full
<1>5. ASSUME NEW i \in Clients, CloseConn(i) PROVE MapsInv'
  <2>1. closepend = {}
    BY <1>5 DEF CloseConn, OpenInv
  <2>. QED
    BY <1>5, <2>1 DEF CloseConn, MapsInv
<1>7. ASSUME NEW i \in Clients, NEW n \in 1 .. MaxWrites, Ack(i, n)
      PROVE  MapsInv'
  BY <1>7 DEF Ack, MapsInv
<1>6. CASE UNCHANGED <<conn, pendconn, closepend, connCt>>
  BY <1>6 DEF MapsInv
<1>. QED
  BY <1>1, <1>2, <1>3, <1>4, <1>5, <1>6, <1>7 DEF NextAnyId, Step, AckToClose,
     Keepalive, ClientStops, Write, BanAck, Sread, Close, CloseReturns, Read,
     ReadReturns, vars, mapVars

\* Only finitely many connections were made.
LEMMA ConnFinite ==
  ASSUME SetsOK, CountsOK, MapsInv, NEW S \in SUBSET conn
  PROVE  IsFiniteSet(S) /\ Cardinality(S) \in Nat
         /\ (Cardinality(S) = 0 <=> S = {})
<1>1. S \in SUBSET Nat /\ \A i \in S : i <= connCt
  BY DEF SetsOK, CountsOK, MapsInv
<1>2. IsFiniteSet(S)
  BY <1>1, FS_BoundedSetOfNaturals DEF CountsOK
<1>. QED
  BY <1>2, FS_CardinalityType, FS_EmptySet

\* An epoch appends one answer for each connection in gone.
LEMMA LossesAppended ==
  ASSUME SetsOK, CountsOK, MapsInv, AnswersOK,
         NEW gone \in SUBSET conn, NEW w \in Walks(gone),
         reply' = reply \o [k \in DOMAIN w |-> <<w[k], 0>>]
  PROVE  /\ reply' \in Seq(Clients \X (0 .. MaxData))
         /\ Cardinality(gone) \in Nat
         /\ w \in [1 .. Cardinality(gone) -> gone]
         /\ \A j, k \in 1 .. Cardinality(gone) : w[j] = w[k] => j = k
         /\ Len(reply') = Len(reply) + Cardinality(gone)
         /\ \A k \in 1 .. Len(reply) : reply'[k] = reply[k]
         /\ \A k \in 1 .. Cardinality(gone) :
              reply'[Len(reply) + k] = <<w[k], 0>>
<1>. DEFINE n == Cardinality(gone)
            q == [k \in DOMAIN w |-> <<w[k], 0>>]
            S == Clients \X (0 .. MaxData)
<1>1. n \in Nat
  BY ConnFinite
<1>2. w \in [1 .. n -> gone] /\ \A j, k \in 1 .. n : w[j] = w[k] => j = k
  BY DEF Walks
<1>3. q \in Seq(S) /\ Len(q) = n /\ \A k \in 1 .. n : q[k] = <<w[k], 0>>
  <2>1. DOMAIN w = 1 .. n /\ \A k \in 1 .. n : <<w[k], 0>> \in S
    <3>1. \A k \in 1 .. n : w[k] \in Clients
      BY <1>2 DEF SetsOK
    <3>2. 0 \in 0 .. MaxData
      OBVIOUS
    <3>. QED
      BY <1>2, <3>1, <3>2
  <2>2. q \in [1 .. n -> S] /\ \A k \in 1 .. n : q[k] = <<w[k], 0>>
    BY <2>1
  <2>3. q \in Seq(S)
    BY <1>1, <2>2, SeqDef
  <2>4. Len(q) = n
    BY <1>1, <2>2, <2>3, LenProperties
  <2>. QED
    BY <2>2, <2>3, <2>4
<1>4. reply \in Seq(S) /\ reply' = reply \o q
  BY DEF AnswersOK
<1>. HIDE DEF n, q, S
<1>5. /\ reply' \in Seq(S) /\ Len(reply') = Len(reply) + Len(q)
      /\ \A i \in 1 .. Len(reply) + Len(q) :
           reply'[i] = IF i <= Len(reply) THEN reply[i] ELSE q[i - Len(reply)]
  <2>1. Len(reply) \in Nat /\ Len(q) \in Nat
    BY <1>3, <1>4, LenProperties
  <2>2. /\ reply \o q \in Seq(S) /\ Len(reply \o q) = Len(reply) + Len(q)
        /\ \A i \in 1 .. Len(reply) + Len(q) :
             (reply \o q)[i] =
               IF i <= Len(reply) THEN reply[i] ELSE q[i - Len(reply)]
    BY <1>3, <1>4, ConcatProperties, Zenon
  <2>. QED
    BY <1>4, <2>2
<1>6. Len(reply) \in Nat
  BY <1>4
<1>7. \A k \in 1 .. Len(reply) : reply'[k] = reply[k]
  BY <1>1, <1>3, <1>5, <1>6
<1>8. \A k \in 1 .. n : reply'[Len(reply) + k] = <<w[k], 0>>
  BY <1>1, <1>3, <1>5, <1>6
<1>. QED
  BY <1>1, <1>2, <1>3, <1>5, <1>7, <1>8 DEF n, S
-----------------------------------------------------------------------------
\* Every step keeps the types of the sets and counts.
LEMMA SetsStep ==
  ASSUME SetsOK, CountsOK, MapsInv, [NextAnyId]_vars PROVE SetsOK' /\ CountsOK'
<1>1. CASE Epoch
  <2>1. /\ UNCHANGED <<connCt, sreads, over, up, dismissed>>
        /\ banclose' \subseteq banclose
    BY <1>1 DEF Epoch, appVars
  <2>2. PICK lost \in SUBSET conn :
           /\ conn' = conn \ Forgotten(lost)
           /\ pendconn' = pendconn \ Forgotten(lost)
           /\ closepend' = closepend \ Forgotten(lost)
           /\ closeack' = (closeack \cup Reported(lost)) \ Forgotten(lost)
           /\ scloses' = scloses + Cardinality(Reported(lost))
    BY <1>1, EpochMaps
  <2>3. Reported(lost) \in SUBSET conn /\ Cardinality(Reported(lost)) \in Nat
    BY ConnFinite, LostSplit
  <2>4. SetsOK'
    BY <2>1, <2>2, <2>3 DEF SetsOK
  <2>. QED
    BY <2>1, <2>2, <2>3, <2>4 DEF CountsOK
<1>2. CASE Sclose
  <2>1. /\ UNCHANGED <<connCt, sreads, up, dismissed>> /\ banclose' = {}
        /\ scloses > 0 /\ scloses' = scloses - 1 /\ over < MaxPosted
    BY <1>2 DEF Sclose, appVars
  <2>2. over' = over \/ over' = over + 1
    BY <1>2 DEF Sclose, CountsOK
  <2>3. /\ conn' \subseteq conn /\ closepend' \subseteq closepend \cup conn
        /\ closeack' \subseteq closeack /\ pendconn' = pendconn
    BY <1>2 DEF Sclose
  <2>. QED
    BY <2>1, <2>2, <2>3 DEF SetsOK, CountsOK
<1>3. ASSUME NEW i \in Clients,
             Connect(i) \/ AckToClose(i) \/ CloseConn(i) \/ ClientStops(i)
      PROVE  SetsOK' /\ CountsOK'
  <2>1. CASE Connect(i)
    BY <2>1 DEF Connect, SetsOK, CountsOK, banVars, reqVars
  <2>2. CASE AckToClose(i)
    BY <2>2 DEF AckToClose, SetsOK, CountsOK, banVars
  <2>3. CASE CloseConn(i)
    BY <2>3 DEF CloseConn, SetsOK, CountsOK, reqVars
  <2>4. CASE ClientStops(i)
    BY <2>4 DEF ClientStops, SetsOK, CountsOK, mapVars, banVars, reqVars
  <2>. QED
    BY <1>3, <2>1, <2>2, <2>3, <2>4
<1>4. ASSUME NEW i \in Clients, NEW n \in 1 .. MaxData, Receive(i, n)
      PROVE  SetsOK' /\ CountsOK'
  <2>1. sreads' = sreads + (IF n \notin connect[i].ackbuf THEN 1 ELSE 0)
    BY <1>4 DEF Receive
  <2>2. pendconn' \subseteq pendconn
        /\ UNCHANGED <<conn, closepend, closeack, banclose, dismissed, up,
                       connCt, scloses, over>>
    BY <1>4 DEF Receive, banVars
  <2>. QED
    BY <2>1, <2>2 DEF SetsOK, CountsOK
<1>7. ASSUME NEW i \in Clients, NEW n \in 0 .. MaxWrites, BanAck(i, n)
      PROVE  SetsOK' /\ CountsOK'
  BY <1>7 DEF BanAck, SetsOK, CountsOK, mapVars, reqVars
<1>5. CASE Sread \/ Close \/ CloseReturns \/ Read \/ ReadReturns
  BY <1>5, SMTT(30) DEF Sread, Close, CloseReturns, Read, ReadReturns, SetsOK,
     CountsOK, mapVars, banVars, reqVars
<1>6. CASE /\ pendconn' \subseteq pendconn
           /\ UNCHANGED <<conn, closepend, closeack, banVars, up, connCt>>
           /\ UNCHANGED <<reqVars, over>>
  BY <1>6 DEF SetsOK, CountsOK, banVars, reqVars
<1>. QED
  BY <1>1, <1>2, <1>3, <1>4, <1>5, <1>6, <1>7 DEF NextAnyId, Step, Keepalive,
     Write, Ack, vars, mapVars

\* Every step keeps the flags, and does nothing for Close before it is called.
LEMMA OpenStep ==
  ASSUME SetsOK, CountsOK, MapsInv, FlagsOK, OpenInv, [NextAnyId]_vars
  PROVE  FlagsOK' /\ OpenInv'
<1>1. CASE Epoch
  <2>1. UNCHANGED <<closing, reading, readclose, over>>
    BY <1>1 DEF Epoch, appVars
  <2>2. PICK lost \in SUBSET conn :
           /\ closepend' = closepend \ Forgotten(lost)
           /\ closeack' = (closeack \cup Reported(lost)) \ Forgotten(lost)
           /\ scloses' = scloses + Cardinality(Reported(lost))
    BY <1>1, EpochMaps
  <2>3. CASE closing = "no"
    <3>1. Reported(lost) = {}
      BY <2>3 DEF OpenInv, Reported
    <3>2. Cardinality(Reported(lost)) = 0
      BY <3>1, FS_EmptySet
    <3>. QED
      BY <2>1, <2>2, <2>3, <3>1, <3>2 DEF OpenInv, FlagsOK
  <2>4. CASE closing # "no"
    BY <2>1, <2>4 DEF OpenInv, FlagsOK
  <2>. QED
    BY <2>3, <2>4
<1>2. CASE Sclose
  BY <1>2 DEF Sclose, appVars, OpenInv, FlagsOK, CountsOK
<1>3. ASSUME NEW i \in Clients, CloseConn(i) \/ AckToClose(i)
      PROVE  FlagsOK' /\ OpenInv'
  BY <1>3 DEF CloseConn, AckToClose, appVars, reqVars, OpenInv, FlagsOK
<1>4. CASE Close \/ CloseReturns
  BY <1>4 DEF Close, CloseReturns, mapVars, reqVars, OpenInv, FlagsOK
<1>5. CASE Read \/ ReadReturns
  BY <1>5 DEF Read, ReadReturns, mapVars, reqVars, OpenInv, FlagsOK
<1>6. CASE UNCHANGED <<appVars, closepend, closeack, scloses, over>>
  BY <1>6 DEF appVars, OpenInv, FlagsOK
<1>7. CASE UNCHANGED appVars
  <2>1. \A i : Connect(i) => UNCHANGED <<closepend, closeack, scloses, over>>
    BY DEF Connect, reqVars
  <2>2. \/ Epoch \/ Sclose \/ Close \/ CloseReturns
        \/ \E i \in Clients : CloseConn(i) \/ AckToClose(i)
        \/ UNCHANGED <<closepend, closeack, scloses, over>>
    BY <2>1, MapsFrame
  <2>. HIDE DEF FlagsOK, OpenInv
  <2>. QED
    BY <1>1, <1>2, <1>3, <1>4, <1>6, <1>7, <2>2, Zenon
<1>. QED
  BY <1>1, <1>4, <1>5, <1>7, AnswersFrame
     DEF Sread

\* The answers given to Read keep their type.
LEMMA AnswersStep ==
  ASSUME ConnectOK, SetsOK, CountsOK, MapsInv, AnswersOK, [NextAnyId]_vars
  PROVE  AnswersOK'
<1>1. CASE Epoch
  <2>1. results' = results
    BY <1>1 DEF Epoch, appVars
  <2>2. PICK lost \in SUBSET conn :
          \E w \in Walks(lost \ pendconn) :
            reply' = reply \o [k \in DOMAIN w |-> <<w[k], 0>>]
    BY <1>1, EpochMaps
  <2>6. PICK w \in Walks(lost \ pendconn) :
          reply' = reply \o [k \in DOMAIN w |-> <<w[k], 0>>]
    BY <2>2
  <2>3. lost \ pendconn \in SUBSET conn
    OBVIOUS
  <2>4. reply' \in Seq(Clients \X (0 .. MaxData))
    BY <2>6, <2>3, LossesAppended
  <2>. QED
    BY <2>1, <2>4 DEF AnswersOK
<1>2. CASE Sread
  <2>1. results' = results
    BY <1>2 DEF Sread, appVars
  <2>2. ASSUME NEW i \in conn, Ready(i),
               reply' = Append(reply, <<i, connect[i].readct>>)
        PROVE  AnswersOK'
    <3>1. i \in Clients /\ connect[i].readct \in 0 .. MaxData
      BY <2>2 DEF SetsOK, ConnectOK, ConnectType, Received, Ready
    <3>. QED
      BY <2>1, <2>2, <3>1 DEF AnswersOK
  <2>3. CASE UNCHANGED reply
    BY <2>1, <2>3 DEF AnswersOK
  <2>. QED
    BY <1>2, <2>2, <2>3 DEF Sread
<1>3. CASE Read
  <2>1. reply' = reply
        /\ (results' = Append(results, <<0, 0>>) \/ results' = results)
    BY <1>3 DEF Read
  <2>2. <<0, 0>> \in (Clients \cup {0}) \X (0 .. MaxData)
    OBVIOUS
  <2>3. Append(results, <<0, 0>>) \in Seq((Clients \cup {0}) \X (0 .. MaxData))
    BY <2>2, AppendIs DEF AnswersOK
  <2>. QED
    BY <2>1, <2>3 DEF AnswersOK
<1>4. CASE ReadReturns
  <2>1. /\ reply \in Seq(Clients \X (0 .. MaxData)) /\ reply # <<>>
        /\ results' = Append(results, Head(reply)) /\ reply' = Tail(reply)
    BY <1>4 DEF ReadReturns, AnswersOK
  <2>2. Head(reply) \in (Clients \cup {0}) \X (0 .. MaxData)
        /\ Tail(reply) \in Seq(Clients \X (0 .. MaxData))
    BY <2>1, HeadTailProperties
  <2>. QED
    BY <2>1, <2>2 DEF AnswersOK
<1>5. CASE UNCHANGED <<reply, results>>
  BY <1>5 DEF AnswersOK
<1>. QED
  BY <1>1, <1>2, <1>3, <1>4, <1>5, AnswersFrame DEF appVars

\* Read still hears only of connections that are no longer pending.
LEMMA IdsStep ==
  ASSUME SetsOK, CountsOK, MapsInv, AnswersOK, IdsInv, [NextAnyId]_vars
  PROVE  IdsInv'
<1>1. CASE Epoch
  <2>1. results' = results /\ connCt' = connCt /\ pendconn' \subseteq pendconn
    BY <1>1 DEF Epoch, appVars, StillPending
  <2>2. PICK lost \in SUBSET conn :
          \E w \in Walks(lost \ pendconn) :
            reply' = reply \o [k \in DOMAIN w |-> <<w[k], 0>>]
    BY <1>1, EpochMaps
  <2>5. PICK gone \in SUBSET (conn \ pendconn) :
          \E w \in Walks(gone) :
            reply' = reply \o [k \in DOMAIN w |-> <<w[k], 0>>]
    BY <2>2
  <2>6. PICK w \in Walks(gone) :
          reply' = reply \o [k \in DOMAIN w |-> <<w[k], 0>>]
    BY <2>5
  <2>. DEFINE n == Cardinality(gone)
  <2>3. /\ n \in Nat /\ w \in [1 .. n -> gone]
        /\ reply' \in Seq(Clients \X (0 .. MaxData))
        /\ Len(reply') = Len(reply) + n
        /\ \A k \in 1 .. Len(reply) : reply'[k] = reply[k]
        /\ \A k \in 1 .. n : reply'[Len(reply) + k] = <<w[k], 0>>
    BY <2>6, LossesAppended, gone \in SUBSET conn
  <2>. HIDE DEF n
  <2>4. ASSUME NEW k \in DOMAIN reply'
        PROVE  reply'[k][1] < connCt /\ reply'[k][1] \notin pendconn
    <3>1. CASE k \in 1 .. Len(reply)
      <4>1. k \in DOMAIN reply /\ reply'[k] = reply[k]
        BY <2>3, <3>1 DEF AnswersOK
      <4>. QED
        BY <4>1 DEF IdsInv
    <3>2. CASE k \notin 1 .. Len(reply)
      <4>1. k - Len(reply) \in 1 .. n
        BY <2>3, <3>2 DEF AnswersOK
      <4>2. reply'[k] = <<w[k - Len(reply)], 0>>
        BY <2>3, <4>1 DEF AnswersOK
      <4>3. w[k - Len(reply)] \in conn \ pendconn
        BY <2>3, <4>1
      <4>. QED
        BY <4>2, <4>3 DEF MapsInv
    <3>. QED
      BY <3>1, <3>2
  <2>. QED
    BY <2>1, <2>4 DEF IdsInv
<1>2. CASE Sread
  <2>1. UNCHANGED <<results, connCt, pendconn>>
    BY <1>2 DEF Sread, appVars, mapVars
  <2>2. ASSUME NEW i \in conn, Ready(i),
               reply' = Append(reply, <<i, connect[i].readct>>)
        PROVE  IdsInv'
    <3>1. i < connCt /\ i \notin pendconn
      BY <2>2 DEF MapsInv, Ready
    <3>2. \A k \in DOMAIN reply' : (k \in DOMAIN reply /\ reply'[k] = reply[k])
                                   \/ reply'[k] = <<i, connect[i].readct>>
      BY <2>2 DEF AnswersOK
    <3>. QED
      BY <2>1, <3>1, <3>2 DEF IdsInv
  <2>3. CASE UNCHANGED reply
    BY <2>1, <2>3 DEF IdsInv
  <2>. QED
    BY <1>2, <2>2, <2>3 DEF Sread
<1>3. CASE Read
  <2>1. UNCHANGED <<reply, connCt, pendconn>>
        /\ (results' = Append(results, <<0, 0>>) \/ results' = results)
    BY <1>3 DEF Read, mapVars
  <2>2. \A k \in DOMAIN results' :
          (k \in DOMAIN results /\ results'[k] = results[k])
          \/ results'[k] = <<0, 0>>
    <3>1. <<0, 0>> \in (Clients \cup {0}) \X (0 .. MaxData)
      OBVIOUS
    <3>2. CASE results' = Append(results, <<0, 0>>)
      <4>1. /\ Len(results) \in Nat /\ DOMAIN results = 1 .. Len(results)
            /\ DOMAIN results' = 1 .. Len(results) + 1
            /\ \A k \in 1 .. Len(results) : results'[k] = results[k]
            /\ results'[Len(results) + 1] = <<0, 0>>
        BY <3>1, <3>2, AppendIs DEF AnswersOK
      <4>. QED
        BY <4>1
    <3>. QED
      BY <2>1, <3>2
  <2>3. 0 < connCt /\ 0 \notin pendconn
    BY DEF MapsInv, SetsOK, CountsOK
  <2>. QED
    BY <2>1, <2>2, <2>3 DEF IdsInv
<1>4. CASE ReadReturns
  <2>1. /\ reply \in Seq(Clients \X (0 .. MaxData)) /\ reply # <<>>
        /\ results' = Append(results, Head(reply)) /\ reply' = Tail(reply)
        /\ UNCHANGED <<connCt, pendconn>>
    BY <1>4 DEF ReadReturns, AnswersOK, mapVars
  <2>2. Head(reply) = reply[1] /\ 1 \in DOMAIN reply
        /\ \A k \in DOMAIN reply' :
             k + 1 \in DOMAIN reply /\ reply'[k] = reply[k + 1]
    BY <2>1
  <2>3. \A k \in DOMAIN results' :
          (k \in DOMAIN results /\ results'[k] = results[k])
          \/ results'[k] = reply[1]
    <3>1. /\ Head(reply) \in (Clients \cup {0}) \X (0 .. MaxData)
          /\ results \in Seq((Clients \cup {0}) \X (0 .. MaxData))
      BY <2>1, HeadTailProperties DEF AnswersOK
    <3>2. /\ DOMAIN results = 1 .. Len(results) /\ Len(results) \in Nat
          /\ DOMAIN results' = 1 .. Len(results) + 1
          /\ \A k \in 1 .. Len(results) : results'[k] = results[k]
          /\ results'[Len(results) + 1] = reply[1]
      BY <2>1, <2>2, <3>1, AppendIs
    <3>. QED
      BY <3>2
  <2>. QED
    BY <2>1, <2>2, <2>3 DEF IdsInv
<1>5. ASSUME NEW i \in Clients, Connect(i) PROVE IdsInv'
  <2>1. /\ i = connCt /\ connCt' = connCt + 1 /\ pendconn' = pendconn \cup {i}
        /\ UNCHANGED <<reply, results>>
    BY <1>5 DEF Connect, appVars
  <2>2. \A j : j < connCt => j # i
    BY <2>1
  <2>3. /\ \A k \in DOMAIN results : results[k][1] \in Nat
        /\ \A k \in DOMAIN reply : reply[k][1] \in Nat
    <3>1. \A k \in DOMAIN results :
            results[k] \in (Clients \cup {0}) \X (0 .. MaxData)
      BY DEF AnswersOK
    <3>2. \A k \in DOMAIN reply : reply[k] \in Clients \X (0 .. MaxData)
      BY DEF AnswersOK
    <3>3. Clients \cup {0} \subseteq Nat /\ Clients \subseteq Nat
      OBVIOUS
    <3>4. ASSUME NEW k \in DOMAIN results PROVE results[k][1] \in Nat
      BY <3>1, <3>3
    <3>5. ASSUME NEW k \in DOMAIN reply PROVE reply[k][1] \in Nat
      BY <3>2, <3>3
    <3>. QED
      BY <3>4, <3>5
  <2>. QED
    BY <2>1, <2>2, <2>3 DEF IdsInv, CountsOK
<1>6. CASE UNCHANGED <<reply, results, connCt>> /\ pendconn' \subseteq pendconn
  BY <1>6 DEF IdsInv
<1>. QED
  <2>1. CASE UNCHANGED <<reply, results>>
    BY <1>1, <1>5, <1>6, <2>1, MapsFrame
       DEF AckToClose, CloseConn, Sclose, Close, CloseReturns, mapVars
  <2>. QED
    BY <1>1, <1>2, <1>3, <1>4, <2>1, AnswersFrame DEF appVars

\* An Ack keeps the window of the connection.
LEMMA AckKeeps ==
  ASSUME NEW c \in ConnectType, SendOK(c), NEW n \in 1 .. c.sendct - 1,
         AckInWindow(c.seq, n), NEW s \in c.seq .. c.seq + WindowSize,
         IF n = c.seq THEN NewBase(c.seq, c.databuf \ {n}, s) ELSE s = c.seq
  PROVE  LET d == [c EXCEPT !.silent = 0, !.seq = s,
                     !.databuf = (@ \ {n}) \cup Released(c.seq, s, c.writebuf),
                     !.writebuf = @ \ Released(c.seq, s, c.writebuf)]
         IN  d \in ConnectType /\ SendOK(d)
<1>1. /\ c.seq \in Nat /\ c.seq > 0 /\ c.sendct \in 1 .. MaxWrites + 1
      /\ c.databuf \subseteq Numbers /\ c.writebuf \subseteq Numbers
      /\ \A m \in c.databuf : c.seq <= m /\ m < c.sendct
      /\ \A m \in c.writebuf : m < c.sendct
  BY DEF ConnectType, SendOK
<1>2. s \in Nat /\ c.seq <= s /\ s <= c.sendct
      /\ s <= c.seq + WindowSize /\ \A m \in c.databuf \ {n} : s <= m
  <2>1. CASE n = c.seq
    <3>1. \A m \in c.databuf \ {n} : m \in Nat /\ c.seq < m /\ m < c.sendct
      BY <1>1, <2>1 DEF Numbers
    <3>2. c.seq < c.sendct
      BY <1>1, <2>1
    <3>3. c.seq \in Nat /\ c.sendct \in Nat
      BY <1>1
    <3>4. NewBase(c.seq, c.databuf \ {n}, s)
      BY <2>1
    <3>. DEFINE buf == c.databuf \ {n}
    <3>. HIDE DEF buf
    <3>5. s <= c.sendct /\ \A m \in buf : s <= m
      <4>1. \A m \in buf : m \in Nat /\ c.seq < m /\ m < c.sendct
        BY <3>1 DEF buf
      <4>2. NewBase(c.seq, buf, s)
        BY <3>4 DEF buf
      <4>. QED
        BY <3>2, <3>3, <4>1, <4>2, NewBaseIs
    <3>. QED
      BY <1>1, <3>3, <3>5 DEF buf
  <2>2. CASE n # c.seq
    BY <1>1, <2>2 DEF SendOK
  <2>. QED
    BY <2>1, <2>2
<1>. DEFINE r == Released(c.seq, s, c.writebuf)
            db == (c.databuf \ {n}) \cup r
            wb == c.writebuf \ r
<1>3. r \subseteq c.writebuf /\ \A m \in r : s <= m
  BY <1>1, <1>2 DEF Released, Numbers
<1>4. /\ db \subseteq Numbers /\ wb \subseteq Numbers
      /\ \A m \in db : s <= m /\ m < c.sendct
      /\ \A m \in wb : m < c.sendct
  BY <1>1, <1>2, <1>3
<1>5. s \in 1 .. MaxWrites + WindowSize
  BY <1>1, <1>2
<1>. HIDE DEF db, wb, r
<1>. DEFINE d == [c EXCEPT !.silent = 0, !.seq = s,
                    !.databuf = db, !.writebuf = wb]
<1>6. d \in ConnectType
  <2>1. 0 \in 0 .. EpochLimit
    OBVIOUS
  <2>2. db \in SUBSET Numbers /\ wb \in SUBSET Numbers
    BY <1>4
  <2>. QED
    BY <1>5, <2>1, <2>2, Zenon DEF ConnectType
<1>7. d.seq = s /\ d.sendct = c.sendct /\ d.databuf = db /\ d.writebuf = wb
  BY DEF ConnectType
<1>8. SendOK(d)
  BY <1>2, <1>4, <1>7 DEF SendOK
<1>. QED
  BY <1>6, <1>8 DEF db, wb, r

\* Every step keeps the connections well formed and their windows.
LEMMA ConnectStep ==
  ASSUME SetsOK, ConnectOK, SendInv, [NextAnyId]_vars
  PROVE  ConnectOK' /\ SendInv'
<1>. DEFINE T == {c \in ConnectType : SendOK(c)}
<1>. SUFFICES connect' = connect \/ connect' \in [Clients -> T]
  BY DEF ConnectOK, SendInv
<1>0. connect \in [Clients -> T]
  BY DEF ConnectOK, SendInv
<1>1. ASSUME NEW i \in Clients, NEW d, d \in T,
             connect' = [connect EXCEPT ![i] = d]
      PROVE  connect' \in [Clients -> T]
  BY <1>0, <1>1
<1>. HIDE DEF T
<1>2. ASSUME NEW i \in Clients, NEW n \in 1 .. MaxData, Receive(i, n)
      PROVE  connect' \in [Clients -> T]
  <2>. DEFINE c == connect[i]
              d == [c EXCEPT !.silent = 0,
                      !.ack = AckFloor(c.ack, n),
                      !.ackbuf = KeptAcks(c.ack, c.ackbuf, n),
                      !.readbuf = IF n \notin c.ackbuf THEN @ \cup {n} ELSE @]
  <2>1. connect' = [connect EXCEPT ![i] = d]
    BY <1>2 DEF Receive
  <2>2. c \in ConnectType /\ SendOK(c)
    BY <1>0 DEF T
  <2>. HIDE DEF c
  <2>3. AckFloor(c.ack, n) \in 1 .. MaxData + 1
    BY <2>2 DEF AckFloor, ConnectType
  <2>4. KeptAcks(c.ack, c.ackbuf, n) \subseteq Received
    BY <2>2 DEF KeptAcks, ConnectType, Received
  <2>. DEFINE rb == IF n \notin c.ackbuf THEN c.readbuf \cup {n}
                                         ELSE c.readbuf
  <2>7. rb \in SUBSET Received /\ 0 \in 0 .. EpochLimit
    BY <2>2 DEF ConnectType, Received
  <2>8. d = [c EXCEPT !.silent = 0, !.ack = AckFloor(c.ack, n),
               !.ackbuf = KeptAcks(c.ack, c.ackbuf, n), !.readbuf = rb]
    BY Zenon
  <2>. HIDE DEF rb
  <2>5. d \in ConnectType
    BY <2>2, <2>3, <2>4, <2>7, <2>8, Zenon DEF ConnectType
  <2>6. SendOK(d)
    BY <2>2 DEF SendOK, ConnectType
  <2>. QED
    BY <1>1, <2>1, <2>5, <2>6 DEF T
<1>3. ASSUME NEW i \in Clients, NEW n \in 1 .. MaxWrites, Ack(i, n)
      PROVE  connect' \in [Clients -> T]
  <2>. DEFINE c == connect[i]
  <2>1. c \in ConnectType /\ SendOK(c)
    BY <1>0 DEF T
  <2>2. n \in 1 .. c.sendct - 1 /\ AckInWindow(c.seq, n)
    BY <1>3 DEF Ack
  <2>3. PICK s \in c.seq .. c.seq + WindowSize :
          /\ IF n = c.seq THEN NewBase(c.seq, c.databuf \ {n}, s)
                          ELSE s = c.seq
          /\ connect' = [connect EXCEPT ![i] =
               [c EXCEPT !.silent = 0, !.seq = s,
                 !.databuf = (@ \ {n}) \cup Released(c.seq, s, c.writebuf),
                 !.writebuf = @ \ Released(c.seq, s, c.writebuf)]]
    BY <1>3 DEF Ack
  <2>. DEFINE d == [c EXCEPT !.silent = 0, !.seq = s,
                      !.databuf = (@ \ {n}) \cup Released(c.seq, s, c.writebuf),
                      !.writebuf = @ \ Released(c.seq, s, c.writebuf)]
  <2>4. connect' = [connect EXCEPT ![i] = d]
    BY <2>3
  <2>. HIDE DEF c
  <2>5. d \in ConnectType /\ SendOK(d)
    BY <2>1, <2>2, <2>3, AckKeeps
  <2>6. d \in T
    BY <2>5 DEF T
  <2>. QED
    BY <1>1, <2>4, <2>6
<1>4. CASE Epoch
  <2>1. connect' = [i \in Clients |->
          IF i \notin conn THEN connect[i] ELSE
          [connect[i] EXCEPT
             !.silent = IF TooSilent(@) THEN @ ELSE @ + 1,
             !.losted = @ \/ i \in {j \in conn :
                                TooSilent(connect[j].silent + 1)} \ pendconn]]
    BY <1>4 DEF Epoch
  <2>2. ASSUME NEW c \in T, NEW l \in BOOLEAN
        PROVE  [c EXCEPT !.silent = IF TooSilent(@) THEN @ ELSE @ + 1,
                         !.losted = l] \in T
    <3>. DEFINE m == IF TooSilent(c.silent) THEN c.silent ELSE c.silent + 1
                d == [c EXCEPT !.silent = m, !.losted = l]
    <3>1. m \in 0 .. EpochLimit
      BY DEF T, ConnectType, TooSilent
    <3>. HIDE DEF m
    <3>2. d \in ConnectType /\ d.seq = c.seq /\ d.sendct = c.sendct
          /\ d.databuf = c.databuf /\ d.writebuf = c.writebuf
      BY <3>1, Zenon DEF T, ConnectType
    <3>3. d \in T
      BY <3>2 DEF T, SendOK
    <3>. QED
      BY <3>3 DEF m
  <2>3. ASSUME NEW i \in Clients PROVE connect'[i] \in T
    <3>. DEFINE l == connect[i].losted \/ i \in
           {j \in conn : TooSilent(connect[j].silent + 1)} \ pendconn
    <3>1. connect[i] \in T /\ l \in BOOLEAN
      BY <1>0 DEF T, ConnectType
    <3>2. connect'[i] = IF i \notin conn THEN connect[i] ELSE
            [connect[i] EXCEPT !.silent = IF TooSilent(@) THEN @ ELSE @ + 1,
                               !.losted = l]
      BY <2>1
    <3>. HIDE DEF l
    <3>. QED
      BY <2>2, <3>1, <3>2
  <2>4. connect' = [i \in Clients |-> connect'[i]]
    BY <2>1
  <2>. QED
    BY <2>3, <2>4
<1>5. CASE Sread
  <2>1. ASSUME NEW i \in conn, Ready(i),
               connect' = [connect EXCEPT ![i].readct = @ + 1,
                             ![i].readbuf = @ \ {connect[i].readct}]
        PROVE  connect' \in [Clients -> T]
    <3>. DEFINE d == [connect[i] EXCEPT !.readct = @ + 1,
                        !.readbuf = @ \ {connect[i].readct}]
    <3>1. i \in Clients /\ connect' = [connect EXCEPT ![i] = d]
      BY <2>1 DEF SetsOK
    <3>. DEFINE c == connect[i]
                m == c.readct + 1
                rb == c.readbuf \ {c.readct}
    <3>2. c \in T
      BY <1>0, <3>1
    <3>4. m \in 1 .. MaxData + 1 /\ rb \in SUBSET Received
      BY <2>1, <3>2 DEF T, ConnectType, Ready, Received
    <3>5. d = [c EXCEPT !.readct = m, !.readbuf = rb]
      OBVIOUS
    <3>. HIDE DEF c, d, m, rb
    <3>6. d \in ConnectType /\ d.seq = c.seq /\ d.sendct = c.sendct
          /\ d.databuf = c.databuf /\ d.writebuf = c.writebuf
      BY <3>2, <3>4, <3>5, Zenon DEF T, ConnectType
    <3>3. d \in T
      BY <3>2, <3>6 DEF T, SendOK
    <3>. QED
      BY <1>1, <3>1, <3>3
  <2>2. \/ connect' = connect
        \/ \E i \in conn :
             /\ Ready(i)
             /\ connect' = [connect EXCEPT ![i].readct = @ + 1,
                              ![i].readbuf = @ \ {connect[i].readct}]
    BY <1>5 DEF Sread
  <2>. QED
    BY <1>0, <2>1, <2>2
<1>6. ASSUME NEW i \in Clients, Write(i) PROVE connect' \in [Clients -> T]
  <2>. DEFINE c == connect[i]
              d == IF InWindow(c.seq, c.sendct)
                THEN [c EXCEPT !.sendct = @ + 1, !.databuf = @ \cup {c.sendct}]
                ELSE [c EXCEPT !.sendct = @ + 1, !.writebuf = @ \cup {c.sendct}]
  <2>1. connect' = [connect EXCEPT ![i] = d] /\ c.sendct <= MaxWrites
    BY <1>6 DEF Write
  <2>2. c \in T
    BY <1>0
  <2>. HIDE DEF c
  <2>. DEFINE m == c.sendct + 1
              new == {c.sendct}
  <2>5. /\ m \in 1 .. MaxWrites + 1
        /\ c.databuf \cup new \in SUBSET Numbers
        /\ c.writebuf \cup new \in SUBSET Numbers
    BY <2>1, <2>2 DEF T, ConnectType, Numbers
  <2>6. d = IF InWindow(c.seq, c.sendct)
              THEN [c EXCEPT !.sendct = m, !.databuf = @ \cup new]
              ELSE [c EXCEPT !.sendct = m, !.writebuf = @ \cup new]
    OBVIOUS
  <2>. HIDE DEF m, new
  <2>3. d \in ConnectType
    BY <2>2, <2>5, <2>6, Zenon DEF T, ConnectType
  <2>4. SendOK(d)
    BY <2>1, <2>2 DEF T, ConnectType, Numbers, SendOK
  <2>. QED
    BY <1>1, <2>1, <2>3, <2>4 DEF T
<1>8. ASSUME NEW i \in Clients, Keepalive(i)
      PROVE  connect' \in [Clients -> T]
  <2>. DEFINE d == [connect[i] EXCEPT !.silent = 0]
  <2>1. connect' = [connect EXCEPT ![i] = d]
    BY <1>8 DEF Keepalive
  <2>2. d \in T
    BY <1>0 DEF T, ConnectType, SendOK
  <2>. QED
    BY <1>1, <2>1, <2>2
<1>. QED
  BY <1>0, <1>2, <1>3, <1>4, <1>5, <1>6, <1>8 DEF T, NextAnyId,
     Step, Connect, CloseConn, AckToClose, ClientStops, BanAck, Sclose, Close,
     CloseReturns, Read, ReadReturns, vars

\* Every step keeps the type of what CloseConn left to send.
LEMMA BanStep ==
  ASSUME SetsOK, ConnectOK, BanOK, [NextAnyId]_vars PROVE BanOK'
<1>. DEFINE D == SUBSET Numbers
            B == [databuf : D, silent : 0 .. EpochLimit]
<1>0. ban \in [Clients -> B]
  BY DEF BanOK
<1>1. SUFFICES ban' \in [Clients -> B]
  BY DEF BanOK
<1>2. ASSUME NEW i \in Clients, NEW n \in 0 .. MaxWrites, BanAck(i, n)
      PROVE  ban' \in [Clients -> B]
  <2>1. ban' = [ban EXCEPT ![i] = [databuf |-> ban[i].databuf \ {n},
                                   silent |-> 0]]
    BY <1>2 DEF BanAck
  <2>2. ban[i].databuf \ {n} \in D /\ 0 \in 0 .. EpochLimit
    BY <1>0
  <2>. HIDE DEF D
  <2>. QED
    BY <1>0, <2>1, <2>2
<1>3. CASE Epoch
  <2>. DEFINE given == {i \in banclose : TooSilent(ban[i].silent + 1)}
  <2>1. ban' = [i \in Clients |->
          IF i \in given THEN [databuf |-> {}, silent |-> 0]
          ELSE IF i \in banclose THEN [ban[i] EXCEPT !.silent = @ + 1]
          ELSE ban[i]]
    BY <1>3 DEF Epoch
  <2>2. ASSUME NEW i \in Clients
        PROVE  (IF i \in given THEN [databuf |-> {}, silent |-> 0]
                ELSE IF i \in banclose THEN [ban[i] EXCEPT !.silent = @ + 1]
                ELSE ban[i]) \in B
    <3>1. CASE i \in given
      <4>1. {} \in D /\ 0 \in 0 .. EpochLimit
        OBVIOUS
      <4>. HIDE DEF D, given
      <4>. QED
        BY <3>1, <4>1
    <3>2. CASE i \in banclose \ given
      <4>1. ban[i] \in B /\ ban[i].silent + 1 \in 0 .. EpochLimit
        BY <1>0, <3>2 DEF TooSilent
      <4>. HIDE DEF D, given
      <4>. QED
        BY <3>2, <4>1
    <3>3. CASE i \notin banclose
      BY <1>0, <3>3
    <3>. QED
      BY <3>1, <3>2, <3>3
  <2>. HIDE DEF B, given
  <2>. QED
    BY <2>1, <2>2
<1>4. ASSUME NEW i \in Clients, CloseConn(i) PROVE ban' \in [Clients -> B]
  <2>1. \/ ban' = [ban EXCEPT ![i] =
                     [databuf |-> Waiting(connect[i]), silent |-> 0]]
        \/ ban' = ban
    BY <1>4 DEF CloseConn
  <2>2. Waiting(connect[i]) \in D /\ 0 \in 0 .. EpochLimit
    BY DEF ConnectOK, ConnectType, Waiting
  <2>. HIDE DEF D
  <2>. QED
    BY <1>0, <2>1, <2>2
<1>5. CASE UNCHANGED ban
  BY <1>0, <1>5
<1>. QED
  BY <1>2, <1>3, <1>4, <1>5, ZenonT(60) DEF NextAnyId, Step, Connect, Receive,
     AckToClose,
     Keepalive, ClientStops, Ack, Write, Sread, Sclose, Close, CloseReturns,
     Read, ReadReturns, vars, banVars

\* What an epoch does to a connection.
LEMMA EpochConnect ==
  ASSUME ConnectOK, Epoch, NEW i \in Clients
  PROVE  /\ Waiting(connect'[i]) = Waiting(connect[i])
         /\ connect'[i].readbuf = connect[i].readbuf
         /\ connect'[i].readct = connect[i].readct
         /\ connect[i].losted => connect'[i].losted
<1>. DEFINE l == connect[i].losted \/ i \in
              {j \in conn : TooSilent(connect[j].silent + 1)} \ pendconn
            m == IF TooSilent(connect[i].silent) THEN connect[i].silent
                                                 ELSE connect[i].silent + 1
<1>1. connect'[i] = IF i \notin conn THEN connect[i] ELSE
        [connect[i] EXCEPT !.silent = m, !.losted = l]
  BY DEF Epoch
<1>2. connect[i] \in ConnectType /\ (connect[i].losted => l)
  BY DEF ConnectOK
<1>. HIDE DEF l, m
<1>. QED
  BY <1>1, <1>2 DEF ConnectType, Waiting

\* A lost connection stays lost; only Write gives a connection more to wait
\* for; and only a new message and sread change what Read may be given of it.
LEMMA StepKept ==
  ASSUME SetsOK, ConnectOK,
         [Step \/ \E j \in Clients : CloseConn(j)]_vars,
         NEW i \in Clients
  PROVE  /\ connect[i].losted => connect'[i].losted
         /\ Waiting(connect'[i]) \subseteq Waiting(connect[i])
         /\ \/ /\ connect'[i].readbuf = connect[i].readbuf
               /\ connect'[i].readct = connect[i].readct
            \/ /\ connect'[i].readct = connect[i].readct
               /\ \E n \in 1 .. MaxData \ connect[i].ackbuf : Receive(i, n)
            \/ Sread /\ i \in conn /\ Ready(i)
<1>. DEFINE P == /\ connect[i].losted => connect'[i].losted
                 /\ Waiting(connect'[i]) \subseteq Waiting(connect[i])
                 /\ \/ /\ connect'[i].readbuf = connect[i].readbuf
                       /\ connect'[i].readct = connect[i].readct
                    \/ /\ connect'[i].readct = connect[i].readct
                       /\ \E n \in 1 .. MaxData \ connect[i].ackbuf :
                            Receive(i, n)
                    \/ Sread /\ i \in conn /\ Ready(i)
<1>. SUFFICES P
  OBVIOUS
<1>0. connect[i] \in ConnectType
  BY DEF ConnectOK
<1>1. CASE connect'[i] = connect[i]
  BY <1>1, Zenon
<1>2. CASE Epoch
  BY <1>2, EpochConnect, Zenon
<1>3. ASSUME NEW j \in Clients, NEW n \in 1 .. MaxData, Receive(j, n) PROVE P
  <2>1. CASE j # i
    <3>1. connect'[i] = connect[i]
      BY <1>3, <2>1 DEF Receive, ConnectOK
    <3>. QED
      BY <1>1, <3>1
  <2>2. CASE j = i
    <3>. DEFINE rb == IF n \notin connect[i].ackbuf
                        THEN connect[i].readbuf \cup {n}
                        ELSE connect[i].readbuf
    <3>1. connect' = [connect EXCEPT ![i] =
              [connect[i] EXCEPT !.silent = 0,
                 !.ack = AckFloor(connect[i].ack, n),
                 !.ackbuf = KeptAcks(connect[i].ack, connect[i].ackbuf, n),
                 !.readbuf = rb]]
      BY <1>3, <2>2 DEF Receive
    <3>2. n \in 1 .. MaxData \ connect[i].ackbuf \/ rb = connect[i].readbuf
      OBVIOUS
    <3>. HIDE DEF rb
    <3>3. /\ connect'[i].losted = connect[i].losted
          /\ connect'[i].databuf = connect[i].databuf
          /\ connect'[i].writebuf = connect[i].writebuf
          /\ connect'[i].readct = connect[i].readct
          /\ connect'[i].readbuf = rb
      BY <1>0, <3>1 DEF ConnectOK, ConnectType
    <3>. QED
      BY <1>3, <2>2, <3>2, <3>3, Zenon DEF Waiting
  <2>. QED
    BY <2>1, <2>2
<1>4. ASSUME NEW j \in Clients, NEW n \in 1 .. MaxWrites, Ack(j, n) PROVE P
  <2>1. CASE j # i
    <3>1. connect'[i] = connect[i]
      BY <1>4, <2>1 DEF Ack, ConnectOK
    <3>. QED
      BY <1>1, <3>1
  <2>2. CASE j = i
    <3>1. PICK s : connect' = [connect EXCEPT ![i] =
                   [connect[i] EXCEPT !.silent = 0, !.seq = s,
                     !.databuf = (connect[i].databuf \ {n}) \cup
                       Released(connect[i].seq, s, connect[i].writebuf),
                     !.writebuf = connect[i].writebuf \
                       Released(connect[i].seq, s, connect[i].writebuf)]]
      BY <1>4, <2>2 DEF Ack
    <3>2. /\ connect'[i].losted = connect[i].losted
          /\ connect'[i].readbuf = connect[i].readbuf
          /\ connect'[i].readct = connect[i].readct
          /\ connect'[i].databuf = (connect[i].databuf \ {n}) \cup
               Released(connect[i].seq, s, connect[i].writebuf)
          /\ connect'[i].writebuf = connect[i].writebuf \
               Released(connect[i].seq, s, connect[i].writebuf)
      BY <1>0, <3>1 DEF ConnectOK, ConnectType
    <3>3. Waiting(connect'[i]) \subseteq Waiting(connect[i])
      BY <3>2 DEF Waiting, Released
    <3>. QED
      BY <3>2, <3>3, Zenon
  <2>. QED
    BY <2>1, <2>2
<1>5. CASE Sread
  <2>1. ASSUME NEW j \in conn, Ready(j),
               connect' = [connect EXCEPT ![j].readct = @ + 1,
                             ![j].readbuf = @ \ {connect[j].readct}],
               Sread
        PROVE  P
    <3>1. CASE j # i
      <4>1. connect'[i] = connect[i]
        BY <2>1, <3>1 DEF ConnectOK
      <4>. QED
        BY <1>1, <4>1
    <3>2. CASE j = i
      <4>1. /\ connect'[i].losted = connect[i].losted
            /\ connect'[i].databuf = connect[i].databuf
            /\ connect'[i].writebuf = connect[i].writebuf
        BY <1>0, <2>1, <3>2 DEF ConnectOK, ConnectType
      <4>2. Sread /\ i \in conn /\ Ready(i)
        BY <2>1, <3>2
      <4>. QED
        BY <4>1, <4>2, Zenon DEF Waiting
    <3>. QED
      BY <3>1, <3>2
  <2>2. \/ connect' = connect
        \/ \E j \in conn :
             /\ Ready(j)
             /\ connect' = [connect EXCEPT ![j].readct = @ + 1,
                              ![j].readbuf = @ \ {connect[j].readct}]
    BY <1>5 DEF Sread
  <2>. HIDE DEF P
  <2>. QED
    BY <1>1, <1>5, <2>1, <2>2
<1>6. ASSUME NEW j \in Clients, Keepalive(j) PROVE P
  <2>1. /\ connect'[i].losted = connect[i].losted
        /\ connect'[i].databuf = connect[i].databuf
        /\ connect'[i].writebuf = connect[i].writebuf
        /\ connect'[i].readbuf = connect[i].readbuf
        /\ connect'[i].readct = connect[i].readct
    BY <1>0, <1>6 DEF Keepalive, ConnectOK, ConnectType
  <2>. QED
    BY <2>1, Zenon DEF Waiting
<1>7. CASE connect' = connect
  BY <1>1, <1>7
<1>. HIDE DEF P
<1>. QED
  BY <1>2, <1>3, <1>4, <1>5, <1>6, <1>7 DEF Step, Connect,
     CloseConn, AckToClose, ClientStops, BanAck, Sclose, Close, CloseReturns,
     Read, ReadReturns, vars

\* The same, for a step of the application, too.
LEMMA ConnectKept ==
  ASSUME SetsOK, ConnectOK, [NextAnyId]_vars, NEW i \in Clients
  PROVE  /\ connect[i].losted => connect'[i].losted
         /\ \/ Waiting(connect'[i]) \subseteq Waiting(connect[i])
            \/ Write(i)
         /\ \/ /\ connect'[i].readbuf = connect[i].readbuf
               /\ connect'[i].readct = connect[i].readct
            \/ /\ connect'[i].readct = connect[i].readct
               /\ \E n \in 1 .. MaxData \ connect[i].ackbuf : Receive(i, n)
            \/ Sread /\ i \in conn /\ Ready(i)
<1>1. CASE [Step \/ \E j \in Clients : CloseConn(j)]_vars
  BY <1>1, StepKept, Zenon
<1>2. ASSUME NEW j \in Clients, Write(j)
      PROVE  /\ connect'[i].losted = connect[i].losted
             /\ connect'[i].readbuf = connect[i].readbuf
             /\ connect'[i].readct = connect[i].readct
             /\ j # i => connect'[i] = connect[i]
  <2>1. connect[i] \in ConnectType
    BY DEF ConnectOK
  <2>2. CASE j # i
    BY <1>2, <2>2 DEF Write, ConnectOK
  <2>3. CASE j = i
    BY <1>2, <2>1, <2>3 DEF Write, ConnectOK, ConnectType
  <2>. QED
    BY <2>2, <2>3
<1>3. ASSUME NEW j \in Clients, Write(j)
      PROVE  Waiting(connect'[i]) \subseteq Waiting(connect[i]) \/ Write(i)
  BY <1>2, <1>3, Zenon
<1>. QED
  BY <1>1, <1>2, <1>3, Zenon DEF NextAnyId

\* A connection that is pending or not made was not used, after every step.
LEMMA FreshStep ==
  ASSUME SetsOK, CountsOK, ConnectOK, ConnectOK', SendInv, MapsInv, IdsInv,
         FreshInv, [NextAnyId]_vars
  PROVE  FreshInv'
<1>1. SUFFICES ASSUME NEW i \in Clients, i \in pendconn' \/ i >= connCt'
               PROVE  Fresh(connect'[i])
  BY DEF FreshInv
<1>2. i \in pendconn \/ i >= connCt
  <2>1. ASSUME NEW j \in Clients, Connect(j) PROVE i \in pendconn \/ i >= connCt
    BY <1>1, <2>1 DEF Connect, CountsOK
  <2>2. CASE pendconn' \subseteq pendconn /\ connCt' = connCt
    BY <1>1, <2>2
  <2>. QED
    BY <2>1, <2>2, MapsFrame DEF AckToClose, CloseConn, Epoch, StillPending,
       Sclose, Close, CloseReturns, mapVars
<1>3. Fresh(connect[i])
  BY <1>2 DEF FreshInv
<1>5. ~ (\E n \in 1 .. MaxData : Receive(i, n))
      /\ ~ (Sread /\ i \in conn /\ Ready(i))
  <2>1. i \in Nat /\ connCt' \in Nat
    BY SetsStep DEF CountsOK
  <2>2. ASSUME NEW n \in 1 .. MaxData, Receive(i, n) PROVE FALSE
    BY <1>1, <2>1, <2>2 DEF Receive, Arrives
  <2>3. ASSUME Sread, i \in conn, Ready(i) PROVE FALSE
    <3>1. i \notin pendconn' /\ connCt' = connCt /\ i < connCt
      BY <2>3 DEF Sread, Ready, MapsInv, mapVars
    <3>. QED
      BY <1>1, <2>1, <3>1
  <2>. QED
    BY <2>2, <2>3
<1>6. /\ connect'[i].readbuf = connect[i].readbuf
      /\ connect'[i].readct = connect[i].readct
  BY <1>5, ConnectKept
<1>. QED
  BY <1>3, <1>6 DEF Fresh

\* Nothing is written to a pending connection when the application uses the
\* IDs that Read gave it.
LEMMA PendStep ==
  ASSUME SetsOK, CountsOK, ConnectOK, MapsInv, IdsInv, PendInv, [Next]_vars
  PROVE  PendInv'
<1>0. Full = {}
  BY DEF Full, PendInv, Waiting, SetsOK
<1>1. [NextAnyId]_vars
  BY DEF Next, NextAnyId
<1>2. pendconn' \subseteq conn' /\ closepend' \cap pendconn' = {}
  <2>1. ASSUME NEW i \in Clients, Connect(i)
        PROVE  pendconn' \subseteq conn' /\ closepend' \cap pendconn' = {}
    <3>1. i \notin conn
      BY <2>1 DEF Connect, MapsInv, CountsOK
    <3>. QED
      BY <2>1, <3>1 DEF Connect, MapsInv, PendInv
  <2>2. ASSUME NEW i \in Clients, AckToClose(i) \/ CloseConn(i)
        PROVE  pendconn' \subseteq conn' /\ closepend' \cap pendconn' = {}
    BY <2>2 DEF AckToClose, CloseConn, PendInv
  <2>3. CASE Epoch
    BY <2>3, EpochMaps DEF PendInv
  <2>4. CASE Sclose
    BY <1>0, <2>4, ScloseMaps DEF PendInv
  <2>5. CASE Close \/ CloseReturns
    BY <2>5 DEF Close, CloseReturns, mapVars, PendInv
  <2>6. CASE UNCHANGED <<conn, closepend>> /\ pendconn' \subseteq pendconn
    BY <2>6 DEF PendInv
  <2>. QED
    BY <1>1, <2>1, <2>2, <2>3, <2>4, <2>5, <2>6, MapsFrame
<1>3. ASSUME NEW i \in Clients, i \in pendconn' \/ i >= connCt'
      PROVE  i \in pendconn \/ i >= connCt
  <2>1. ASSUME NEW j \in Clients, Connect(j) PROVE i \in pendconn \/ i >= connCt
    BY <1>3, <2>1 DEF Connect, CountsOK
  <2>2. CASE pendconn' \subseteq pendconn /\ connCt' = connCt
    BY <1>3, <2>2
  <2>. QED
    BY <1>1, <2>1, <2>2, MapsFrame DEF AckToClose, CloseConn, Epoch,
       StillPending, Sclose, Close, CloseReturns, mapVars
<1>4. ASSUME NEW i \in Clients, i \in pendconn' \/ i >= connCt'
      PROVE  Waiting(connect'[i]) = {}
  <2>1. Waiting(connect[i]) = {}
    BY <1>3, <1>4 DEF PendInv
  <2>2. CASE [Step \/ \E j \in Clients : CloseConn(j)]_vars
    BY <2>1, <2>2, StepKept
  <2>3. ASSUME NEW j \in Clients, j \in Known, Write(j)
        PROVE  connect'[i] = connect[i]
    <3>1. j \notin pendconn /\ j < connCt
      BY <2>3 DEF Known, IdsInv
    <3>2. i # j
      BY <1>3, <1>4, <3>1 DEF CountsOK
    <3>. QED
      BY <2>3, <3>2 DEF Write, ConnectOK
  <2>. QED
    BY <2>1, <2>2, <2>3, Zenon DEF Next
<1>. QED
  BY <1>2, <1>4 DEF PendInv

\* What Close has nothing left to see acknowledged of stays so.
LEMMA DoneStep ==
  ASSUME SetsOK, CountsOK, ConnectOK, MapsInv, OpenInv, PendInv, DoneInv,
         FlagsOK, [NextAnyId]_vars
  PROVE  DoneInv'
<1>. DEFINE E(i) == \/ connect'[i].losted \/ Waiting(connect'[i]) = {}
                    \/ i \in dismissed'
<1>0. SUFFICES /\ \A i \in Clients \ conn' : E(i)
               /\ \A i \in closeack' : E(i)
               /\ over' > 0 \/ closing' = "done" => \A i \in Clients : E(i)
  BY Zenon DEF DoneInv, Done
<1>13. dismissed \subseteq dismissed'
  BY DEF NextAnyId, Step, Connect, Receive, AckToClose, Keepalive, ClientStops,
     Ack, BanAck, Write, CloseConn, Epoch, Sread, Sclose, Close, CloseReturns,
     Read, ReadReturns, vars, banVars
<1>1. ASSUME NEW i \in Clients, Done(i), ~ Write(i) PROVE E(i)
  BY <1>1, <1>13, ConnectKept DEF Done
<1>2. ASSUME NEW i \in Clients, i \in pendconn PROVE Done(i)
  BY <1>2 DEF PendInv, Done
<1>3. ASSUME NEW i \in Clients, Write(i)
      PROVE  /\ closeack' = {} /\ over' = 0 /\ closing' = "no"
             /\ conn' = conn /\ i \in conn
             /\ \A j \in Clients : j # i => E(j) \/ ~ Done(j)
  <2>1. /\ closing = "no" /\ i \in conn
        /\ UNCHANGED <<closeack, over, closing, conn>>
    BY <1>3 DEF Write, mapVars, appVars
  <2>2. \A j \in Clients : j # i => connect'[j] = connect[j]
    BY <1>3 DEF Write, ConnectOK
  <2>. QED
    BY <1>13, <2>1, <2>2 DEF OpenInv, Done
<1>4. CASE \E i \in Clients : Write(i)
  <2>1. PICK i \in Clients : Write(i)
    BY <1>4
  <2>2. /\ closeack' = {} /\ over' = 0 /\ closing' = "no"
        /\ \A j \in Clients \ conn' : E(j)
    BY <1>3, <2>1 DEF DoneInv
  <2>. HIDE DEF E
  <2>. QED
    BY <2>2
<1>. SUFFICES ASSUME \A i \in Clients : ~ Write(i)
              PROVE  /\ \A i \in Clients \ conn' : E(i)
                     /\ \A i \in closeack' : E(i)
                     /\ over' > 0 \/ closing' = "done"
                          => \A i \in Clients : E(i)
  BY <1>4
<1>5. ASSUME NEW i \in Clients, Done(i) PROVE E(i)
  BY <1>1, <1>5
<1>. HIDE DEF E
<1>6. CASE /\ conn \subseteq conn' /\ closeack' \subseteq closeack
           /\ over' = over /\ closing' = closing
  BY <1>5, <1>6 DEF DoneInv, SetsOK
<1>7. CASE Epoch
  <2>1. over' = over /\ closing' = closing
    BY <1>7 DEF Epoch, appVars
  <2>2. PICK lost \in SUBSET conn :
          /\ conn' = conn \ Forgotten(lost)
          /\ closeack' = (closeack \cup Reported(lost)) \ Forgotten(lost)
          /\ connect' = [i \in Clients |->
                IF i \notin conn THEN connect[i] ELSE
                [connect[i] EXCEPT
                   !.silent = IF TooSilent(@) THEN @ ELSE @ + 1,
                   !.losted = @ \/ i \in lost \ pendconn]]
    BY <1>7, EpochMaps
  <2>3. ASSUME NEW i \in lost PROVE E(i)
    <3>1. i \in Clients /\ i \in conn
      BY <2>3 DEF SetsOK
    <3>2. CASE i \in pendconn
      BY <1>2, <1>5, <3>1, <3>2
    <3>3. CASE i \notin pendconn
      <4>. DEFINE m == IF TooSilent(connect[i].silent) THEN connect[i].silent
                       ELSE connect[i].silent + 1
                  l == connect[i].losted \/ i \in lost \ pendconn
      <4>1. connect'[i] = [connect[i] EXCEPT !.silent = m, !.losted = l]
        BY <2>2, <3>1
      <4>2. l = TRUE
        BY <2>3, <3>3 DEF ConnectOK, ConnectType
      <4>. HIDE DEF l, m
      <4>3. connect'[i].losted
        BY <3>1, <4>1, <4>2 DEF ConnectOK, ConnectType
      <4>. QED
        BY <4>3 DEF E
    <3>. QED
      BY <3>2, <3>3
  <2>4. Forgotten(lost) \subseteq lost /\ Reported(lost) \subseteq lost
    BY LostSplit
  <2>. QED
    BY <1>5, <2>1, <2>2, <2>3, <2>4 DEF DoneInv, SetsOK
<1>8. CASE Sclose
  <2>. DEFINE estab  == conn \ pendconn
              lost   == {i \in estab : connect[i].losted}
              waited == (closepend \cup estab \cup Full) \ lost
              still  == waited \ closeack
  <2>1. PICK done \in SUBSET (waited \cap closeack) :
          /\ still = {} => done = waited
          /\ conn' = conn \ (lost \cup done)
          /\ closeack' = closeack \ (lost \cup done)
          /\ over' = over + (IF still = {} THEN 1 ELSE 0)
    BY <1>8, ScloseMaps
  <2>8. Full = {}
    BY DEF Full, PendInv, Waiting, SetsOK
  <2>2. closing' = closing
    BY <1>8 DEF Sclose, appVars
  <2>3. \A i \in lost : Done(i)
    BY DEF Done
  <2>4. \A i \in done : Done(i)
    BY <2>1 DEF DoneInv
  <2>5. \A i \in Clients \ conn' : E(i)
    BY <1>5, <2>1, <2>3, <2>4 DEF DoneInv
  <2>6. \A i \in closeack' : E(i)
    BY <1>5, <2>1 DEF DoneInv, SetsOK
  <2>7. ASSUME over' > 0 \/ closing' = "done", NEW i \in Clients PROVE E(i)
    <3>1. CASE over > 0 \/ closing = "done"
      BY <1>5, <3>1 DEF DoneInv
    <3>2. CASE ~ (over > 0 \/ closing = "done")
      <4>1. still = {}
        BY <2>1, <2>2, <2>7, <3>2 DEF CountsOK
      <4>2. CASE i \in pendconn
        BY <1>2, <1>5, <4>2
      <4>3. CASE i \notin conn
        BY <1>5, <4>3 DEF DoneInv
      <4>4. CASE i \in conn \ pendconn
        <5>1. i \in lost \/ i \in done
          BY <2>1, <4>1, <4>4
        <5>. QED
          BY <1>5, <2>3, <2>4, <5>1
      <4>. QED
        BY <4>2, <4>3, <4>4
    <3>. QED
      BY <3>1, <3>2
  <2>. QED
    BY <2>5, <2>6, <2>7
<1>9. ASSUME NEW i \in Clients, CloseConn(i)
      PROVE  /\ \A j \in Clients \ conn' : E(j)
             /\ \A j \in closeack' : E(j)
             /\ over' > 0 \/ closing' = "done" => \A j \in Clients : E(j)
  <2>1. /\ conn' = conn \ {i} /\ closeack' \subseteq closeack
        /\ over' = over /\ closing' = closing
    BY <1>9 DEF CloseConn, appVars
  <2>3. E(i)
    BY <1>9 DEF E, CloseConn
  <2>. QED
    BY <1>5, <2>1, <2>3 DEF DoneInv, SetsOK
<1>10. ASSUME NEW i \in Clients, AckToClose(i)
       PROVE  /\ \A j \in Clients \ conn' : E(j)
              /\ \A j \in closeack' : E(j)
              /\ over' > 0 \/ closing' = "done" => \A j \in Clients : E(j)
  <2>1. /\ conn' = conn /\ closeack' = closeack \cup {i}
        /\ over' = over /\ closing' = closing
        /\ Waiting(connect[i]) = {}
    BY <1>10 DEF AckToClose, appVars
  <2>2. E(i)
    BY <1>5, <2>1 DEF Done
  <2>. QED
    BY <1>5, <2>1, <2>2 DEF DoneInv, SetsOK
<1>11. CASE CloseReturns
  <2>1. over > 0 /\ conn' = conn /\ closeack' = closeack
    BY <1>11 DEF CloseReturns, mapVars
  <2>. QED
    BY <1>5, <2>1 DEF DoneInv, SetsOK
<1>12. CASE Close
  <2>1. /\ conn' = conn /\ closeack' = closeack /\ over' = over
        /\ closing' = "called"
    BY <1>12 DEF Close, mapVars
  <2>. QED
    BY <1>5, <2>1 DEF DoneInv, SetsOK
<1>. QED
  BY <1>6, <1>7, <1>8, <1>9, <1>10, <1>11, <1>12, MapsFrame
     DEF Connect, appVars

\* sread finds nothing, or hands the next message of a connection to Read.
LEMMA SreadIs ==
  ASSUME SetsOK, ConnectOK, AnswersOK, Sread
  PROVE  \/ NothingReady /\ connect' = connect /\ reply' = reply
         \/ \E i \in conn :
              /\ Ready(i) /\ connect[i].readct \in Received
              /\ connect' = [connect EXCEPT ![i].readct = @ + 1,
                               ![i].readbuf = @ \ {connect[i].readct}]
              /\ reply' = Append(reply, <<i, connect[i].readct>>)
              /\ Len(reply) \in Nat /\ Len(reply') = Len(reply) + 1
              /\ \A k \in 1 .. Len(reply) : reply'[k] = reply[k]
              /\ reply'[Len(reply) + 1] = <<i, connect[i].readct>>
              /\ reply' # <<>>
<1>1. ASSUME NEW i \in conn, Ready(i),
             reply' = Append(reply, <<i, connect[i].readct>>)
      PROVE  /\ connect[i].readct \in Received
             /\ Len(reply) \in Nat /\ Len(reply') = Len(reply) + 1
             /\ \A k \in 1 .. Len(reply) : reply'[k] = reply[k]
             /\ reply'[Len(reply) + 1] = <<i, connect[i].readct>>
             /\ reply' # <<>>
  <2>1. i \in Clients /\ connect[i].readct \in Received
    BY <1>1 DEF SetsOK, ConnectOK, ConnectType, Ready
  <2>2. <<i, connect[i].readct>> \in Clients \X (0 .. MaxData)
    BY <2>1 DEF Received
  <2>3. /\ reply \in Seq(Clients \X (0 .. MaxData))
    BY DEF AnswersOK
  <2>4. /\ Len(reply) \in Nat /\ Len(reply') = Len(reply) + 1
        /\ \A k \in 1 .. Len(reply) : reply'[k] = reply[k]
        /\ reply'[Len(reply) + 1] = <<i, connect[i].readct>>
    BY <1>1, <2>2, <2>3, AppendIs
  <2>5. reply' # <<>>
    <3>1. Len(<<>>) = 0
      OBVIOUS
    <3>. QED
      BY <2>4, <3>1
  <2>. QED
    BY <2>1, <2>4, <2>5
<1>2. \/ NothingReady /\ connect' = connect /\ reply' = reply
      \/ \E i \in conn :
              /\ Ready(i)
              /\ connect' = [connect EXCEPT ![i].readct = @ + 1,
                               ![i].readbuf = @ \ {connect[i].readct}]
              /\ reply' = Append(reply, <<i, connect[i].readct>>)
  BY DEF Sread
<1>. QED
  BY <1>1, <1>2, Zenon

\* A connection can have its next message after a step only if it had it
\* before, or if an sread packet was posted with it.
LEMMA WakeStep ==
  ASSUME SetsOK, SetsOK', CountsOK, CountsOK', ConnectOK, SendInv, MapsInv,
         IdsInv, AnswersOK, FreshInv, NoLostWakeup, [NextAnyId]_vars
  PROVE  NoLostWakeup'
<1>. DEFINE R(i) == i \notin pendconn' /\ connect'[i].readct \in
                                            connect'[i].readbuf
            waits == reading /\ reply = <<>>
            waiting == reading' /\ reply' = <<>>
<1>0. SUFFICES ASSUME waiting, NEW i \in conn', R(i)
               PROVE  sreads' > 0
  BY Zenon DEF NoLostWakeup, Ready
<1>1. ASSUME waits, i \in conn, Ready(i) PROVE sreads > 0
  BY <1>1, Zenon DEF NoLostWakeup
<1>2. waits \/ Read
  <2>1. UNCHANGED <<reading, reply>> \/ ReadReturns \/ Read \/ Epoch \/ Sread
    BY AnswersFrame DEF appVars
  <2>2. Epoch => reading' = reading /\ (reply = <<>> \/ reply' # <<>>)
    <3>1. ASSUME Epoch PROVE reading' = reading
      BY <3>1 DEF Epoch, appVars
    <3>2. ASSUME Epoch PROVE reply = <<>> \/ reply' # <<>>
      <4>1. PICK lost \in SUBSET conn : \E w \in Walks(lost \ pendconn) :
              reply' = reply \o [k \in DOMAIN w |-> <<w[k], 0>>]
        BY <3>2, EpochMaps
      <4>2. PICK gone \in SUBSET conn : \E w \in Walks(gone) :
              reply' = reply \o [k \in DOMAIN w |-> <<w[k], 0>>]
        BY <4>1
      <4>3. Cardinality(gone) \in Nat
            /\ Len(reply') = Len(reply) + Cardinality(gone)
        BY <4>2, LossesAppended
      <4>. QED
        BY <4>3 DEF AnswersOK
    <3>. QED
      BY <3>1, <3>2
  <2>3. Sread => reading' = reading /\ (reply = <<>> \/ reply' # <<>>)
    <3>1. ASSUME Sread PROVE reply = <<>> \/ reply' # <<>>
      BY <3>1, SreadIs
    <3>. QED
      BY <3>1 DEF Sread, appVars
  <2>4. ~ ReadReturns
    BY <1>0 DEF ReadReturns
  <2>. QED
    BY <1>0, <2>1, <2>2, <2>3, <2>4, Zenon
<1>. HIDE DEF waits, waiting
<1>3. CASE sreads' > sreads
  BY <1>3 DEF CountsOK
<1>8. waiting => reply' = <<>>
  BY DEF waiting
<1>4. CASE Sread
  <2>1. UNCHANGED <<conn, pendconn>> /\ NothingReady /\ UNCHANGED connect
    BY <1>0, <1>4, <1>8, SreadIs DEF Sread, mapVars
  <2>. QED
    BY <1>0, <2>1 DEF NothingReady, Ready
<1>5. CASE Read
  <2>1. ~ waits
    BY <1>5 DEF Read, waits
  <2>2. UNCHANGED <<reading, reply>> \/ sreads' = sreads + 1
    BY <1>5 DEF Read
  <2>3. UNCHANGED <<reading, reply>> => (waiting <=> waits)
    <3>. SUFFICES ASSUME reading' = reading, reply' = reply
                  PROVE  waiting <=> waits
      OBVIOUS
    <3>. QED
      BY Zenon DEF waiting, waits
  <2>. QED
    BY <1>0, <2>1, <2>2, <2>3 DEF CountsOK
<1>6. CASE sreads' = sreads /\ ~ Sread /\ ~ Read
  <2>1. i \in Clients
    BY DEF SetsOK
  <2>2. ~ \E n \in 1 .. MaxData \ connect[i].ackbuf : Receive(i, n)
    <3>1. ASSUME NEW n \in 1 .. MaxData \ connect[i].ackbuf, Receive(i, n)
          PROVE  sreads' = sreads + 1
      BY <3>1 DEF Receive
    <3>. QED
      BY <1>6, <3>1 DEF CountsOK
  <2>3. /\ connect'[i].readct = connect[i].readct
        /\ connect'[i].readbuf = connect[i].readbuf
    BY <1>6, <2>1, <2>2, ConnectKept
  <2>4. i \notin pendconn
    BY <1>0, <2>1, <2>3 DEF FreshInv, Fresh
  <2>5. i \in conn
    <3>1. conn' \subseteq conn \/ conn' \subseteq conn \cup pendconn'
      BY MapsFrame DEF Connect, AckToClose, CloseConn, Epoch, Sclose, Close,
         CloseReturns, mapVars
    <3>. QED
      BY <1>0, <3>1
  <2>6. Ready(i)
    BY <1>0, <2>3, <2>4 DEF Ready
  <2>. QED
    BY <1>1, <1>2, <1>6, <2>5, <2>6
<1>7. sreads' > sreads \/ sreads' = sreads \/ Sread
  <2>1. ASSUME NEW j \in Clients, NEW n \in 1 .. MaxData, Receive(j, n)
        PROVE  sreads' = sreads + 1 \/ sreads' = sreads
    BY <2>1 DEF Receive, CountsOK
  <2>2. \/ sreads' = sreads + 1 \/ sreads' = sreads \/ Sread
    BY <2>1 DEF NextAnyId, Step, Connect, AckToClose, Keepalive, ClientStops,
       Write, CloseConn, Ack, BanAck, Epoch, Sclose, Close, CloseReturns, Read,
       ReadReturns, vars, reqVars
  <2>. QED
    BY <2>2 DEF CountsOK
<1>. QED
  BY <1>3, <1>4, <1>5, <1>6, <1>7

\* While Close waits, an sclose packet is posted or will be.
LEMMA ForgetStep ==
  ASSUME SetsOK, CountsOK, MapsInv, CloseNotForgotten, [NextAnyId]_vars
  PROVE  CloseNotForgotten'
<1>1. CASE Epoch
  <2>1. UNCHANGED <<closing, over>>
    BY <1>1 DEF Epoch, appVars
  <2>2. PICK lost \in SUBSET conn :
          /\ closepend' = closepend \ Forgotten(lost)
          /\ closeack' = (closeack \cup Reported(lost)) \ Forgotten(lost)
          /\ scloses' = scloses + Cardinality(Reported(lost))
    BY <1>1, EpochMaps
  <2>3. /\ Reported(lost) \in SUBSET conn
        /\ Cardinality(Reported(lost)) \in Nat
        /\ Cardinality(Reported(lost)) = 0 => Reported(lost) = {}
    BY ConnFinite, LostSplit
  <2>4. CASE scloses' = 0
    <3>1. scloses = 0 /\ Reported(lost) = {}
      BY <2>2, <2>3, <2>4 DEF CountsOK
    <3>2. closepend' = closepend /\ closeack' \subseteq closeack
      BY <2>2, <3>1, LostSplit
    <3>. QED
      BY <2>1, <3>1, <3>2 DEF CloseNotForgotten
  <2>. QED
    BY <2>4 DEF CloseNotForgotten
<1>2. CASE Sclose
  <2>. DEFINE estab  == conn \ pendconn
              lost   == {i \in estab : connect[i].losted}
              waited == (closepend \cup estab \cup Full) \ lost
              still  == waited \ closeack
  <2>1. PICK done \in SUBSET (waited \cap closeack) :
          /\ closepend' = waited \ done
          /\ closeack' = closeack \ (lost \cup done)
          /\ over' = over + (IF still = {} THEN 1 ELSE 0)
    BY <1>2, ScloseMaps
  <2>2. CASE still = {}
    BY <2>1, <2>2 DEF CloseNotForgotten, CountsOK
  <2>3. CASE still # {}
    <3>1. still \subseteq closepend' \ closeack'
      BY <2>1
    <3>. QED
      BY <2>3, <3>1 DEF CloseNotForgotten
  <2>. QED
    BY <2>2, <2>3
<1>3. ASSUME NEW i \in Clients, CloseConn(i) PROVE CloseNotForgotten'
  BY <1>3 DEF CloseConn, appVars, CloseNotForgotten
<1>4. ASSUME NEW i \in Clients, AckToClose(i) PROVE CloseNotForgotten'
  BY <1>4 DEF AckToClose, CloseNotForgotten, CountsOK
<1>5. CASE Close
  BY <1>5 DEF Close, CloseNotForgotten, CountsOK
<1>6. CASE CloseReturns
  BY <1>6 DEF CloseReturns, CloseNotForgotten
<1>7. CASE UNCHANGED <<closing, scloses, over, closepend, closeack>>
  BY <1>7 DEF CloseNotForgotten
<1>. QED
  BY <1>1, <1>2, <1>3, <1>4, <1>5, <1>6, <1>7, MapsFrame
     DEF Connect, reqVars, appVars
-----------------------------------------------------------------------------
\* Answers that agree with those in order up to l, and go on with losses or
\* with the next message of some client, are in order.
LEMMA OrderGoesOn ==
  ASSUME NEW a, NEW b, NEW l \in Nat, NEW m \in Nat, InOrder(a, l),
         \A k \in 1 .. m : k <= l => b[k] = a[k],
         \A k \in 1 .. m : k > l =>
           \/ b[k][2] = 0
           \/ k = l + 1 /\ Before(a, l, b[k][1], b[k][2])
  PROVE  InOrder(b, m)
<1>1. SUFFICES ASSUME NEW k \in 1 .. m, b[k][2] # 0
               PROVE  Before(b, k - 1, b[k][1], b[k][2])
  BY DEF InOrder
<1>2. CASE k <= l
  <2>1. k \in 1 .. l /\ b[k] = a[k]
    BY <1>2
  <2>2. Before(a, k - 1, b[k][1], b[k][2])
    BY <1>1, <2>1 DEF InOrder
  <2>3. \A j \in 1 .. k - 1 : b[j] = a[j]
    BY <1>2
  <2>. QED
    BY <2>2, <2>3 DEF Before
<1>3. CASE k > l
  <2>1. k = l + 1 /\ Before(a, l, b[k][1], b[k][2])
    BY <1>1, <1>3
  <2>2. k - 1 = l /\ \A j \in 1 .. l : b[j] = a[j]
    BY <2>1
  <2>3. Before(b, l, b[k][1], b[k][2])
    BY <2>1, <2>2 DEF Before
  <2>. QED
    BY <2>2, <2>3
<1>. QED
  BY <1>2, <1>3

\* The answers and their number.
LEMMA AnswersAre ==
  ASSUME AnswersOK
  PROVE  /\ Len(results) \in Nat /\ Len(reply) \in Nat /\ Last \in Nat
         /\ Len(results) <= Last /\ Last <= Len(results) + Len(reply)
         /\ DOMAIN results = 1 .. Len(results)
         /\ DOMAIN reply = 1 .. Len(reply)
         /\ \A k \in 1 .. Last :
              Answers[k] = IF k <= Len(results) THEN results[k]
                                                ELSE reply[k - Len(results)]
<1>1. /\ Len(results) \in Nat /\ Len(reply) \in Nat
      /\ DOMAIN results = 1 .. Len(results)
      /\ DOMAIN reply = 1 .. Len(reply)
      /\ reply # <<>> => Len(reply) > 0
  BY EmptySeq DEF AnswersOK
<1>2. Last = Len(results) + Len(reply) \/ Last = Len(results)
      \/ (reply # <<>> /\ Last = Len(results) + 1)
  BY Zenon DEF Last
<1>. QED
  BY <1>1, <1>2 DEF Answers

\* Every answer is about an ID that was given out.
LEMMA AnswersKnown ==
  ASSUME AnswersOK, IdsInv, NEW k \in 1 .. Last
  PROVE  Answers[k][1] < connCt
<1>1. CASE k <= Len(results)
  <2>1. k \in DOMAIN results /\ Answers[k] = results[k]
    BY <1>1, AnswersAre
  <2>. QED
    BY <2>1 DEF IdsInv
<1>2. CASE k > Len(results)
  <2>1. k - Len(results) \in DOMAIN reply
        /\ Answers[k] = reply[k - Len(results)]
    BY <1>2, AnswersAre
  <2>. QED
    BY <2>1 DEF IdsInv
<1>. QED
  BY <1>1, <1>2, AnswersAre

\* The order survives every step that leaves what Read is given alone.
LEMMA OrderKept ==
  ASSUME SetsOK, SetsOK', CountsOK, ConnectOK, SendInv, MapsInv, IdsInv,
         AnswersOK, FreshInv, OrderInv, [NextAnyId]_vars, ~ Sread,
         Last' \in Nat, Last' <= Last,
         \A k \in 1 .. Last' : Answers'[k] = Answers[k],
         closing' = "no" \/ (reading' /\ reply' = <<>>) =>
           Last' = Last /\ (closing = "no" \/ (reading /\ reply = <<>>)),
         \A i \in conn' : i \in conn \/ i >= connCt
  PROVE  OrderInv'
<1>0. Last \in Nat
  BY AnswersAre
<1>1. InOrder(Answers', Last')
  <2>. DEFINE a == Answers
              b == Answers'
              l == Last
              m == Last'
  <2>1. /\ InOrder(a, l) /\ l \in Nat /\ m \in Nat
        /\ \A k \in 1 .. m : k <= l => b[k] = a[k]
        /\ \A k \in 1 .. m : ~ (k > l)
    BY <1>0 DEF OrderInv
  <2>. HIDE DEF a, b, l, m
  <2>2. InOrder(b, m)
    BY <2>1, OrderGoesOn
  <2>. QED
    BY <2>2 DEF b, m
<1>2. ASSUME Last' = Last, closing = "no" \/ (reading /\ reply = <<>>),
             NEW i \in conn'
      PROVE  Before(Answers', Last', i, connect'[i].readct)
  <2>1. i \in Clients
    BY DEF SetsOK
  <2>2. connect'[i].readct = connect[i].readct
    BY <2>1, ConnectKept
  <2>3. Before(Answers, Last, i, connect[i].readct)
    <3>1. CASE i \in conn
      BY <1>2, <3>1 DEF OrderInv
    <3>2. CASE i >= connCt
      <4>1. connect[i].readct = 1
        BY <2>1, <3>2 DEF FreshInv, Fresh
      <4>2. ASSUME NEW k \in 1 .. Last PROVE Answers[k][1] # i
        <5>1. Answers[k][1] < connCt
          BY AnswersKnown
        <5>. QED
          BY <2>1, <3>2, <5>1 DEF CountsOK
      <4>. QED
        BY <4>1, <4>2 DEF Before
    <3>. QED
      BY <3>1, <3>2
  <2>4. \A k \in 1 .. Last : Answers'[k] = Answers[k]
    BY <1>2
  <2>. QED
    BY <1>2, <2>2, <2>3, <2>4 DEF Before
<1>. DEFINE A == closing' = "no" \/ (reading' /\ reply' = <<>>)
<1>3. ASSUME A, NEW i \in conn'
      PROVE  Before(Answers', Last', i, connect'[i].readct)
  BY <1>2, <1>3, Zenon
<1>. QED
  BY <1>1, <1>3, Zenon DEF OrderInv

\* When n answers are put into reply, those that are sure to be returned grow
\* by all of them, or by the first that a Read under way takes, or not.
LEMMA ReplyGrows ==
  ASSUME AnswersOK, AnswersOK', UNCHANGED <<results, closing, reading>>,
         NEW n \in Nat, Len(reply') = Len(reply) + n,
         \A k \in 1 .. Len(reply) : reply'[k] = reply[k]
  PROVE  /\ Last \in Nat /\ Last' \in Nat /\ Last <= Last'
         /\ \A k \in 1 .. Last : Answers'[k] = Answers[k]
         /\ \A k \in 1 .. Last' : k > Last =>
              /\ closing = "no" \/ (reading /\ reply = <<>>)
              /\ closing # "no" => k = Last + 1
              /\ k - Last \in 1 .. n
              /\ Answers'[k] = reply'[Len(reply) + (k - Last)]
         /\ closing = "no" => Last' = Last + n
         /\ reply' = <<>> => n = 0 /\ reply = <<>> /\ Last' = Last
<1>. DEFINE L == Len(results)
            R == Len(reply)
            rd == reading /\ reply # <<>>
            rd1 == reading /\ reply' # <<>>
<1>1. /\ L \in Nat /\ R \in Nat /\ R + n = Len(reply')
      /\ (reply = <<>> <=> R = 0) /\ (reply' = <<>> <=> R + n = 0)
      /\ Last \in Nat /\ Last' \in Nat
      /\ \A k \in 1 .. Last :
           Answers[k] = IF k <= L THEN results[k] ELSE reply[k - L]
  <2>1. /\ reply \in Seq(Clients \X (0 .. MaxData))
        /\ reply' \in Seq(Clients \X (0 .. MaxData))
    BY DEF AnswersOK
  <2>2. /\ (reply = <<>> <=> R = 0) /\ (reply' = <<>> <=> Len(reply') = 0)
    BY <2>1, EmptySeq
  <2>3. R \in Nat /\ Len(reply') \in Nat
    BY <2>1
  <2>4. /\ L \in Nat /\ Last \in Nat
        /\ \A k \in 1 .. Last :
             Answers[k] = IF k <= L THEN results[k] ELSE reply[k - L]
    BY AnswersAre
  <2>5. Last' \in Nat
    <3>1. Last' = Len(results) + Len(reply') \/ Last' = Len(results)
          \/ Last' = Len(results) + 1
      BY DEF Last
    <3>. QED
      BY <2>3, <2>4, <3>1
  <2>. QED
    BY <2>2, <2>3, <2>4, <2>5
<1>2. /\ closing = "no" => Last = L + R /\ Last' = L + R + n
      /\ closing # "no" => /\ rd => Last = L + 1
                           /\ ~ rd => Last = L
                           /\ rd1 => Last' = L + 1
                           /\ ~ rd1 => Last' = L
  BY DEF Last
<1>3. /\ rd <=> reading /\ R # 0
      /\ rd1 <=> reading /\ R + n # 0
  BY <1>1, Zenon
<1>4. \A k \in 1 .. Last' :
        Answers'[k] = IF k <= L THEN results[k] ELSE reply'[k - L]
  BY DEF Answers
<1>. HIDE DEF L, R, rd, rd1
<1>5. rd => rd1
  <2>1. R # 0 => R + n # 0
    BY <1>1
  <2>. QED
    BY <1>3, <2>1, Zenon
<1>6. /\ closing # "no" /\ ~ rd /\ rd1 => reading /\ reply = <<>> /\ R = 0
                                          /\ n > 0
      /\ rd => R > 0
  <2>1. rd1 => reading
    BY <1>3, Zenon
  <2>2. ~ rd /\ reading => R = 0
    BY <1>3, Zenon
  <2>3. R = 0 /\ R + n # 0 => n > 0
    BY <1>1
  <2>4. rd1 => R + n # 0
    BY <1>3, Zenon
  <2>5. rd => R # 0
    BY <1>3, Zenon
  <2>6. R # 0 => R > 0
    BY <1>1
  <2>7. ASSUME closing # "no", ~ rd, rd1
        PROVE  reading /\ reply = <<>> /\ R = 0 /\ n > 0
    <3>1. R = 0
      BY <2>1, <2>2, <2>7, Zenon
    <3>2. n > 0
      BY <2>3, <2>4, <2>7, <3>1, Zenon
    <3>. QED
      BY <1>1, <2>1, <2>7, <3>1, <3>2, Zenon
  <2>. QED
    BY <2>5, <2>6, <2>7, Zenon
<1>7. Last <= Last' /\ Last <= L + R
  BY <1>1, <1>2, <1>5, <1>6
<1>8. \A k \in 1 .. Last : Answers'[k] = Answers[k]
  <2>1. ASSUME NEW k \in 1 .. Last PROVE Answers'[k] = Answers[k]
    <3>1. k \in 1 .. Last'
      BY <1>1, <1>7
    <3>2. CASE k <= L
      BY <1>1, <1>4, <3>1, <3>2
    <3>3. CASE k > L
      <4>1. k - L \in 1 .. R
        BY <1>1, <1>7, <3>3
      <4>2. reply'[k - L] = reply[k - L]
        BY <4>1 DEF R
      <4>. QED
        BY <1>1, <1>4, <3>1, <3>3, <4>2
    <3>. QED
      BY <1>1, <3>2, <3>3
  <2>. QED
    BY <2>1
<1>9. ASSUME NEW k \in 1 .. Last', k > Last
      PROVE  /\ closing = "no" \/ (reading /\ reply = <<>>)
             /\ closing # "no" => k = Last + 1
             /\ k - Last \in 1 .. n
             /\ Answers'[k] = reply'[R + (k - Last)]
  <2>1. CASE closing = "no"
    <3>1. k - Last \in 1 .. n /\ k - L = R + (k - Last) /\ ~ (k <= L)
      BY <1>1, <1>2, <1>9, <2>1
    <3>. QED
      BY <1>4, <1>9, <2>1, <3>1
  <2>2. CASE closing # "no"
    <3>1. ~ rd /\ rd1
      BY <1>1, <1>2, <1>5, <1>9, <2>2
    <3>2. reading /\ reply = <<>> /\ R = 0 /\ n > 0
      BY <1>6, <2>2, <3>1, Zenon
    <3>3. Last = L /\ Last' = L + 1
      BY <1>2, <2>2, <3>1
    <3>4. /\ k = Last + 1 /\ k - Last \in 1 .. n
          /\ ~ (k <= L) /\ k - L = R + (k - Last)
      BY <1>1, <1>9, <3>2, <3>3
    <3>5. Answers'[k] = reply'[R + (k - Last)]
      BY <1>4, <1>9, <3>4
    <3>. QED
      BY <3>2, <3>4, <3>5, Zenon
  <2>. QED
    BY <2>1, <2>2
<1>10. ASSUME reply' = <<>> PROVE n = 0 /\ reply = <<>> /\ Last' = Last
  <2>1. R = 0 /\ n = 0 /\ reply = <<>>
    BY <1>1, <1>10
  <2>2. Last' = Last
    <3>1. CASE Last' > Last
      <4>1. Last' \in 1 .. Last'
        BY <1>1, <3>1
      <4>2. \E k \in 1 .. Last' : k > Last
        BY <3>1, <4>1
      <4>3. \E k : k \in 1 .. n
        BY <1>9, <4>2
      <4>. QED
        BY <2>1, <4>3
    <3>. QED
      BY <1>1, <1>7, <3>1
  <2>. QED
    BY <2>1, <2>2
<1>11. closing = "no" => Last' = Last + n
  BY <1>1, <1>2
<1>. QED
  BY <1>1, <1>7, <1>8, <1>9, <1>10, <1>11, Zenon DEF R

\* Answers of others change nothing for a client; its next message does.
LEMMA BeforeGoesOn ==
  ASSUME NEW a, NEW b, NEW l \in Nat, NEW m \in Nat, l <= m,
         \A k \in 1 .. l : b[k] = a[k],
         NEW i, NEW n \in Nat \ {0}, Before(a, l, i, n)
  PROVE  /\ (\A k \in 1 .. m : k > l => b[k][1] # i) => Before(b, m, i, n)
         /\ (m = l + 1 /\ b[m] = <<i, n>>) => Before(b, m, i, n + 1)
<1>1. \A k \in 1 .. l : k \in 1 .. m
  OBVIOUS
<1>2. ASSUME \A k \in 1 .. m : k > l => b[k][1] # i PROVE Before(b, m, i, n)
  <2>1. ASSUME NEW j \in 1 .. m, b[j][1] = i PROVE b[j][2] \in 1 .. n - 1
    <3>1. j \in 1 .. l
      BY <1>2, <2>1
    <3>. QED
      BY <2>1, <3>1 DEF Before
  <2>2. \A k \in 1 .. n - 1 : \E j \in 1 .. m : b[j] = <<i, k>>
    BY <1>1 DEF Before
  <2>. QED
    BY <2>1, <2>2 DEF Before
<1>3. ASSUME m = l + 1, b[m] = <<i, n>> PROVE Before(b, m, i, n + 1)
  <2>1. ASSUME NEW j \in 1 .. m, b[j][1] = i PROVE b[j][2] \in 1 .. n
    <3>1. CASE j \in 1 .. l
      <4>1. b[j][2] \in 1 .. n - 1
        BY <2>1, <3>1 DEF Before
      <4>. QED
        BY <4>1
    <3>2. CASE j = m
      BY <1>3, <3>2
    <3>. QED
      BY <1>3, <3>1, <3>2
  <2>2. ASSUME NEW k \in 1 .. n PROVE \E j \in 1 .. m : b[j] = <<i, k>>
    <3>1. CASE k = n
      <4>1. m \in 1 .. m
        BY <1>3
      <4>. QED
        BY <1>3, <3>1, <4>1
    <3>2. CASE k # n
      <4>1. k \in 1 .. n - 1
        BY <3>2
      <4>. QED
        BY <1>1, <4>1 DEF Before
    <3>. QED
      BY <3>1, <3>2
  <2>. DEFINE p == n + 1
  <2>3. p - 1 = n
    OBVIOUS
  <2>. HIDE DEF p
  <2>4. Before(b, m, i, p)
    BY <2>1, <2>2, <2>3 DEF Before
  <2>. QED
    BY <2>4 DEF p
<1>. QED
  BY <1>2, <1>3

\* Before Close is called, an epoch forgets every connection that is lost.
LEMMA EpochAnswers ==
  ASSUME SetsOK, CountsOK, MapsInv, AnswersOK, AnswersOK', OpenInv, Epoch
  PROVE  \E lost \in SUBSET conn :
           /\ conn' \subseteq conn
           /\ closing = "no" => conn' = conn \ lost
           /\ Last \in Nat /\ Last' \in Nat /\ Last <= Last'
           /\ \A k \in 1 .. Last : Answers'[k] = Answers[k]
           /\ \E w \in [1 .. Cardinality(lost \ pendconn)
                          -> lost \ pendconn] :
                /\ \A j, k \in DOMAIN w : w[j] = w[k] => j = k
                /\ \A k \in 1 .. Last' : k > Last =>
                     /\ k - Last \in DOMAIN w
                     /\ Answers'[k] = <<w[k - Last], 0>>
           /\ reply' = <<>> => reply = <<>> /\ Last' = Last
<1>1. UNCHANGED <<results, closing, reading>>
  BY DEF Epoch, appVars
<1>2. PICK lost \in SUBSET conn :
        /\ conn' = conn \ Forgotten(lost)
        /\ \E w \in Walks(lost \ pendconn) :
             reply' = reply \o [k \in DOMAIN w |-> <<w[k], 0>>]
  BY EpochMaps
<1>3. closing = "no" => Forgotten(lost) = lost
  BY DEF Forgotten, Reported, OpenInv
<1>. DEFINE gone == lost \ pendconn
<1>4. PICK w \in Walks(gone) :
        reply' = reply \o [k \in DOMAIN w |-> <<w[k], 0>>]
  BY <1>2
<1>5. gone \in SUBSET conn
  OBVIOUS
<1>. HIDE DEF gone
<1>. DEFINE n == Cardinality(gone)
<1>6. /\ n \in Nat /\ w \in [1 .. n -> gone]
      /\ \A j, k \in 1 .. n : w[j] = w[k] => j = k
      /\ Len(reply') = Len(reply) + n
      /\ \A k \in 1 .. Len(reply) : reply'[k] = reply[k]
      /\ \A k \in 1 .. n : reply'[Len(reply) + k] = <<w[k], 0>>
  BY <1>4, <1>5, LossesAppended
<1>. HIDE DEF n
<1>7. /\ Last \in Nat /\ Last' \in Nat /\ Last <= Last'
      /\ \A k \in 1 .. Last : Answers'[k] = Answers[k]
      /\ \A k \in 1 .. Last' : k > Last =>
           /\ k - Last \in 1 .. n
           /\ Answers'[k] = reply'[Len(reply) + (k - Last)]
      /\ reply' = <<>> => reply = <<>> /\ Last' = Last
  BY <1>1, <1>6, ReplyGrows
<1>8. \A k \in 1 .. Last' : k > Last =>
        k - Last \in DOMAIN w /\ Answers'[k] = <<w[k - Last], 0>>
  BY <1>6, <1>7
<1>9. /\ w \in [1 .. n -> gone] /\ \A j, k \in DOMAIN w : w[j] = w[k] => j = k
  BY <1>6
<1>10. conn' \subseteq conn /\ (closing = "no" => conn' = conn \ lost)
  BY <1>2, <1>3
<1>. QED
  BY <1>7, <1>8, <1>9, <1>10, Zenon DEF n, gone

\* The order survives an epoch.
LEMMA OrderEpoch ==
  ASSUME SetsOK, SetsOK', CountsOK, ConnectOK, SendInv, MapsInv, IdsInv,
         AnswersOK, AnswersOK', OpenInv, OrderInv, Epoch
  PROVE  OrderInv'
<1>1. UNCHANGED closing /\ UNCHANGED reading
  BY DEF Epoch, appVars
<1>2. PICK lost \in SUBSET conn :
           /\ conn' \subseteq conn
           /\ closing = "no" => conn' = conn \ lost
           /\ Last \in Nat /\ Last' \in Nat /\ Last <= Last'
           /\ \A k \in 1 .. Last : Answers'[k] = Answers[k]
           /\ \E w \in [1 .. Cardinality(lost \ pendconn)
                          -> lost \ pendconn] :
                /\ \A j, k \in DOMAIN w : w[j] = w[k] => j = k
                /\ \A k \in 1 .. Last' : k > Last =>
                     /\ k - Last \in DOMAIN w
                     /\ Answers'[k] = <<w[k - Last], 0>>
           /\ reply' = <<>> => reply = <<>> /\ Last' = Last
  BY EpochAnswers
<1>3. \A k \in 1 .. Last' : k > Last => Answers'[k][1] \in lost
                                        /\ Answers'[k][2] = 0
  <2>. DEFINE N == 1 .. Cardinality(lost \ pendconn)
  <2>1. PICK w \in [N -> lost \ pendconn] :
          \A k \in 1 .. Last' : k > Last =>
            /\ k - Last \in DOMAIN w
            /\ Answers'[k] = <<w[k - Last], 0>>
    BY <1>2
  <2>. HIDE DEF N
  <2>2. ASSUME NEW k \in 1 .. Last', k > Last
        PROVE  Answers'[k][1] \in lost /\ Answers'[k][2] = 0
    <3>1. k - Last \in N /\ Answers'[k] = <<w[k - Last], 0>>
      BY <2>1, <2>2
    <3>2. w[k - Last] \in lost
      BY <3>1
    <3>. QED
      BY <3>1, <3>2
  <2>. QED
    BY <2>2
<1>4. InOrder(Answers', Last')
  <2>. DEFINE a == Answers
              b == Answers'
              l == Last
              m == Last'
  <2>1. InOrder(a, l) /\ l \in Nat /\ m \in Nat
    BY <1>2 DEF OrderInv
  <2>2. \A k \in 1 .. m : k > l => b[k][2] = 0
    BY <1>3
  <2>3. \A k \in 1 .. l : b[k] = a[k]
    BY <1>2
  <2>. HIDE DEF a, b, l, m
  <2>4. /\ InOrder(a, l) /\ l \in Nat /\ m \in Nat
        /\ \A k \in 1 .. m : k <= l => b[k] = a[k]
        /\ \A k \in 1 .. m : k > l => b[k][2] = 0
    BY <2>1, <2>2, <2>3
  <2>5. InOrder(b, m)
    BY <2>4, OrderGoesOn
  <2>. QED
    BY <2>5 DEF b, m
<1>5. ASSUME NEW i \in conn', Before(Answers, Last, i, connect[i].readct),
             closing = "no" \/ Last' = Last
      PROVE  Before(Answers', Last', i, connect'[i].readct)
  <2>1. i \in Clients
    BY DEF SetsOK
  <2>2. connect'[i].readct = connect[i].readct
    BY <2>1, EpochConnect
  <2>4. connect[i].readct \in Nat \ {0}
    BY <2>1 DEF ConnectOK, ConnectType
  <2>3. \A k \in 1 .. Last' : k > Last => Answers'[k][1] # i
    BY <1>2, <1>3, <1>5
  <2>. QED
    BY <1>2, <1>5, <2>2, <2>3, <2>4, BeforeGoesOn, ZenonT(60)
<1>6. ASSUME closing' = "no" \/ (reading' /\ reply' = <<>>), NEW i \in conn'
      PROVE  Before(Answers', Last', i, connect'[i].readct)
  <2>1. closing = "no" \/ Last' = Last
    BY <1>1, <1>2, <1>6, Zenon
  <2>2. closing = "no" \/ (reading /\ reply = <<>>)
    BY <1>1, <1>2, <1>6, Zenon
  <2>3. i \in conn
    BY <1>2
  <2>4. Before(Answers, Last, i, connect[i].readct)
    BY <2>2, <2>3, Zenon DEF OrderInv
  <2>. QED
    BY <1>5, <2>1, <2>4
<1>. QED
  BY <1>4, <1>6, Zenon DEF OrderInv

\* The order survives sread: the message it hands to Read is the next one.
LEMMA OrderSread ==
  ASSUME SetsOK, CountsOK, ConnectOK, MapsInv, IdsInv, AnswersOK, AnswersOK',
         OrderInv, Sread
  PROVE  OrderInv'
<1>1. UNCHANGED <<closing, reading, results, conn>>
  BY DEF Sread, appVars, mapVars
<1>2. CASE connect' = connect /\ reply' = reply
  BY <1>1, <1>2, Zenon DEF OrderInv, Answers, Last
<1>3. ASSUME NEW i \in conn, connect[i].readct \in Received,
             connect' = [connect EXCEPT ![i].readct = @ + 1,
                              ![i].readbuf = @ \ {connect[i].readct}],
             Len(reply') = Len(reply) + 1,
             \A k \in 1 .. Len(reply) : reply'[k] = reply[k],
             reply'[Len(reply) + 1] = <<i, connect[i].readct>>,
             reply' # <<>>
      PROVE  OrderInv'
  <2>. DEFINE n == connect[i].readct
  <2>0. n \in Nat \ {0}
    BY <1>3 DEF Received
  <2>1. /\ Last \in Nat /\ Last' \in Nat /\ Last <= Last'
        /\ \A k \in 1 .. Last : Answers'[k] = Answers[k]
        /\ \A k \in 1 .. Last' : k > Last =>
             /\ closing = "no" \/ (reading /\ reply = <<>>)
             /\ k - Last \in 1 .. 1
             /\ Answers'[k] = reply'[Len(reply) + (k - Last)]
        /\ closing = "no" => Last' = Last + 1
    BY <1>1, <1>3, ReplyGrows
  <2>2. ASSUME NEW k \in 1 .. Last', k > Last
        PROVE  /\ k = Last + 1 /\ Answers'[k] = <<i, n>>
               /\ closing = "no" \/ (reading /\ reply = <<>>)
    <3>1. k - Last = 1
      BY <2>1, <2>2
    <3>2. k = Last + 1
      BY <2>1, <3>1
    <3>. QED
      BY <1>3, <2>1, <2>2, <3>1, <3>2
  <2>. HIDE DEF n
  <2>3. closing = "no" \/ (reading /\ reply = <<>>) => Before(Answers, Last, i, n)
    BY Zenon DEF OrderInv, n
  <2>4. InOrder(Answers', Last')
    <3>. DEFINE a == Answers
                b == Answers'
                l == Last
                m == Last'
    <3>1. /\ InOrder(a, l) /\ l \in Nat /\ m \in Nat
          /\ \A k \in 1 .. m : k <= l => b[k] = a[k]
      BY <2>1 DEF OrderInv
    <3>2. ASSUME NEW k \in 1 .. m, k > l
          PROVE  k = l + 1 /\ Before(a, l, b[k][1], b[k][2])
      <4>1. Before(a, l, i, n)
        BY <2>2, <2>3, <3>2, Zenon
      <4>2. k = l + 1 /\ b[k] = <<i, n>>
        BY <2>2, <3>2
      <4>. QED
        BY <4>1, <4>2
    <3>. HIDE DEF a, b, l, m
    <3>3. InOrder(b, m)
      BY <3>1, <3>2, OrderGoesOn
    <3>. QED
      BY <3>3 DEF b, m
  <2>5. ASSUME closing = "no", NEW j \in conn
        PROVE  Before(Answers', Last', j, connect'[j].readct)
    <3>1. j \in Clients /\ connect[j].readct \in Nat \ {0}
      BY DEF SetsOK, ConnectOK, ConnectType
    <3>2. Before(Answers, Last, j, connect[j].readct)
      BY <2>5 DEF OrderInv
    <3>3. Last' = Last + 1 /\ Last' \in 1 .. Last' /\ Last' > Last
      BY <2>1, <2>5
    <3>4. Answers'[Last'] = <<i, n>>
      BY <2>2, <3>3
    <3>5. CASE j = i
      <4>1. connect'[j].readct = n + 1
        BY <1>3, <3>1, <3>5 DEF ConnectOK, ConnectType, n
      <4>2. Before(Answers, Last, i, n)
        BY <3>2, <3>5 DEF n
      <4>3. Before(Answers', Last', i, n + 1)
        BY <2>0, <2>1, <3>3, <3>4, <4>2, BeforeGoesOn
      <4>. QED
        BY <3>5, <4>1, <4>3
    <3>6. CASE j # i
      <4>1. connect'[j].readct = connect[j].readct
        BY <1>3, <3>1, <3>6 DEF ConnectOK
      <4>2. \A k \in 1 .. Last' : k > Last => Answers'[k][1] # j
        BY <2>2, <3>6
      <4>. DEFINE r == connect[j].readct
      <4>3. r \in Nat \ {0} /\ Before(Answers, Last, j, r)
        BY <3>1, <3>2
      <4>. HIDE DEF r
      <4>4. Before(Answers', Last', j, r)
        BY <2>1, <4>2, <4>3, BeforeGoesOn
      <4>. QED
        BY <4>1, <4>4 DEF r
    <3>. QED
      BY <3>5, <3>6
  <2>6. closing' = "no" \/ (reading' /\ reply' = <<>>) => closing = "no"
    BY <1>1, <1>3, Zenon
  <2>. QED
    BY <1>1, <2>4, <2>5, <2>6, Zenon DEF OrderInv
<1>. QED
  BY <1>2, <1>3, SreadIs

\* A Read that returns takes the first of reply; the answers stay the same.
LEMMA ReadReturnsAnswers ==
  ASSUME AnswersOK, AnswersOK', ReadReturns
  PROVE  /\ Last' = Last /\ \A k \in 1 .. Last : Answers'[k] = Answers[k]
         /\ closing' = closing /\ ~ reading'
<1>. DEFINE L == Len(results)
            R == Len(reply)
<1>1. /\ reading /\ reply # <<>> /\ ~ reading' /\ closing' = closing
      /\ results' = Append(results, Head(reply)) /\ reply' = Tail(reply)
  BY DEF ReadReturns
<1>2. /\ R \in Nat /\ R > 0 /\ Len(reply') = R - 1
      /\ Head(reply) = reply[1] /\ reply[1] \in Clients \X (0 .. MaxData)
      /\ \A k \in 1 .. R - 1 : reply'[k] = reply[k + 1]
  BY <1>1, HeadIs DEF AnswersOK
<1>3. reply[1] \in (Clients \cup {0}) \X (0 .. MaxData)
  BY <1>2
<1>4. /\ L \in Nat /\ Len(results') = L + 1
      /\ \A k \in 1 .. L : results'[k] = results[k]
      /\ results'[L + 1] = reply[1]
  BY <1>1, <1>2, <1>3, AppendIs DEF AnswersOK
<1>5. Last' = Last /\ Last <= L + R
  <2>1. /\ closing = "no" => Last = L + R /\ Last' = Len(results') + Len(reply')
        /\ closing # "no" => Last = L + 1 /\ Last' = Len(results')
    BY <1>1, Zenon DEF Last
  <2>. QED
    BY <1>2, <1>4, <2>1
<1>6. ASSUME NEW k \in 1 .. Last PROVE Answers'[k] = Answers[k]
  <2>1. /\ Answers'[k] = IF k <= Len(results') THEN results'[k]
                         ELSE reply'[k - Len(results')]
        /\ Answers[k] = IF k <= L THEN results[k] ELSE reply[k - L]
    BY <1>5 DEF Answers
  <2>2. Last \in Nat
    BY AnswersAre
  <2>. HIDE DEF L, R
  <2>3. CASE k <= L
    BY <1>4, <2>1, <2>2, <2>3
  <2>4. CASE k = L + 1
    <3>1. k - L = 1
      BY <1>4, <2>4
    <3>. QED
      BY <1>4, <2>1, <2>2, <2>4, <3>1
  <2>5. CASE k > L + 1
    <3>1. /\ k - Len(results') \in 1 .. R - 1
          /\ k - Len(results') + 1 = k - L
      BY <1>2, <1>4, <1>5, <2>2, <2>5
    <3>2. reply'[k - Len(results')] = reply[k - L]
      BY <1>2, <3>1
    <3>. QED
      BY <1>4, <2>1, <2>2, <2>5, <3>2
  <2>. QED
    BY <1>4, <2>2, <2>3, <2>4, <2>5
<1>. QED
  BY <1>1, <1>5, <1>6, Zenon

\* Every step keeps the order of the answers.
LEMMA OrderStep ==
  ASSUME SetsOK, SetsOK', CountsOK, ConnectOK, SendInv, MapsInv, IdsInv,
         AnswersOK, AnswersOK', FreshInv, FlagsOK, OpenInv, OrderInv,
         [NextAnyId]_vars
  PROVE  OrderInv'
<1>0. /\ Len(results) \in Nat /\ Last \in Nat /\ Last' \in Nat
      /\ Len(results) <= Last
      /\ \A k \in 1 .. Len(results) : results[k] = Answers[k]
  <2>1. Last' \in Nat
    <3>1. Last' = Len(results') + Len(reply') \/ Last' = Len(results')
          \/ Last' = Len(results') + 1
      BY DEF Last
    <3>2. Len(results') \in Nat /\ Len(reply') \in Nat
      BY DEF AnswersOK
    <3>. QED
      BY <3>1, <3>2
  <2>. QED
    BY <2>1, AnswersAre
<1>1. \A i \in conn' : i \in conn \/ i >= connCt
  <2>1. \/ \E i \in Clients : Connect(i)
        \/ conn' \subseteq conn
    BY MapsFrame DEF AckToClose, CloseConn, Epoch, Sclose, Close, CloseReturns,
       mapVars
  <2>2. ASSUME NEW i \in Clients, Connect(i)
        PROVE  conn' = conn \cup {i} /\ i >= connCt
    BY <2>2 DEF Connect, CountsOK
  <2>. QED
    BY <2>1, <2>2
<1>2. CASE Epoch
  BY <1>2, OrderEpoch
<1>3. CASE Sread
  BY <1>3, OrderSread
<1>4. CASE UNCHANGED <<results, reply, reading, closing>> /\ ~ Sread
  <2>1. Last' = Last /\ Answers' = Answers
    BY <1>4, Zenon DEF Answers, Last
  <2>2. /\ Last' <= Last /\ \A k \in 1 .. Last' : Answers'[k] = Answers[k]
        /\ closing' = "no" \/ (reading' /\ reply' = <<>>) =>
             Last' = Last /\ (closing = "no" \/ (reading /\ reply = <<>>))
    <3>1. Last' <= Last
      BY <1>0, <2>1
    <3>. QED
      BY <1>4, <2>1, <3>1, Zenon
  <2>. QED
    BY <1>0, <1>1, <1>4, <2>2, OrderKept
<1>5. CASE ReadReturns
  <2>1. ~ Sread
    BY <1>5 DEF ReadReturns, Sread, appVars
  <2>2. /\ Last' = Last /\ \A k \in 1 .. Last : Answers'[k] = Answers[k]
        /\ closing' = closing /\ ~ reading'
    BY <1>5, ReadReturnsAnswers
  <2>3. /\ Last' <= Last /\ \A k \in 1 .. Last' : Answers'[k] = Answers[k]
    BY <1>0, <2>2
  <2>4. closing' = "no" \/ (reading' /\ reply' = <<>>) =>
           Last' = Last /\ (closing = "no" \/ (reading /\ reply = <<>>))
    BY <2>2, Zenon
  <2>. QED
    BY <1>0, <1>1, <2>1, <2>3, <2>4, OrderKept
<1>6. CASE Close \/ CloseReturns
  <2>1. UNCHANGED <<results, reply, reading, conn>> /\ closing' # "no"
    BY <1>6 DEF Close, CloseReturns, mapVars
  <2>2. Last' = IF reading /\ reply # <<>> THEN Len(results) + 1
                                           ELSE Len(results)
    BY <2>1, Zenon DEF Last
  <2>3. CASE reading /\ reply = <<>>
    <3>1. Last = Len(results) /\ Last' = Len(results)
      <4>1. Len(reply) = 0
        BY <2>3
      <4>2. Last = Len(results) \/ Last = Len(results) + Len(reply)
        BY <2>3, Zenon DEF Last
      <4>3. Last' = Len(results)
        BY <2>2, <2>3, Zenon
      <4>. QED
        BY <1>0, <4>1, <4>2, <4>3
    <3>2. Answers' = Answers
      BY <2>1, <3>1, Zenon DEF Answers
    <3>3. closing = "no" \/ (reading /\ reply = <<>>)
      BY <2>3
    <3>4. connect' = connect
      BY <1>6 DEF Close, CloseReturns
    <3>. QED
      BY <2>1, <3>1, <3>2, <3>3, <3>4 DEF OrderInv
  <2>4. CASE ~ (reading /\ reply = <<>>)
    <3>1. Last' <= Last
      <4>1. CASE reading
        <5>1. reply # <<>>
          BY <2>4, <4>1
        <5>2. Len(reply) > 0
          BY <5>1, EmptySeq DEF AnswersOK
        <5>3. Last' = Len(results) + 1
          BY <2>2, <4>1, <5>1, Zenon
        <5>4. Last = Len(results) + Len(reply) \/ Last = Len(results) + 1
          BY <4>1, <5>1, Zenon DEF Last
        <5>. QED
          BY <1>0, <5>2, <5>3, <5>4, AnswersAre
      <4>2. CASE ~ reading
        <5>1. Last' = Len(results)
          BY <2>2, <4>2, Zenon
        <5>. QED
          BY <1>0, <5>1
      <4>. QED
        BY <4>1, <4>2
    <3>2. \A k \in 1 .. Last' : Answers'[k] = Answers[k]
      <4>1. ASSUME NEW k \in 1 .. Last' PROVE Answers'[k] = Answers[k]
        <5>1. k \in 1 .. Last
          BY <1>0, <3>1
        <5>. QED
          BY <2>1, <5>1, Zenon DEF Answers
      <4>. QED
        BY <4>1
    <3>3. closing' = "no" \/ (reading' /\ reply' = <<>>) => FALSE
      BY <2>1, <2>4, Zenon
    <3>4. ~ Sread
      BY <1>6, <2>1 DEF Sread, appVars, Close, CloseReturns
    <3>. QED
      BY <1>0, <1>1, <3>1, <3>2, <3>3, <3>4, OrderKept
  <2>. QED
    BY <2>3, <2>4
<1>7. CASE Read
  <2>1. CASE readclose
    <3>1. /\ ~ reading /\ ~ reading' /\ closing' = closing /\ closing # "no"
      BY <1>7, <2>1, Zenon DEF Read, OpenInv
    <3>2. results' = Append(results, <<0, 0>>)
      BY <1>7, <2>1 DEF Read
    <3>3. <<0, 0>> \in (Clients \cup {0}) \X (0 .. MaxData)
      OBVIOUS
    <3>4. /\ Len(results') = Len(results) + 1
          /\ \A k \in 1 .. Len(results) : results'[k] = results[k]
          /\ results'[Len(results) + 1] = <<0, 0>>
      BY <3>2, <3>3, AppendIs DEF AnswersOK
    <3>5. Last = Len(results) /\ Last' = Len(results')
      BY <3>1, Zenon DEF Last
    <3>6. \A k \in 1 .. Last' : Answers'[k] = results'[k]
      BY <3>5 DEF Answers
    <3>7. InOrder(Answers', Last')
      <4>. DEFINE a == Answers
                  b == Answers'
                  l == Last
                  m == Last'
      <4>1. /\ InOrder(a, l) /\ l \in Nat /\ m \in Nat
            /\ \A k \in 1 .. m : k <= l => b[k] = a[k]
        BY <1>0, <3>4, <3>5, <3>6 DEF OrderInv
      <4>2. \A k \in 1 .. m : k > l => b[k][2] = 0
        BY <1>0, <3>4, <3>5, <3>6
      <4>. HIDE DEF a, b, l, m
      <4>3. InOrder(b, m)
        BY <4>1, <4>2, OrderGoesOn
      <4>. QED
        BY <4>3 DEF b, m
    <3>. QED
      BY <3>1, <3>7, Zenon DEF OrderInv
  <2>2. CASE ~ readclose
    <3>1. /\ closing = "no" /\ closing' = closing
          /\ UNCHANGED <<results, reply>>
      BY <1>7, <2>2 DEF Read, OpenInv, FlagsOK
    <3>2. ~ Sread
      BY <1>7 DEF Read, Sread, CountsOK, reqVars
    <3>3. Last' = Last /\ Answers' = Answers
      BY <3>1, Zenon DEF Answers, Last
    <3>4. /\ Last' <= Last /\ \A k \in 1 .. Last' : Answers'[k] = Answers[k]
      BY <1>0, <3>3
    <3>5. closing' = "no" \/ (reading' /\ reply' = <<>>) =>
             Last' = Last /\ (closing = "no" \/ (reading /\ reply = <<>>))
      BY <3>1, <3>3, Zenon
    <3>. QED
      BY <1>0, <1>1, <3>2, <3>4, <3>5, OrderKept
  <2>. QED
    BY <2>1, <2>2
<1>. QED
  BY <1>2, <1>3, <1>4, <1>5, <1>6, <1>7, AnswersFrame DEF appVars

\* Every step that adds no loss to the answers keeps them free of repetition.
LEMMA OnceStep ==
  ASSUME SetsOK, SetsOK', CountsOK, ConnectOK, MapsInv, AnswersOK, AnswersOK',
         FlagsOK, OpenInv, OrderInv, OnceInv, [NextAnyId]_vars
  PROVE  OnceInv'
<1>0. Last \in Nat /\ closing' = "no" => closing = "no"
  <2>1. closing' = closing \/ closing' # "no"
    BY AnswersFrame DEF Epoch, Sread, Close, CloseReturns, Read, ReadReturns,
       appVars
  <2>. QED
    BY <2>1, AnswersAre
<1>1. SUFFICES ASSUME closing = "no", closing' = "no",
                      NEW j \in 1 .. Last', NEW k \in 1 .. Last',
                      Answers'[j][2] = 0, Answers'[j] = Answers'[k]
               PROVE  j = k
  BY <1>0, AnswersAre, Zenon DEF OnceInv
<1>2. CASE j \in 1 .. Last /\ k \in 1 .. Last
           /\ \A l \in 1 .. Last : Answers'[l] = Answers[l]
  BY <1>1, <1>2 DEF OnceInv
<1>3. CASE Last' = Last /\ \A l \in 1 .. Last : Answers'[l] = Answers[l]
  BY <1>2, <1>3
<1>4. CASE UNCHANGED <<results, reply>>
  <2>1. Last' = Last /\ Answers' = Answers
    BY <1>1, <1>4, Zenon DEF Answers, Last
  <2>. QED
    BY <1>3, <2>1
<1>5. CASE ReadReturns
  BY <1>3, <1>5, ReadReturnsAnswers
<1>6. CASE Read
  <2>1. readclose = FALSE
    BY <1>1, Zenon DEF OpenInv
  <2>. QED
    BY <1>4, <1>6, <2>1 DEF Read
<1>7. CASE Sread
  <2>1. ASSUME NEW i \in conn, connect[i].readct \in Received,
               Len(reply') = Len(reply) + 1,
               \A l \in 1 .. Len(reply) : reply'[l] = reply[l],
               reply'[Len(reply) + 1] = <<i, connect[i].readct>>
        PROVE  j = k
    <3>1. UNCHANGED <<closing, reading, results>>
      BY <1>7 DEF Sread, appVars
    <3>2. /\ Last \in Nat /\ \A l \in 1 .. Last : Answers'[l] = Answers[l]
          /\ \A l \in 1 .. Last' : l > Last =>
               /\ l - Last \in 1 .. 1
               /\ Answers'[l] = reply'[Len(reply) + (l - Last)]
      BY <2>1, <3>1, ReplyGrows
    <3>3. ASSUME NEW l \in 1 .. Last', l > Last
          PROVE  Answers'[l] = <<i, connect[i].readct>>
      <4>1. l - Last = 1
        BY <3>2, <3>3
      <4>. QED
        BY <2>1, <3>2, <3>3, <4>1
    <3>4. \A l \in 1 .. Last' : l > Last => Answers'[l][2] # 0
      BY <2>1, <3>3 DEF Received
    <3>5. ~ (j > Last) /\ ~ (k > Last)
      BY <1>1, <3>4
    <3>6. j \in 1 .. Last /\ k \in 1 .. Last
      BY <3>2, <3>5
    <3>. QED
      BY <1>2, <3>2, <3>6
  <2>2. CASE reply' = reply
    BY <1>4, <1>7, <2>2 DEF Sread, appVars
  <2>. QED
    BY <1>7, <2>1, <2>2, SreadIs
<1>8. CASE Epoch
  <2>1. PICK lost \in SUBSET conn :
           /\ Last \in Nat /\ Last' \in Nat /\ Last <= Last'
           /\ \A l \in 1 .. Last : Answers'[l] = Answers[l]
           /\ \E w \in [1 .. Cardinality(lost \ pendconn)
                          -> lost \ pendconn] :
                /\ \A l, m \in DOMAIN w : w[l] = w[m] => l = m
                /\ \A l \in 1 .. Last' : l > Last =>
                     /\ l - Last \in DOMAIN w
                     /\ Answers'[l] = <<w[l - Last], 0>>
    BY <1>8, EpochAnswers
  <2>. DEFINE N == 1 .. Cardinality(lost \ pendconn)
  <2>2. PICK w \in [N -> lost \ pendconn] :
                /\ \A l, m \in DOMAIN w : w[l] = w[m] => l = m
                /\ \A l \in 1 .. Last' : l > Last =>
                     /\ l - Last \in DOMAIN w
                     /\ Answers'[l] = <<w[l - Last], 0>>
    BY <2>1
  <2>. HIDE DEF N
  \* A connection that is still there was not reported before.
  <2>3. ASSUME NEW l \in 1 .. Last', l > Last, NEW m \in 1 .. Last,
               Answers'[l] = Answers'[m]
        PROVE  FALSE
    <3>1. w[l - Last] \in conn /\ Answers'[l] = <<w[l - Last], 0>>
      BY <2>2, <2>3
    <3>2. Answers[m] = <<w[l - Last], 0>>
      BY <2>1, <2>3, <3>1
    <3>. DEFINE i == w[l - Last]
    <3>3. i \in conn /\ Answers[m][1] = i /\ Answers[m][2] = 0
      BY <3>1, <3>2
    <3>. HIDE DEF i
    <3>4. Before(Answers, Last, i, connect[i].readct)
      BY <1>1, <3>3 DEF OrderInv
    <3>. QED
      BY <3>3, <3>4 DEF Before
  <2>4. ASSUME j > Last, k > Last PROVE j = k
    <3>1. /\ j - Last \in N /\ Answers'[j] = <<w[j - Last], 0>>
          /\ k - Last \in N /\ Answers'[k] = <<w[k - Last], 0>>
      BY <2>2, <2>4
    <3>4. <<w[j - Last], 0>> = <<w[k - Last], 0>>
      BY <1>1, <3>1, Zenon
    <3>2. w[j - Last] = w[k - Last]
      BY <3>4
    <3>3. j - Last = k - Last
      BY <2>2, <3>1, <3>2
    <3>. QED
      BY <2>1, <3>3
  <2>5. CASE j \in 1 .. Last /\ k \in 1 .. Last
    BY <1>2, <2>1, <2>5
  <2>6. \/ j \in 1 .. Last /\ k \in 1 .. Last
        \/ j > Last /\ k > Last
        \/ j > Last /\ k \in 1 .. Last
        \/ k > Last /\ j \in 1 .. Last
    BY <2>1
  <2>. QED
    BY <1>1, <2>3, <2>4, <2>5, <2>6
<1>. QED
  BY <1>4, <1>5, <1>6, <1>7, <1>8, AnswersFrame DEF appVars
-----------------------------------------------------------------------------
(***************************************************************************)
(* The inductive invariant, and what follows from it.                      *)
(***************************************************************************)
Types == ConnectOK /\ BanOK /\ SetsOK /\ CountsOK /\ AnswersOK /\ FlagsOK

VInv ==
  /\ Types
  /\ MapsInv /\ IdsInv /\ OpenInv /\ SendInv /\ FreshInv
  /\ NoLostWakeup /\ CloseNotForgotten
  /\ OrderInv /\ OnceInv

\* It, and what holds only when the application uses the IDs Read gave it.
KnownInv == VInv /\ PendInv /\ DoneInv

\* The server starts with no connections and nothing to answer.
LEMMA InitVInv == ASSUME Init PROVE KnownInv
<1>1. ConnectOK
  <2>1. NewConnect \in ConnectType
    BY DEF NewConnect, ConnectType, Numbers, Received
  <2>. HIDE DEF NewConnect, ConnectType
  <2>. QED
    BY <2>1 DEF Init, ConnectOK
<1>2. BanOK
  BY DEF Init, BanOK, Numbers
<1>3. SetsOK /\ CountsOK /\ AnswersOK
  BY DEF Init, SetsOK, CountsOK, AnswersOK
<1>4. FlagsOK
  BY DEF Init, FlagsOK
<1>5. MapsInv /\ IdsInv
  BY DEF Init, MapsInv, IdsInv
<1>6. OpenInv
  BY DEF Init, OpenInv
<1>7. ASSUME NEW i \in Clients
      PROVE  /\ SendOK(connect[i]) /\ Fresh(connect[i]) /\ Done(i)
             /\ Waiting(connect[i]) = {}
  BY DEF Init, NewConnect, SendOK, Fresh, Done, Waiting
<1>8. SendInv /\ FreshInv /\ PendInv /\ DoneInv
  BY <1>7 DEF SendInv, FreshInv, PendInv, DoneInv, Init
<1>9. NoLostWakeup
  BY Zenon DEF Init, NoLostWakeup
<1>10. CloseNotForgotten
  BY DEF Init, CloseNotForgotten
<1>11. Last = 0
  <2>1. Len(<<>>) = 0
    OBVIOUS
  <2>2. Last = Len(results) + Len(reply)
    BY Zenon DEF Last, Init
  <2>. QED
    BY <2>1, <2>2 DEF Init
<1>12. OrderInv /\ OnceInv
  <2>1. \A k \in 1 .. Last : FALSE
    BY <1>11
  <2>2. conn = {}
    BY DEF Init
  <2>. QED
    BY <2>1, <2>2 DEF OrderInv, OnceInv, InOrder
<1>. QED
  BY <1>1, <1>2, <1>3, <1>4, <1>5, <1>6, <1>8, <1>9, <1>10, <1>12
     DEF KnownInv, VInv, Types

\* Every step keeps it, whatever IDs the application uses.
LEMMA NextVInv == ASSUME VInv, [NextAnyId]_vars PROVE VInv'
<1>. USE DEF VInv, Types
<1>1. SetsOK' /\ CountsOK' /\ ConnectOK' /\ SendInv' /\ BanOK' /\ AnswersOK'
  BY SetsStep, ConnectStep, BanStep, AnswersStep
<1>2. FlagsOK' /\ OpenInv' /\ MapsInv' /\ IdsInv'
  BY OpenStep, MapsStep, IdsStep
<1>3. FreshInv'
  BY <1>1, FreshStep
<1>4. NoLostWakeup' /\ CloseNotForgotten'
  BY <1>1, WakeStep, ForgetStep
<1>5. OrderInv' /\ OnceInv'
  BY <1>1, OrderStep, OnceStep
<1>. QED
  BY <1>1, <1>2, <1>3, <1>4, <1>5

\* The inductive invariant of the server, whatever IDs the application uses.
THEOREM InductiveServer == SafetyAnyId => []VInv
<1>1. Init => VInv
  BY InitVInv DEF KnownInv
<1>. QED
  BY <1>1, NextVInv, PTL DEF SafetyAnyId

\* What it does with the IDs that Read gave it, it may do with any ID.
LEMMA KnownIsAny == ASSUME [Next]_vars PROVE [NextAnyId]_vars
  BY DEF Next, NextAnyId

\* The inductive invariant of the server when it uses those.
THEOREM InductiveKnown == Safety => []KnownInv
<1>1. ASSUME KnownInv, [Next]_vars PROVE KnownInv'
  <2>1. VInv'
    BY <1>1, KnownIsAny, NextVInv DEF KnownInv
  <2>2. PendInv'
    BY <1>1, PendStep DEF KnownInv, VInv, Types
  <2>3. DoneInv'
    BY <1>1, KnownIsAny, DoneStep DEF KnownInv, VInv, Types
  <2>. QED
    BY <2>1, <2>2, <2>3 DEF KnownInv
<1>. QED
  BY <1>1, InitVInv, PTL DEF Safety

\* Every variable keeps its type, the window and the numbers of connections
\* included.
THEOREM ServerTypes == SafetyAnyId => []TypeOK
<1>1. VInv => TypeOK
  BY TypeParts DEF VInv, Types
<1>. QED
  BY <1>1, InductiveServer, PTL

\* handleReceive and handleEpoch never use a nil Connect when the application
\* uses the IDs that Read gave it: whichever of Read, CloseConn, Close, an Ack
\* and a loss came before, an ID in pendconn or with closepend is in conn.
THEOREM NilNeverUsed == Safety => []NoNilConnect
<1>1. KnownInv => NoNilConnect
  BY DEF KnownInv, VInv, MapsInv, PendInv, NoNilConnect
<1>. QED
  BY <1>1, InductiveKnown, PTL

\* When the application uses the IDs that Read gave it, Close returns only
\* when every client acknowledged all that was written to it, but for those
\* that are lost and those that the application closed with CloseConn.
THEOREM CloseHasWaited == Safety => []CloseWaitsForAcks
<1>1. KnownInv => CloseWaitsForAcks
  BY DEF KnownInv, DoneInv, Done, Waiting, CloseWaitsForAcks
<1>. QED
  BY <1>1, InductiveKnown, PTL

\* While Close waits, a packet for the handler is posted, or a connection is
\* left that will bring one.
THEOREM CloseStaysAwake == SafetyAnyId => []CloseNotForgotten
  BY InductiveServer, PTL DEF VInv

\* A Read that waits while a message is there has an sread packet coming,
\* whichever connections the others were used up on.
THEOREM ReadStaysAwake == SafetyAnyId => []NoLostWakeup
  BY InductiveServer, PTL DEF VInv

\* Read returns the messages of each client from the first on, in order,
\* once, and none after it reported the client lost.
THEOREM ReadOrdered == SafetyAnyId => []ReadsInOrder
<1>1. ASSUME VInv PROVE ReadsInOrder
  <2>1. /\ Last \in Nat /\ Len(results) \in Nat /\ Len(results) <= Last
        /\ DOMAIN results = 1 .. Len(results)
        /\ \A k \in 1 .. Len(results) : Answers[k] = results[k]
    BY <1>1, AnswersAre DEF VInv, Types
  <2>2. SUFFICES ASSUME NEW k \in DOMAIN results, results[k][2] # 0
                 PROVE  Before(results, k - 1, results[k][1], results[k][2])
    BY Zenon DEF ReadsInOrder, Before
  <2>3. k \in 1 .. Last /\ Answers[k] = results[k]
        /\ \A j \in 1 .. k - 1 : Answers[j] = results[j]
    BY <2>1
  <2>4. Before(Answers, k - 1, results[k][1], results[k][2])
    BY <1>1, <2>2, <2>3 DEF VInv, OrderInv, InOrder
  <2>. QED
    BY <2>3, <2>4 DEF Before
<1>. QED
  BY <1>1, InductiveServer, PTL

\* Until Close is called, Read reports the loss of each client at most once.
THEOREM LossReported == SafetyAnyId => []LossReportedOnce
<1>1. ASSUME VInv PROVE LossReportedOnce
  <2>1. /\ Last \in Nat /\ Len(results) \in Nat /\ Len(results) <= Last
        /\ DOMAIN results = 1 .. Len(results)
        /\ \A k \in 1 .. Len(results) : Answers[k] = results[k]
    BY <1>1, AnswersAre DEF VInv, Types
  <2>2. ASSUME closing = "no", NEW i \in Clients
        PROVE  Cardinality({k \in DOMAIN results : results[k] = <<i, 0>>}) <= 1
    <3>. DEFINE S == {k \in DOMAIN results : results[k] = <<i, 0>>}
    <3>1. \A j, k \in S : j = k
      <4>1. ASSUME NEW j \in S, NEW k \in S PROVE j = k
        <5>1. /\ j \in 1 .. Last /\ k \in 1 .. Last
              /\ Answers[j] = <<i, 0>> /\ Answers[k] = <<i, 0>>
          BY <2>1
        <5>2. Answers[j][2] = 0 /\ Answers[j] = Answers[k]
          BY <5>1
        <5>. QED
          BY <1>1, <2>2, <5>1, <5>2 DEF VInv, OnceInv
      <4>. QED
        BY <4>1
    <3>2. S = {} \/ \E k : S = {k}
      BY <3>1
    <3>3. Cardinality(S) = 0 \/ Cardinality(S) = 1
      BY <3>2, FS_EmptySet, FS_Singleton
    <3>. QED
      BY <3>3
  <2>. QED
    BY <2>2 DEF LossReportedOnce
<1>. QED
  BY <1>1, InductiveServer, PTL
=============================================================================
