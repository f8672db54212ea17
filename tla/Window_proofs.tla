--------------------------- MODULE Window_proofs ----------------------------
(***************************************************************************)
(* What the operators of Window compute, for every WindowSize > 0: the     *)
(* facts that the proofs about each module with a window use.              *)
(***************************************************************************)
EXTENDS Window, TLAPS

USE WindowSizeAssumption

\* The scan for the new base after the Ack of the old one: it moves up, by at
\* most one window, not past what was sent, and not past a message that is
\* still unacknowledged.
LEMMA NewBaseIs ==
  ASSUME NEW base \in Nat, NEW top \in Nat, base < top, NEW buf,
         \A n \in buf : n \in Nat /\ base < n /\ n < top,
         NEW s, NewBase(base, buf, s)
  PROVE  /\ s \in Nat /\ base < s /\ s <= base + WindowSize /\ s <= top
         /\ \A n \in buf : s <= n
<1>1. s \in Nat /\ base < s /\ s <= base + WindowSize
  BY DEF NewBase
<1>2. ASSUME NEW n \in buf PROVE s <= n
  <2>1. n \in Nat /\ base + 1 <= n
    OBVIOUS
  <2>2. ScanStops(base, buf, n)
    BY DEF ScanStops
  <2>3. CASE n < s
    <3>1. n \in base + 1 .. s - 1
      BY <1>1, <2>1, <2>3
    <3>. QED
      BY <3>1, <2>2 DEF NewBase
  <2>. QED
    BY <1>1, <2>1, <2>3
<1>3. s <= top
  <2>1. CASE buf = {}
    <3>1. ScanStops(base, buf, base + 1)
      BY <2>1 DEF ScanStops
    <3>2. s = base + 1
      BY <3>1, <1>1 DEF NewBase
    <3>. QED
      BY <3>2
  <2>2. CASE buf # {}
    <3>1. PICK n \in buf : TRUE
      BY <2>2
    <3>. QED
      BY <3>1, <1>1, <1>2
  <2>. QED
    BY <2>1, <2>2
<1>. QED
  BY <1>1, <1>2, <1>3

\* A message that is received moves the lowest number that is acknowledged
\* up, never above itself, and the Acks kept are those from there on.
LEMMA KeptAcksAre ==
  ASSUME NEW ack \in Nat \ {0}, NEW n \in Nat, n >= ack, NEW acks,
         \A m \in acks : m \in Nat /\ ack <= m
  PROVE  /\ AckFloor(ack, n) \in Nat \ {0}
         /\ ack <= AckFloor(ack, n) /\ AckFloor(ack, n) <= n
         /\ \A m : m \in KeptAcks(ack, acks, n)
                     <=> m \in acks \cup {n} /\ AckFloor(ack, n) <= m
<1>1. CASE n - WindowSize >= ack
  BY <1>1 DEF AckFloor, KeptAcks
<1>2. CASE ~ (n - WindowSize >= ack)
  BY <1>2 DEF AckFloor, KeptAcks
<1>. QED
  BY <1>1, <1>2
=============================================================================
