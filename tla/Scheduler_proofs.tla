-------------------------- MODULE Scheduler_proofs --------------------------
(***************************************************************************)
(* Proofs about Scheduler, for any miners, clients, ranges of nonces and   *)
(* Hash: the server does not panic, counts the shares it waits for, and    *)
(* keeps no share waiting while a miner is idle; and for ranges that       *)
(* divide among the miners (RangesFit), that no nonce is skipped or held   *)
(* twice, and that Scheduler implements JobServer.                         *)
(***************************************************************************)
EXTENDS Scheduler, FiniteSetTheorems, SequenceTheorems, TLAPS

USE IdAssumption, RangeAssumption
-----------------------------------------------------------------------------
(***************************************************************************)
(* The pool: the miners with their shares, and the shares that wait.  A    *)
(* pass of the loop changes it with Assign and Reassign, from a pool m,    *)
(* ranges, fails that it has already made out of the variables.            *)
(***************************************************************************)
Pool(m, ranges, fails) ==
  /\ m \in [DOMAIN m -> Shares \cup {Idle}] /\ DOMAIN m \subseteq Miners
  /\ ranges \in [DOMAIN ranges -> Shares] /\ DOMAIN ranges \subseteq Miners
  /\ DOMAIN m \cap DOMAIN ranges = {}
  /\ fails = Cardinality(DOMAIN ranges)

\* How many shares are not reported.
Due(m, ranges) == Cardinality(Busy(m)) + Cardinality(DOMAIN ranges)

\* No share waits while a miner is idle.
NoneWaits(m, ranges) == ranges # <<>> => Busy(m) = DOMAIN m

\* A share is never Idle: IDs of connections count from 1.
LEMMA ShareNotIdle == Idle \notin Shares
  BY DEF Idle, Shares

\* uint64 arithmetic stays within uint64.
LEMMA WrapIs == ASSUME NEW x \in Nat PROVE Wrap(x) \in 0 .. MaxUint
  BY DEF Wrap

\* The rounded division of assign gives a natural number.
LEMMA ShareSizeIs ==
  ASSUME NEW u \in Nat, NEW n \in Nat \ {0} PROVE ShareSize(u, n) \in Nat
<1>1. u \div n \in Nat
  OBVIOUS
<1>. QED
  BY <1>1 DEF ShareSize

\* Every share assign makes, wrapped or not, is a share of uint64 bounds.
LEMMA NthShareIs ==
  ASSUME NEW c \in Clients, NEW u \in Uppers, NEW n \in Nat \ {0}, NEW k \in Nat
  PROVE  NthShare(c, u, n, k) \in Shares
<1>. DEFINE size == ShareSize(u, n)
<1>1. size \in Nat /\ u \in 0 .. MaxUint
  BY ShareSizeIs
<1>. HIDE DEF size
<1>2. k * (size + 1) \in Nat
  BY <1>1
<1>3. Wrap(k * (size + 1)) \in 0 .. MaxUint
  BY <1>2, WrapIs
<1>. DEFINE lower == Wrap(k * (size + 1))
<1>. HIDE DEF lower
<1>4. Wrap(lower + size) \in 0 .. MaxUint
  BY <1>1, <1>3, WrapIs DEF lower
<1>. DEFINE upper == Wrap(lower + size)
<1>. HIDE DEF upper
<1>5. (IF upper > u THEN u ELSE upper) \in 0 .. MaxUint
  BY <1>1, <1>4 DEF upper
<1>6. Share(c, lower, IF upper > u THEN u ELSE upper) \in Shares
  BY <1>3, <1>5, Zenon DEF Share, Shares, lower
<1>7. NthShare(c, u, n, k) = Share(c, lower, IF upper > u THEN u ELSE upper)
  BY Zenon DEF NthShare, CutShare, lower, upper, size
<1>. QED
  BY <1>6, <1>7

\* Sets of miners are finite.
LEMMA MinersFinite ==
  ASSUME NEW S \in SUBSET Miners
  PROVE  IsFiniteSet(S) /\ Cardinality(S) \in Nat
  BY FS_Subset, FS_CardinalityType

\* Sets of miners with no member in common add up.
LEMMA CardDisjoint ==
  ASSUME NEW S \in SUBSET Miners, NEW T \in SUBSET Miners, S \cap T = {}
  PROVE  Cardinality(S \cup T) = Cardinality(S) + Cardinality(T)
<1>1. /\ IsFiniteSet(S) /\ IsFiniteSet(T)
      /\ Cardinality(S) \in Nat /\ Cardinality(T) \in Nat
  BY MinersFinite
<1>2. Cardinality(S \cup T) =
        Cardinality(S) + Cardinality(T) - Cardinality(S \cap T)
  BY <1>1, FS_Union
<1>3. Cardinality(S \cap T) = 0
  BY FS_EmptySet
<1>. QED
  BY <1>1, <1>2, <1>3

\* No miner is counted only in the empty set.
LEMMA CardEmpty ==
  ASSUME NEW S \in SUBSET Miners
  PROVE  Cardinality(S) = 0 <=> S = {}
  BY MinersFinite, FS_EmptySet

\* assign: every miner of the pool that can be written to has a share, and
\* the shares of the others wait.
LEMMA AssignIs ==
  ASSUME NEW m, m \in [DOMAIN m -> Shares \cup {Idle}],
         DOMAIN m \subseteq Miners, DOMAIN m # {},
         Pool(miner, pendrange, minerfail), DOMAIN pendrange = {},
         NEW jobs, jobs \in [DOMAIN jobs -> Uppers],
         NEW clients, clients \in [DOMAIN jobs -> Clients],
         NEW id \in DOMAIN jobs,
         Assign(m, jobs, clients, id)
  PROVE  /\ Pool(miner', pendrange', minerfail')
         /\ Due(miner', pendrange') = Cardinality(DOMAIN m)
         /\ Busy(miner') = DOMAIN miner'
         /\ DOMAIN miner' \cup DOMAIN pendrange' = DOMAIN m
         /\ block' = Cardinality(DOMAIN m) /\ work' = Sent(miner')
<1>. DEFINE n    == Cardinality(DOMAIN m)
            dead == DOMAIN m \ Reachable(DOMAIN m)
<1>1. PICK turn \in Bijection(DOMAIN m, 0 .. n - 1) :
        LET share == [i \in DOMAIN m |->
                        NthShare(clients[id], jobs[id], n, turn[i])]
        IN  /\ miner' = Restrict(share, DOMAIN m \ dead)
            /\ work' = Sent(miner')
            /\ pendrange' = [i \in DOMAIN pendrange \cup dead |->
                               IF i \in dead THEN share[i] ELSE pendrange[i]]
            /\ minerfail' = minerfail + Cardinality(dead)
            /\ block' = ReportsDue(m)
            /\ ans1' = MaxUint /\ ans2' = jobs[id]
            /\ curclient' = clients[id]
            /\ jobgiveup' = FALSE
            /\ run' = TRUE
            /\ pendjobs' = Restrict(jobs, DOMAIN jobs \ {id})
            /\ pendclients' = Restrict(clients, DOMAIN clients \ {id})
            /\ job' = [client |-> clients[id], upper |-> jobs[id]]
            /\ UNCHANGED panicked
  BY DEF Assign
<1>. DEFINE share == [i \in DOMAIN m |->
                        NthShare(clients[id], jobs[id], n, turn[i])]
<1>2. n \in Nat \ {0}
  BY MinersFinite, CardEmpty
<1>3. turn \in [DOMAIN m -> 0 .. n - 1]
  BY DEF Bijection, Injection
<1>. HIDE DEF n
<1>4. share \in [DOMAIN m -> Shares]
  <2>. SUFFICES ASSUME NEW i \in DOMAIN m
                PROVE  NthShare(clients[id], jobs[id], n, turn[i]) \in Shares
    OBVIOUS
  <2>1. turn[i] \in Nat /\ clients[id] \in Clients /\ jobs[id] \in Uppers
    BY <1>2, <1>3
  <2>. QED
    BY <1>2, <2>1, NthShareIs
<1>5. dead \subseteq DOMAIN m
  OBVIOUS
<1>. HIDE DEF share, dead
<1>6. /\ miner' = [i \in DOMAIN m \ dead |-> share[i]]
      /\ pendrange' = [i \in dead |-> share[i]]
      /\ minerfail' = minerfail + Cardinality(dead)
  <2>1. miner' = Restrict(share, DOMAIN m \ dead)
    BY <1>1 DEF share
  <2>2. pendrange' = [i \in DOMAIN pendrange \cup dead |->
                        IF i \in dead THEN share[i] ELSE pendrange[i]]
    BY <1>1 DEF share
  <2>. QED
    BY <1>1, <2>1, <2>2, ZenonT(60) DEF Restrict
<1>7. minerfail = 0
  BY FS_EmptySet DEF Pool
<1>8. /\ DOMAIN miner' = DOMAIN m \ dead /\ DOMAIN pendrange' = dead
      /\ minerfail' = Cardinality(dead)
  BY <1>5, <1>6, <1>7, MinersFinite
<1>9. Pool(miner', pendrange', minerfail')
  BY <1>4, <1>5, <1>6, <1>8 DEF Pool
<1>10. Busy(miner') = DOMAIN miner'
  BY <1>4, <1>6, <1>8, ShareNotIdle DEF Busy
<1>11. Due(miner', pendrange') = Cardinality(DOMAIN m)
  <2>1. (DOMAIN m \ dead) \cup dead = DOMAIN m
    BY <1>5
  <2>2. Cardinality((DOMAIN m \ dead) \cup dead)
          = Cardinality(DOMAIN m \ dead) + Cardinality(dead)
    BY <1>5, CardDisjoint
  <2>. QED
    BY <1>8, <1>10, <2>1, <2>2 DEF Due
<1>12. block' = Cardinality(DOMAIN m)
  BY <1>1 DEF ReportsDue
<1>13. DOMAIN miner' \cup DOMAIN pendrange' = DOMAIN m
  BY <1>5, <1>8
<1>. QED
  BY <1>1, <1>9, <1>10, <1>11, <1>12, <1>13

\* reassign: the shares of some lost miners, given, go to idle miners that can
\* be written to, each to another one; some of those that cannot are dropped.
Gives(m, ranges, given, dropped, to) ==
  LET idle == DOMAIN m \ Busy(m)
  IN  /\ given \subseteq DOMAIN ranges /\ dropped \subseteq idle \cap lost
      /\ to \in [given -> idle \ lost]
      /\ \A j, k \in given : to[j] = to[k] => j = k
      /\ miner' \in [DOMAIN m \ dropped -> Shares \cup {Idle}]
      /\ \A j \in given : miner'[to[j]] = ranges[j]
      /\ \A i \in DOMAIN m \ dropped :
           (\A j \in given : to[j] # i) => miner'[i] = m[i]
      /\ pendrange' = [i \in DOMAIN ranges \ given |-> ranges[i]]
      /\ minerfail' = Cardinality(DOMAIN ranges) - Cardinality(given)
      /\ work' = [i \in Miners |-> IF \E j \in given : to[j] = i
                                     THEN Append(work[i], miner'[i])
                                     ELSE work[i]]
      /\ given # DOMAIN ranges =>
           /\ Cardinality(given) = Cardinality(idle \ lost)
           /\ dropped = idle \cap lost

\* reassign: what both its loops leave is such a gift.
LEMMA ReassignGives ==
  ASSUME NEW m, NEW ranges, NEW fails, Pool(m, ranges, fails),
         Reassign(m, ranges, fails)
  PROVE  \E given, dropped, to : Gives(m, ranges, given, dropped, to)
<1>. DEFINE idle  == DOMAIN m \ Busy(m)
            alive == Reachable(idle)
<1>1. PICK given \in SUBSET DOMAIN ranges,
           dropped \in SUBSET (idle \ alive) :
        /\ given # DOMAIN ranges =>
             Cardinality(given) = Cardinality(alive) /\ dropped = idle \ alive
        /\ \E to \in Injection(given, alive) :
             LET share == [i \in Range(to) |->
                             ranges[CHOOSE j \in given : to[j] = i]]
             IN  /\ miner' = [i \in DOMAIN m \ dropped |->
                               IF i \in Range(to) THEN share[i] ELSE m[i]]
                 /\ work' = Sent(share)
        /\ pendrange' = Restrict(ranges, DOMAIN ranges \ given)
        /\ minerfail' = fails - Cardinality(given)
  BY DEF Reassign
<1>2. PICK to \in Injection(given, alive) :
        LET share == [i \in Range(to) |->
                        ranges[CHOOSE j \in given : to[j] = i]]
        IN  /\ miner' = [i \in DOMAIN m \ dropped |->
                          IF i \in Range(to) THEN share[i] ELSE m[i]]
            /\ work' = Sent(share)
  BY <1>1
<1>. DEFINE share == [i \in Range(to) |->
                        ranges[CHOOSE j \in given : to[j] = i]]
<1>3. /\ miner' = [i \in DOMAIN m \ dropped |->
                    IF i \in Range(to) THEN share[i] ELSE m[i]]
      /\ work' = Sent(share)
  BY <1>2
<1>4. /\ to \in [given -> alive]
      /\ \A j, k \in given : to[j] = to[k] => j = k
  BY DEF Injection, IsInjective
<1>5. alive = idle \ lost /\ idle \ alive = idle \cap lost
  BY DEF Reachable
<1>6. Range(to) = {to[j] : j \in given}
  BY <1>4 DEF Range
<1>7. \A j \in given : (CHOOSE k \in given : to[k] = to[j]) = j
  BY <1>4
<1>8. \A j \in given : to[j] \in Range(to) /\ share[to[j]] = ranges[j]
  BY <1>6, <1>7
<1>9. DOMAIN share = Range(to)
  OBVIOUS
<1>. HIDE DEF share
<1>10. \A j \in given : to[j] \in DOMAIN m \ dropped
  BY <1>4, <1>5
<1>11. \A j \in given : miner'[to[j]] = ranges[j]
  BY <1>3, <1>8, <1>10
<1>12. \A i \in DOMAIN m \ dropped :
         (\A j \in given : to[j] # i) => miner'[i] = m[i]
  BY <1>3, <1>6
<1>13. miner' \in [DOMAIN m \ dropped -> Shares \cup {Idle}]
  <2>1. \A i \in DOMAIN m \ dropped : miner'[i] \in Shares \cup {Idle}
    <3>. SUFFICES ASSUME NEW i \in DOMAIN m \ dropped
                  PROVE  miner'[i] \in Shares \cup {Idle}
      OBVIOUS
    <3>1. CASE \A j \in given : to[j] # i
      BY <1>12, <3>1 DEF Pool
    <3>2. CASE \E j \in given : to[j] = i
      BY <1>11, <3>2 DEF Pool
    <3>. QED
      BY <3>1, <3>2
  <2>2. miner' = [i \in DOMAIN m \ dropped |-> miner'[i]]
    BY <1>3
  <2>. QED
    BY <2>1, <2>2
<1>14. work' = [i \in Miners |-> IF \E j \in given : to[j] = i
                                   THEN Append(work[i], miner'[i])
                                   ELSE work[i]]
  <2>1. ASSUME NEW i \in Miners
        PROVE  /\ i \in Range(to) <=> \E j \in given : to[j] = i
               /\ i \in Range(to) => share[i] = miner'[i]
    BY <1>6, <1>8, <1>11
  <2>2. Sent(share) = [i \in Miners |-> IF \E j \in given : to[j] = i
                                          THEN Append(work[i], miner'[i])
                                          ELSE work[i]]
    BY <1>9, <2>1 DEF Sent
  <2>. QED
    BY <1>3, <2>2
<1>15. pendrange' = [i \in DOMAIN ranges \ given |-> ranges[i]]
  BY <1>1 DEF Restrict
<1>16. minerfail' = Cardinality(DOMAIN ranges) - Cardinality(given)
  BY <1>1 DEF Pool
<1>17. given # DOMAIN ranges =>
         /\ Cardinality(given) = Cardinality(idle \ lost)
         /\ dropped = idle \cap lost
  BY <1>1, <1>5
<1>18. given \subseteq DOMAIN ranges /\ dropped \subseteq idle \cap lost
  BY <1>1, <1>5
<1>19. to \in [given -> idle \ lost]
  BY <1>4, <1>5
<1>20. Gives(m, ranges, given, dropped, to)
  BY <1>4, <1>11, <1>12, <1>13, <1>14, <1>15, <1>16, <1>17, <1>18, <1>19,
     Zenon DEF Gives
<1>. QED
  BY <1>20

\* The miners that take the shares given.
Takers(given, to) == {to[j] : j \in given}

\* reassign loses no share, and leaves none waiting while a miner is idle: a
\* share that waits means that all the idle miners were used up.
LEMMA GivesIs ==
  ASSUME NEW m, NEW ranges, NEW fails, Pool(m, ranges, fails),
         NEW given, NEW dropped, NEW to, Gives(m, ranges, given, dropped, to)
  PROVE  /\ Pool(miner', pendrange', minerfail')
         /\ Due(miner', pendrange') = Due(m, ranges)
         /\ NoneWaits(miner', pendrange')
         /\ DOMAIN miner' \subseteq DOMAIN m
         /\ DOMAIN pendrange' = DOMAIN ranges \ given
         /\ Busy(miner') = Busy(m) \cup Takers(given, to)
<1>. DEFINE idle  == DOMAIN m \ Busy(m)
            image == {to[j] : j \in given}
<1>1. /\ given \subseteq DOMAIN ranges /\ dropped \subseteq idle \cap lost
      /\ to \in [given -> idle \ lost]
      /\ \A j, k \in given : to[j] = to[k] => j = k
      /\ miner' \in [DOMAIN m \ dropped -> Shares \cup {Idle}]
      /\ \A j \in given : miner'[to[j]] = ranges[j]
      /\ \A i \in DOMAIN m \ dropped :
           (\A j \in given : to[j] # i) => miner'[i] = m[i]
      /\ pendrange' = [i \in DOMAIN ranges \ given |-> ranges[i]]
      /\ minerfail' = Cardinality(DOMAIN ranges) - Cardinality(given)
      /\ given # DOMAIN ranges =>
           /\ Cardinality(given) = Cardinality(idle \ lost)
           /\ dropped = idle \cap lost
  BY Zenon DEF Gives
<1>2. /\ DOMAIN miner' = DOMAIN m \ dropped
      /\ DOMAIN pendrange' = DOMAIN ranges \ given
  BY <1>1
<1>3. /\ DOMAIN m \subseteq Miners /\ DOMAIN ranges \subseteq Miners
      /\ DOMAIN m \cap DOMAIN ranges = {}
      /\ ranges \in [DOMAIN ranges -> Shares]
      /\ fails = Cardinality(DOMAIN ranges)
  BY DEF Pool
<1>4. Busy(m) \subseteq DOMAIN m /\ image \subseteq idle \ lost
  BY <1>1 DEF Busy
<1>5. Busy(miner') = Busy(m) \cup image
  <2>1. ASSUME NEW i \in DOMAIN miner'
        PROVE  miner'[i] # Idle <=> i \in Busy(m) \/ i \in image
    <3>1. CASE i \in image
      <4>1. PICK j \in given : i = to[j]
        BY <3>1
      <4>2. miner'[i] \in Shares
        BY <1>1, <1>3, <4>1
      <4>. QED
        BY <3>1, <4>2, ShareNotIdle
    <3>2. CASE i \notin image
      <4>1. miner'[i] = m[i] /\ i \in DOMAIN m
        BY <1>1, <1>2, <2>1, <3>2
      <4>. QED
        BY <3>2, <4>1 DEF Busy
    <3>. QED
      BY <3>1, <3>2
  <2>2. Busy(m) \cup image \subseteq DOMAIN miner'
    BY <1>1, <1>2, <1>4
  <2>3. Busy(miner') = {i \in DOMAIN miner' : miner'[i] # Idle}
    BY DEF Busy
  <2>. HIDE DEF image
  <2>. QED
    BY <2>1, <2>2, <2>3
<1>6. Cardinality(image) = Cardinality(given)
  <2>1. to \in Bijection(given, image)
    BY <1>1 DEF Bijection, Injection, Surjection, IsInjective
  <2>2. IsFiniteSet(given)
    BY <1>1, <1>3, MinersFinite
  <2>. QED
    BY <2>1, <2>2, FS_Bijection DEF ExistsBijection
<1>. HIDE DEF image
<1>7. /\ Cardinality(Busy(m) \cup image)
           = Cardinality(Busy(m)) + Cardinality(image)
      /\ Cardinality((DOMAIN ranges \ given) \cup given)
           = Cardinality(DOMAIN ranges \ given) + Cardinality(given)
  BY <1>1, <1>3, <1>4, CardDisjoint
<1>8. (DOMAIN ranges \ given) \cup given = DOMAIN ranges
  BY <1>1
<1>9. /\ Cardinality(Busy(m)) \in Nat /\ Cardinality(given) \in Nat
      /\ Cardinality(DOMAIN ranges \ given) \in Nat
  <2>1. /\ Busy(m) \subseteq Miners /\ given \subseteq Miners
        /\ DOMAIN ranges \ given \subseteq Miners
    BY <1>1, <1>3, <1>4
  <2>. QED
    BY <2>1, MinersFinite
<1>10. Due(miner', pendrange') = Due(m, ranges)
  BY <1>2, <1>5, <1>6, <1>7, <1>8, <1>9 DEF Due
<1>11. minerfail' = Cardinality(DOMAIN pendrange')
  BY <1>1, <1>2, <1>7, <1>8, <1>9
<1>12. Pool(miner', pendrange', minerfail')
  <2>1. pendrange' \in [DOMAIN ranges \ given -> Shares]
    BY <1>1, <1>3
  <2>2. /\ DOMAIN miner' \subseteq Miners /\ DOMAIN pendrange' \subseteq Miners
        /\ DOMAIN miner' \cap DOMAIN pendrange' = {}
    BY <1>2, <1>3
  <2>. QED
    BY <1>1, <1>2, <1>11, <2>1, <2>2, Zenon DEF Pool
<1>13. ASSUME pendrange' # <<>> PROVE Busy(miner') = DOMAIN miner'
  <2>1. given # DOMAIN ranges
    BY <1>1, <1>13
  <2>2. Cardinality(image) = Cardinality(idle \ lost)
        /\ dropped = idle \cap lost
    BY <1>1, <1>6, <2>1
  <2>3. IsFiniteSet(idle \ lost)
    BY <1>3, MinersFinite
  <2>4. image = idle \ lost
    BY <1>4, <2>2, <2>3, FS_Subset
  <2>. QED
    BY <1>2, <1>4, <1>5, <2>2, <2>4
<1>14. image = Takers(given, to)
  BY DEF image, Takers
<1>. QED
  BY <1>2, <1>5, <1>10, <1>12, <1>13, <1>14 DEF NoneWaits
-----------------------------------------------------------------------------
(***************************************************************************)
(* The inductive invariant.                                                *)
(***************************************************************************)

\* The jobs that wait have the numbers after that of the running one, up to
\* the next to be given.
QueueInv ==
  /\ reqct \in Nat \ {0} /\ currid \in Nat \ {0}
  /\ currid <= reqct /\ (run => currid < reqct)
  /\ pendjobs \in [DOMAIN pendjobs -> Uppers]
  /\ pendclients \in [DOMAIN pendjobs -> Clients]
  /\ DOMAIN pendjobs = (IF run THEN currid + 1 ELSE currid) .. reqct - 1

\* No miner ever waits to be put into miner.
PoolInv == Pool(miner, pendrange, minerfail) /\ pendminer = {}

\* block is what the two maps hold, and a job runs until its result is sent.
CountInv ==
  /\ block = Due(miner, pendrange)
  /\ run <=> block > 0 \/ waitans
  /\ waitans => block = 0 /\ DOMAIN miner # {}

\* A miner joins once: it has not been in the pool when its Join is read.
JoinInv ==
  /\ DOMAIN miner \cup DOMAIN pendrange \subseteq started
  /\ \A k \in DOMAIN inbox : inbox[k].type = "join" =>
       /\ inbox[k].id \in Miners \cap started
       /\ inbox[k].id \notin DOMAIN miner \cup DOMAIN pendrange
       /\ \A l \in DOMAIN inbox :
            inbox[l].type = "join" /\ inbox[l].id = inbox[k].id => l = k

\* Both parts of WorkConserving.
ConserveInv ==
  /\ NoneWaits(miner, pendrange)
  /\ ~ run /\ DOMAIN miner # {} => pendjobs = <<>>

\* What the messages, the results and the shares are made of.
TypeInv ==
  /\ run \in BOOLEAN /\ waitans \in BOOLEAN /\ jobgiveup \in BOOLEAN
  /\ panicked = FALSE
  /\ curclient \in Clients \cup {1}
  /\ ans1 \in Hashes /\ ans2 \in Hashes
  /\ inbox \in Seq(Messages) /\ work \in [Miners -> Seq(Shares)]
  /\ started \subseteq Miners \cup Clients
  /\ crashed \subseteq Miners \cup Clients
  /\ lost \subseteq Miners \cup Clients
  /\ answers \in [Clients -> Seq(Hashes \X Hashes)]

SchedInv ==
  TypeInv /\ QueueInv /\ PoolInv /\ CountInv /\ JoinInv /\ ConserveInv

-----------------------------------------------------------------------------
(***************************************************************************)
(* What a pass of the main loop does to the parts of the invariant.        *)
(***************************************************************************)

\* A message of each type has the fields of that type.
LEMMA MessageIs ==
  ASSUME NEW msg \in Messages
  PROVE  /\ msg.type \in {"join", "lost", "request", "result"}
         /\ msg.id \in Miners \cup Clients
         /\ msg.type = "request" => msg.id \in Clients /\ msg.upper \in Uppers
         /\ msg.type = "result" => /\ msg.id \in Miners
                                   /\ msg.hash \in Hashes
                                   /\ msg.nonce \in Hashes
  BY DEF Messages

\* A Join that is read comes from a miner that is new to the pool; what is
\* left in inbox keeps JoinInv when only that miner enters the pool.
LEMMA ReadIs ==
  ASSUME SchedInv, NEW type, Read(type)
  PROVE  /\ ~ waitans /\ Head(inbox) \in Messages /\ Head(inbox).type = type
         /\ inbox' \in Seq(Messages)
         /\ UNCHANGED <<currid, started, crashed, lost, answers>>
         /\ type = "join" => /\ Head(inbox).id \in Miners
                             /\ Head(inbox).id \notin DOMAIN miner
                             /\ Head(inbox).id \notin DOMAIN pendrange
         /\ DOMAIN miner' \cup DOMAIN pendrange' \subseteq
              DOMAIN miner \cup DOMAIN pendrange
              \cup (IF type = "join" THEN {Head(inbox).id} ELSE {})
            => JoinInv'
<1>1. /\ ~ waitans /\ inbox # <<>> /\ Head(inbox).type = type
      /\ inbox' = Tail(inbox)
      /\ UNCHANGED <<currid, started, crashed, lost, answers>>
  BY DEF Read, envVars
<1>2. inbox \in Seq(Messages) /\ JoinInv
  BY DEF SchedInv, TypeInv
<1>3. /\ Head(inbox) \in Messages /\ inbox' \in Seq(Messages)
      /\ Head(inbox) = inbox[1] /\ 1 \in DOMAIN inbox
  BY <1>1, <1>2
<1>4. type = "join" => /\ Head(inbox).id \in Miners \cap started
                       /\ Head(inbox).id \notin DOMAIN miner
                       /\ Head(inbox).id \notin DOMAIN pendrange
  BY <1>1, <1>2, <1>3 DEF JoinInv
<1>5. \A k \in DOMAIN inbox' : /\ k \in Nat /\ k + 1 \in DOMAIN inbox
                               /\ inbox'[k] = inbox[k + 1]
  BY <1>1, <1>2
<1>6. ASSUME DOMAIN miner' \cup DOMAIN pendrange' \subseteq
               DOMAIN miner \cup DOMAIN pendrange
               \cup (IF type = "join" THEN {Head(inbox).id} ELSE {})
      PROVE  JoinInv'
  <2>1. DOMAIN miner' \cup DOMAIN pendrange' \subseteq started'
    BY <1>1, <1>2, <1>4, <1>6 DEF JoinInv
  <2>2. ASSUME NEW k \in DOMAIN inbox', inbox'[k].type = "join"
        PROVE  /\ inbox'[k].id \in Miners \cap started'
               /\ inbox'[k].id \notin DOMAIN miner' \cup DOMAIN pendrange'
               /\ \A l \in DOMAIN inbox' :
                    inbox'[l].type = "join" /\ inbox'[l].id = inbox'[k].id
                      => l = k
    <3>1. /\ k \in Nat /\ k + 1 \in DOMAIN inbox
          /\ inbox'[k] = inbox[k + 1]
      BY <1>5
    <3>2. /\ inbox[k + 1].id \in Miners \cap started
          /\ inbox[k + 1].id \notin DOMAIN miner \cup DOMAIN pendrange
          /\ \A l \in DOMAIN inbox :
               inbox[l].type = "join" /\ inbox[l].id = inbox[k + 1].id
                 => l = k + 1
      BY <1>2, <2>2, <3>1 DEF JoinInv
    <3>3. type = "join" => Head(inbox).id # inbox[k + 1].id
      <4>1. 1 # k + 1
        BY <2>2, <1>2, <1>1
      <4>. QED
        BY <1>1, <1>3, <3>2, <4>1
    <3>4. ASSUME NEW l \in DOMAIN inbox', inbox'[l].type = "join",
                 inbox'[l].id = inbox'[k].id
          PROVE  l = k
      <4>1. l \in Nat /\ l + 1 \in DOMAIN inbox /\ inbox'[l] = inbox[l + 1]
        BY <1>5
      <4>2. l + 1 = k + 1
        BY <3>1, <3>2, <3>4, <4>1
      <4>. QED
        BY <3>1, <4>1, <4>2
    <3>. QED
      BY <1>1, <1>6, <3>1, <3>2, <3>3, <3>4
  <2>. QED
    BY <2>1, <2>2, Zenon DEF JoinInv
<1>. QED
  BY <1>1, <1>3, <1>4, <1>6

\* With no miner waiting, resize changes nothing.
LEMMA ResizedIs ==
  ASSUME NEW m, m \in [DOMAIN m -> Shares \cup {Idle}]
  PROVE  Resized(m, {}) = m
  BY DEF Resized

\* A miner that joins is idle, and the pool is as before for the others.
LEMMA JoinedIs ==
  ASSUME NEW m, NEW ranges, NEW fails, Pool(m, ranges, fails),
         NEW id \in Miners, id \notin DOMAIN m, id \notin DOMAIN ranges
  PROVE  /\ Pool(Resized(m, {id}), ranges, fails)
         /\ DOMAIN Resized(m, {id}) = DOMAIN m \cup {id}
         /\ Busy(Resized(m, {id})) = Busy(m)
         /\ Due(Resized(m, {id}), ranges) = Due(m, ranges)
<1>1. /\ m \in [DOMAIN m -> Shares \cup {Idle}]
      /\ DOMAIN m \subseteq Miners
      /\ ranges \in [DOMAIN ranges -> Shares] /\ DOMAIN ranges \subseteq Miners
      /\ DOMAIN m \cap DOMAIN ranges = {}
      /\ fails = Cardinality(DOMAIN ranges)
  BY DEF Pool
<1>. DEFINE j == Resized(m, {id})
<1>2. /\ DOMAIN j = DOMAIN m \cup {id}
      /\ \A i \in DOMAIN m : j[i] = m[i]
      /\ j[id] = Idle
      /\ j \in [DOMAIN m \cup {id} -> Shares \cup {Idle}]
  BY <1>1 DEF Resized
<1>. HIDE DEF j
<1>3. Busy(j) = Busy(m)
  BY <1>1, <1>2 DEF Busy
<1>4. Pool(j, ranges, fails)
  BY <1>1, <1>2 DEF Pool
<1>. QED
  BY <1>2, <1>3, <1>4 DEF Due, j

\* What Write appends to what is on its way to the miners.
LEMMA SentIs ==
  ASSUME NEW f, f \in [DOMAIN f -> Shares], work \in [Miners -> Seq(Shares)]
  PROVE  Sent(f) \in [Miners -> Seq(Shares)]
<1>. SUFFICES ASSUME NEW i \in Miners
              PROVE  (IF i \in DOMAIN f THEN Append(work[i], f[i])
                        ELSE work[i]) \in Seq(Shares)
  BY DEF Sent
<1>1. work[i] \in Seq(Shares)
  OBVIOUS
<1>2. ASSUME i \in DOMAIN f PROVE Append(work[i], f[i]) \in Seq(Shares)
  <2>1. f[i] \in Shares
    BY <1>2
  <2>. QED
    BY <1>1, <2>1, AppendProperties
<1>. QED
  BY <1>1, <1>2

\* reassign, without its witnesses.
LEMMA ReassignIs ==
  ASSUME NEW m, NEW ranges, NEW fails, Pool(m, ranges, fails),
         work \in [Miners -> Seq(Shares)],
         Reassign(m, ranges, fails)
  PROVE  /\ Pool(miner', pendrange', minerfail')
         /\ Due(miner', pendrange') = Due(m, ranges)
         /\ NoneWaits(miner', pendrange')
         /\ DOMAIN miner' \subseteq DOMAIN m
         /\ DOMAIN pendrange' \subseteq DOMAIN ranges
         /\ work' \in [Miners -> Seq(Shares)]
<1>1. PICK given, dropped, to : Gives(m, ranges, given, dropped, to)
  BY ReassignGives
<1>2. /\ Pool(miner', pendrange', minerfail')
      /\ Due(miner', pendrange') = Due(m, ranges)
      /\ NoneWaits(miner', pendrange')
      /\ DOMAIN miner' \subseteq DOMAIN m
      /\ DOMAIN pendrange' = DOMAIN ranges \ given
  BY <1>1, GivesIs, ZenonT(60)
<1>3. /\ given \subseteq DOMAIN ranges
      /\ \A j \in given : miner'[to[j]] = ranges[j]
      /\ work' = [i \in Miners |-> IF \E j \in given : to[j] = i
                                     THEN Append(work[i], miner'[i])
                                     ELSE work[i]]
  BY <1>1, Zenon DEF Gives
<1>4. ASSUME NEW i \in Miners
      PROVE  (IF \E j \in given : to[j] = i THEN Append(work[i], miner'[i])
                ELSE work[i]) \in Seq(Shares)
  <2>1. work[i] \in Seq(Shares)
    OBVIOUS
  <2>2. ASSUME NEW j \in given, to[j] = i
        PROVE  Append(work[i], miner'[i]) \in Seq(Shares)
    <3>1. miner'[i] \in Shares
      BY <1>3, <2>2 DEF Pool
    <3>. QED
      BY <2>1, <3>1, AppendProperties
  <2>. QED
    BY <2>1, <2>2
<1>. QED
  BY <1>2, <1>3, <1>4

\* assign starts the job with the number that currid gets.
LEMMA AssignStep ==
  ASSUME SchedInv,
         NEW m, Pool(m, pendrange, minerfail), DOMAIN m # {},
         NEW jobs, jobs \in [DOMAIN jobs -> Uppers],
         NEW clients, clients \in [DOMAIN jobs -> Clients],
         NEW id \in Nat \ {0}, DOMAIN jobs = id .. reqct' - 1,
         id < reqct', reqct' \in Nat, currid' = id,
         DOMAIN pendrange = {}, waitans' = FALSE, pendminer' = {},
         Assign(m, jobs, clients, id)
  PROVE  /\ QueueInv' /\ PoolInv' /\ CountInv' /\ ConserveInv'
         /\ DOMAIN miner' \cup DOMAIN pendrange' = DOMAIN m
         /\ run' = TRUE /\ jobgiveup' = FALSE /\ panicked' = FALSE
         /\ curclient' \in Clients /\ ans1' \in Hashes /\ ans2' \in Hashes
         /\ work' \in [Miners -> Seq(Shares)]
<1>1. /\ m \in [DOMAIN m -> Shares \cup {Idle}] /\ DOMAIN m \subseteq Miners
      /\ Pool(miner, pendrange, minerfail) /\ id \in DOMAIN jobs
      /\ work \in [Miners -> Seq(Shares)] /\ panicked = FALSE
  BY DEF SchedInv, PoolInv, Pool, TypeInv
<1>2. /\ Pool(miner', pendrange', minerfail')
      /\ Due(miner', pendrange') = Cardinality(DOMAIN m)
      /\ Busy(miner') = DOMAIN miner'
      /\ DOMAIN miner' \cup DOMAIN pendrange' = DOMAIN m
      /\ block' = Cardinality(DOMAIN m)
      /\ work' = Sent(miner')
  BY <1>1, AssignIs
<1>8. /\ pendjobs' = Restrict(jobs, DOMAIN jobs \ {id})
      /\ pendclients' = Restrict(clients, DOMAIN clients \ {id})
      /\ curclient' = clients[id] /\ ans1' = MaxUint /\ ans2' = jobs[id]
      /\ jobgiveup' = FALSE /\ run' = TRUE /\ UNCHANGED panicked
  BY <1>1 DEF Assign
<1>3. QueueInv'
  <2>1. /\ pendjobs' = [k \in DOMAIN jobs \ {id} |-> jobs[k]]
        /\ pendclients' = [k \in DOMAIN jobs \ {id} |-> clients[k]]
    BY <1>8 DEF Restrict
  <2>2. /\ pendjobs' \in [DOMAIN jobs \ {id} -> Uppers]
        /\ pendclients' \in [DOMAIN jobs \ {id} -> Clients]
    BY <2>1
  <2>3. DOMAIN jobs \ {id} = id + 1 .. reqct' - 1
    OBVIOUS
  <2>4. /\ reqct' \in Nat \ {0} /\ currid' \in Nat \ {0}
        /\ currid' <= reqct' /\ (run' => currid' < reqct')
    BY <1>8
  <2>5. DOMAIN pendjobs' = DOMAIN jobs \ {id}
    BY <2>2
  <2>6. /\ pendjobs' \in [DOMAIN pendjobs' -> Uppers]
        /\ pendclients' \in [DOMAIN pendjobs' -> Clients]
        /\ DOMAIN pendjobs' =
             (IF run' THEN currid' + 1 ELSE currid') .. reqct' - 1
    BY <1>8, <2>2, <2>3, <2>5
  <2>. QED
    BY <2>4, <2>6 DEF QueueInv
<1>4. CountInv'
  <2>1. Cardinality(DOMAIN m) \in Nat /\ Cardinality(DOMAIN m) > 0
    <3>1. Cardinality(DOMAIN m) \in Nat
      BY <1>1, MinersFinite
    <3>2. Cardinality(DOMAIN m) # 0
      BY <1>1, CardEmpty
    <3>. QED
      BY <3>1, <3>2
  <2>. QED
    BY <1>2, <1>8, <2>1 DEF CountInv
<1>5. ConserveInv'
  BY <1>2, <1>8 DEF ConserveInv, NoneWaits
<1>6. work' \in [Miners -> Seq(Shares)]
  <2>1. miner' \in [DOMAIN miner' -> Shares]
    <3>1. \A i \in DOMAIN miner' : miner'[i] # Idle
      BY <1>2 DEF Busy
    <3>. QED
      BY <1>2, <3>1 DEF Pool
  <2>. QED
    BY <1>1, <1>2, <2>1, SentIs
<1>7. curclient' \in Clients /\ ans1' \in Hashes /\ ans2' \in Hashes
  BY <1>1, <1>8 DEF Hashes
<1>. QED
  BY <1>1, <1>2, <1>3, <1>4, <1>5, <1>6, <1>7, <1>8 DEF PoolInv

\* When no job runs, and when the last share was reported, no share is held.
LEMMA NothingDue ==
  ASSUME SchedInv, ~ run \/ waitans
  PROVE  Busy(miner) = {} /\ DOMAIN pendrange = {}
<1>1. /\ DOMAIN miner \subseteq Miners /\ DOMAIN pendrange \subseteq Miners
      /\ block = Due(miner, pendrange) /\ (run <=> block > 0 \/ waitans)
      /\ waitans => block = 0
  BY DEF SchedInv, PoolInv, Pool, CountInv
<1>2. Busy(miner) \subseteq Miners
  BY <1>1 DEF Busy
<1>3. /\ Cardinality(Busy(miner)) \in Nat
      /\ Cardinality(DOMAIN pendrange) \in Nat
  BY <1>1, <1>2, MinersFinite
<1>4. Cardinality(Busy(miner)) = 0 /\ Cardinality(DOMAIN pendrange) = 0
  BY <1>1, <1>3 DEF Due
<1>. QED
  BY <1>1, <1>2, <1>4, CardEmpty

\* case <-yy.waitans: the job that ended is not restarted, and the next one
\* is there if another number was given.
LEMMA WaitAnsKeeps == ASSUME SchedInv, WaitAns PROVE SchedInv'
<1>1. /\ waitans /\ waitans' = FALSE
      /\ answers' = IF jobgiveup \/ curclient \in lost
                      THEN answers
                      ELSE [answers EXCEPT ![curclient] =
                              Append(@, <<ans1, ans2>>)]
      /\ currid' = currid + 1
      /\ UNCHANGED <<reqct, inbox, started, crashed, lost>>
  BY DEF WaitAns, envVars
<1>2. /\ TypeInv /\ QueueInv /\ PoolInv /\ CountInv /\ JoinInv /\ ConserveInv
  BY DEF SchedInv
<1>3. /\ Busy(miner) = {} /\ DOMAIN pendrange = {} /\ run
      /\ DOMAIN miner # {}
  BY <1>1, <1>2, NothingDue DEF CountInv
<1>4. answers' \in [Clients -> Seq(Hashes \X Hashes)]
  <2>1. /\ answers \in [Clients -> Seq(Hashes \X Hashes)]
        /\ <<ans1, ans2>> \in Hashes \X Hashes
    BY <1>2 DEF TypeInv
  <2>2. ASSUME curclient \in Clients
        PROVE  Append(answers[curclient], <<ans1, ans2>>)
                 \in Seq(Hashes \X Hashes)
    <3>1. answers[curclient] \in Seq(Hashes \X Hashes)
      BY <2>1, <2>2
    <3>. QED
      BY <2>1, <3>1, AppendProperties
  <2>3. CASE jobgiveup \/ curclient \in lost
    BY <1>1, <2>1, <2>3
  <2>4. CASE ~ (jobgiveup \/ curclient \in lost)
    <3>1. answers' = [answers EXCEPT ![curclient] =
                        Append(answers[curclient], <<ans1, ans2>>)]
      BY <1>1, <2>4
    <3>. QED
      BY <2>1, <2>2, <3>1
  <2>. QED
    BY <2>3, <2>4
<1>5. CASE DOMAIN pendjobs # {} /\ currid + 1 < reqct
  <2>1. /\ Assign(Resized(miner, pendminer), pendjobs, pendclients,
                  currid + 1)
        /\ pendminer' = {}
    BY <1>5 DEF WaitAns
  <2>2. Resized(miner, pendminer) = miner
    BY <1>2, ResizedIs DEF PoolInv, Pool
  <2>3. Pool(miner, pendrange, minerfail)
    BY <1>2 DEF PoolInv
  <2>4. /\ pendjobs \in [DOMAIN pendjobs -> Uppers]
        /\ pendclients \in [DOMAIN pendjobs -> Clients]
        /\ currid + 1 \in Nat \ {0} /\ reqct' \in Nat
        /\ currid + 1 < reqct'
        /\ DOMAIN pendjobs = currid + 1 .. reqct' - 1
    BY <1>1, <1>2, <1>3, <1>5 DEF QueueInv
  <2>5. /\ QueueInv' /\ PoolInv' /\ CountInv' /\ ConserveInv'
        /\ DOMAIN miner' \cup DOMAIN pendrange' = DOMAIN miner
        /\ run' = TRUE /\ jobgiveup' = FALSE /\ panicked' = FALSE
        /\ curclient' \in Clients /\ ans1' \in Hashes /\ ans2' \in Hashes
        /\ work' \in [Miners -> Seq(Shares)]
    BY <1>1, <1>3, <2>1, <2>2, <2>3, <2>4, AssignStep
  <2>6. TypeInv'
    BY <1>1, <1>2, <1>4, <2>5 DEF TypeInv
  <2>7. JoinInv'
    BY <1>1, <1>2, <2>5 DEF JoinInv
  <2>. QED
    BY <2>5, <2>6, <2>7 DEF SchedInv
<1>6. CASE ~ (DOMAIN pendjobs # {} /\ currid + 1 < reqct)
  <2>1. /\ run' = FALSE
        /\ UNCHANGED <<pendjobs, pendclients, curclient, jobgiveup, block,
                       ans1, ans2, panicked, miner, pendminer, pendrange,
                       minerfail, work>>
    BY <1>6 DEF WaitAns, poolVars
  <2>2. TypeInv'
    BY <1>1, <1>2, <1>4, <2>1 DEF TypeInv
  <2>3. QueueInv' /\ DOMAIN pendjobs = {}
    BY <1>1, <1>2, <1>3, <1>6, <2>1 DEF QueueInv
  <2>4. PoolInv'
    BY <1>2, <2>1 DEF PoolInv
  <2>5. CountInv'
    BY <1>1, <1>2, <2>1 DEF CountInv
  <2>6. JoinInv'
    BY <1>1, <1>2, <2>1 DEF JoinInv
  <2>7. ConserveInv'
    <3>1. pendjobs = <<>>
      BY <1>2, <2>3 DEF QueueInv
    <3>. QED
      BY <1>2, <2>1, <3>1 DEF ConserveInv
  <2>. QED
    BY <2>2, <2>3, <2>4, <2>5, <2>6, <2>7 DEF SchedInv
<1>. QED
  BY <1>5, <1>6

\* A pass that reads a message keeps what neither it nor the pool changes.
LEMMA ReadKeepsTypes ==
  ASSUME SchedInv, NEW type, Read(type),
         panicked' = FALSE, run' \in BOOLEAN, waitans' \in BOOLEAN,
         jobgiveup' \in BOOLEAN, curclient' \in Clients \cup {1},
         ans1' \in Hashes, ans2' \in Hashes,
         work' \in [Miners -> Seq(Shares)]
  PROVE  TypeInv'
<1>1. /\ inbox' \in Seq(Messages)
      /\ UNCHANGED <<started, crashed, lost, answers>>
  BY ReadIs
<1>. QED
  BY <1>1 DEF SchedInv, TypeInv

\* A pool without one of its miners.
LEMMA LeaverIs ==
  ASSUME NEW m, NEW ranges, NEW fails, Pool(m, ranges, fails),
         NEW id \in DOMAIN m
  PROVE  /\ Restrict(m, DOMAIN m \ {id})
              \in [DOMAIN m \ {id} -> Shares \cup {Idle}]
         /\ DOMAIN Restrict(m, DOMAIN m \ {id}) = DOMAIN m \ {id}
         /\ Busy(Restrict(m, DOMAIN m \ {id})) = Busy(m) \ {id}
         /\ Pool(Restrict(m, DOMAIN m \ {id}), ranges, fails)
<1>. DEFINE r == Restrict(m, DOMAIN m \ {id})
<1>1. /\ r = [i \in DOMAIN m \ {id} |-> m[i]]
      /\ m \in [DOMAIN m -> Shares \cup {Idle}]
  BY DEF Restrict, Pool
<1>. HIDE DEF r
<1>2. /\ r \in [DOMAIN m \ {id} -> Shares \cup {Idle}]
      /\ DOMAIN r = DOMAIN m \ {id}
      /\ \A i \in DOMAIN r : r[i] = m[i]
  BY <1>1
<1>3. Busy(r) = Busy(m) \ {id}
  BY <1>2 DEF Busy
<1>4. Pool(r, ranges, fails)
  BY <1>2 DEF Pool
<1>. QED
  BY <1>2, <1>3, <1>4 DEF r

\* A loss takes the miner out of the pool, and its share waits.
Without(m, id) == Restrict(m, DOMAIN m \ {id})
WithShareOf(m, ranges, id) ==
  [i \in DOMAIN ranges \cup {id} |-> IF i = id THEN m[id] ELSE ranges[i]]

\* The share of a busy miner that is lost waits: as many are due as before.
LEMMA ShareMoves ==
  ASSUME NEW m, NEW ranges, NEW fails, Pool(m, ranges, fails),
         NEW id \in Busy(m)
  PROVE  /\ Pool(Without(m, id), WithShareOf(m, ranges, id), fails + 1)
         /\ Due(Without(m, id), WithShareOf(m, ranges, id)) = Due(m, ranges)
         /\ DOMAIN Without(m, id) = DOMAIN m \ {id}
         /\ DOMAIN WithShareOf(m, ranges, id) = DOMAIN ranges \cup {id}
<1>. DEFINE left == Without(m, id)
            more == WithShareOf(m, ranges, id)
<1>1. /\ m \in [DOMAIN m -> Shares \cup {Idle}] /\ DOMAIN m \subseteq Miners
      /\ ranges \in [DOMAIN ranges -> Shares] /\ DOMAIN ranges \subseteq Miners
      /\ DOMAIN m \cap DOMAIN ranges = {}
      /\ fails = Cardinality(DOMAIN ranges)
  BY DEF Pool
<1>2. id \in DOMAIN m /\ m[id] \in Shares /\ id \in Miners
  BY <1>1 DEF Busy
<1>3. /\ left \in [DOMAIN m \ {id} -> Shares \cup {Idle}]
      /\ DOMAIN left = DOMAIN m \ {id} /\ Busy(left) = Busy(m) \ {id}
  BY <1>2, LeaverIs DEF Without
<1>4. /\ more \in [DOMAIN ranges \cup {id} -> Shares]
      /\ DOMAIN more = DOMAIN ranges \cup {id}
  BY <1>1, <1>2 DEF WithShareOf
<1>. HIDE DEF left, more
<1>5. Cardinality(DOMAIN more) = Cardinality(DOMAIN ranges) + 1
  <2>1. id \notin DOMAIN ranges /\ IsFiniteSet(DOMAIN ranges)
    BY <1>1, <1>2, MinersFinite
  <2>. QED
    BY <1>4, <2>1, FS_AddElement
<1>6. Cardinality(Busy(left)) = Cardinality(Busy(m)) - 1
  <2>1. IsFiniteSet(Busy(m))
    BY <1>1, MinersFinite DEF Busy
  <2>. QED
    BY <1>3, <2>1, FS_RemoveElement
<1>7. /\ Cardinality(Busy(m)) \in Nat
      /\ Cardinality(DOMAIN ranges) \in Nat
  <2>1. Busy(m) \subseteq Miners
    BY <1>1 DEF Busy
  <2>. QED
    BY <1>1, <2>1, MinersFinite
<1>8. Due(left, more) = Due(m, ranges)
  BY <1>5, <1>6, <1>7 DEF Due
<1>9. Pool(left, more, fails + 1)
  BY <1>1, <1>2, <1>3, <1>4, <1>5 DEF Pool
<1>. QED
  BY <1>3, <1>4, <1>8, <1>9 DEF left, more

\* A busy miner is lost: its share goes to an idle miner or waits.
LEMMA LostBusyKeeps == ASSUME SchedInv, LostBusyMiner PROVE SchedInv'
<1>. DEFINE id     == Head(inbox).id
            left   == Resized(Restrict(miner, DOMAIN miner \ {id}), pendminer)
            ranges == [i \in DOMAIN pendrange \cup {id} |->
                         IF i = id THEN miner[id] ELSE pendrange[i]]
<1>1. /\ Read("lost") /\ run /\ id \in Busy(miner) /\ pendminer' = {}
      /\ IF DOMAIN left # {}
           THEN Reassign(left, ranges, minerfail + 1)
           ELSE /\ miner' = left /\ pendrange' = ranges
                /\ minerfail' = minerfail + 1 /\ UNCHANGED work
      /\ UNCHANGED <<pendclients, pendjobs, reqct, curclient, run, waitans,
                     jobgiveup, block, ans1, ans2, panicked>>
  BY DEF LostBusyMiner, queueVars
<1>2. /\ TypeInv /\ QueueInv /\ PoolInv /\ CountInv /\ JoinInv /\ ConserveInv
  BY DEF SchedInv
<1>3. Pool(miner, pendrange, minerfail) /\ pendminer = {}
  BY <1>2 DEF PoolInv
<1>4. left = Restrict(miner, DOMAIN miner \ {id})
  <2>1. id \in DOMAIN miner
    BY <1>1 DEF Busy
  <2>. HIDE DEF id
  <2>2. /\ Restrict(miner, DOMAIN miner \ {id})
             \in [DOMAIN miner \ {id} -> Shares \cup {Idle}]
        /\ DOMAIN Restrict(miner, DOMAIN miner \ {id}) = DOMAIN miner \ {id}
    BY <1>3, <2>1, LeaverIs
  <2>3. Restrict(miner, DOMAIN miner \ {id})
          \in [DOMAIN Restrict(miner, DOMAIN miner \ {id})
                 -> Shares \cup {Idle}]
    BY <2>2
  <2>. QED
    BY <1>3, <2>3, ResizedIs
<1>. HIDE DEF left
<1>5. ranges = WithShareOf(miner, pendrange, id)
  BY DEF WithShareOf
<1>. HIDE DEF ranges, id
<1>6. /\ Pool(left, ranges, minerfail + 1)
      /\ Due(left, ranges) = Due(miner, pendrange)
      /\ DOMAIN left = DOMAIN miner \ {id}
      /\ DOMAIN ranges = DOMAIN pendrange \cup {id}
  <2>1. left = Without(miner, id)
    BY <1>4 DEF Without
  <2>2. id \in Busy(miner)
    BY <1>1
  <2>3. Pool(miner, pendrange, minerfail)
    BY <1>3
  <2>4. /\ Pool(Without(miner, id), WithShareOf(miner, pendrange, id),
                minerfail + 1)
        /\ Due(Without(miner, id), WithShareOf(miner, pendrange, id))
             = Due(miner, pendrange)
        /\ DOMAIN Without(miner, id) = DOMAIN miner \ {id}
        /\ DOMAIN WithShareOf(miner, pendrange, id)
             = DOMAIN pendrange \cup {id}
    BY <2>2, <2>3, ShareMoves, SMTT(30)
  <2>. QED
    BY <1>5, <2>1, <2>4
<1>7. work \in [Miners -> Seq(Shares)]
  BY <1>2 DEF TypeInv
<1>8. /\ Pool(miner', pendrange', minerfail')
      /\ Due(miner', pendrange') = Due(miner, pendrange)
      /\ NoneWaits(miner', pendrange')
      /\ DOMAIN miner' \subseteq DOMAIN miner
      /\ DOMAIN pendrange' \subseteq DOMAIN pendrange \cup {id}
      /\ work' \in [Miners -> Seq(Shares)]
  <2>1. CASE DOMAIN left # {}
    <3>1. Reassign(left, ranges, minerfail + 1)
      BY <1>1, <2>1
    <3>2. /\ Pool(miner', pendrange', minerfail')
          /\ Due(miner', pendrange') = Due(left, ranges)
          /\ NoneWaits(miner', pendrange')
          /\ DOMAIN miner' \subseteq DOMAIN left
          /\ DOMAIN pendrange' \subseteq DOMAIN ranges
          /\ work' \in [Miners -> Seq(Shares)]
      BY <1>6, <1>7, <3>1, ReassignIs
    <3>. QED
      BY <1>6, <3>2
  <2>2. CASE DOMAIN left = {}
    <3>1. /\ miner' = left /\ pendrange' = ranges
          /\ minerfail' = minerfail + 1 /\ UNCHANGED work
      BY <1>1, <2>2
    <3>2. NoneWaits(left, ranges)
      BY <2>2 DEF NoneWaits, Busy
    <3>. QED
      BY <1>6, <1>7, <3>1, <3>2
  <2>. QED
    BY <2>1, <2>2
<1>9. TypeInv'
  BY <1>1, <1>2, <1>8, ReadKeepsTypes DEF TypeInv
<1>10. UNCHANGED currid
  BY <1>1, ReadIs
<1>11. QueueInv' /\ PoolInv' /\ CountInv' /\ ConserveInv'
  <2>1. QueueInv'
    BY <1>1, <1>2, <1>10 DEF QueueInv
  <2>2. PoolInv'
    BY <1>1, <1>8 DEF PoolInv
  <2>3. ~ waitans /\ CountInv'
    BY <1>1, <1>2, <1>8, ReadIs DEF CountInv
  <2>4. ConserveInv'
    BY <1>1, <1>8 DEF ConserveInv
  <2>. QED
    BY <2>1, <2>2, <2>3, <2>4
<1>12. JoinInv'
  <2>1. id \in DOMAIN miner
    BY <1>1 DEF Busy
  <2>2. DOMAIN miner' \cup DOMAIN pendrange' \subseteq
          DOMAIN miner \cup DOMAIN pendrange
          \cup (IF "lost" = "join" THEN {Head(inbox).id} ELSE {})
    BY <1>8, <2>1
  <2>. QED
    BY <1>1, <2>2, ReadIs
<1>. QED
  BY <1>9, <1>11, <1>12 DEF SchedInv

\* A miner is lost while no job runs.
LEMMA LostFreeKeeps == ASSUME SchedInv, LostFreeMiner PROVE SchedInv'
<1>. DEFINE id == Head(inbox).id
<1>1. /\ Read("lost") /\ ~ run /\ id \in DOMAIN miner
      /\ miner' = Restrict(miner, DOMAIN miner \ {id})
      /\ UNCHANGED <<pendclients, pendjobs, reqct, curclient, run, waitans,
                     jobgiveup, block, ans1, ans2, panicked, pendminer,
                     pendrange, minerfail, work>>
  BY DEF LostFreeMiner, queueVars
<1>2. /\ TypeInv /\ QueueInv /\ PoolInv /\ CountInv /\ JoinInv /\ ConserveInv
  BY DEF SchedInv
<1>3. Busy(miner) = {} /\ DOMAIN pendrange = {}
  BY <1>1, NothingDue
<1>4. UNCHANGED currid /\ ~ waitans
  BY <1>1, ReadIs
<1>. HIDE DEF id
<1>5. /\ DOMAIN miner' = DOMAIN miner \ {id} /\ Busy(miner') = {}
      /\ Pool(miner', pendrange, minerfail)
  BY <1>1, <1>2, <1>3, LeaverIs DEF PoolInv
<1>6. TypeInv'
  BY <1>1, <1>2, ReadKeepsTypes DEF TypeInv
<1>7. QueueInv'
  BY <1>1, <1>2, <1>4 DEF QueueInv
<1>8. PoolInv'
  BY <1>1, <1>2, <1>5 DEF PoolInv
<1>9. CountInv'
  BY <1>1, <1>2, <1>3, <1>4, <1>5 DEF CountInv, Due
<1>10. JoinInv'
  <2>1. DOMAIN miner' \cup DOMAIN pendrange' \subseteq
          DOMAIN miner \cup DOMAIN pendrange
          \cup (IF "lost" = "join" THEN {Head(inbox).id} ELSE {})
    BY <1>1, <1>5
  <2>. QED
    BY <1>1, <2>1, ReadIs
<1>11. ConserveInv'
  <2>1. pendrange' = <<>>
    BY <1>1, <1>2, <1>3 DEF PoolInv, Pool
  <2>2. pendjobs = <<>>
    BY <1>1, <1>2 DEF ConserveInv
  <2>. QED
    BY <1>1, <2>1, <2>2 DEF ConserveInv, NoneWaits
<1>. QED
  BY <1>6, <1>7, <1>8, <1>9, <1>10, <1>11 DEF SchedInv

\* Any other loss leaves the pool as it is.
LEMMA LostOtherKeeps == ASSUME SchedInv, LostOther PROVE SchedInv'
<1>1. /\ Read("lost") /\ pendminer' = pendminer \ {Head(inbox).id}
      /\ jobgiveup' = (jobgiveup \/ (/\ Head(inbox).id \notin pendminer
                                     /\ Head(inbox).id = curclient))
      /\ UNCHANGED <<pendclients, pendjobs, reqct, curclient, run, waitans,
                     block, ans1, ans2, panicked, miner, pendrange, minerfail,
                     work>>
  BY DEF LostOther, queueVars
<1>2. /\ TypeInv /\ QueueInv /\ PoolInv /\ CountInv /\ JoinInv /\ ConserveInv
  BY DEF SchedInv
<1>3. UNCHANGED currid
  BY <1>1, ReadIs
<1>4. TypeInv'
  BY <1>1, <1>2, ReadKeepsTypes DEF TypeInv
<1>5. QueueInv'
  BY <1>1, <1>2, <1>3 DEF QueueInv
<1>6. PoolInv'
  BY <1>1, <1>2 DEF PoolInv
<1>7. CountInv' /\ ConserveInv'
  BY <1>1, <1>2 DEF CountInv, ConserveInv
<1>8. JoinInv'
  BY <1>1, ReadIs
<1>. QED
  BY <1>4, <1>5, <1>6, <1>7, <1>8 DEF SchedInv

\* A pass that only moves shares while a job runs.
LEMMA PoolStep ==
  ASSUME SchedInv, NEW type, Read(type), run,
         UNCHANGED <<queueVars, curclient, run, jobgiveup, panicked>>,
         pendminer' = {}, waitans' \in BOOLEAN,
         ans1' \in Hashes, ans2' \in Hashes,
         Pool(miner', pendrange', minerfail'),
         NoneWaits(miner', pendrange'), CountInv',
         work' \in [Miners -> Seq(Shares)],
         DOMAIN miner' \cup DOMAIN pendrange' \subseteq
           DOMAIN miner \cup DOMAIN pendrange
           \cup (IF type = "join" THEN {Head(inbox).id} ELSE {})
  PROVE  SchedInv'
<1>1. /\ TypeInv /\ QueueInv
      /\ UNCHANGED <<pendclients, pendjobs, reqct>>
  BY DEF SchedInv, queueVars
<1>2. UNCHANGED currid /\ JoinInv'
  BY ReadIs
<1>3. TypeInv'
  <2>1. /\ panicked' = FALSE /\ run' \in BOOLEAN /\ jobgiveup' \in BOOLEAN
        /\ curclient' \in Clients \cup {1}
    BY <1>1 DEF TypeInv
  <2>. QED
    BY <2>1, ReadKeepsTypes
<1>4. QueueInv'
  BY <1>1, <1>2 DEF QueueInv
<1>5. PoolInv' /\ ConserveInv'
  BY DEF PoolInv, ConserveInv
<1>. QED
  BY <1>2, <1>3, <1>4, <1>5 DEF SchedInv

\* case bitcoin.Join: a miner that joins takes a share that waits, and one
\* that joins while no job runs starts the next.
LEMMA JoinKeeps == ASSUME SchedInv, ReadJoin PROVE SchedInv'
<1>. DEFINE id     == Head(inbox).id
            joined == Resized(miner, {id})
<1>1. /\ TypeInv /\ QueueInv /\ PoolInv /\ CountInv /\ JoinInv /\ ConserveInv
  BY DEF SchedInv
<1>2. /\ Pool(miner, pendrange, minerfail) /\ pendminer = {}
      /\ work \in [Miners -> Seq(Shares)] /\ panicked = FALSE
      /\ ans1 \in Hashes /\ ans2 \in Hashes
  BY <1>1 DEF PoolInv, TypeInv
<1>3. Read("join") /\ UNCHANGED <<reqct, waitans>>
  BY DEF ReadJoin
<1>4. /\ ~ waitans /\ id \in Miners
      /\ id \notin DOMAIN miner /\ id \notin DOMAIN pendrange
      /\ UNCHANGED <<currid, started, crashed, lost, answers>>
  BY <1>3, ReadIs
<1>5. Resized(miner, pendminer \cup {id}) = joined
  BY <1>2
<1>. HIDE DEF joined
<1>6. /\ Pool(joined, pendrange, minerfail)
      /\ DOMAIN joined = DOMAIN miner \cup {id}
      /\ Busy(joined) = Busy(miner)
      /\ Due(joined, pendrange) = Due(miner, pendrange)
  BY <1>2, <1>4, JoinedIs DEF joined
<1>7. CASE run
  <2>1. /\ pendminer' = {}
        /\ IF DOMAIN pendrange # {}
             THEN Reassign(joined, pendrange, minerfail)
             ELSE /\ miner' = joined
                  /\ UNCHANGED <<pendrange, minerfail, work>>
        /\ UNCHANGED <<pendjobs, pendclients, curclient, run, jobgiveup,
                       block, ans1, ans2, job, panicked>>
    BY <1>5, <1>7, Zenon DEF ReadJoin, joined
  <2>2. /\ Pool(miner', pendrange', minerfail')
        /\ Due(miner', pendrange') = Due(miner, pendrange)
        /\ NoneWaits(miner', pendrange')
        /\ DOMAIN miner' \subseteq DOMAIN joined
        /\ DOMAIN pendrange' \subseteq DOMAIN pendrange
        /\ work' \in [Miners -> Seq(Shares)]
    <3>1. CASE DOMAIN pendrange # {}
      <4>1. Reassign(joined, pendrange, minerfail)
        BY <2>1, <3>1
      <4>2. /\ Pool(miner', pendrange', minerfail')
            /\ Due(miner', pendrange') = Due(joined, pendrange)
            /\ NoneWaits(miner', pendrange')
            /\ DOMAIN miner' \subseteq DOMAIN joined
            /\ DOMAIN pendrange' \subseteq DOMAIN pendrange
            /\ work' \in [Miners -> Seq(Shares)]
        BY <1>2, <1>6, <4>1, ReassignIs
      <4>. QED
        BY <1>6, <4>2
    <3>2. CASE DOMAIN pendrange = {}
      <4>1. miner' = joined /\ UNCHANGED <<pendrange, minerfail, work>>
        BY <2>1, <3>2
      <4>2. NoneWaits(joined, pendrange)
        BY <1>2, <3>2 DEF Pool, NoneWaits
      <4>. QED
        BY <1>2, <1>6, <4>1, <4>2
    <3>. QED
      BY <3>1, <3>2
  <2>3. CountInv'
    BY <1>1, <1>3, <1>4, <2>1, <2>2 DEF CountInv
  <2>4. DOMAIN miner' \cup DOMAIN pendrange' \subseteq
          DOMAIN miner \cup DOMAIN pendrange
          \cup (IF "join" = "join" THEN {Head(inbox).id} ELSE {})
    BY <1>6, <2>2
  <2>5. /\ UNCHANGED <<queueVars, curclient, run, jobgiveup, panicked>>
        /\ waitans' \in BOOLEAN /\ ans1' \in Hashes /\ ans2' \in Hashes
    BY <1>1, <1>3, <2>1 DEF queueVars, TypeInv
  <2>. QED
    BY <1>3, <1>7, <2>1, <2>2, <2>3, <2>4, <2>5, PoolStep
<1>8. CASE ~ run
  <2>1. Busy(miner) = {} /\ DOMAIN pendrange = {}
    BY <1>8, NothingDue
  <2>2. /\ UNCHANGED pendminer
        /\ IF DOMAIN pendclients # {}
             THEN Assign(joined, pendjobs, pendclients, currid)
             ELSE /\ miner' = joined
                  /\ UNCHANGED <<pendjobs, pendclients, curclient, run,
                                 jobgiveup, block, ans1, ans2, job,
                                 panicked, pendrange, minerfail, work>>
    BY <1>8, <2>1, Zenon DEF ReadJoin, joined
  <2>3. CASE DOMAIN pendclients # {}
    <3>1. Assign(joined, pendjobs, pendclients, currid)
      BY <2>2, <2>3
    <3>2. /\ pendjobs \in [DOMAIN pendjobs -> Uppers]
          /\ pendclients \in [DOMAIN pendjobs -> Clients]
          /\ currid \in Nat \ {0} /\ reqct' \in Nat
          /\ DOMAIN pendjobs = currid .. reqct' - 1
          /\ currid < reqct'
      BY <1>1, <1>3, <1>8, <2>3 DEF QueueInv
    <3>3. /\ DOMAIN joined # {} /\ pendminer' = {} /\ waitans' = FALSE
          /\ currid' = currid
      BY <1>1, <1>2, <1>3, <1>4, <1>6, <2>2 DEF TypeInv
    <3>4. /\ QueueInv' /\ PoolInv' /\ CountInv' /\ ConserveInv'
          /\ DOMAIN miner' \cup DOMAIN pendrange' = DOMAIN joined
          /\ run' = TRUE /\ jobgiveup' = FALSE /\ panicked' = FALSE
          /\ curclient' \in Clients /\ ans1' \in Hashes /\ ans2' \in Hashes
          /\ work' \in [Miners -> Seq(Shares)]
      BY <1>6, <2>1, <3>1, <3>2, <3>3, AssignStep
    <3>5. TypeInv'
      BY <1>3, <3>3, <3>4, ReadKeepsTypes
    <3>6. JoinInv'
      <4>1. DOMAIN miner' \cup DOMAIN pendrange' \subseteq
              DOMAIN miner \cup DOMAIN pendrange
              \cup (IF "join" = "join" THEN {Head(inbox).id} ELSE {})
        BY <1>6, <3>4
      <4>. QED
        BY <1>3, <4>1, ReadIs
    <3>. QED
      BY <3>4, <3>5, <3>6 DEF SchedInv
  <2>4. CASE DOMAIN pendclients = {}
    <3>1. /\ miner' = joined
          /\ UNCHANGED <<pendjobs, pendclients, curclient, run, jobgiveup,
                         block, ans1, ans2, panicked, pendrange, minerfail,
                         work, pendminer>>
      BY <2>2, <2>4
    <3>2. TypeInv'
      BY <1>1, <1>3, <3>1, ReadKeepsTypes DEF TypeInv
    <3>3. QueueInv'
      BY <1>1, <1>3, <1>4, <3>1 DEF QueueInv
    <3>4. PoolInv'
      BY <1>2, <1>6, <3>1 DEF PoolInv
    <3>5. CountInv'
      BY <1>1, <1>3, <1>4, <1>6, <3>1 DEF CountInv
    <3>6. ConserveInv'
      <4>1. pendjobs = <<>> /\ pendrange = <<>>
        <5>1. DOMAIN pendjobs = {} /\ pendjobs \in [DOMAIN pendjobs -> Uppers]
          BY <1>1, <2>4 DEF QueueInv
        <5>2. pendrange \in [DOMAIN pendrange -> Shares]
          BY <1>2 DEF Pool
        <5>. QED
          BY <2>1, <5>1, <5>2
      <4>. QED
        BY <3>1, <4>1 DEF ConserveInv, NoneWaits
    <3>7. JoinInv'
      <4>1. DOMAIN miner' \cup DOMAIN pendrange' \subseteq
              DOMAIN miner \cup DOMAIN pendrange
              \cup (IF "join" = "join" THEN {Head(inbox).id} ELSE {})
        BY <1>6, <3>1
      <4>. QED
        BY <1>3, <4>1, ReadIs
    <3>. QED
      BY <3>2, <3>3, <3>4, <3>5, <3>6, <3>7 DEF SchedInv
  <2>. QED
    BY <2>3, <2>4
<1>. QED
  BY <1>7, <1>8

\* case bitcoin.Request: the request gets the number reqct, and starts when
\* nothing is before it.
LEMMA RequestKeeps == ASSUME SchedInv, ReadRequest PROVE SchedInv'
<1>. DEFINE jobs == [k \in DOMAIN pendjobs \cup {reqct} |->
                       IF k = reqct THEN Head(inbox).upper ELSE pendjobs[k]]
            from == [k \in DOMAIN pendclients \cup {reqct} |->
                       IF k = reqct THEN Head(inbox).id ELSE pendclients[k]]
<1>1. /\ TypeInv /\ QueueInv /\ PoolInv /\ CountInv /\ JoinInv /\ ConserveInv
  BY DEF SchedInv
<1>2. /\ Read("request") /\ reqct' = reqct + 1
      /\ UNCHANGED <<waitans, pendminer>>
      /\ IF CanStart
           THEN Assign(miner, jobs, from, currid)
           ELSE /\ pendjobs' = jobs /\ pendclients' = from
                /\ UNCHANGED <<curclient, run, jobgiveup, block, ans1, ans2,
                               panicked, miner, pendrange, minerfail, work>>
  BY DEF ReadRequest
<1>3. /\ ~ waitans /\ Head(inbox) \in Messages
      /\ Head(inbox).type = "request" /\ UNCHANGED currid
  BY <1>2, ReadIs
<1>4. Head(inbox).id \in Clients /\ Head(inbox).upper \in Uppers
  BY <1>3, MessageIs
<1>5. /\ jobs \in [DOMAIN pendjobs \cup {reqct} -> Uppers]
      /\ from \in [DOMAIN pendjobs \cup {reqct} -> Clients]
  BY <1>1, <1>4 DEF QueueInv
<1>6. DOMAIN pendjobs \cup {reqct} =
        (IF run THEN currid + 1 ELSE currid) .. reqct' - 1
  BY <1>1, <1>2 DEF QueueInv
<1>. HIDE DEF jobs, from
<1>7. DOMAIN jobs = DOMAIN pendjobs \cup {reqct}
  BY <1>5
<1>8. CASE CanStart
  <2>1. ~ run /\ DOMAIN miner # {}
    BY <1>8 DEF CanStart
  <2>2. Assign(miner, jobs, from, currid)
    BY <1>2, <1>8
  <2>3. /\ jobs \in [DOMAIN jobs -> Uppers]
        /\ from \in [DOMAIN jobs -> Clients]
    BY <1>5, <1>7
  <2>4. /\ currid \in Nat \ {0} /\ reqct' \in Nat /\ currid < reqct'
        /\ DOMAIN jobs = currid .. reqct' - 1 /\ currid' = currid
    BY <1>1, <1>2, <1>3, <1>6, <1>7, <2>1 DEF QueueInv
  <2>5. /\ Pool(miner, pendrange, minerfail) /\ DOMAIN pendrange = {}
        /\ waitans' = FALSE /\ pendminer' = {}
    BY <1>1, <1>2, <1>3, <2>1, NothingDue DEF PoolInv, TypeInv
  <2>6. /\ QueueInv' /\ PoolInv' /\ CountInv' /\ ConserveInv'
        /\ DOMAIN miner' \cup DOMAIN pendrange' = DOMAIN miner
        /\ run' = TRUE /\ jobgiveup' = FALSE /\ panicked' = FALSE
        /\ curclient' \in Clients /\ ans1' \in Hashes /\ ans2' \in Hashes
        /\ work' \in [Miners -> Seq(Shares)]
    BY <2>1, <2>2, <2>3, <2>4, <2>5, AssignStep
  <2>7. TypeInv'
    BY <1>2, <2>5, <2>6, ReadKeepsTypes
  <2>8. JoinInv'
    BY <1>2, <2>6, ReadIs
  <2>. QED
    BY <2>6, <2>7, <2>8 DEF SchedInv
<1>9. CASE ~ CanStart
  <2>1. /\ pendjobs' = jobs /\ pendclients' = from
        /\ UNCHANGED <<curclient, run, jobgiveup, block, ans1, ans2, panicked,
                       miner, pendrange, minerfail, work>>
    BY <1>2, <1>9
  <2>2. TypeInv'
    BY <1>1, <1>2, <2>1, ReadKeepsTypes DEF TypeInv
  <2>3. QueueInv'
    <3>1. /\ reqct' \in Nat \ {0} /\ currid' \in Nat \ {0}
          /\ currid' <= reqct' /\ (run' => currid' < reqct')
      BY <1>1, <1>2, <1>3, <2>1 DEF QueueInv
    <3>2. /\ pendjobs' \in [DOMAIN pendjobs' -> Uppers]
          /\ pendclients' \in [DOMAIN pendjobs' -> Clients]
          /\ DOMAIN pendjobs' =
               (IF run' THEN currid' + 1 ELSE currid') .. reqct' - 1
      BY <1>3, <1>5, <1>6, <1>7, <2>1
    <3>. QED
      BY <3>1, <3>2 DEF QueueInv
  <2>4. PoolInv'
    BY <1>1, <1>2, <2>1 DEF PoolInv
  <2>5. CountInv'
    BY <1>1, <1>2, <2>1 DEF CountInv
  <2>6. JoinInv'
    BY <1>2, <2>1, ReadIs
  <2>7. ConserveInv'
    <3>1. run \/ DOMAIN miner = {}
      BY <1>9 DEF CanStart
    <3>. QED
      BY <1>1, <2>1, <3>1 DEF ConserveInv
  <2>. QED
    BY <2>2, <2>3, <2>4, <2>5, <2>6, <2>7 DEF SchedInv
<1>. QED
  BY <1>8, <1>9

\* A miner whose result came is idle, and one share fewer is due.
LEMMA FreedIs ==
  ASSUME NEW m, NEW ranges, NEW fails, Pool(m, ranges, fails),
         NEW i \in Busy(m)
  PROVE  /\ Pool([m EXCEPT ![i] = Idle], ranges, fails)
         /\ Due([m EXCEPT ![i] = Idle], ranges) = Due(m, ranges) - 1
         /\ DOMAIN [m EXCEPT ![i] = Idle] = DOMAIN m
<1>. DEFINE freed == [m EXCEPT ![i] = Idle]
<1>1. /\ m \in [DOMAIN m -> Shares \cup {Idle}] /\ DOMAIN m \subseteq Miners
      /\ i \in DOMAIN m
  BY DEF Pool, Busy
<1>2. /\ freed \in [DOMAIN m -> Shares \cup {Idle}] /\ DOMAIN freed = DOMAIN m
      /\ freed[i] = Idle /\ \A k \in DOMAIN m \ {i} : freed[k] = m[k]
  BY <1>1
<1>. HIDE DEF freed
<1>3. Busy(freed) = Busy(m) \ {i}
  BY <1>1, <1>2 DEF Busy
<1>4. Pool(freed, ranges, fails)
  BY <1>2 DEF Pool
<1>5. IsFiniteSet(Busy(m)) /\ Busy(m) \subseteq Miners
  BY <1>1, MinersFinite DEF Busy
<1>6. /\ Cardinality(Busy(freed)) = Cardinality(Busy(m)) - 1
      /\ Cardinality(Busy(m)) \in Nat
  BY <1>3, <1>5, FS_RemoveElement, FS_CardinalityType
<1>7. Cardinality(DOMAIN ranges) \in Nat
  BY MinersFinite DEF Pool
<1>8. Due(freed, ranges) = Due(m, ranges) - 1
  BY <1>6, <1>7 DEF Due
<1>. QED
  BY <1>2, <1>4, <1>8 DEF freed

\* The shares that are due are counted by a natural number.
LEMMA DueIs ==
  ASSUME NEW m, NEW ranges, NEW fails, Pool(m, ranges, fails)
  PROVE  /\ Due(m, ranges) \in Nat /\ fails \in Nat
         /\ fails = 0 <=> ranges = <<>>
         /\ Due(m, ranges) = 0 => DOMAIN ranges = {}
<1>1. /\ DOMAIN m \subseteq Miners /\ DOMAIN ranges \subseteq Miners
      /\ ranges \in [DOMAIN ranges -> Shares]
      /\ fails = Cardinality(DOMAIN ranges)
  BY DEF Pool
<1>2. Busy(m) \subseteq Miners
  BY <1>1 DEF Busy
<1>3. /\ Cardinality(Busy(m)) \in Nat
      /\ Cardinality(DOMAIN ranges) \in Nat
  BY <1>1, <1>2, MinersFinite
<1>4. Cardinality(DOMAIN ranges) = 0 <=> DOMAIN ranges = {}
  BY <1>1, CardEmpty
<1>5. DOMAIN ranges = {} <=> ranges = <<>>
  BY <1>1
<1>. QED
  BY <1>1, <1>3, <1>4, <1>5 DEF Due

\* case bitcoin.Result: a result that belongs to a share is counted once, and
\* the last of them ends the job.
LEMMA ResultKeeps == ASSUME SchedInv, ReadResult PROVE SchedInv'
<1>. DEFINE msg     == Head(inbox)
            matches == {i \in Busy(miner) : msg.nonce \in Nonces(miner[i])}
            best    == Merge(<<ans1, ans2>>, <<msg.hash, msg.nonce>>)
<1>1. /\ TypeInv /\ QueueInv /\ PoolInv /\ CountInv /\ JoinInv /\ ConserveInv
  BY DEF SchedInv
<1>2. /\ Read("result")
      /\ UNCHANGED <<pendclients, pendjobs, reqct, curclient, run, jobgiveup,
                     panicked>>
  BY DEF ReadResult, queueVars
<1>3. /\ ~ waitans /\ msg \in Messages /\ msg.type = "result"
      /\ UNCHANGED currid
  BY <1>2, ReadIs
<1>4. /\ Pool(miner, pendrange, minerfail) /\ pendminer = {}
      /\ block = Due(miner, pendrange) /\ block \in Nat
      /\ work \in [Miners -> Seq(Shares)]
  BY <1>1, DueIs DEF PoolInv, CountInv, TypeInv
<1>5. best[1] \in Hashes /\ best[2] \in Hashes
  <2>1. msg.hash \in Hashes /\ msg.nonce \in Hashes
    BY <1>3, MessageIs
  <2>2. ans1 \in Hashes /\ ans2 \in Hashes
    BY <1>1 DEF TypeInv
  <2>. QED
    BY <2>1, <2>2 DEF Merge
<1>6. minerfail \in Nat /\ (minerfail = 0 <=> pendrange = <<>>)
  BY <1>4, DueIs
<1>. HIDE DEF best, msg
<1>7. CASE /\ ~ run
           /\ UNCHANGED <<block, ans1, ans2, waitans, poolVars, work>>
  <2>1. UNCHANGED <<miner, pendminer, pendrange, minerfail>>
    BY <1>7 DEF poolVars
  <2>2. TypeInv'
    BY <1>1, <1>2, <1>7, ReadKeepsTypes DEF TypeInv
  <2>3. QueueInv'
    BY <1>1, <1>2, <1>3 DEF QueueInv
  <2>4. PoolInv'
    BY <1>1, <2>1 DEF PoolInv
  <2>5. CountInv' /\ ConserveInv'
    BY <1>1, <1>2, <1>7, <2>1 DEF CountInv, ConserveInv
  <2>6. JoinInv'
    BY <1>2, <2>1, ReadIs
  <2>. QED
    BY <2>2, <2>3, <2>4, <2>5, <2>6 DEF SchedInv
<1>8. CASE /\ run /\ matches = {} /\ waitans' = (block = 0)
           /\ IF block # 0 /\ ShareWaits
                THEN Reassign(miner, pendrange, minerfail)
                ELSE UNCHANGED <<miner, pendrange, minerfail, work>>
           /\ UNCHANGED <<block, ans1, ans2, pendminer>>
  <2>1. block # 0
    BY <1>1, <1>3, <1>8 DEF CountInv
  <2>2. /\ Pool(miner', pendrange', minerfail')
        /\ Due(miner', pendrange') = Due(miner, pendrange)
        /\ NoneWaits(miner', pendrange')
        /\ DOMAIN miner' \subseteq DOMAIN miner
        /\ DOMAIN pendrange' \subseteq DOMAIN pendrange
        /\ work' \in [Miners -> Seq(Shares)]
    <3>1. CASE ShareWaits
      <4>1. Reassign(miner, pendrange, minerfail)
        BY <1>8, <2>1, <3>1
      <4>. QED
        BY <1>4, <4>1, ReassignIs
    <3>2. CASE ~ ShareWaits
      <4>1. UNCHANGED <<miner, pendrange, minerfail, work>>
        BY <1>8, <3>2
      <4>. QED
        BY <1>1, <1>4, <4>1 DEF ConserveInv
    <3>. QED
      BY <3>1, <3>2
  <2>3. CountInv'
    BY <1>1, <1>2, <1>4, <1>8, <2>1, <2>2 DEF CountInv
  <2>4. /\ UNCHANGED <<queueVars, curclient, run, jobgiveup, panicked>>
        /\ pendminer' = {} /\ ans1' \in Hashes /\ ans2' \in Hashes
        /\ waitans' \in BOOLEAN
    BY <1>1, <1>2, <1>4, <1>8 DEF queueVars, TypeInv
  <2>. QED
    BY <1>2, <1>8, <2>2, <2>3, <2>4, PoolStep
<1>9. CASE /\ run
           /\ \E i \in matches :
                LET freed == [miner EXCEPT ![i] = Idle]
                IN  IF block # 1 /\ ShareWaits
                      THEN Reassign(freed, pendrange, minerfail)
                      ELSE /\ miner' = freed
                           /\ UNCHANGED <<pendrange, minerfail, work>>
           /\ ans1' = best[1] /\ ans2' = best[2]
           /\ block' = block - 1 /\ waitans' = (block = 1)
           /\ UNCHANGED pendminer
  <2>1. PICK i \in Busy(miner) :
          LET freed == [miner EXCEPT ![i] = Idle]
          IN  IF block # 1 /\ ShareWaits
                THEN Reassign(freed, pendrange, minerfail)
                ELSE /\ miner' = freed
                     /\ UNCHANGED <<pendrange, minerfail, work>>
    BY <1>9
  <2>. DEFINE freed == [miner EXCEPT ![i] = Idle]
  <2>2. IF block # 1 /\ ShareWaits
          THEN Reassign(freed, pendrange, minerfail)
          ELSE miner' = freed /\ UNCHANGED <<pendrange, minerfail, work>>
    BY <2>1
  <2>3. /\ Pool(freed, pendrange, minerfail)
        /\ Due(freed, pendrange) = Due(miner, pendrange) - 1
        /\ DOMAIN freed = DOMAIN miner
    BY <1>4, FreedIs
  <2>. HIDE DEF freed
  <2>4. /\ Pool(miner', pendrange', minerfail')
        /\ Due(miner', pendrange') = Due(miner, pendrange) - 1
        /\ NoneWaits(miner', pendrange')
        /\ DOMAIN miner' \subseteq DOMAIN miner
        /\ DOMAIN pendrange' \subseteq DOMAIN pendrange
        /\ work' \in [Miners -> Seq(Shares)]
    <3>1. CASE block # 1 /\ ShareWaits
      <4>1. Reassign(freed, pendrange, minerfail)
        BY <2>2, <3>1
      <4>2. /\ Pool(miner', pendrange', minerfail')
            /\ Due(miner', pendrange') = Due(freed, pendrange)
            /\ NoneWaits(miner', pendrange')
            /\ DOMAIN miner' \subseteq DOMAIN freed
            /\ DOMAIN pendrange' \subseteq DOMAIN pendrange
            /\ work' \in [Miners -> Seq(Shares)]
        BY <1>4, <2>3, <4>1, ReassignIs
      <4>. QED
        BY <2>3, <4>2
    <3>2. CASE ~ (block # 1 /\ ShareWaits)
      <4>1. miner' = freed /\ UNCHANGED <<pendrange, minerfail, work>>
        BY <2>2, <3>2
      <4>2. pendrange = <<>>
        <5>1. CASE ~ ShareWaits
          BY <1>6, <5>1 DEF ShareWaits
        <5>2. CASE block = 1
          <6>1. Due(freed, pendrange) = 0
            BY <1>4, <2>3, <5>2
          <6>2. DOMAIN pendrange = {}
            BY <2>3, <6>1, DueIs
          <6>. QED
            BY <1>4, <6>2 DEF Pool
        <5>. QED
          BY <3>2, <5>1, <5>2
      <4>. QED
        BY <1>4, <2>3, <4>1, <4>2 DEF NoneWaits
    <3>. QED
      BY <3>1, <3>2
  <2>5. ASSUME block = 1 PROVE DOMAIN miner' # {}
    <3>1. miner' = freed
      BY <2>2, <2>5
    <3>. QED
      BY <2>3, <3>1 DEF Busy
  <2>6. CountInv'
    <3>1. /\ block' = Due(miner', pendrange') /\ block' \in Nat
          /\ (block' > 0 <=> block # 1)
      <4>1. Due(miner', pendrange') \in Nat
        BY <2>4, DueIs
      <4>. QED
        BY <1>4, <1>9, <2>4, <4>1
    <3>2. run' /\ (waitans' <=> block = 1)
      BY <1>2, <1>9
    <3>3. run' <=> block' > 0 \/ waitans'
      BY <3>1, <3>2
    <3>4. waitans' => block' = 0 /\ DOMAIN miner' # {}
      BY <1>4, <2>5, <3>1, <3>2
    <3>. QED
      BY <3>1, <3>3, <3>4 DEF CountInv
  <2>7. /\ UNCHANGED <<queueVars, curclient, run, jobgiveup, panicked>>
        /\ pendminer' = {} /\ ans1' \in Hashes /\ ans2' \in Hashes
        /\ waitans' \in BOOLEAN
    BY <1>2, <1>4, <1>5, <1>9 DEF queueVars
  <2>. QED
    BY <1>2, <1>9, <2>4, <2>6, <2>7, PoolStep
<1>. QED
  BY <1>7, <1>8, <1>9 DEF ReadResult, msg, best

-----------------------------------------------------------------------------
(***************************************************************************)
(* The environment only adds to inbox, and to what miners work on.         *)
(***************************************************************************)

\* A message that is no Join, or the Join of a miner that starts, comes last.
LEMMA ArrivalKeeps ==
  ASSUME SchedInv,
         UNCHANGED <<queueVars, jobVars, poolVars, answers>>,
         NEW msg \in Messages, inbox' = Append(inbox, msg),
         started \subseteq started', started' \subseteq Miners \cup Clients,
         crashed' = crashed, lost' \subseteq Miners \cup Clients,
         work' \in [Miners -> Seq(Shares)],
         msg.type = "join" => msg.id \in (Miners \cap started') \ started
  PROVE  SchedInv'
<1>1. /\ TypeInv /\ QueueInv /\ PoolInv /\ CountInv /\ JoinInv /\ ConserveInv
      /\ UNCHANGED <<pendclients, pendjobs, reqct, currid, curclient, run,
                     waitans, jobgiveup, block, ans1, ans2, panicked, miner,
                     pendminer, pendrange, minerfail>>
  BY DEF SchedInv, queueVars, jobVars, poolVars
<1>2. inbox \in Seq(Messages)
  BY <1>1 DEF TypeInv
<1>3. /\ inbox' \in Seq(Messages)
      /\ DOMAIN inbox' = DOMAIN inbox \cup {Len(inbox) + 1}
      /\ Len(inbox) + 1 \notin DOMAIN inbox
      /\ inbox'[Len(inbox) + 1] = msg
      /\ \A k \in DOMAIN inbox : inbox'[k] = inbox[k]
  BY <1>2
<1>4. TypeInv'
  BY <1>1, <1>3 DEF TypeInv
<1>5. QueueInv' /\ PoolInv' /\ CountInv' /\ ConserveInv'
  BY <1>1 DEF QueueInv, PoolInv, CountInv, ConserveInv
<1>6. JoinInv'
  <2>1. DOMAIN miner' \cup DOMAIN pendrange' \subseteq started'
    BY <1>1 DEF JoinInv
  <2>2. \A k \in DOMAIN inbox : inbox[k].type = "join" =>
          /\ inbox[k].id \in Miners \cap started
          /\ inbox[k].id \notin DOMAIN miner' \cup DOMAIN pendrange'
          /\ \A l \in DOMAIN inbox :
               inbox[l].type = "join" /\ inbox[l].id = inbox[k].id => l = k
    BY <1>1 DEF JoinInv
  <2>3. msg.type = "join" =>
          msg.id \notin DOMAIN miner' \cup DOMAIN pendrange'
    BY <1>1 DEF JoinInv
  <2>4. ASSUME NEW k \in DOMAIN inbox', inbox'[k].type = "join"
        PROVE  /\ inbox'[k].id \in Miners \cap started'
               /\ inbox'[k].id \notin DOMAIN miner' \cup DOMAIN pendrange'
               /\ \A l \in DOMAIN inbox' :
                    inbox'[l].type = "join" /\ inbox'[l].id = inbox'[k].id
                      => l = k
    <3>1. CASE k \in DOMAIN inbox
      BY <1>3, <2>2, <2>4, <3>1
    <3>2. CASE k = Len(inbox) + 1
      BY <1>3, <2>2, <2>3, <2>4, <3>2
    <3>. QED
      BY <1>3, <3>1, <3>2
  <2>. QED
    BY <2>1, <2>4, Zenon DEF JoinInv
<1>. QED
  BY <1>4, <1>5, <1>6 DEF SchedInv

\* A set of naturals that is not empty has a smallest element.
LEMMA Smallest ==
  ASSUME NEW T \in SUBSET Nat, T # {}
  PROVE  \E x \in T : \A y \in T : x <= y
<1>. DEFINE R == OpToRel(<, Nat)
<1>1. IsWellFoundedOn({ss \in Nat \X Nat : ss[1] < ss[2]}, Nat)
  BY NatLessThanWellFounded DEF OpToRel
<1>2. R = {ss \in Nat \X Nat : ss[1] < ss[2]}
  BY DEF OpToRel
<1>. HIDE DEF R
<1>3. PICK x \in T : \A y \in T : <<y, x>> \notin R
  BY <1>1, <1>2, WFMin
<1>4. \A y \in T : x <= y
  <2>. SUFFICES ASSUME NEW y \in T PROVE ~ (y < x)
    OBVIOUS
  <2>1. <<y, x>> \notin R
    BY <1>3
  <2>. QED
    BY <1>2, <2>1
<1>. QED
  BY <1>4

\* The results BestOf chooses from.
ResultsOf(c, nonces, top) ==
  {<<Hash[c][n], n>> : n \in nonces} \cup {<<MaxUint, top>>}

\* Among results there is one that no other is better than: one of the
\* smallest hash, and of the smallest nonce with that hash.
LEMMA BestExists ==
  ASSUME NEW P \in SUBSET (Hashes \X Hashes), P # {}
  PROVE  \E p \in P : \A q \in P : ~ Better(q, p)
<1>. DEFINE hashes == {q[1] : q \in P}
<1>1. hashes \in SUBSET Nat /\ hashes # {}
  BY DEF Hashes
<1>2. PICK h \in hashes : \A y \in hashes : h <= y
  BY <1>1, Smallest
<1>. DEFINE nonces == {q[2] : q \in {r \in P : r[1] = h}}
<1>3. nonces \in SUBSET Nat /\ nonces # {}
  BY DEF Hashes
<1>4. PICK n \in nonces : \A y \in nonces : n <= y
  BY <1>3, Smallest
<1>5. PICK p \in P : p[1] = h /\ p[2] = n
  OBVIOUS
<1>6. ASSUME NEW q \in P PROVE ~ Better(q, p)
  <2>1. h <= q[1] /\ q[1] \in Nat /\ q[2] \in Nat /\ h \in Nat /\ n \in Nat
    BY <1>1, <1>2, <1>3 DEF Hashes
  <2>2. q[1] = h => n <= q[2]
    BY <1>4
  <2>. QED
    BY <1>5, <2>1, <2>2 DEF Better
<1>. QED
  BY <1>6

\* BestOf is one of the results, and none is better.
LEMMA BestOfIs ==
  ASSUME NEW c \in Clients, NEW nonces \in SUBSET Hashes, NEW top \in Hashes
  PROVE  /\ BestOf(c, nonces, top) \in ResultsOf(c, nonces, top)
         /\ ResultsOf(c, nonces, top) \subseteq Hashes \X Hashes
         /\ \A q \in ResultsOf(c, nonces, top) :
              ~ Better(q, BestOf(c, nonces, top))
<1>. DEFINE P == ResultsOf(c, nonces, top)
<1>1. P \in SUBSET (Hashes \X Hashes) /\ P # {}
  <2>1. \A n \in nonces : Hash[c][n] \in Hashes /\ n \in Hashes
    BY HashAssumption DEF Hashes
  <2>2. MaxUint \in Hashes
    BY DEF Hashes
  <2>3. {<<Hash[c][n], n>> : n \in nonces} \subseteq Hashes \X Hashes
    BY <2>1
  <2>4. <<MaxUint, top>> \in Hashes \X Hashes
    BY <2>2
  <2>. QED
    BY <2>3, <2>4 DEF ResultsOf
<1>2. BestOf(c, nonces, top) =
        CHOOSE p \in P : \A q \in P : ~ Better(q, p)
  BY DEF BestOf, ResultsOf
<1>. HIDE DEF P
<1>3. \E p \in P : \A q \in P : ~ Better(q, p)
  BY <1>1, BestExists
<1>4. /\ BestOf(c, nonces, top) \in P
      /\ \A q \in P : ~ Better(q, BestOf(c, nonces, top))
  BY <1>2, <1>3
<1>. QED
  BY <1>1, <1>4 DEF P

\* miner.go and client.go: a first message, a result, or a loss.
LEMMA EnvironmentKeeps == ASSUME SchedInv, Environment PROVE SchedInv'
<1>1. /\ TypeInv /\ work \in [Miners -> Seq(Shares)]
      /\ started \subseteq Miners \cup Clients
      /\ crashed \subseteq Miners \cup Clients
      /\ lost \subseteq Miners \cup Clients
  BY DEF SchedInv, TypeInv
<1>2. ASSUME NEW i \in Miners, Join(i) PROVE SchedInv'
  <2>. DEFINE msg == [type |-> "join", id |-> i]
  <2>1. /\ i \notin started /\ inbox' = Append(inbox, msg)
        /\ started' = started \cup {i}
        /\ UNCHANGED <<queueVars, jobVars, poolVars, answers>>
        /\ crashed' = crashed /\ lost' = lost /\ work' = work
    BY <1>2 DEF Join, Deliver
  <2>2. msg \in Messages
    BY DEF Messages
  <2>3. msg.type = "join" => msg.id \in (Miners \cap started') \ started
    BY <2>1
  <2>. HIDE DEF msg
  <2>. QED
    BY <1>1, <2>1, <2>2, <2>3, ArrivalKeeps
<1>3. ASSUME NEW c \in Clients, NEW u \in Uppers, Request(c, u)
      PROVE  SchedInv'
  <2>. DEFINE msg == [type |-> "request", id |-> c, upper |-> u]
  <2>1. /\ inbox' = Append(inbox, msg) /\ started' = started \cup {c}
        /\ UNCHANGED <<queueVars, jobVars, poolVars, answers>>
        /\ crashed' = crashed /\ lost' = lost /\ work' = work
    BY <1>3 DEF Request, Deliver
  <2>2. msg \in Messages /\ msg.type # "join"
    BY DEF Messages
  <2>. HIDE DEF msg
  <2>. QED
    BY <1>1, <2>1, <2>2, ArrivalKeeps
<1>4. ASSUME NEW i \in Miners, Mine(i) PROVE SchedInv'
  <2>. DEFINE share == Head(work[i])
              best  == BestOf(share.client, Nonces(share), MaxUint)
              msg   == [type |-> "result", id |-> i, hash |-> best[1],
                        nonce |-> best[2]]
  <2>1. /\ work[i] # <<>> /\ inbox' = Append(inbox, msg)
        /\ work' = [work EXCEPT ![i] = Tail(@)]
        /\ UNCHANGED <<queueVars, jobVars, poolVars, envVars, answers>>
    BY <1>4 DEF Mine, Deliver
  <2>2. share \in Shares /\ Tail(work[i]) \in Seq(Shares)
    <3>1. work[i] \in Seq(Shares)
      BY <1>1
    <3>. QED
      BY <2>1, <3>1, HeadTailProperties
  <2>3. work' \in [Miners -> Seq(Shares)]
    BY <1>1, <2>1, <2>2
  <2>4. best \in Hashes \X Hashes
    <3>. HIDE DEF share
    <3>1. share.client \in Clients /\ Nonces(share) \in SUBSET Hashes
      BY <2>2 DEF Shares, Nonces, Hashes
    <3>2. MaxUint \in Hashes
      BY DEF Hashes
    <3>. QED
      BY <3>1, <3>2, BestOfIs
  <2>. HIDE DEF best
  <2>5. msg \in Messages /\ msg.type # "join"
    BY <2>4 DEF Messages
  <2>. HIDE DEF msg
  <2>. QED
    BY <1>1, <2>1, <2>3, <2>5, ArrivalKeeps DEF envVars
<1>5. ASSUME NEW i \in Miners, Crash(i) PROVE SchedInv'
  <2>1. /\ crashed' = crashed \cup {i}
        /\ UNCHANGED <<queueVars, jobVars, poolVars, started, lost, inbox,
                       work, answers>>
    BY <1>5 DEF Crash
  <2>2. UNCHANGED <<pendclients, pendjobs, reqct, currid, curclient, run,
                    waitans, jobgiveup, block, ans1, ans2, panicked, miner,
                    pendminer, pendrange, minerfail>>
    BY <2>1 DEF queueVars, jobVars, poolVars
  <2>3. TypeInv'
    BY <1>1, <2>1, <2>2 DEF TypeInv
  <2>4. QueueInv' /\ PoolInv' /\ CountInv' /\ JoinInv' /\ ConserveInv'
    BY <2>1, <2>2
       DEF SchedInv, QueueInv, PoolInv, CountInv, JoinInv, ConserveInv
  <2>. QED
    BY <2>3, <2>4 DEF SchedInv
<1>6. ASSUME NEW i \in Miners \cup Clients, Lose(i) PROVE SchedInv'
  <2>. DEFINE msg == [type |-> "lost", id |-> i]
  <2>1. /\ inbox' = Append(inbox, msg) /\ started' = started
        /\ UNCHANGED <<queueVars, jobVars, poolVars, answers>>
        /\ crashed' = crashed /\ lost' = lost \cup {i}
        /\ work' = [j \in Miners |-> IF j = i THEN <<>> ELSE work[j]]
    BY <1>6 DEF Lose
  <2>2. msg \in Messages /\ msg.type # "join"
    BY DEF Messages
  <2>3. work' \in [Miners -> Seq(Shares)]
    BY <1>1, <2>1
  <2>. HIDE DEF msg
  <2>. QED
    BY <1>1, <2>1, <2>2, <2>3, ArrivalKeeps
<1>. QED
  BY <1>2, <1>3, <1>4, <1>5, <1>6 DEF Environment

-----------------------------------------------------------------------------
(***************************************************************************)
(* The theorems.                                                           *)
(***************************************************************************)

\* A server that has heard of nobody.
LEMMA InitSched == Init => SchedInv
<1>. SUFFICES ASSUME Init PROVE SchedInv
  OBVIOUS
<1>1. /\ pendclients = <<>> /\ pendjobs = <<>> /\ reqct = 1 /\ currid = 1
      /\ curclient = 1 /\ run = FALSE /\ waitans = FALSE /\ jobgiveup = FALSE
      /\ block = 0 /\ ans1 = 0 /\ ans2 = 0
      /\ miner = <<>> /\ pendminer = {} /\ pendrange = <<>> /\ minerfail = 0
      /\ panicked = FALSE /\ inbox = <<>> /\ work = [i \in Miners |-> <<>>]
      /\ started = {} /\ crashed = {} /\ lost = {}
      /\ answers = [c \in Clients |-> <<>>]
  BY DEF Init
<1>2. TypeInv
  <2>1. ans1 \in Hashes /\ ans2 \in Hashes
    BY <1>1 DEF Hashes
  <2>2. \A T : <<>> \in Seq(T)
    OBVIOUS
  <2>3. /\ inbox \in Seq(Messages) /\ work \in [Miners -> Seq(Shares)]
        /\ answers \in [Clients -> Seq(Hashes \X Hashes)]
    BY <1>1, <2>2
  <2>4. run \in BOOLEAN /\ waitans \in BOOLEAN /\ jobgiveup \in BOOLEAN
    BY <1>1
  <2>. QED
    BY <1>1, <2>1, <2>3, <2>4 DEF TypeInv
<1>3. QueueInv
  BY <1>1 DEF QueueInv
<1>4. Busy(miner) = {} /\ DOMAIN miner = {} /\ DOMAIN pendrange = {}
  BY <1>1 DEF Busy
<1>5. Cardinality({}) = 0
  BY FS_EmptySet
<1>6. PoolInv
  BY <1>1, <1>4, <1>5 DEF PoolInv, Pool
<1>7. CountInv
  <2>1. Due(miner, pendrange) = 0
    BY <1>4, <1>5 DEF Due
  <2>. QED
    BY <1>1, <2>1 DEF CountInv
<1>8. JoinInv
  BY <1>1, <1>4 DEF JoinInv
<1>9. ConserveInv
  BY <1>1 DEF ConserveInv, NoneWaits
<1>. QED
  BY <1>2, <1>3, <1>6, <1>7, <1>8, <1>9 DEF SchedInv

\* A stuttering step.
LEMMA StutterKeeps == ASSUME SchedInv, UNCHANGED vars PROVE SchedInv'
<1>1. UNCHANGED <<pendclients, pendjobs, reqct, currid, curclient, run,
                  waitans, jobgiveup, block, ans1, ans2, panicked, miner,
                  pendminer, pendrange, minerfail, started, crashed, lost,
                  inbox, work, answers>>
  BY DEF vars, queueVars, jobVars, poolVars, envVars
<1>2. TypeInv'
  BY <1>1 DEF SchedInv, TypeInv
<1>3. QueueInv' /\ PoolInv' /\ CountInv' /\ JoinInv' /\ ConserveInv'
  BY <1>1 DEF SchedInv, QueueInv, PoolInv, CountInv, JoinInv, ConserveInv
<1>. QED
  BY <1>2, <1>3 DEF SchedInv

\* A step of the main loop or of the environment.
LEMMA NextSched == ASSUME SchedInv, [Next]_vars PROVE SchedInv'
<1>1. CASE Loop
  BY <1>1, WaitAnsKeeps, LostBusyKeeps, LostFreeKeeps, LostOtherKeeps,
     JoinKeeps, RequestKeeps, ResultKeeps DEF Loop
<1>2. CASE Environment
  BY <1>2, EnvironmentKeeps
<1>3. CASE UNCHANGED vars
  BY <1>3, StutterKeeps
<1>. QED
  BY <1>1, <1>2, <1>3 DEF Next

\* The inductive invariant: the queue of jobs has no gap, the pool and the
\* shares that wait are what block and minerfail count, and a miner joins
\* once.
THEOREM InductiveSched == Safety => []SchedInv
  BY InitSched, NextSched, PTL DEF Safety

\* TypeOK of the runs.
THEOREM SchedTypes == Safety => []TypeOK
<1>1. SchedInv => TypeOK
  <2>. SUFFICES ASSUME SchedInv PROVE TypeOK
    OBVIOUS
  <2>1. TypeInv /\ QueueInv /\ PoolInv /\ CountInv
    BY DEF SchedInv
  <2>2. Pool(miner, pendrange, minerfail) /\ pendminer = {}
    BY <2>1 DEF PoolInv
  <2>3. block \in Nat /\ minerfail \in Nat
    BY <2>1, <2>2, DueIs DEF CountInv
  <2>4. /\ DOMAIN pendjobs = DOMAIN pendclients /\ DOMAIN pendjobs \subseteq Nat
        /\ Range(pendjobs) \subseteq Uppers
        /\ Range(pendclients) \subseteq Clients
    BY <2>1 DEF QueueInv, Range
  <2>5. /\ DOMAIN miner \subseteq Miners
        /\ Range(miner) \subseteq Shares \cup {Idle}
        /\ DOMAIN pendrange \subseteq Miners /\ Range(pendrange) \subseteq Shares
    BY <2>2 DEF Pool, Range
  <2>6. /\ {run, waitans, jobgiveup, panicked} \subseteq BOOLEAN
        /\ {ans1, ans2} \subseteq Hashes
        /\ {started, crashed, lost} \subseteq SUBSET (Miners \cup Clients)
    BY <2>1 DEF TypeInv
  <2>. QED
    BY <2>1, <2>2, <2>3, <2>4, <2>5, <2>6 DEF TypeOK, TypeInv, QueueInv
<1>. QED
  BY InductiveSched, <1>1, PTL

\* assign never indexes a job that is not in pendjobs and never divides by an
\* empty pool, from whichever of its three callers.
THEOREM ServerNeverPanics == Safety => []NeverPanics
<1>1. SchedInv => NeverPanics
  BY DEF SchedInv, TypeInv, NeverPanics
<1>. QED
  BY InductiveSched, <1>1, PTL

\* block and minerfail stay equal to what the maps of assign, reassign and
\* the Result case hold, whatever miners are lost in between: the job ends
\* with its last share.
THEOREM ServerCounts == Safety => []SharesCounted
<1>1. SchedInv => SharesCounted
  BY DEF SchedInv, PoolInv, Pool, CountInv, Due, SharesCounted
<1>. QED
  BY InductiveSched, <1>1, PTL

\* reassign stops only when it runs out of shares or of idle miners, and the
\* loop starts the next job when it can.
THEOREM ServerWorks == Safety => []WorkConserving
<1>1. SchedInv => WorkConserving
  BY DEF SchedInv, ConserveInv, NoneWaits, WorkConserving
<1>. QED
  BY InductiveSched, <1>1, PTL
-----------------------------------------------------------------------------
(***************************************************************************)
(* The shares of a job, and the results that come for them.  What follows  *)
(* supposes that the ranges are long enough for the miners and short       *)
(* enough for uint64; the runs S_short and S_wrap show what the code does  *)
(* when they are not.                                                      *)
(***************************************************************************)

\* However many miners share a range, assign gives the last of them a share
\* that is not empty, and computes no bound beyond the largest uint64.
RangesFit ==
  \A u \in Uppers, n \in 1 .. Cardinality(Miners) :
    /\ (n - 1) * (ShareSize(u, n) + 1) <= u
    /\ n * (ShareSize(u, n) + 1) <= MaxUint + 1

\* Who holds a share nobody reported: a busy miner, or a lost one whose share
\* waits for another.
Holders(m, ranges) == Busy(m) \cup DOMAIN ranges
Held(m, ranges, i) == IF i \in DOMAIN ranges THEN ranges[i] ELSE m[i]

\* The shares are parts of the request of client c for 0 .. u, none empty, and
\* no two have a nonce in common.
Apart(m, ranges, c, u) ==
  /\ \A i \in Holders(m, ranges) :
       /\ Held(m, ranges, i).client = c
       /\ Held(m, ranges, i).lower <= Held(m, ranges, i).upper
       /\ Held(m, ranges, i).upper <= u
  /\ \A i, j \in Holders(m, ranges) : i # j =>
       Nonces(Held(m, ranges, i)) \cap Nonces(Held(m, ranges, j)) = {}

\* The nonces of 0 .. u in no share that is held.
Reported(m, ranges, u) ==
  (0 .. u) \ UNION {Nonces(Held(m, ranges, i)) : i \in Holders(m, ranges)}

\* The answer so far is the best over the nonces reported.
JobInv ==
  run => /\ job.client \in Clients /\ job.upper \in Uppers
         /\ Apart(miner, pendrange, job.client, job.upper)
         /\ <<ans1, ans2>> =
              BestOf(job.client, Reported(miner, pendrange, job.upper),
                     job.upper)

\* What miner.go computes for a share.
ResultOf(share) == BestOf(share.client, Nonces(share), MaxUint)

\* What is on its way to a miner is the share it holds, and what is on its
\* way from it is the result of that share.  Of a busy miner one of the two
\* is there, or it was declared lost and the loss is to be read, after its
\* result.
Mailed(m, box) ==
  /\ \A i \in Miners : work[i] # <<>> =>
       i \in Busy(m) /\ i \notin lost /\ work[i] = <<m[i]>>
  /\ \A k \in DOMAIN box : box[k].type = "result" =>
       /\ box[k].id \in Busy(m) /\ work[box[k].id] = <<>>
       /\ <<box[k].hash, box[k].nonce>> = ResultOf(m[box[k].id])
       /\ \A l \in DOMAIN box :
            box[l].type = "result" /\ box[l].id = box[k].id => l = k
  /\ \A i \in Busy(m) \ lost : work[i] = <<>> =>
       \E k \in DOMAIN box : box[k].type = "result" /\ box[k].id = i
  /\ \A i \in Busy(m) \cap lost :
       \E k \in DOMAIN box : box[k].type = "lost" /\ box[k].id = i
  /\ \A k \in DOMAIN box : box[k].type = "lost" =>
       /\ box[k].id \in lost
       /\ \A l \in DOMAIN box :
            box[l].type = "result" /\ box[l].id = box[k].id => l < k

MailInv == Mailed(miner, inbox)

ShareInv == SchedInv /\ JobInv /\ MailInv

\* How far apart multiples are.
LEMMA TimesIs ==
  ASSUME NEW j \in Nat, NEW k \in Nat, NEW w \in Nat, j < k
  PROVE  j * w + w <= k * w /\ j * w \in Nat /\ k * w \in Nat
<1>1. k = j + 1 + (k - j - 1) /\ k - j - 1 \in Nat
  OBVIOUS
<1>. DEFINE d == k - j - 1
<1>2. k = j + 1 + d /\ d \in Nat
  BY <1>1
<1>. HIDE DEF d
<1>3. k * w = j * w + w + d * w
  BY <1>2
<1>4. d * w \in Nat /\ j * w \in Nat /\ k * w \in Nat
  BY <1>2
<1>. QED
  BY <1>3, <1>4

\* n shares, rounded up, reach beyond u.
LEMMA SizeReaches ==
  ASSUME NEW u \in Nat, NEW n \in Nat \ {0}
  PROVE  u < n * (ShareSize(u, n) + 1)
<1>. DEFINE q == u \div n
            r == u % n
<1>1. u = n * q + r /\ q \in Nat /\ r \in 0 .. n - 1
  OBVIOUS
<1>2. ShareSize(u, n) = q + (IF r # 0 THEN 1 ELSE 0)
  BY DEF ShareSize
<1>. HIDE DEF q, r
<1>3. n * (q + 1) = n * q + n
  BY <1>1
<1>4. n * (q + 1) <= n * (ShareSize(u, n) + 1)
  <2>1. CASE r # 0
    <3>1. ShareSize(u, n) + 1 = q + 2
      BY <1>1, <1>2, <2>1
    <3>2. n * (q + 2) = n * (q + 1) + n
      BY <1>1
    <3>3. n * (q + 1) \in Nat
      BY <1>1
    <3>. QED
      BY <3>1, <3>2, <3>3
  <2>2. CASE r = 0
    BY <1>1, <1>2, <2>2
  <2>. QED
    BY <2>1, <2>2
<1>5. n * q \in Nat /\ n * (ShareSize(u, n) + 1) \in Nat
  BY <1>1, <1>2
<1>. QED
  BY <1>1, <1>3, <1>4, <1>5

\* A nonce below n * w is in one of the n pieces of w nonces.
LEMMA PieceExists ==
  ASSUME NEW x \in Nat, NEW n \in Nat, NEW w \in Nat \ {0}, x < n * w
  PROVE  \E k \in 0 .. n - 1 : k * w <= x /\ x < k * w + w
<1>. DEFINE k == x \div w
            r == x % w
<1>1. x = w * k + r /\ k \in Nat /\ r \in 0 .. w - 1
  OBVIOUS
<1>. HIDE DEF k, r
<1>2. w * k = k * w /\ k * w \in Nat
  BY <1>1
<1>3. k < n
  <2>1. ASSUME n <= k PROVE FALSE
    <3>1. CASE n = k
      BY <1>1, <1>2, <3>1
    <3>2. CASE n < k
      <4>1. n * w + w <= k * w /\ n * w \in Nat
        BY <1>1, <3>2, TimesIs
      <4>. QED
        BY <1>1, <1>2, <4>1
    <3>. QED
      BY <1>1, <2>1, <3>1, <3>2
  <2>. QED
    BY <1>1, <2>1
<1>4. k * w <= x /\ x < k * w + w
  <2>1. x = k * w + r
    BY <1>1, <1>2
  <2>. QED
    BY <1>1, <1>2, <2>1
<1>. QED
  BY <1>1, <1>3, <1>4

\* What the k-th share of 0 .. u is, when nothing wraps: w nonces from k * w
\* on, cut off at u.
LEMMA FittingShare ==
  ASSUME RangesFit, NEW c \in Clients, NEW u \in Uppers,
         NEW n \in 1 .. Cardinality(Miners), NEW k \in 0 .. n - 1
  PROVE  LET s == NthShare(c, u, n, k)
             w == ShareSize(u, n) + 1
         IN  /\ s.client = c /\ s.lower = k * w
             /\ s.lower <= s.upper /\ s.upper <= u
             /\ Nonces(s) = {x \in 0 .. u : k * w <= x /\ x < k * w + w}
<1>. DEFINE size == ShareSize(u, n)
            w    == size + 1
<1>1. u \in Nat /\ n \in Nat \ {0} /\ k \in Nat /\ u <= MaxUint
      /\ MaxUint \in Nat /\ n - 1 \in Nat
  BY MinersFinite
<1>2. size \in Nat
  BY <1>1, ShareSizeIs
<1>3. (n - 1) * w <= u /\ n * w <= MaxUint + 1
  BY <1>1 DEF RangesFit
<1>. HIDE DEF size
<1>4. k * w \in Nat /\ n * w \in Nat /\ (n - 1) * w \in Nat
  BY <1>1, <1>2
<1>5. k * w <= u /\ k * w + w <= n * w
  <2>1. k * w + w <= n * w
    BY <1>1, <1>2, TimesIs
  <2>2. CASE k = n - 1
    BY <1>3, <2>1, <2>2
  <2>3. CASE k < n - 1
    <3>1. k * w + w <= (n - 1) * w
      BY <1>1, <1>2, <2>3, TimesIs
    <3>. QED
      BY <1>1, <1>2, <1>3, <1>4, <2>1, <3>1
  <2>. QED
    BY <1>1, <2>2, <2>3
<1>. DEFINE low == k * w
<1>6. low \in Nat /\ low <= u /\ low + size <= MaxUint
  BY <1>1, <1>2, <1>3, <1>4, <1>5
<1>7. NthShare(c, u, n, k) = CutShare(c, u, Wrap(low), size)
  BY DEF NthShare, size
<1>. HIDE DEF low
<1>8. Wrap(low) = low /\ Wrap(low + size) = low + size
  BY <1>1, <1>2, <1>6 DEF Wrap
<1>. DEFINE top == IF low + size > u THEN u ELSE low + size
<1>9. NthShare(c, u, n, k) = Share(c, low, top)
  BY <1>7, <1>8 DEF CutShare
<1>10. low <= top /\ top <= u /\ top \in Nat
  BY <1>1, <1>2, <1>6
<1>11. low .. top = {x \in 0 .. u : low <= x /\ x < low + w}
  BY <1>1, <1>2, <1>6
<1>. HIDE DEF top
<1>12. LET s == NthShare(c, u, n, k)
       IN  /\ s.client = c /\ s.lower = low /\ s.upper = top
           /\ Nonces(s) = low .. top
  BY <1>9 DEF Share, Nonces
<1>. QED
  BY <1>10, <1>11, <1>12 DEF low, size

\* assign: who holds which share of the new job.
LEMMA AssignHolds ==
  ASSUME NEW m, m \in [DOMAIN m -> Shares \cup {Idle}],
         DOMAIN m \subseteq Miners, DOMAIN m # {},
         Pool(miner, pendrange, minerfail), DOMAIN pendrange = {},
         NEW jobs, jobs \in [DOMAIN jobs -> Uppers],
         NEW clients, clients \in [DOMAIN jobs -> Clients],
         NEW id \in DOMAIN jobs,
         Assign(m, jobs, clients, id)
  PROVE  /\ Holders(miner', pendrange') = DOMAIN m
         /\ DOMAIN miner' \cap lost = {}
         /\ \E turn \in Bijection(DOMAIN m, 0 .. Cardinality(DOMAIN m) - 1) :
              \A i \in DOMAIN m :
                Held(miner', pendrange', i) =
                  NthShare(clients[id], jobs[id], Cardinality(DOMAIN m),
                           turn[i])
<1>. DEFINE n    == Cardinality(DOMAIN m)
            dead == DOMAIN m \ Reachable(DOMAIN m)
<1>1. PICK turn \in Bijection(DOMAIN m, 0 .. n - 1) :
        LET share == [i \in DOMAIN m |->
                        NthShare(clients[id], jobs[id], n, turn[i])]
        IN  /\ miner' = Restrict(share, DOMAIN m \ dead)
            /\ pendrange' = [i \in DOMAIN pendrange \cup dead |->
                               IF i \in dead THEN share[i] ELSE pendrange[i]]
  BY DEF Assign
<1>. DEFINE share == [i \in DOMAIN m |->
                        NthShare(clients[id], jobs[id], n, turn[i])]
<1>2. /\ miner' = Restrict(share, DOMAIN m \ dead)
      /\ pendrange' = [i \in DOMAIN pendrange \cup dead |->
                         IF i \in dead THEN share[i] ELSE pendrange[i]]
  BY <1>1
<1>3. \A i \in DOMAIN m :
        share[i] = NthShare(clients[id], jobs[id], n, turn[i])
  OBVIOUS
<1>4. dead = DOMAIN m \cap lost
  BY DEF Reachable
<1>. HIDE DEF share, dead
<1>5. /\ miner' = [i \in DOMAIN m \ dead |-> share[i]]
      /\ pendrange' = [i \in dead |-> share[i]]
  BY <1>2 DEF Restrict
<1>6. /\ DOMAIN miner' = DOMAIN m \ dead /\ DOMAIN pendrange' = dead
  BY <1>5
<1>7. Busy(miner') = DOMAIN miner'
  BY AssignIs
<1>8. Holders(miner', pendrange') = DOMAIN m /\ DOMAIN miner' \cap lost = {}
  BY <1>4, <1>6, <1>7 DEF Holders
<1>9. \A i \in DOMAIN m : Held(miner', pendrange', i) = share[i]
  BY <1>5, <1>6 DEF Held
<1>. QED
  BY <1>3, <1>8, <1>9

\* assign splits the whole range: the shares have no nonce in common, and none
\* of the range is in no share.
LEMMA AssignApart ==
  ASSUME RangesFit, NEW m, m \in [DOMAIN m -> Shares \cup {Idle}],
         DOMAIN m \subseteq Miners, DOMAIN m # {},
         Pool(miner, pendrange, minerfail), DOMAIN pendrange = {},
         NEW jobs, jobs \in [DOMAIN jobs -> Uppers],
         NEW clients, clients \in [DOMAIN jobs -> Clients],
         NEW id \in DOMAIN jobs, NEW c, c = clients[id], NEW u, u = jobs[id],
         Assign(m, jobs, clients, id)
  PROVE  /\ Apart(miner', pendrange', c, u)
         /\ Reported(miner', pendrange', u) = {}
<1>. DEFINE n == Cardinality(DOMAIN m)
            w == ShareSize(u, n) + 1
            h == [i \in DOMAIN m |-> Held(miner', pendrange', i)]
<1>1. c \in Clients /\ u \in Uppers /\ u \in Nat
  OBVIOUS
<1>2. n \in 1 .. Cardinality(Miners) /\ n \in Nat \ {0}
  <2>1. n \in Nat /\ n # 0
    BY MinersFinite, CardEmpty
  <2>2. n <= Cardinality(Miners) /\ Cardinality(Miners) \in Nat
    BY FS_Subset, FS_CardinalityType
  <2>. QED
    BY <2>1, <2>2
<1>3. Holders(miner', pendrange') = DOMAIN m
  BY AssignHolds
<1>4. PICK turn \in Bijection(DOMAIN m, 0 .. n - 1) :
        \A i \in DOMAIN m : Held(miner', pendrange', i) =
                              NthShare(c, u, n, turn[i])
  BY AssignHolds, SMTT(90)
<1>5. /\ turn \in [DOMAIN m -> 0 .. n - 1]
      /\ \A i, j \in DOMAIN m : turn[i] = turn[j] => i = j
      /\ \A k \in 0 .. n - 1 : \E i \in DOMAIN m : turn[i] = k
  BY <1>4 DEF Bijection, Injection, Surjection, IsInjective
<1>6. \A i \in DOMAIN m : h[i] = NthShare(c, u, n, turn[i])
  BY <1>4
<1>7. w \in Nat \ {0}
  BY <1>1, <1>2, ShareSizeIs
<1>8. u < n * w
  BY <1>1, <1>2, SizeReaches
<1>. HIDE DEF n
<1>9. ASSUME NEW i \in DOMAIN m
      PROVE  /\ h[i].client = c /\ h[i].lower <= h[i].upper
             /\ h[i].upper <= u
             /\ Nonces(h[i]) = {x \in 0 .. u : /\ turn[i] * w <= x
                                               /\ x < turn[i] * w + w}
  BY <1>1, <1>2, <1>5, <1>6, FittingShare
<1>10. ASSUME NEW i \in DOMAIN m, NEW j \in DOMAIN m, turn[i] < turn[j]
       PROVE  Nonces(h[i]) \cap Nonces(h[j]) = {}
  <2>1. turn[i] * w + w <= turn[j] * w /\ turn[i] * w \in Nat
        /\ turn[j] * w \in Nat
    BY <1>2, <1>5, <1>7, <1>10, TimesIs
  <2>. HIDE DEF h, w
  <2>2. ASSUME NEW x \in 0 .. u, x < turn[i] * w + w, turn[j] * w <= x
        PROVE  FALSE
    BY <1>1, <1>7, <2>1, <2>2
  <2>. QED
    BY <1>9, <2>2
<1>11. ASSUME NEW i \in DOMAIN m, NEW j \in DOMAIN m, i # j
       PROVE  Nonces(h[i]) \cap Nonces(h[j]) = {}
  <2>1. turn[i] < turn[j] \/ turn[j] < turn[i]
    BY <1>2, <1>5, <1>11
  <2>. HIDE DEF h
  <2>. QED
    BY <1>10, <2>1
<1>12. ASSUME NEW x \in 0 .. u
       PROVE  \E i \in DOMAIN m : x \in Nonces(h[i])
  <2>. HIDE DEF w
  <2>1. PICK k \in 0 .. n - 1 : k * w <= x /\ x < k * w + w
    <3>1. n * w \in Nat /\ x \in Nat /\ n \in Nat
      BY <1>1, <1>2, <1>7
    <3>2. x < n * w
      BY <1>1, <1>8, <3>1
    <3>. QED
      BY <1>7, <3>1, <3>2, PieceExists
  <2>2. PICK i \in DOMAIN m : turn[i] = k
    BY <1>5
  <2>. HIDE DEF h
  <2>. QED
    BY <1>9, <2>1, <2>2
<1>13. \A i \in Holders(miner', pendrange') :
         i \in DOMAIN m /\ Held(miner', pendrange', i) = h[i]
  BY <1>3
<1>. HIDE DEF h, w
<1>14. Apart(miner', pendrange', c, u)
  BY <1>9, <1>11, <1>13 DEF Apart
<1>15. Reported(miner', pendrange', u) = {}
  BY <1>3, <1>12, <1>13 DEF Reported
<1>. QED
  BY <1>14, <1>15

\* Shares that change hands: the shares of one pool are those of another, each
\* held by another miner, when origin leads from the one to the other.
Renamed(m, ranges, m2, ranges2, origin) ==
  /\ origin \in [Holders(m2, ranges2) -> Holders(m, ranges)]
  /\ \A i, j \in Holders(m2, ranges2) : origin[i] = origin[j] => i = j
  /\ \A k \in Holders(m, ranges) : \E i \in Holders(m2, ranges2) : origin[i] = k
  /\ \A i \in Holders(m2, ranges2) :
       Held(m2, ranges2, i) = Held(m, ranges, origin[i])

\* When shares only change hands, they stay apart and nothing is reported or
\* taken back.
LEMMA RenamedApart ==
  ASSUME NEW m, NEW ranges, NEW m2, NEW ranges2, NEW origin,
         Renamed(m, ranges, m2, ranges2, origin), NEW c, NEW u
  PROVE  /\ Apart(m, ranges, c, u) => Apart(m2, ranges2, c, u)
         /\ Reported(m2, ranges2, u) = Reported(m, ranges, u)
<1>. DEFINE H  == Holders(m, ranges)
            H2 == Holders(m2, ranges2)
<1>1. /\ origin \in [H2 -> H]
      /\ \A i, j \in H2 : origin[i] = origin[j] => i = j
      /\ \A k \in H : \E i \in H2 : origin[i] = k
      /\ \A i \in H2 : Held(m2, ranges2, i) = Held(m, ranges, origin[i])
  BY DEF Renamed
<1>2. \A i \in H2 : origin[i] \in H
  BY <1>1
<1>3. ASSUME Apart(m, ranges, c, u) PROVE Apart(m2, ranges2, c, u)
  <2>1. /\ \A i \in H : /\ Held(m, ranges, i).client = c
                        /\ Held(m, ranges, i).lower <= Held(m, ranges, i).upper
                        /\ Held(m, ranges, i).upper <= u
        /\ \A i, j \in H : i # j =>
             Nonces(Held(m, ranges, i)) \cap Nonces(Held(m, ranges, j)) = {}
    BY <1>3 DEF Apart
  <2>2. \A i \in H2 :
          /\ Held(m2, ranges2, i).client = c
          /\ Held(m2, ranges2, i).lower <= Held(m2, ranges2, i).upper
          /\ Held(m2, ranges2, i).upper <= u
    BY <1>1, <1>2, <2>1
  <2>3. \A i, j \in H2 : i # j =>
          Nonces(Held(m2, ranges2, i)) \cap Nonces(Held(m2, ranges2, j)) = {}
    BY <1>1, <1>2, <2>1
  <2>. QED
    BY <2>2, <2>3, Zenon DEF Apart
<1>4. UNION {Nonces(Held(m2, ranges2, i)) : i \in H2} =
        UNION {Nonces(Held(m, ranges, i)) : i \in H}
  BY <1>1, <1>2
<1>. QED
  BY <1>3, <1>4 DEF Reported

\* reassign only lets shares change hands.
LEMMA GivesRenames ==
  ASSUME NEW m, NEW ranges, NEW fails, Pool(m, ranges, fails),
         NEW given, NEW dropped, NEW to, Gives(m, ranges, given, dropped, to)
  PROVE  \E origin : Renamed(m, ranges, miner', pendrange', origin)
<1>. DEFINE idle  == DOMAIN m \ Busy(m)
            image == {to[j] : j \in given}
<1>1. /\ given \subseteq DOMAIN ranges /\ dropped \subseteq idle \cap lost
      /\ to \in [given -> idle \ lost]
      /\ \A j, k \in given : to[j] = to[k] => j = k
      /\ \A j \in given : miner'[to[j]] = ranges[j]
      /\ \A i \in DOMAIN m \ dropped :
           (\A j \in given : to[j] # i) => miner'[i] = m[i]
      /\ pendrange' = [i \in DOMAIN ranges \ given |-> ranges[i]]
  BY Zenon DEF Gives
<1>2. /\ DOMAIN pendrange' = DOMAIN ranges \ given
      /\ Busy(miner') = Busy(m) \cup image
  <2>1. /\ DOMAIN pendrange' = DOMAIN ranges \ given
        /\ Busy(miner') = Busy(m) \cup Takers(given, to)
    BY GivesIs, ZenonT(60)
  <2>. QED
    BY <2>1 DEF Takers
<1>3. DOMAIN m \cap DOMAIN ranges = {} /\ Busy(m) \subseteq DOMAIN m
  BY DEF Pool, Busy
<1>4. image \subseteq idle \ lost
  BY <1>1
<1>5. Holders(miner', pendrange') =
        Busy(m) \cup image \cup (DOMAIN ranges \ given)
  BY <1>2 DEF Holders
<1>. DEFINE origin == [i \in Holders(miner', pendrange') |->
                         IF i \in image THEN CHOOSE j \in given : to[j] = i
                                        ELSE i]
<1>6. \A j \in given : to[j] \in image /\ origin[to[j]] = j
  <2>1. \A j \in given : (CHOOSE k \in given : to[k] = to[j]) = j
    BY <1>1
  <2>. QED
    BY <1>5, <2>1
<1>7. \A i \in image : \E j \in given : i = to[j]
  OBVIOUS
<1>8. \A i \in Busy(m) \cup (DOMAIN ranges \ given) :
        i \notin image /\ origin[i] = i
  BY <1>3, <1>4, <1>5
<1>9. DOMAIN origin = Holders(miner', pendrange')
      /\ origin = [i \in Holders(miner', pendrange') |-> origin[i]]
  OBVIOUS
<1>. HIDE DEF origin, image
<1>10. origin \in [Holders(miner', pendrange') -> Holders(m, ranges)]
  <2>1. \A i \in Holders(miner', pendrange') : origin[i] \in Holders(m, ranges)
    BY <1>1, <1>5, <1>6, <1>7, <1>8 DEF Holders
  <2>. QED
    BY <1>9, <2>1
<1>11. ASSUME NEW i \in Holders(miner', pendrange'),
              NEW j \in Holders(miner', pendrange'), origin[i] = origin[j]
       PROVE  i = j
  BY <1>1, <1>3, <1>5, <1>6, <1>7, <1>8, <1>11
<1>12. ASSUME NEW k \in Holders(m, ranges)
       PROVE  \E i \in Holders(miner', pendrange') : origin[i] = k
  BY <1>5, <1>6, <1>8, <1>12 DEF Holders
<1>13. ASSUME NEW i \in Holders(miner', pendrange')
       PROVE  Held(miner', pendrange', i) = Held(m, ranges, origin[i])
  <2>1. CASE i \in image
    <3>1. PICK j \in given : i = to[j]
      BY <1>7, <2>1
    <3>2. i \notin DOMAIN pendrange' /\ j \in DOMAIN ranges
      BY <1>1, <1>2, <1>3, <1>4, <2>1
    <3>. QED
      BY <1>1, <1>6, <3>1, <3>2 DEF Held
  <2>2. CASE i \in Busy(m)
    <3>1. i \notin DOMAIN ranges /\ i \notin image /\ origin[i] = i
      BY <1>3, <1>8, <2>2
    <3>2. miner'[i] = m[i]
      <4>1. i \in DOMAIN m \ dropped
        BY <1>1, <1>3, <2>2
      <4>2. \A j \in given : to[j] # i
        BY <1>6, <3>1
      <4>. QED
        BY <1>1, <4>1, <4>2
    <3>. QED
      BY <1>2, <3>1, <3>2 DEF Held
  <2>3. CASE i \in DOMAIN ranges \ given
    BY <1>1, <1>2, <1>8, <2>3 DEF Held
  <2>. QED
    BY <1>5, <2>1, <2>2, <2>3
<1>14. Renamed(m, ranges, miner', pendrange', origin)
  BY <1>10, <1>11, <1>12, <1>13 DEF Renamed
<1>. QED
  BY <1>14

\* Pools that hold the same shares in the same hands.
LEMMA SameHands ==
  ASSUME NEW m, NEW ranges, NEW m2, NEW ranges2,
         Holders(m2, ranges2) = Holders(m, ranges),
         \A i \in Holders(m, ranges) :
           Held(m2, ranges2, i) = Held(m, ranges, i),
         NEW c, NEW u
  PROVE  /\ Apart(m, ranges, c, u) => Apart(m2, ranges2, c, u)
         /\ Reported(m2, ranges2, u) = Reported(m, ranges, u)
<1>. DEFINE origin == [i \in Holders(m, ranges) |-> i]
<1>1. Renamed(m, ranges, m2, ranges2, origin)
  BY DEF Renamed
<1>. QED
  BY <1>1, RenamedApart

\* reassign writes a share only to a miner that nothing is on its way to or
\* from, and that is not lost.
LEMMA GivesMails ==
  ASSUME NEW m, NEW ranges, NEW fails, Pool(m, ranges, fails),
         work \in [Miners -> Seq(Shares)],
         NEW box, Mailed(m, box), inbox' = box, lost' = lost,
         NEW given, NEW dropped, NEW to, Gives(m, ranges, given, dropped, to)
  PROVE  MailInv'
<1>. DEFINE idle  == DOMAIN m \ Busy(m)
            image == {to[j] : j \in given}
<1>1. /\ dropped \subseteq idle \cap lost /\ to \in [given -> idle \ lost]
      /\ miner' \in [DOMAIN m \ dropped -> Shares \cup {Idle}]
      /\ \A i \in DOMAIN m \ dropped :
           (\A j \in given : to[j] # i) => miner'[i] = m[i]
      /\ work' = [i \in Miners |-> IF \E j \in given : to[j] = i
                                     THEN Append(work[i], miner'[i])
                                     ELSE work[i]]
  BY Zenon DEF Gives
<1>2. Busy(miner') = Busy(m) \cup image
  <2>1. Busy(miner') = Busy(m) \cup Takers(given, to)
    BY ONLY Pool(m, ranges, fails), Gives(m, ranges, given, dropped, to),
            GivesIs, Zenon
  <2>. QED
    BY <2>1 DEF Takers
<1>3. /\ Busy(m) \subseteq DOMAIN m /\ DOMAIN m \subseteq Miners
  BY DEF Busy, Pool
<1>4. image \subseteq idle \ lost
  BY <1>1
<1>5. \A i \in Miners : i \in image <=> \E j \in given : to[j] = i
  OBVIOUS
<1>. HIDE DEF image
<1>6. /\ \A i \in Miners : work[i] # <<>> =>
           i \in Busy(m) /\ i \notin lost /\ work[i] = <<m[i]>>
      /\ \A k \in DOMAIN box : box[k].type = "result" =>
           /\ box[k].id \in Busy(m) /\ work[box[k].id] = <<>>
           /\ <<box[k].hash, box[k].nonce>> = ResultOf(m[box[k].id])
           /\ \A l \in DOMAIN box :
                box[l].type = "result" /\ box[l].id = box[k].id => l = k
      /\ \A i \in Busy(m) \ lost : work[i] = <<>> =>
           \E k \in DOMAIN box : box[k].type = "result" /\ box[k].id = i
      /\ \A i \in Busy(m) \cap lost :
           \E k \in DOMAIN box : box[k].type = "lost" /\ box[k].id = i
      /\ \A k \in DOMAIN box : box[k].type = "lost" =>
           /\ box[k].id \in lost
           /\ \A l \in DOMAIN box :
                box[l].type = "result" /\ box[l].id = box[k].id => l < k
  BY DEF Mailed
<1>7. ASSUME NEW i \in Busy(m)
      PROVE  /\ i \in Miners /\ i \notin image
             /\ miner'[i] = m[i] /\ work'[i] = work[i]
  <2>1. i \in Miners /\ i \in DOMAIN m \ dropped /\ i \notin image
    BY <1>1, <1>3, <1>4
  <2>. QED
    BY <1>1, <1>5, <2>1
<1>8. ASSUME NEW i \in image
      PROVE  /\ i \in Miners /\ i \notin lost /\ work'[i] = <<miner'[i]>>
  <2>1. i \in Miners /\ i \notin Busy(m) /\ i \notin lost
    BY <1>3, <1>4
  <2>2. work[i] = <<>>
    BY <1>6, <2>1
  <2>3. work'[i] = Append(work[i], miner'[i])
    BY <1>1, <1>5, <2>1
  <2>. QED
    BY <2>1, <2>2, <2>3
<1>9. ASSUME NEW i \in Miners, i \notin image PROVE work'[i] = work[i]
  BY <1>1, <1>5, <1>9
<1>10. \A i \in Miners : work'[i] # <<>> =>
         /\ i \in Busy(miner') /\ i \notin lost' /\ work'[i] = <<miner'[i]>>
  <2>. SUFFICES ASSUME NEW i \in Miners, work'[i] # <<>>
                PROVE  /\ i \in Busy(miner') /\ i \notin lost
                       /\ work'[i] = <<miner'[i]>>
    OBVIOUS
  <2>1. CASE i \in image
    BY <1>2, <1>8, <2>1
  <2>2. CASE i \notin image
    BY <1>2, <1>6, <1>7, <1>9, <2>2
  <2>. QED
    BY <2>1, <2>2
<1>11. \A k \in DOMAIN inbox' : inbox'[k].type = "result" =>
         /\ inbox'[k].id \in Busy(miner') /\ work'[inbox'[k].id] = <<>>
         /\ <<inbox'[k].hash, inbox'[k].nonce>>
              = ResultOf(miner'[inbox'[k].id])
         /\ \A l \in DOMAIN inbox' :
              inbox'[l].type = "result" /\ inbox'[l].id = inbox'[k].id
                => l = k
  BY <1>2, <1>6, <1>7
<1>12. \A i \in Busy(miner') \ lost' : work'[i] = <<>> =>
         \E k \in DOMAIN inbox' :
           inbox'[k].type = "result" /\ inbox'[k].id = i
  <2>. SUFFICES ASSUME NEW i \in Busy(miner') \ lost, work'[i] = <<>>
                PROVE  \E k \in DOMAIN inbox' :
                         inbox'[k].type = "result" /\ inbox'[k].id = i
    OBVIOUS
  <2>1. i \notin image
    <3>1. <<miner'[i]>> # <<>>
      OBVIOUS
    <3>. QED
      BY <1>8, <3>1
  <2>2. i \in Busy(m) /\ work[i] = <<>>
    BY <1>2, <1>7, <2>1
  <2>. QED
    BY <1>6, <2>2
<1>13. \A i \in Busy(miner') \cap lost' :
         \E k \in DOMAIN inbox' : inbox'[k].type = "lost" /\ inbox'[k].id = i
  BY <1>2, <1>4, <1>6
<1>14. \A k \in DOMAIN inbox' : inbox'[k].type = "lost" =>
         /\ inbox'[k].id \in lost'
         /\ \A l \in DOMAIN inbox' :
              inbox'[l].type = "result" /\ inbox'[l].id = inbox'[k].id
                => l < k
  BY <1>6
<1>. QED
  BY <1>10, <1>11, <1>12, <1>13, <1>14, Zenon DEF MailInv, Mailed

\* A pass that ends with reassign, or without it, from a pool m it made.
LEMMA MoveKeeps ==
  ASSUME NEW m, NEW ranges, NEW fails, Pool(m, ranges, fails),
         work \in [Miners -> Seq(Shares)],
         NEW box, Mailed(m, box), inbox' = box, lost' = lost,
         \/ Reassign(m, ranges, fails)
         \/ miner' = m /\ pendrange' = ranges /\ work' = work,
         NEW c, NEW u
  PROVE  /\ MailInv'
         /\ Apart(m, ranges, c, u) => Apart(miner', pendrange', c, u)
         /\ Reported(miner', pendrange', u) = Reported(m, ranges, u)
<1>1. CASE Reassign(m, ranges, fails)
  <2>1. PICK given, dropped, to : Gives(m, ranges, given, dropped, to)
    BY <1>1, ReassignGives
  <2>2. PICK origin : Renamed(m, ranges, miner', pendrange', origin)
    BY <2>1, GivesRenames
  <2>3. MailInv'
    BY <2>1, GivesMails
  <2>. QED
    BY <2>2, <2>3, RenamedApart
<1>2. CASE miner' = m /\ pendrange' = ranges /\ work' = work
  <2>1. MailInv'
    BY <1>2 DEF MailInv, Mailed
  <2>. QED
    BY <1>2, <2>1
<1>. QED
  BY <1>1, <1>2

\* A message is read: what it leaves in inbox fits the pool without the miner
\* whose result or loss it is.
LEMMA TailMails ==
  ASSUME MailInv, inbox \in Seq(Messages), inbox # <<>>,
         NEW m, Busy(m) \subseteq Busy(miner),
         \A i \in Busy(m) : m[i] = miner[i],
         \A i \in Busy(miner) \ Busy(m) :
           /\ work[i] = <<>>
           /\ \A k \in DOMAIN inbox : k # 1 =>
                ~ (inbox[k].type = "result" /\ inbox[k].id = i),
         Head(inbox).type \in {"result", "lost"} => Head(inbox).id \notin Busy(m),
         Busy(miner) \subseteq Miners
  PROVE  Mailed(m, Tail(inbox))
<1>. DEFINE box == Tail(inbox)
<1>1. /\ \A k \in DOMAIN box : /\ k \in Nat \ {0} /\ k + 1 \in DOMAIN inbox
                               /\ box[k] = inbox[k + 1]
      /\ \A k \in DOMAIN inbox : k # 1 =>
           /\ k \in Nat /\ k - 1 \in DOMAIN box /\ box[k - 1] = inbox[k]
      /\ Head(inbox) = inbox[1] /\ 1 \in DOMAIN inbox
  OBVIOUS
<1>. HIDE DEF box
<1>2. /\ \A i \in Miners : work[i] # <<>> =>
           i \in Busy(miner) /\ i \notin lost /\ work[i] = <<miner[i]>>
      /\ \A k \in DOMAIN inbox : inbox[k].type = "result" =>
           /\ inbox[k].id \in Busy(miner) /\ work[inbox[k].id] = <<>>
           /\ <<inbox[k].hash, inbox[k].nonce>> = ResultOf(miner[inbox[k].id])
           /\ \A l \in DOMAIN inbox :
                inbox[l].type = "result" /\ inbox[l].id = inbox[k].id => l = k
      /\ \A i \in Busy(miner) \ lost : work[i] = <<>> =>
           \E k \in DOMAIN inbox : inbox[k].type = "result" /\ inbox[k].id = i
      /\ \A i \in Busy(miner) \cap lost :
           \E k \in DOMAIN inbox : inbox[k].type = "lost" /\ inbox[k].id = i
      /\ \A k \in DOMAIN inbox : inbox[k].type = "lost" =>
           /\ inbox[k].id \in lost
           /\ \A l \in DOMAIN inbox :
                inbox[l].type = "result" /\ inbox[l].id = inbox[k].id => l < k
  BY DEF MailInv, Mailed
<1>3. \A i \in Miners : work[i] # <<>> =>
        i \in Busy(m) /\ i \notin lost /\ work[i] = <<m[i]>>
  BY <1>2
<1>4. ASSUME NEW k \in DOMAIN box, box[k].type = "result"
      PROVE  /\ box[k].id \in Busy(m) /\ work[box[k].id] = <<>>
             /\ <<box[k].hash, box[k].nonce>> = ResultOf(m[box[k].id])
             /\ \A l \in DOMAIN box :
                  box[l].type = "result" /\ box[l].id = box[k].id => l = k
  <2>1. /\ k \in Nat \ {0} /\ k + 1 \in DOMAIN inbox
        /\ box[k] = inbox[k + 1]
    BY <1>1
  <2>2. /\ box[k].id \in Busy(miner) /\ work[box[k].id] = <<>>
        /\ <<box[k].hash, box[k].nonce>> = ResultOf(miner[box[k].id])
        /\ \A l \in DOMAIN inbox :
             inbox[l].type = "result" /\ inbox[l].id = box[k].id => l = k + 1
    BY <1>2, <1>4, <2>1
  <2>3. k + 1 # 1
    BY <2>1
  <2>4. box[k].id \in Busy(m)
    BY <1>4, <2>1, <2>2, <2>3
  <2>5. ASSUME NEW l \in DOMAIN box, box[l].type = "result",
               box[l].id = box[k].id
        PROVE  l = k
    <3>1. l \in Nat /\ l + 1 \in DOMAIN inbox /\ box[l] = inbox[l + 1]
      BY <1>1
    <3>2. l + 1 = k + 1
      BY <2>2, <2>5, <3>1
    <3>. QED
      BY <2>1, <3>1, <3>2
  <2>. QED
    BY <2>2, <2>4, <2>5
<1>5. ASSUME NEW i \in Busy(m) \ lost, work[i] = <<>>
      PROVE  \E k \in DOMAIN box : box[k].type = "result" /\ box[k].id = i
  <2>1. PICK k \in DOMAIN inbox : inbox[k].type = "result" /\ inbox[k].id = i
    BY <1>2, <1>5
  <2>2. k # 1
    BY <1>1, <2>1
  <2>. QED
    BY <1>1, <2>1, <2>2
<1>6. ASSUME NEW i \in Busy(m) \cap lost
      PROVE  \E k \in DOMAIN box : box[k].type = "lost" /\ box[k].id = i
  <2>1. PICK k \in DOMAIN inbox : inbox[k].type = "lost" /\ inbox[k].id = i
    BY <1>2
  <2>2. k # 1
    BY <1>1, <2>1
  <2>. QED
    BY <1>1, <2>1, <2>2
<1>7. ASSUME NEW k \in DOMAIN box, box[k].type = "lost"
      PROVE  /\ box[k].id \in lost
             /\ \A l \in DOMAIN box :
                  box[l].type = "result" /\ box[l].id = box[k].id => l < k
  <2>1. k \in Nat /\ k + 1 \in DOMAIN inbox /\ box[k] = inbox[k + 1]
    BY <1>1
  <2>2. /\ box[k].id \in lost
        /\ \A l \in DOMAIN inbox :
             inbox[l].type = "result" /\ inbox[l].id = box[k].id => l < k + 1
    BY <1>2, <1>7, <2>1
  <2>3. ASSUME NEW l \in DOMAIN box, box[l].type = "result",
               box[l].id = box[k].id
        PROVE  l < k
    <3>1. l \in Nat /\ l + 1 \in DOMAIN inbox /\ box[l] = inbox[l + 1]
      BY <1>1
    <3>2. l + 1 < k + 1
      BY <2>2, <2>3, <3>1
    <3>. QED
      BY <2>1, <3>1, <3>2
  <2>. QED
    BY <2>2, <2>3
<1>8. Mailed(m, box)
  BY <1>3, <1>4, <1>5, <1>6, <1>7, Zenon DEF Mailed
<1>. QED
  BY <1>8 DEF box

\* Of two results one is better, or they are the same.
LEMMA BetterIs ==
  ASSUME NEW p \in Hashes \X Hashes, NEW q \in Hashes \X Hashes
  PROVE  /\ ~ Better(p, q) /\ ~ Better(q, p) => p = q
         /\ ~ (Better(p, q) /\ Better(q, p))
         /\ \A r \in Hashes \X Hashes :
              ~ Better(q, p) /\ ~ Better(r, q) => ~ Better(r, p)
<1>1. /\ p = <<p[1], p[2]>> /\ q = <<q[1], q[2]>>
      /\ p[1] \in Nat /\ p[2] \in Nat /\ q[1] \in Nat /\ q[2] \in Nat
  BY DEF Hashes
<1>2. \A r \in Hashes \X Hashes : r[1] \in Nat /\ r[2] \in Nat
  BY DEF Hashes
<1>3. ~ Better(p, q) /\ ~ Better(q, p) => p[1] = q[1] /\ p[2] = q[2]
  BY <1>1 DEF Better
<1>4. ~ (Better(p, q) /\ Better(q, p))
  BY <1>1 DEF Better
<1>5. \A r \in Hashes \X Hashes :
        ~ Better(q, p) /\ ~ Better(r, q) => ~ Better(r, p)
  BY <1>1, <1>2 DEF Better
<1>. QED
  BY <1>1, <1>3, <1>4, <1>5

\* BestOf is the only result that no other is better than.
LEMMA BestOfOnly ==
  ASSUME NEW c \in Clients, NEW nonces \in SUBSET Hashes, NEW top \in Hashes,
         NEW p \in ResultsOf(c, nonces, top),
         \A q \in ResultsOf(c, nonces, top) : ~ Better(q, p)
  PROVE  BestOf(c, nonces, top) = p
<1>1. /\ BestOf(c, nonces, top) \in ResultsOf(c, nonces, top)
      /\ ResultsOf(c, nonces, top) \subseteq Hashes \X Hashes
      /\ \A q \in ResultsOf(c, nonces, top) :
           ~ Better(q, BestOf(c, nonces, top))
  BY BestOfIs
<1>. QED
  BY <1>1, BetterIs

\* Before the first result the best is the one assign puts into ans1, ans2.
LEMMA BestOfNone ==
  ASSUME NEW c \in Clients, NEW top \in Hashes
  PROVE  BestOf(c, {}, top) = <<MaxUint, top>>
<1>1. ResultsOf(c, {}, top) = {<<MaxUint, top>>}
  BY DEF ResultsOf
<1>2. BestOf(c, {}, top) \in ResultsOf(c, {}, top)
  BY BestOfIs
<1>. QED
  BY <1>1, <1>2

\* The result of one more share makes the answer the best over its nonces too.
LEMMA MergeIs ==
  ASSUME NEW c \in Clients, NEW S \in SUBSET Hashes, NEW T \in SUBSET Hashes,
         NEW top \in Hashes
  PROVE  Merge(BestOf(c, S, top), BestOf(c, T, MaxUint))
           = BestOf(c, S \cup T, top)
<1>. DEFINE p == BestOf(c, S, top)
            q == BestOf(c, T, MaxUint)
            RS == ResultsOf(c, S, top)
            RT == ResultsOf(c, T, MaxUint)
            R  == ResultsOf(c, S \cup T, top)
<1>1. MaxUint \in Hashes /\ S \cup T \in SUBSET Hashes
  BY DEF Hashes
<1>2. /\ p \in RS /\ RS \subseteq Hashes \X Hashes
      /\ \A r \in RS : ~ Better(r, p)
  BY BestOfIs
<1>3. /\ q \in RT /\ RT \subseteq Hashes \X Hashes
      /\ \A r \in RT : ~ Better(r, q)
  BY <1>1, BestOfIs
<1>4. /\ RS \subseteq R /\ RT \subseteq R \cup {<<MaxUint, MaxUint>>}
      /\ R \subseteq RS \cup RT
  BY DEF ResultsOf
<1>5. R \subseteq Hashes \X Hashes
  BY <1>1, BestOfIs
<1>. HIDE DEF p, q, RS, RT, R
<1>6. p \in Hashes \X Hashes /\ q \in Hashes \X Hashes
  BY <1>2, <1>3
<1>7. ~ Better(<<MaxUint, MaxUint>>, p)
  <2>1. /\ p[1] \in Nat /\ p[2] \in Nat /\ p[1] <= MaxUint /\ p[2] <= MaxUint
    BY <1>6 DEF Hashes
  <2>. QED
    BY <2>1 DEF Better
<1>8. CASE Better(q, p)
  <2>1. q \in R
    BY <1>3, <1>4, <1>7, <1>8
  <2>2. ~ Better(p, q)
    BY <1>6, <1>8, BetterIs
  <2>3. \A r \in R : ~ Better(r, q)
    <3>1. ASSUME NEW r \in RS PROVE ~ Better(r, q)
      BY <1>2, <1>6, <2>2, BetterIs
    <3>. QED
      BY <1>3, <1>4, <3>1
  <2>4. BestOf(c, S \cup T, top) = q
    BY <1>1, <2>1, <2>3, BestOfOnly DEF R
  <2>. QED
    BY <1>8, <2>4 DEF Merge, p, q
<1>9. CASE ~ Better(q, p)
  <2>1. \A r \in R : ~ Better(r, p)
    <3>1. ASSUME NEW r \in RT PROVE ~ Better(r, p)
      BY <1>3, <1>6, <1>9, BetterIs
    <3>. QED
      BY <1>2, <1>4, <3>1
  <2>2. p \in R
    BY <1>2, <1>4
  <2>3. BestOf(c, S \cup T, top) = p
    BY <1>1, <2>1, <2>2, BestOfOnly DEF R
  <2>. QED
    BY <1>9, <2>3 DEF Merge, p, q
<1>. QED
  BY <1>8, <1>9

\* The result of a share that is not empty names a nonce of the share.
LEMMA ResultInShare ==
  ASSUME NEW s \in Shares, s.lower <= s.upper
  PROVE  /\ ResultOf(s) \in Hashes \X Hashes
         /\ ResultOf(s)[2] \in Nonces(s)
<1>. DEFINE p == ResultOf(s)
            R == ResultsOf(s.client, Nonces(s), MaxUint)
<1>1. /\ s.client \in Clients /\ Nonces(s) \in SUBSET Hashes
      /\ s.lower \in Hashes /\ s.upper \in Hashes /\ MaxUint \in Hashes
      /\ MaxUint \in Nat
  BY DEF Shares, Nonces, Hashes
<1>2. p \in R /\ R \subseteq Hashes \X Hashes /\ \A r \in R : ~ Better(r, p)
  BY <1>1, BestOfIs DEF ResultOf
<1>3. p \in {<<Hash[s.client][n], n>> : n \in Nonces(s)}
        \/ p = <<MaxUint, MaxUint>>
  BY <1>2 DEF ResultsOf
<1>4. s.lower \in Nonces(s)
  BY <1>1 DEF Nonces, Hashes
<1>5. <<Hash[s.client][s.lower], s.lower>> \in R
  BY <1>4 DEF ResultsOf
<1>6. Hash[s.client][s.lower] \in Hashes
  BY <1>1, HashAssumption DEF Hashes
<1>. HIDE DEF p, R
<1>7. ASSUME p \in {<<Hash[s.client][n], n>> : n \in Nonces(s)}
      PROVE  p[2] \in Nonces(s)
  BY <1>7
<1>8. ASSUME p = <<MaxUint, MaxUint>> PROVE p[2] \in Nonces(s)
  <2>1. ~ Better(<<Hash[s.client][s.lower], s.lower>>, p)
    BY <1>2, <1>5
  <2>2. ~ (s.lower < MaxUint)
    <3>. DEFINE h == Hash[s.client][s.lower]
    <3>1. h \in Nat /\ h <= MaxUint /\ s.lower \in Nat /\ s.lower <= MaxUint
      BY <1>1, <1>6 DEF Hashes
    <3>. HIDE DEF h
    <3>2. ~ (h < MaxUint \/ (h = MaxUint /\ s.lower < MaxUint))
      BY <1>8, <2>1 DEF Better, h
    <3>. QED
      BY <1>1, <3>1, <3>2
  <2>3. s.lower = MaxUint
    BY <1>1, <2>2 DEF Hashes
  <2>. QED
    BY <1>4, <1>8, <2>3
<1>9. p[2] \in Nonces(s)
  BY <1>3, <1>7, <1>8
<1>. QED
  BY <1>2, <1>9 DEF p

-----------------------------------------------------------------------------
(***************************************************************************)
(* What a pass of the main loop does to the shares and the results.        *)
(***************************************************************************)

\* assign starts a job when nothing is on its way to or from any miner.
LEMMA StartsApart ==
  ASSUME RangesFit, SchedInv, MailInv, ~ run \/ waitans,
         NEW m, Pool(m, pendrange, minerfail), DOMAIN m # {},
         NEW jobs, jobs \in [DOMAIN jobs -> Uppers],
         NEW clients, clients \in [DOMAIN jobs -> Clients],
         NEW id \in DOMAIN jobs, Assign(m, jobs, clients, id),
         \A k \in DOMAIN inbox' : \E j \in DOMAIN inbox : inbox'[k] = inbox[j],
         lost' = lost
  PROVE  JobInv' /\ MailInv'
<1>1. /\ m \in [DOMAIN m -> Shares \cup {Idle}] /\ DOMAIN m \subseteq Miners
      /\ Pool(miner, pendrange, minerfail)
      /\ work \in [Miners -> Seq(Shares)]
  BY DEF SchedInv, PoolInv, Pool, TypeInv
<1>2. Busy(miner) = {} /\ DOMAIN pendrange = {}
  BY NothingDue
<1>. DEFINE c == clients[id]
            u == jobs[id]
<1>3. c \in Clients /\ u \in Uppers /\ u \in Hashes
  BY DEF Hashes
<1>4. /\ run' = TRUE /\ job' = [client |-> c, upper |-> u]
      /\ ans1' = MaxUint /\ ans2' = u
  BY <1>1 DEF Assign
<1>5. /\ Apart(miner', pendrange', c, u)
      /\ Reported(miner', pendrange', u) = {}
  BY <1>1, <1>2, AssignApart
<1>6. JobInv'
  <2>. HIDE DEF c, u
  <2>1. job'.client = c /\ job'.upper = u
    BY <1>4
  <2>2. <<ans1', ans2'>> = BestOf(c, {}, u)
    BY <1>3, <1>4, BestOfNone
  <2>. QED
    BY <1>3, <1>5, <2>1, <2>2 DEF JobInv
<1>7. /\ Busy(miner') = DOMAIN miner' /\ work' = Sent(miner')
      /\ DOMAIN miner' \cap lost = {}
  BY <1>1, <1>2, AssignIs, AssignHolds
<1>8. \A i \in Miners : work[i] = <<>>
  BY <1>2 DEF MailInv, Mailed
<1>9. \A k \in DOMAIN inbox' :
        /\ inbox'[k].type # "result"
        /\ inbox'[k].type = "lost" => inbox'[k].id \in lost
  BY <1>2 DEF MailInv, Mailed
<1>10. ASSUME NEW i \in Miners
       PROVE  /\ i \in DOMAIN miner' => work'[i] = <<miner'[i]>>
              /\ i \notin DOMAIN miner' => work'[i] = <<>>
  <2>1. work'[i] = IF i \in DOMAIN miner' THEN Append(work[i], miner'[i])
                     ELSE work[i]
    BY <1>7 DEF Sent
  <2>2. work[i] = <<>>
    BY <1>8
  <2>3. Append(<<>>, miner'[i]) = <<miner'[i]>>
    OBVIOUS
  <2>. QED
    BY <2>1, <2>2, <2>3, Zenon
<1>11. MailInv'
  <2>1. \A i \in Miners : work'[i] # <<>> =>
          i \in Busy(miner') /\ i \notin lost' /\ work'[i] = <<miner'[i]>>
    BY <1>7, <1>10
  <2>2. \A i \in Busy(miner') : i \in Miners /\ i \notin lost
    <3>1. DOMAIN miner' \subseteq Miners
      BY <1>1, <1>2, AssignIs DEF Pool
    <3>. QED
      BY <1>7, <3>1
  <2>3. \A i \in Busy(miner') : work'[i] # <<>>
    <3>1. \A i : <<miner'[i]>> # <<>>
      OBVIOUS
    <3>. QED
      BY <1>7, <1>10, <2>2, <3>1
  <2>. QED
    BY <1>9, <2>1, <2>2, <2>3 DEF MailInv, Mailed
<1>. QED
  BY <1>6, <1>11

\* A pass that moves shares of the running job, from a pool m it made.
LEMMA MovesApart ==
  ASSUME SchedInv, NEW type, Read(type),
         NEW m, NEW ranges, NEW fails, Pool(m, ranges, fails),
         Mailed(m, Tail(inbox)),
         \/ Reassign(m, ranges, fails)
         \/ miner' = m /\ pendrange' = ranges /\ work' = work,
         run' = run, job' = job,
         run => /\ job.client \in Clients /\ job.upper \in Uppers
                /\ Apart(m, ranges, job.client, job.upper)
                /\ <<ans1', ans2'>> =
                     BestOf(job.client, Reported(m, ranges, job.upper),
                            job.upper)
  PROVE  JobInv' /\ MailInv'
<1>1. inbox' = Tail(inbox) /\ lost' = lost
  BY DEF Read, envVars
<1>2. work \in [Miners -> Seq(Shares)]
  BY DEF SchedInv, TypeInv
<1>3. /\ MailInv'
      /\ Apart(m, ranges, job.client, job.upper) =>
           Apart(miner', pendrange', job.client, job.upper)
      /\ Reported(miner', pendrange', job.upper) =
           Reported(m, ranges, job.upper)
  BY <1>1, <1>2, MoveKeeps
<1>4. JobInv'
  BY <1>3 DEF JobInv
<1>. QED
  BY <1>3, <1>4

\* What the invariants say to a pass that reads a message.
LEMMA ReadFacts ==
  ASSUME SchedInv, JobInv, MailInv, NEW type, Read(type)
  PROVE  /\ inbox \in Seq(Messages) /\ inbox # <<>> /\ inbox' = Tail(inbox)
         /\ Head(inbox) = inbox[1] /\ 1 \in DOMAIN inbox
         /\ Head(inbox).type = type /\ ~ waitans /\ UNCHANGED lost
         /\ Pool(miner, pendrange, minerfail) /\ pendminer = {}
         /\ Busy(miner) \subseteq Miners
         /\ run => /\ job.client \in Clients /\ job.upper \in Uppers
                   /\ Apart(miner, pendrange, job.client, job.upper)
                   /\ <<ans1, ans2>> =
                        BestOf(job.client,
                               Reported(miner, pendrange, job.upper),
                               job.upper)
<1>1. inbox \in Seq(Messages) /\ PoolInv
  BY DEF SchedInv, TypeInv
<1>2. /\ inbox # <<>> /\ inbox' = Tail(inbox) /\ Head(inbox).type = type
      /\ ~ waitans /\ UNCHANGED lost
  BY DEF Read, envVars
<1>3. Pool(miner, pendrange, minerfail) /\ pendminer = {}
  BY <1>1 DEF PoolInv
<1>4. Busy(miner) \subseteq Miners
  BY <1>3 DEF Pool, Busy
<1>. QED
  BY <1>1, <1>2, <1>3, <1>4 DEF JobInv

\* case <-yy.waitans.
LEMMA WaitAnsShares ==
  ASSUME RangesFit, SchedInv, JobInv, MailInv, WaitAns
  PROVE  JobInv' /\ MailInv'
<1>1. waitans /\ inbox' = inbox /\ lost' = lost /\ currid' = currid + 1
  BY DEF WaitAns, envVars
<1>2. /\ QueueInv /\ PoolInv /\ CountInv
      /\ Pool(miner, pendrange, minerfail) /\ pendminer = {}
  BY DEF SchedInv, PoolInv
<1>3. CASE DOMAIN pendjobs # {} /\ currid + 1 < reqct
  <2>1. Assign(Resized(miner, pendminer), pendjobs, pendclients, currid + 1)
    BY <1>3 DEF WaitAns
  <2>2. Resized(miner, pendminer) = miner
    BY <1>2, ResizedIs DEF Pool
  <2>3. /\ pendjobs \in [DOMAIN pendjobs -> Uppers]
        /\ pendclients \in [DOMAIN pendjobs -> Clients]
        /\ currid + 1 \in DOMAIN pendjobs /\ DOMAIN miner # {}
    BY <1>1, <1>2, <1>3 DEF QueueInv, CountInv
  <2>. QED
    BY <1>1, <1>2, <2>1, <2>2, <2>3, StartsApart
<1>4. CASE ~ (DOMAIN pendjobs # {} /\ currid + 1 < reqct)
  <2>1. /\ run' = FALSE
        /\ UNCHANGED <<miner, pendrange, work>>
    BY <1>4 DEF WaitAns, poolVars
  <2>. QED
    BY <1>1, <2>1 DEF JobInv, MailInv, Mailed
<1>. QED
  BY <1>3, <1>4

\* A miner that is lost with its share has sent no result that is unread.
LEMMA LostBusyShares ==
  ASSUME SchedInv, JobInv, MailInv, LostBusyMiner
  PROVE  JobInv' /\ MailInv'
<1>. DEFINE id     == Head(inbox).id
            left   == Resized(Restrict(miner, DOMAIN miner \ {id}), pendminer)
            ranges == [i \in DOMAIN pendrange \cup {id} |->
                         IF i = id THEN miner[id] ELSE pendrange[i]]
<1>1. /\ Read("lost") /\ run /\ id \in Busy(miner)
      /\ IF DOMAIN left # {}
           THEN Reassign(left, ranges, minerfail + 1)
           ELSE miner' = left /\ pendrange' = ranges /\ UNCHANGED work
      /\ UNCHANGED <<run, ans1, ans2, job>>
  BY DEF LostBusyMiner
<1>2. /\ inbox \in Seq(Messages) /\ inbox # <<>>
      /\ Head(inbox) = inbox[1] /\ 1 \in DOMAIN inbox
      /\ Head(inbox).type = "lost"
      /\ Pool(miner, pendrange, minerfail) /\ pendminer = {}
      /\ Busy(miner) \subseteq Miners
      /\ job.client \in Clients /\ job.upper \in Uppers
      /\ Apart(miner, pendrange, job.client, job.upper)
      /\ <<ans1, ans2>> = BestOf(job.client,
                                 Reported(miner, pendrange, job.upper),
                                 job.upper)
  BY <1>1, ReadFacts
<1>3. id \in DOMAIN miner
  BY <1>1 DEF Busy
<1>4. left = Restrict(miner, DOMAIN miner \ {id})
  <2>. HIDE DEF id
  <2>1. /\ Restrict(miner, DOMAIN miner \ {id})
             \in [DOMAIN miner \ {id} -> Shares \cup {Idle}]
        /\ DOMAIN Restrict(miner, DOMAIN miner \ {id}) = DOMAIN miner \ {id}
    BY <1>2, <1>3, LeaverIs
  <2>2. Restrict(miner, DOMAIN miner \ {id})
          \in [DOMAIN Restrict(miner, DOMAIN miner \ {id})
                 -> Shares \cup {Idle}]
    BY <2>1
  <2>. QED
    BY <1>2, <2>2, ResizedIs
<1>. HIDE DEF left
<1>5. left = Without(miner, id)
  BY <1>4 DEF Without
<1>6. ranges = WithShareOf(miner, pendrange, id)
  BY DEF WithShareOf
<1>7. /\ DOMAIN ranges = DOMAIN pendrange \cup {id}
      /\ ranges[id] = miner[id]
      /\ \A i \in DOMAIN pendrange : i # id => ranges[i] = pendrange[i]
  OBVIOUS
<1>8. /\ left = [i \in DOMAIN miner \ {id} |-> miner[i]]
  BY <1>4 DEF Restrict
<1>. HIDE DEF ranges
<1>9. Pool(left, ranges, minerfail + 1)
  <2>. HIDE DEF id
  <2>1. id \in Busy(miner) /\ Pool(miner, pendrange, minerfail)
    BY <1>1, <1>2
  <2>2. Pool(Without(miner, id), WithShareOf(miner, pendrange, id),
             minerfail + 1)
    BY <2>1, ShareMoves
  <2>. QED
    BY <1>5, <1>6, <2>2
<1>10. Busy(left) = Busy(miner) \ {id} /\ \A i \in Busy(left) : left[i] = miner[i]
  BY <1>8 DEF Busy
<1>11. DOMAIN miner \cap DOMAIN pendrange = {}
  BY <1>2 DEF Pool
<1>12. /\ Holders(left, ranges) = Holders(miner, pendrange)
       /\ \A i \in Holders(miner, pendrange) :
            Held(left, ranges, i) = Held(miner, pendrange, i)
  <2>1. Holders(left, ranges) = Holders(miner, pendrange)
    BY <1>1, <1>7, <1>10 DEF Holders
  <2>2. ASSUME NEW i \in Holders(miner, pendrange)
        PROVE  Held(left, ranges, i) = Held(miner, pendrange, i)
    <3>1. CASE i = id
      BY <1>3, <1>7, <1>11, <3>1 DEF Held
    <3>2. CASE i # id /\ i \in DOMAIN pendrange
      BY <1>7, <3>2 DEF Held
    <3>3. CASE i # id /\ i \notin DOMAIN pendrange
      <4>1. i \in Busy(left) /\ i \notin DOMAIN ranges
        BY <1>7, <1>10, <2>2, <3>3 DEF Holders
      <4>. QED
        BY <1>10, <3>3, <4>1 DEF Held
    <3>. QED
      BY <3>1, <3>2, <3>3
  <2>. QED
    BY <2>1, <2>2
<1>13. /\ Apart(left, ranges, job.client, job.upper)
       /\ Reported(left, ranges, job.upper)
            = Reported(miner, pendrange, job.upper)
  BY <1>2, <1>12, SameHands
<1>14. Mailed(left, Tail(inbox))
  <2>1. id \in lost /\ \A k \in DOMAIN inbox :
          k # 1 => ~ (inbox[k].type = "result" /\ inbox[k].id = id)
    BY <1>2 DEF MailInv, Mailed
  <2>2. work[id] = <<>>
    BY <1>1, <1>2, <2>1 DEF MailInv, Mailed
  <2>3. \A i \in Busy(miner) \ Busy(left) :
          /\ work[i] = <<>>
          /\ \A k \in DOMAIN inbox : k # 1 =>
               ~ (inbox[k].type = "result" /\ inbox[k].id = i)
    BY <1>10, <2>1, <2>2
  <2>4. Busy(left) \subseteq Busy(miner) /\ Head(inbox).id \notin Busy(left)
    BY <1>10
  <2>. HIDE DEF id
  <2>. QED
    BY <1>2, <1>10, <2>3, <2>4, TailMails
<1>15. \/ Reassign(left, ranges, minerfail + 1)
       \/ miner' = left /\ pendrange' = ranges /\ work' = work
  BY <1>1
<1>16. /\ run' = run /\ job' = job
       /\ <<ans1', ans2'>> = BestOf(job.client,
                                    Reported(left, ranges, job.upper),
                                    job.upper)
  BY <1>1, <1>2, <1>13
<1>. QED
  BY <1>1, <1>2, <1>9, <1>13, <1>14, <1>15, <1>16, MovesApart

\* A pass that reads a message and leaves the shares where they are.
LEMMA StaysApart ==
  ASSUME SchedInv, JobInv, MailInv, NEW type, Read(type),
         type \in {"result", "lost"} => Head(inbox).id \notin Busy(miner),
         NEW m, Pool(m, pendrange, minerfail), Busy(m) = Busy(miner),
         \A i \in Busy(m) : m[i] = miner[i],
         \/ Reassign(m, pendrange, minerfail)
         \/ miner' = m /\ pendrange' = pendrange /\ work' = work,
         UNCHANGED <<run, job, ans1, ans2>>
  PROVE  JobInv' /\ MailInv'
<1>1. /\ inbox \in Seq(Messages) /\ inbox # <<>>
      /\ Head(inbox).type = type
      /\ Pool(miner, pendrange, minerfail)
      /\ Busy(miner) \subseteq Miners
      /\ run => /\ job.client \in Clients /\ job.upper \in Uppers
                /\ Apart(miner, pendrange, job.client, job.upper)
                /\ <<ans1, ans2>> =
                     BestOf(job.client,
                            Reported(miner, pendrange, job.upper), job.upper)
  BY ReadFacts
<1>2. Mailed(m, Tail(inbox))
  BY <1>1, TailMails
<1>3. DOMAIN miner \cap DOMAIN pendrange = {} /\ Busy(miner) \subseteq DOMAIN miner
  BY <1>1 DEF Pool, Busy
<1>4. /\ Holders(m, pendrange) = Holders(miner, pendrange)
      /\ \A i \in Holders(miner, pendrange) :
           Held(m, pendrange, i) = Held(miner, pendrange, i)
  BY <1>3 DEF Holders, Held
<1>5. /\ Apart(miner, pendrange, job.client, job.upper) =>
           Apart(m, pendrange, job.client, job.upper)
      /\ Reported(m, pendrange, job.upper)
           = Reported(miner, pendrange, job.upper)
  BY <1>4, SameHands
<1>6. run => /\ job.client \in Clients /\ job.upper \in Uppers
             /\ Apart(m, pendrange, job.client, job.upper)
             /\ <<ans1', ans2'>> =
                  BestOf(job.client, Reported(m, pendrange, job.upper),
                         job.upper)
  BY <1>1, <1>5
<1>7. run' = run /\ job' = job
  OBVIOUS
<1>. QED
  BY <1>2, <1>6, <1>7, MovesApart

\* A miner without a share is lost, or a client.
LEMMA LostIdleShares ==
  ASSUME SchedInv, JobInv, MailInv, LostFreeMiner \/ LostOther
  PROVE  JobInv' /\ MailInv'
<1>1. Pool(miner, pendrange, minerfail)
  BY DEF SchedInv, PoolInv
<1>2. CASE LostFreeMiner
  <2>1. /\ Read("lost") /\ ~ run /\ Head(inbox).id \in DOMAIN miner
        /\ miner' = Restrict(miner, DOMAIN miner \ {Head(inbox).id})
        /\ UNCHANGED <<run, job, ans1, ans2, pendrange, work>>
    BY <1>2 DEF LostFreeMiner
  <2>2. Busy(miner) = {}
    BY <2>1, NothingDue
  <2>3. Pool(miner', pendrange, minerfail) /\ Busy(miner') = {}
    BY <1>1, <2>1, <2>2, LeaverIs
  <2>. QED
    BY <2>1, <2>2, <2>3, StaysApart
<1>3. CASE LostOther
  <2>1. /\ Read("lost")
        /\ Head(inbox).id \in DOMAIN miner => miner[Head(inbox).id] = Idle
        /\ UNCHANGED <<run, job, ans1, ans2, miner, pendrange, work>>
    BY <1>3 DEF LostOther
  <2>2. Head(inbox).id \notin Busy(miner)
    BY <2>1 DEF Busy
  <2>. QED
    BY <1>1, <2>1, <2>2, StaysApart
<1>. QED
  BY <1>2, <1>3

\* case bitcoin.Join.
LEMMA JoinShares ==
  ASSUME RangesFit, SchedInv, JobInv, MailInv, ReadJoin
  PROVE  JobInv' /\ MailInv'
<1>. DEFINE id     == Head(inbox).id
            joined == Resized(miner, {id})
<1>1. Read("join")
  BY DEF ReadJoin
<1>2. /\ id \in Miners /\ id \notin DOMAIN miner /\ id \notin DOMAIN pendrange
  BY <1>1, ReadIs
<1>3. /\ Pool(miner, pendrange, minerfail) /\ pendminer = {}
      /\ inbox \in Seq(Messages) /\ inbox # <<>> /\ inbox' = Tail(inbox)
      /\ lost' = lost
  BY <1>1, ReadFacts
<1>4. Resized(miner, pendminer \cup {id}) = joined
  BY <1>3
<1>5. /\ Pool(joined, pendrange, minerfail)
      /\ DOMAIN joined = DOMAIN miner \cup {id}
      /\ Busy(joined) = Busy(miner)
  BY <1>2, <1>3, JoinedIs
<1>6. \A i \in Busy(joined) : joined[i] = miner[i]
  <2>1. \A i \in DOMAIN miner : joined[i] = miner[i]
    BY <1>2, <1>3 DEF Resized, Pool
  <2>. HIDE DEF joined
  <2>. QED
    BY <1>5, <2>1 DEF Busy
<1>. HIDE DEF joined
<1>7. CASE run
  <2>1. /\ IF DOMAIN pendrange # {}
             THEN Reassign(joined, pendrange, minerfail)
             ELSE /\ miner' = joined
                  /\ UNCHANGED <<pendrange, minerfail, work>>
        /\ UNCHANGED <<pendjobs, pendclients, curclient, run, jobgiveup,
                       block, ans1, ans2, job, panicked>>
    BY <1>4, <1>7, Zenon DEF ReadJoin, joined
  <2>2. \/ Reassign(joined, pendrange, minerfail)
        \/ miner' = joined /\ pendrange' = pendrange /\ work' = work
    BY <2>1
  <2>. QED
    BY <1>1, <1>5, <1>6, <2>1, <2>2, StaysApart
<1>8. CASE ~ run
  <2>1. Busy(miner) = {} /\ DOMAIN pendrange = {}
    BY <1>8, NothingDue
  <2>2. IF DOMAIN pendclients # {}
          THEN Assign(joined, pendjobs, pendclients, currid)
          ELSE /\ miner' = joined
               /\ UNCHANGED <<pendjobs, pendclients, curclient, run, jobgiveup,
                              block, ans1, ans2, job, panicked, pendrange,
                              minerfail, work>>
    BY <1>8, <2>1, Zenon DEF ReadJoin, joined
  <2>3. CASE DOMAIN pendclients # {}
    <3>1. /\ pendjobs \in [DOMAIN pendjobs -> Uppers]
          /\ pendclients \in [DOMAIN pendjobs -> Clients]
          /\ currid \in DOMAIN pendjobs
      BY <1>8, <2>3 DEF SchedInv, QueueInv
    <3>2. Assign(joined, pendjobs, pendclients, currid) /\ DOMAIN joined # {}
      BY <1>5, <2>2, <2>3
    <3>3. \A k \in DOMAIN inbox' : \E j \in DOMAIN inbox : inbox'[k] = inbox[j]
      <4>1. \A k \in DOMAIN inbox' : /\ k + 1 \in DOMAIN inbox
                                     /\ inbox'[k] = inbox[k + 1]
        BY <1>3
      <4>. QED
        BY <4>1
    <3>. QED
      BY <1>3, <1>5, <1>8, <3>1, <3>2, <3>3, StartsApart
  <2>4. CASE DOMAIN pendclients = {}
    <3>1. /\ miner' = joined
          /\ UNCHANGED <<run, ans1, ans2, job, pendrange, work>>
      BY <2>2, <2>4
    <3>. QED
      BY <1>1, <1>5, <1>6, <3>1, StaysApart
  <2>. QED
    BY <2>3, <2>4
<1>. QED
  BY <1>7, <1>8

\* case bitcoin.Request.
LEMMA RequestShares ==
  ASSUME RangesFit, SchedInv, JobInv, MailInv, ReadRequest
  PROVE  JobInv' /\ MailInv'
<1>. DEFINE jobs == [k \in DOMAIN pendjobs \cup {reqct} |->
                       IF k = reqct THEN Head(inbox).upper ELSE pendjobs[k]]
            from == [k \in DOMAIN pendclients \cup {reqct} |->
                       IF k = reqct THEN Head(inbox).id ELSE pendclients[k]]
<1>1. /\ Read("request")
      /\ IF CanStart
           THEN Assign(miner, jobs, from, currid)
           ELSE UNCHANGED <<run, ans1, ans2, job, miner, pendrange, work>>
  BY DEF ReadRequest
<1>2. /\ Pool(miner, pendrange, minerfail)
      /\ inbox \in Seq(Messages) /\ inbox # <<>> /\ inbox' = Tail(inbox)
      /\ lost' = lost
  BY <1>1, ReadFacts
<1>3. Head(inbox).id \in Clients /\ Head(inbox).upper \in Uppers
  BY <1>1, ReadIs, MessageIs
<1>4. /\ jobs \in [DOMAIN pendjobs \cup {reqct} -> Uppers]
      /\ from \in [DOMAIN pendjobs \cup {reqct} -> Clients]
  BY <1>3 DEF SchedInv, QueueInv
<1>. HIDE DEF jobs, from
<1>5. CASE CanStart
  <2>1. ~ run /\ DOMAIN miner # {}
    BY <1>5 DEF CanStart
  <2>2. Assign(miner, jobs, from, currid)
    BY <1>1, <1>5
  <2>3. /\ jobs \in [DOMAIN jobs -> Uppers]
        /\ from \in [DOMAIN jobs -> Clients]
        /\ DOMAIN jobs = DOMAIN pendjobs \cup {reqct}
    BY <1>4
  <2>4. currid \in DOMAIN jobs
    BY <2>1, <2>3 DEF SchedInv, QueueInv
  <2>5. \A k \in DOMAIN inbox' : \E j \in DOMAIN inbox : inbox'[k] = inbox[j]
    <3>1. \A k \in DOMAIN inbox' : /\ k + 1 \in DOMAIN inbox
                                   /\ inbox'[k] = inbox[k + 1]
      BY <1>2
    <3>. QED
      BY <3>1
  <2>. QED
    BY <1>2, <2>1, <2>2, <2>3, <2>4, <2>5, StartsApart
<1>6. CASE ~ CanStart
  <2>1. UNCHANGED <<run, ans1, ans2, job, miner, pendrange, work>>
    BY <1>1, <1>6
  <2>. QED
    BY <1>1, <1>2, <2>1, StaysApart
<1>. QED
  BY <1>5, <1>6

\* A nonce is reported when no share that is held has it.
LEMMA ReportedIs ==
  ASSUME NEW m, NEW ranges, NEW u, NEW x
  PROVE  x \in Reported(m, ranges, u) <=>
           /\ x \in 0 .. u
           /\ \A k \in Holders(m, ranges) :
                x \notin Nonces(Held(m, ranges, k))
  BY DEF Reported

\* A share that is reported leaves the others apart, and its nonces join those
\* that are reported.
LEMMA FreedApart ==
  ASSUME NEW m, NEW ranges, NEW fails, Pool(m, ranges, fails),
         NEW i \in Busy(m), NEW freed, freed = [m EXCEPT ![i] = Idle],
         NEW c, NEW u \in Nat, Apart(m, ranges, c, u)
  PROVE  /\ Busy(freed) = Busy(m) \ {i}
         /\ \A k \in Busy(freed) : freed[k] = m[k]
         /\ Apart(freed, ranges, c, u)
         /\ Reported(freed, ranges, u) = Reported(m, ranges, u) \cup Nonces(m[i])
         /\ m[i] \in Shares /\ m[i].client = c /\ m[i].lower <= m[i].upper
<1>1. /\ m \in [DOMAIN m -> Shares \cup {Idle}]
      /\ DOMAIN m \cap DOMAIN ranges = {}
  BY DEF Pool
<1>2. i \in DOMAIN m /\ m[i] \in Shares /\ i \notin DOMAIN ranges
  BY <1>1 DEF Busy
<1>3. /\ DOMAIN freed = DOMAIN m /\ freed[i] = Idle
      /\ \A k \in DOMAIN m \ {i} : freed[k] = m[k]
  BY <1>1, <1>2
<1>4. Busy(freed) = Busy(m) \ {i} /\ \A k \in Busy(freed) : freed[k] = m[k]
  BY <1>3 DEF Busy
<1>5. /\ Holders(freed, ranges) = Holders(m, ranges) \ {i}
      /\ i \in Holders(m, ranges) /\ Held(m, ranges, i) = m[i]
  BY <1>2, <1>4 DEF Holders, Held
<1>6. \A k \in Holders(freed, ranges) :
        Held(freed, ranges, k) = Held(m, ranges, k)
  BY <1>4 DEF Holders, Held
<1>7. /\ \A k \in Holders(m, ranges) :
           /\ Held(m, ranges, k).client = c
           /\ Held(m, ranges, k).lower <= Held(m, ranges, k).upper
           /\ Held(m, ranges, k).upper <= u
      /\ \A k, l \in Holders(m, ranges) : k # l =>
           Nonces(Held(m, ranges, k)) \cap Nonces(Held(m, ranges, l)) = {}
  BY DEF Apart
<1>8. Apart(freed, ranges, c, u)
  BY <1>5, <1>6, <1>7 DEF Apart
<1>9. m[i].client = c /\ m[i].lower <= m[i].upper /\ m[i].upper <= u
  BY <1>5, <1>7
<1>10. Nonces(m[i]) \subseteq 0 .. u
  <2>1. m[i].lower \in Nat /\ m[i].upper \in Nat
    BY <1>2 DEF Shares
  <2>. QED
    BY <1>9, <2>1 DEF Nonces
<1>11. \A k \in Holders(freed, ranges) :
         Nonces(Held(freed, ranges, k)) \cap Nonces(m[i]) = {}
  BY <1>5, <1>6, <1>7
<1>12. ASSUME NEW x
       PROVE  x \in Reported(freed, ranges, u) <=>
                x \in Reported(m, ranges, u) \cup Nonces(m[i])
  <2>1. /\ x \in Reported(freed, ranges, u) <=>
             /\ x \in 0 .. u
             /\ \A k \in Holders(m, ranges) \ {i} :
                  x \notin Nonces(Held(m, ranges, k))
        /\ x \in Reported(m, ranges, u) <=>
             /\ x \in 0 .. u
             /\ \A k \in Holders(m, ranges) :
                  x \notin Nonces(Held(m, ranges, k))
    <3>1. \A k \in Holders(freed, ranges) :
            Held(freed, ranges, k) = Held(m, ranges, k)
      BY <1>6
    <3>2. x \in Reported(freed, ranges, u) <=>
            /\ x \in 0 .. u
            /\ \A k \in Holders(freed, ranges) :
                 x \notin Nonces(Held(freed, ranges, k))
      BY ReportedIs, Zenon
    <3>3. x \in Reported(m, ranges, u) <=>
            /\ x \in 0 .. u
            /\ \A k \in Holders(m, ranges) :
                 x \notin Nonces(Held(m, ranges, k))
      BY ReportedIs, Zenon
    <3>. QED
      BY <1>5, <3>1, <3>2, <3>3
  <2>2. x \in Nonces(m[i]) =>
          /\ x \in 0 .. u
          /\ \A k \in Holders(m, ranges) \ {i} :
               x \notin Nonces(Held(m, ranges, k))
    BY <1>5, <1>7, <1>10
  <2>. QED
    BY <1>5, <2>1, <2>2
<1>13. Reported(freed, ranges, u) = Reported(m, ranges, u) \cup Nonces(m[i])
  BY <1>12
<1>. QED
  BY <1>2, <1>4, <1>8, <1>9, <1>13

\* case bitcoin.Result: the result is that of the share of the miner that sent
\* it, which is the only one with its nonce.
LEMMA ResultShares ==
  ASSUME SchedInv, JobInv, MailInv, ReadResult
  PROVE  JobInv' /\ MailInv'
<1>. DEFINE msg     == Head(inbox)
            j       == msg.id
            matches == {i \in Busy(miner) : msg.nonce \in Nonces(miner[i])}
            best    == Merge(<<ans1, ans2>>, <<msg.hash, msg.nonce>>)
            freed   == [miner EXCEPT ![j] = Idle]
<1>1. Read("result") /\ UNCHANGED <<run, job>>
  BY DEF ReadResult
<1>2. /\ inbox \in Seq(Messages) /\ inbox # <<>>
      /\ msg = inbox[1] /\ 1 \in DOMAIN inbox /\ msg.type = "result"
      /\ Pool(miner, pendrange, minerfail)
      /\ Busy(miner) \subseteq Miners
      /\ run => /\ job.client \in Clients /\ job.upper \in Uppers
                /\ Apart(miner, pendrange, job.client, job.upper)
                /\ <<ans1, ans2>> =
                     BestOf(job.client,
                            Reported(miner, pendrange, job.upper), job.upper)
  BY <1>1, ReadFacts
<1>3. /\ j \in Busy(miner) /\ work[j] = <<>>
      /\ <<msg.hash, msg.nonce>> = ResultOf(miner[j])
      /\ \A k \in DOMAIN inbox : k # 1 =>
           ~ (inbox[k].type = "result" /\ inbox[k].id = j)
  BY <1>2 DEF MailInv, Mailed
<1>. HIDE DEF msg, j
<1>4. run
  <2>1. ASSUME ~ run PROVE FALSE
    <3>1. ~ run \/ waitans
      BY <2>1
    <3>2. Busy(miner) = {}
      BY <3>1, NothingDue, Zenon
    <3>. QED
      BY <1>3, <3>2
  <2>. QED
    BY <2>1
<1>5. job.upper \in Nat /\ job.upper \in Hashes
  <2>1. job.upper \in Uppers
    BY <1>2, <1>4
  <2>2. \A x \in Uppers : x \in Nat /\ x \in Hashes
    BY DEF Hashes
  <2>. QED
    BY <2>1, <2>2
<1>6. /\ Busy(freed) = Busy(miner) \ {j}
      /\ \A k \in Busy(freed) : freed[k] = miner[k]
      /\ Apart(freed, pendrange, job.client, job.upper)
      /\ Reported(freed, pendrange, job.upper)
           = Reported(miner, pendrange, job.upper) \cup Nonces(miner[j])
      /\ miner[j] \in Shares /\ miner[j].client = job.client
      /\ miner[j].lower <= miner[j].upper
  BY <1>2, <1>3, <1>4, <1>5, FreedApart
<1>7. msg.nonce \in Nonces(miner[j])
  <2>1. ResultOf(miner[j])[2] \in Nonces(miner[j])
    BY <1>6, ResultInShare
  <2>2. <<msg.hash, msg.nonce>>[2] = msg.nonce
    OBVIOUS
  <2>. QED
    BY <1>3, <2>1, <2>2
<1>8. matches = {j}
  <2>1. j \in matches
    BY <1>3, <1>7
  <2>2. ASSUME NEW i \in matches PROVE i = j
    <3>1. DOMAIN miner \cap DOMAIN pendrange = {}
      BY <1>2 DEF Pool
    <3>2. /\ i \in Holders(miner, pendrange) /\ j \in Holders(miner, pendrange)
          /\ Held(miner, pendrange, i) = miner[i]
          /\ Held(miner, pendrange, j) = miner[j]
      BY <1>3, <3>1 DEF Holders, Held, Busy
    <3>3. i # j => Nonces(miner[i]) \cap Nonces(miner[j]) = {}
      BY <1>2, <1>4, <3>2 DEF Apart
    <3>. QED
      BY <1>7, <3>3
  <2>. QED
    BY <2>1, <2>2
<1>9. /\ ans1' = best[1] /\ ans2' = best[2]
      /\ \/ Reassign(freed, pendrange, minerfail)
         \/ miner' = freed /\ pendrange' = pendrange /\ work' = work
  <2>1. /\ \E i \in matches :
             LET f == [miner EXCEPT ![i] = Idle]
             IN  IF block # 1 /\ ShareWaits
                   THEN Reassign(f, pendrange, minerfail)
                   ELSE /\ miner' = f
                        /\ UNCHANGED <<pendrange, minerfail, work>>
        /\ ans1' = best[1] /\ ans2' = best[2]
    BY <1>4, <1>8 DEF ReadResult, msg
  <2>2. IF block # 1 /\ ShareWaits
          THEN Reassign(freed, pendrange, minerfail)
          ELSE miner' = freed /\ UNCHANGED <<pendrange, minerfail, work>>
    BY <1>8, <2>1
  <2>. QED
    BY <2>1, <2>2
<1>10. <<ans1', ans2'>> =
         BestOf(job.client, Reported(freed, pendrange, job.upper), job.upper)
  <2>1. /\ Reported(miner, pendrange, job.upper) \in SUBSET Hashes
        /\ Nonces(miner[j]) \in SUBSET Hashes
    BY <1>5, <1>6 DEF Reported, Nonces, Hashes, Shares
  <2>2. ResultOf(miner[j]) =
          BestOf(job.client, Nonces(miner[j]), MaxUint)
    BY <1>6 DEF ResultOf
  <2>. DEFINE old == Reported(miner, pendrange, job.upper)
              new == Nonces(miner[j])
  <2>3. best = BestOf(job.client, Reported(freed, pendrange, job.upper),
                      job.upper)
    <3>1. /\ <<ans1, ans2>> = BestOf(job.client, old, job.upper)
          /\ <<msg.hash, msg.nonce>> = BestOf(job.client, new, MaxUint)
      BY <1>2, <1>3, <1>4, <2>2
    <3>2. job.client \in Clients
      BY <1>2, <1>4
    <3>3. /\ Reported(freed, pendrange, job.upper) = old \cup new
          /\ old \in SUBSET Hashes /\ new \in SUBSET Hashes
      BY <1>6, <2>1
    <3>. HIDE DEF old, new
    <3>4. Merge(BestOf(job.client, old, job.upper),
                BestOf(job.client, new, MaxUint))
            = BestOf(job.client, old \cup new, job.upper)
      BY <1>5, <3>2, <3>3, MergeIs
    <3>. QED
      BY <3>1, <3>3, <3>4
  <2>4. best = <<best[1], best[2]>>
    <3>1. best = <<ans1, ans2>> \/ best = <<msg.hash, msg.nonce>>
      BY DEF Merge
    <3>. QED
      BY <3>1
  <2>. QED
    BY <1>9, <2>3, <2>4
<1>11. Pool(freed, pendrange, minerfail)
  BY <1>2, <1>3, FreedIs
<1>. HIDE DEF freed
<1>12. Mailed(freed, Tail(inbox))
  <2>1. /\ \A i \in Busy(miner) \ Busy(freed) :
             /\ work[i] = <<>>
             /\ \A k \in DOMAIN inbox : k # 1 =>
                  ~ (inbox[k].type = "result" /\ inbox[k].id = i)
        /\ Busy(freed) \subseteq Busy(miner) /\ j \notin Busy(freed)
    BY <1>3, <1>6
  <2>. QED
    BY <1>2, <1>6, <2>1, TailMails DEF msg, j
<1>. QED
  BY <1>1, <1>2, <1>4, <1>6, <1>9, <1>10, <1>11, <1>12, MovesApart

\* A message arrives: a result of the share that was on its way to the miner,
\* or the loss of a miner whose share is dropped, or another message.
LEMMA ArrivalMails ==
  ASSUME MailInv, inbox \in Seq(Messages), NEW msg, inbox' = Append(inbox, msg),
         miner' = miner, Busy(miner) \subseteq Miners, lost \subseteq lost',
         \A i \in Miners : work'[i] = work[i] \/ work'[i] = <<>>,
         \A i \in Miners \ lost' : work'[i] # work[i] =>
           msg.type = "result" /\ msg.id = i,
         \A i \in lost' \ lost : /\ msg.type = "lost" /\ msg.id = i
                                 /\ i \in Miners => work'[i] = <<>>,
         msg.type = "lost" => msg.id \in lost',
         msg.type = "result" =>
           /\ msg.id \in Busy(miner) \ lost'
           /\ work[msg.id] # <<>> /\ work'[msg.id] = <<>>
           /\ <<msg.hash, msg.nonce>> = ResultOf(miner[msg.id])
  PROVE  MailInv'
<1>. DEFINE last == Len(inbox) + 1
<1>1. /\ DOMAIN inbox' = DOMAIN inbox \cup {last}
      /\ inbox'[last] = msg
      /\ \A k \in DOMAIN inbox : /\ inbox'[k] = inbox[k]
                                 /\ k < last /\ k # last
  OBVIOUS
<1>. HIDE DEF last
<1>2. /\ \A i \in Miners : work[i] # <<>> =>
           i \in Busy(miner) /\ i \notin lost /\ work[i] = <<miner[i]>>
      /\ \A k \in DOMAIN inbox : inbox[k].type = "result" =>
           /\ inbox[k].id \in Busy(miner) /\ work[inbox[k].id] = <<>>
           /\ <<inbox[k].hash, inbox[k].nonce>> = ResultOf(miner[inbox[k].id])
           /\ \A l \in DOMAIN inbox :
                inbox[l].type = "result" /\ inbox[l].id = inbox[k].id => l = k
      /\ \A i \in Busy(miner) \ lost : work[i] = <<>> =>
           \E k \in DOMAIN inbox : inbox[k].type = "result" /\ inbox[k].id = i
      /\ \A i \in Busy(miner) \cap lost :
           \E k \in DOMAIN inbox : inbox[k].type = "lost" /\ inbox[k].id = i
      /\ \A k \in DOMAIN inbox : inbox[k].type = "lost" =>
           /\ inbox[k].id \in lost
           /\ \A l \in DOMAIN inbox :
                inbox[l].type = "result" /\ inbox[l].id = inbox[k].id => l < k
  BY DEF MailInv, Mailed
<1>3. \A i \in Miners : work'[i] # <<>> =>
        i \in Busy(miner) /\ i \notin lost' /\ work'[i] = <<miner[i]>>
  BY <1>2
<1>4. ASSUME NEW k \in DOMAIN inbox', inbox'[k].type = "result"
      PROVE  /\ inbox'[k].id \in Busy(miner) /\ work'[inbox'[k].id] = <<>>
             /\ <<inbox'[k].hash, inbox'[k].nonce>>
                  = ResultOf(miner[inbox'[k].id])
             /\ \A l \in DOMAIN inbox' :
                  inbox'[l].type = "result" /\ inbox'[l].id = inbox'[k].id
                    => l = k
  <2>1. CASE k = last
    <3>1. ASSUME NEW l \in DOMAIN inbox, inbox[l].type = "result"
          PROVE  inbox[l].id # msg.id
      BY <1>1, <1>2, <1>4, <2>1, <3>1
    <3>. QED
      BY <1>1, <1>4, <2>1, <3>1
  <2>2. CASE k \in DOMAIN inbox
    <3>1. inbox'[k] = inbox[k] /\ inbox[k].type = "result"
      BY <1>1, <1>4, <2>2
    <3>2. /\ inbox[k].id \in Busy(miner) /\ work[inbox[k].id] = <<>>
          /\ <<inbox[k].hash, inbox[k].nonce>> = ResultOf(miner[inbox[k].id])
          /\ \A l \in DOMAIN inbox :
               inbox[l].type = "result" /\ inbox[l].id = inbox[k].id => l = k
      BY <1>2, <2>2, <3>1
    <3>3. work'[inbox[k].id] = <<>>
      BY <3>2
    <3>4. ASSUME msg.type = "result" PROVE msg.id # inbox[k].id
      BY <3>2, <3>4
    <3>. QED
      BY <1>1, <3>1, <3>2, <3>3, <3>4
  <2>. QED
    BY <1>1, <2>1, <2>2
<1>5. ASSUME NEW i \in Busy(miner) \ lost', work'[i] = <<>>
      PROVE  \E k \in DOMAIN inbox' :
               inbox'[k].type = "result" /\ inbox'[k].id = i
  <2>1. CASE work'[i] = work[i]
    <3>1. PICK k \in DOMAIN inbox :
            inbox[k].type = "result" /\ inbox[k].id = i
      BY <1>2, <1>5, <2>1
    <3>. QED
      BY <1>1, <3>1
  <2>2. CASE work'[i] # work[i]
    <3>1. msg.type = "result" /\ msg.id = i
      BY <1>5, <2>2
    <3>. QED
      BY <1>1, <3>1
  <2>. QED
    BY <2>1, <2>2
<1>6. ASSUME NEW i \in Busy(miner) \cap lost'
      PROVE  \E k \in DOMAIN inbox' :
               inbox'[k].type = "lost" /\ inbox'[k].id = i
  <2>1. CASE i \in lost
    <3>1. PICK k \in DOMAIN inbox : inbox[k].type = "lost" /\ inbox[k].id = i
      BY <1>2, <2>1
    <3>. QED
      BY <1>1, <3>1
  <2>2. CASE i \notin lost
    <3>1. msg.type = "lost" /\ msg.id = i
      BY <2>2
    <3>. QED
      BY <1>1, <3>1
  <2>. QED
    BY <2>1, <2>2
<1>7. ASSUME NEW k \in DOMAIN inbox', inbox'[k].type = "lost"
      PROVE  /\ inbox'[k].id \in lost'
             /\ \A l \in DOMAIN inbox' :
                  inbox'[l].type = "result" /\ inbox'[l].id = inbox'[k].id
                    => l < k
  <2>1. CASE k = last
    BY <1>1, <1>7, <2>1
  <2>2. CASE k \in DOMAIN inbox
    <3>1. inbox'[k] = inbox[k] /\ inbox[k].type = "lost"
      BY <1>1, <1>7, <2>2
    <3>2. /\ inbox[k].id \in lost
          /\ \A l \in DOMAIN inbox :
               inbox[l].type = "result" /\ inbox[l].id = inbox[k].id => l < k
      BY <1>2, <2>2, <3>1
    <3>. QED
      BY <1>1, <3>1, <3>2
  <2>. QED
    BY <1>1, <2>1, <2>2
<1>8. Mailed(miner, inbox)'
  BY <1>3, <1>4, <1>5, <1>6, <1>7 DEF Mailed
<1>. QED
  BY <1>8 DEF MailInv

\* What is on its way, and what is held, when a miner, a client or the LSP
\* server does something.
LEMMA EnvironmentShares ==
  ASSUME SchedInv, JobInv, MailInv, Environment
  PROVE  JobInv' /\ MailInv'
<1>1. /\ inbox \in Seq(Messages) /\ work \in [Miners -> Seq(Shares)]
      /\ Pool(miner, pendrange, minerfail)
  BY DEF SchedInv, TypeInv, PoolInv
<1>2. Busy(miner) \subseteq Miners
  BY <1>1 DEF Pool, Busy
<1>3. \A i \in Miners : work[i] # <<>> =>
        i \in Busy(miner) /\ i \notin lost /\ work[i] = <<miner[i]>>
  BY DEF MailInv, Mailed
<1>4. UNCHANGED <<jobVars, poolVars>>
  BY DEF Environment, Join, Mine, Crash, Request, Lose
<1>5. UNCHANGED <<run, ans1, ans2, job, miner, pendrange>>
  BY <1>4 DEF jobVars, poolVars
<1>6. JobInv'
  BY <1>5 DEF JobInv
<1>7. ASSUME NEW msg, inbox' = Append(inbox, msg), lost' = lost, work' = work,
             msg.type \notin {"result", "lost"}
      PROVE  MailInv'
  BY <1>1, <1>2, <1>5, <1>7, ArrivalMails
<1>8. ASSUME NEW i \in Miners, Join(i) PROVE MailInv'
  <2>. DEFINE msg == [type |-> "join", id |-> i]
  <2>1. inbox' = Append(inbox, msg) /\ lost' = lost /\ work' = work
    BY <1>8 DEF Join, Deliver
  <2>2. msg.type \notin {"result", "lost"}
    OBVIOUS
  <2>. HIDE DEF msg
  <2>. QED
    BY <1>7, <2>1, <2>2
<1>9. ASSUME NEW c \in Clients, NEW u \in Uppers, Request(c, u) PROVE MailInv'
  <2>. DEFINE msg == [type |-> "request", id |-> c, upper |-> u]
  <2>1. inbox' = Append(inbox, msg) /\ lost' = lost /\ work' = work
    BY <1>9 DEF Request, Deliver
  <2>2. msg.type \notin {"result", "lost"}
    OBVIOUS
  <2>. HIDE DEF msg
  <2>. QED
    BY <1>7, <2>1, <2>2
<1>10. ASSUME NEW i \in Miners, Mine(i) PROVE MailInv'
  <2>. DEFINE best == ResultOf(Head(work[i]))
              msg  == [type |-> "result", id |-> i, hash |-> best[1],
                       nonce |-> best[2]]
  <2>1. /\ work[i] # <<>> /\ inbox' = Append(inbox, msg)
        /\ msg.id \notin lost \cup crashed
        /\ work' = [work EXCEPT ![i] = Tail(@)]
        /\ UNCHANGED envVars
    BY <1>10 DEF Mine, Deliver, ResultOf
  <2>2. i \in Busy(miner) /\ work[i] = <<miner[i]>>
    BY <1>3, <2>1
  <2>3. Head(work[i]) = miner[i] /\ Tail(work[i]) = <<>>
    BY <2>2
  <2>4. /\ work'[i] = <<>> /\ \A j \in Miners \ {i} : work'[j] = work[j]
        /\ lost' = lost
    BY <1>1, <2>1, <2>3 DEF envVars
  <2>5. msg.type = "result" /\ msg.id = i
        /\ <<msg.hash, msg.nonce>> = <<best[1], best[2]>>
    OBVIOUS
  <2>6. miner[i] \in Shares /\ miner[i].lower <= miner[i].upper
    <3>1. i \in Holders(miner, pendrange) /\ Held(miner, pendrange, i) = miner[i]
      BY <1>1, <2>2 DEF Pool, Holders, Held, Busy
    <3>2. run
      <4>1. ASSUME ~ run PROVE FALSE
        <5>1. ~ run \/ waitans
          BY <4>1
        <5>2. Busy(miner) = {}
          BY <5>1, NothingDue, Zenon
        <5>. QED
          BY <2>2, <5>2
      <4>. QED
        BY <4>1
    <3>3. miner[i].lower <= miner[i].upper
      BY <3>1, <3>2 DEF JobInv, Apart
    <3>4. miner[i] \in Shares
      BY <1>1, <2>2 DEF Pool, Busy
    <3>. QED
      BY <3>3, <3>4
  <2>7. <<best[1], best[2]>> = ResultOf(miner[i])
    <3>1. ResultOf(miner[i]) \in Hashes \X Hashes
      BY <2>6, ResultInShare
    <3>2. best = ResultOf(miner[i])
      BY <2>3
    <3>. HIDE DEF best
    <3>. QED
      BY <3>1, <3>2
  <2>. HIDE DEF msg, best
  <2>. QED
    BY <1>1, <1>2, <1>5, <2>1, <2>2, <2>4, <2>5, <2>7, ArrivalMails
<1>11. ASSUME NEW i \in Miners, Crash(i) PROVE MailInv'
  <2>1. UNCHANGED <<lost, inbox, work>>
    BY <1>11 DEF Crash
  <2>. QED
    BY <1>5, <2>1 DEF MailInv, Mailed
<1>12. ASSUME NEW i \in Miners \cup Clients, Lose(i) PROVE MailInv'
  <2>. DEFINE msg == [type |-> "lost", id |-> i]
  <2>1. /\ inbox' = Append(inbox, msg) /\ lost' = lost \cup {i}
        /\ work' = [j \in Miners |-> IF j = i THEN <<>> ELSE work[j]]
    BY <1>12 DEF Lose
  <2>2. msg.type = "lost" /\ msg.id = i
    OBVIOUS
  <2>3. /\ \A j \in Miners : /\ j = i => work'[j] = <<>>
                             /\ j # i => work'[j] = work[j]
    BY <2>1
  <2>. HIDE DEF msg
  <2>. QED
    BY <1>1, <1>2, <1>5, <2>1, <2>2, <2>3, ArrivalMails
<1>. QED
  BY <1>6, <1>8, <1>9, <1>10, <1>11, <1>12 DEF Environment

\* No process has said anything.
LEMMA InitShares == Init => ShareInv
<1>. SUFFICES ASSUME Init PROVE ShareInv
  OBVIOUS
<1>1. /\ run = FALSE /\ miner = <<>> /\ inbox = <<>> /\ lost = {}
      /\ work = [i \in Miners |-> <<>>]
  BY DEF Init
<1>2. JobInv
  BY <1>1 DEF JobInv
<1>3. Busy(miner) = {} /\ DOMAIN inbox = {} /\ \A i \in Miners : work[i] = <<>>
  BY <1>1 DEF Busy
<1>4. Mailed(miner, inbox)
  BY <1>3 DEF Mailed
<1>. QED
  BY <1>2, <1>4, InitSched DEF ShareInv, MailInv

\* A stuttering step.
LEMMA StutterShares ==
  ASSUME JobInv, MailInv, UNCHANGED vars PROVE JobInv' /\ MailInv'
<1>1. UNCHANGED <<run, ans1, ans2, job, miner, pendrange, inbox, work, lost>>
  BY DEF vars, jobVars, poolVars, envVars
<1>2. JobInv'
  BY <1>1 DEF JobInv
<1>3. MailInv'
  BY <1>1 DEF MailInv, Mailed
<1>. QED
  BY <1>2, <1>3
-----------------------------------------------------------------------------
(***************************************************************************)
(* The theorems about shares.                                              *)
(***************************************************************************)

\* The inductive invariant: nobody's share meets another's, the answer so far
\* is that of the nonces reported, and what is on its way to a miner or from
\* it is the share it holds or the result of that share.
THEOREM InductiveShares == ASSUME RangesFit PROVE Safety => []ShareInv
<1>1. ASSUME ShareInv, [Next]_vars PROVE ShareInv'
  <2>1. SchedInv /\ JobInv /\ MailInv
    BY <1>1 DEF ShareInv
  <2>2. SchedInv'
    BY <1>1, <2>1, NextSched
  <2>3. JobInv' /\ MailInv'
    <3>1. CASE Loop
      BY <2>1, <3>1, WaitAnsShares, LostBusyShares, LostIdleShares,
         JoinShares, RequestShares, ResultShares DEF Loop
    <3>2. CASE Environment
      BY <2>1, <3>2, EnvironmentShares
    <3>3. CASE UNCHANGED vars
      BY <2>1, <3>3, StutterShares
    <3>. QED
      BY <1>1, <3>1, <3>2, <3>3 DEF Next
  <2>. QED
    BY <2>2, <2>3 DEF ShareInv
<1>. QED
  BY InitShares, <1>1, PTL DEF Safety

\* Two miners never hold nonces in common, whatever shares were lost and given
\* away: the Result case, which looks only at the nonce, credits the result to
\* the miner that sent it.
THEOREM ServerSharesDisjoint ==
  ASSUME RangesFit PROVE Safety => []SharesDisjoint
<1>1. ShareInv => SharesDisjoint
  <2>. SUFFICES ASSUME ShareInv PROVE SharesDisjoint
    OBVIOUS
  <2>. DEFINE holders == {<<i, miner[i]>> : i \in Busy(miner)}
                         \cup {<<i, pendrange[i]>> : i \in DOMAIN pendrange}
  <2>1. SchedInv /\ JobInv /\ Pool(miner, pendrange, minerfail)
    BY DEF ShareInv, SchedInv, PoolInv
  <2>2. ASSUME NEW p \in holders
        PROVE  /\ p[1] \in Holders(miner, pendrange)
               /\ p[2] = Held(miner, pendrange, p[1])
               /\ p = <<p[1], p[2]>>
    <3>1. CASE \E i \in Busy(miner) : p = <<i, miner[i]>>
      <4>1. PICK i \in Busy(miner) : p = <<i, miner[i]>>
        BY <3>1
      <4>2. i \notin DOMAIN pendrange
        BY <2>1 DEF Pool, Busy
      <4>. QED
        BY <4>1, <4>2 DEF Holders, Held
    <3>2. CASE \E i \in DOMAIN pendrange : p = <<i, pendrange[i]>>
      BY <3>2 DEF Holders, Held
    <3>. QED
      BY <3>1, <3>2
  <2>3. ASSUME NEW i \in Holders(miner, pendrange) PROVE run
    <3>1. ASSUME ~ run PROVE FALSE
      <4>1. ~ run \/ waitans
        BY <3>1
      <4>2. Busy(miner) = {} /\ DOMAIN pendrange = {}
        BY <2>1, <4>1, NothingDue, Zenon
      <4>. QED
        BY <4>2 DEF Holders
    <3>. QED
      BY <3>1
  <2>. HIDE DEF holders
  <2>4. ASSUME NEW p \in holders, NEW q \in holders
        PROVE  /\ p[2].client = job.client
               /\ p # q => Nonces(p[2]) \cap Nonces(q[2]) = {}
    <3>1. Apart(miner, pendrange, job.client, job.upper)
      BY <2>1, <2>2, <2>3 DEF JobInv
    <3>2. /\ p[1] \in Holders(miner, pendrange)
          /\ q[1] \in Holders(miner, pendrange)
          /\ p[2] = Held(miner, pendrange, p[1])
          /\ q[2] = Held(miner, pendrange, q[1])
      BY <2>2
    <3>3. p[1] = q[1] => p = q
      BY <2>2, <3>2
    <3>. QED
      BY <3>1, <3>2, <3>3 DEF Apart
  <2>. QED
    BY <2>4 DEF SharesDisjoint, holders
<1>2. Safety => []ShareInv
  BY InductiveShares
<1>. QED
  BY <1>1, <1>2, PTL

\* Through every loss and every share given away, ans1 and ans2 are the best
\* over exactly the nonces that were reported: the last share of a job makes
\* its answer that of the whole range.
THEOREM ServerAnswerSoFar == ASSUME RangesFit PROVE Safety => []AnswerSoFar
<1>1. ShareInv => AnswerSoFar
  <2>. SUFFICES ASSUME ShareInv, run PROVE AnswerSoFar
    BY DEF AnswerSoFar
  <2>. DEFINE rest == (0 .. job.upper) \ UNION {Nonces(s) : s \in Open}
              reported == Reported(miner, pendrange, job.upper)
  <2>1. JobInv /\ Pool(miner, pendrange, minerfail)
    BY DEF ShareInv, SchedInv, PoolInv
  <2>2. \A i \in Busy(miner) : i \notin DOMAIN pendrange
    BY <2>1 DEF Pool, Busy
  <2>3. ASSUME NEW x
        PROVE  (\E s \in Open : x \in Nonces(s)) <=>
                 \E i \in Holders(miner, pendrange) :
                   x \in Nonces(Held(miner, pendrange, i))
    <3>1. Open = {miner[i] : i \in Busy(miner)}
                 \cup {pendrange[i] : i \in DOMAIN pendrange}
      BY DEF Open, Range
    <3>2. (\E s \in Open : x \in Nonces(s)) <=>
            \/ \E i \in Busy(miner) : x \in Nonces(miner[i])
            \/ \E i \in DOMAIN pendrange : x \in Nonces(pendrange[i])
      BY <3>1
    <3>. QED
      BY <2>2, <3>2 DEF Holders, Held
  <2>4. ASSUME NEW x PROVE x \in rest <=> x \in reported
    <3>1. x \in rest <=> x \in 0 .. job.upper /\ ~ \E s \in Open : x \in Nonces(s)
      OBVIOUS
    <3>2. x \in reported <=>
            /\ x \in 0 .. job.upper
            /\ \A k \in Holders(miner, pendrange) :
                 x \notin Nonces(Held(miner, pendrange, k))
      BY ReportedIs, Zenon
    <3>. QED
      BY <2>3, <3>1, <3>2
  <2>5. rest = reported
    BY <2>4
  <2>6. <<ans1, ans2>> = BestOf(job.client, reported, job.upper)
    BY <2>1 DEF JobInv
  <2>. QED
    BY <2>5, <2>6 DEF AnswerSoFar
<1>2. Safety => []ShareInv
  BY InductiveShares
<1>. QED
  BY <1>1, <1>2, PTL

\* A share a miner holds is never forgotten: it is on its way to the miner, or
\* its result or the loss of the miner is on its way to Read.
THEOREM ServerForgetsNoShare ==
  ASSUME RangesFit PROVE Safety => []NoShareForgotten
<1>1. ShareInv => NoShareForgotten
  <2>. SUFFICES ASSUME ShareInv, NEW i \in Busy(miner)
                PROVE  \/ /\ i \notin lost /\ work[i] # <<>>
                          /\ miner[i] = work[i][Len(work[i])]
                       \/ \E k \in DOMAIN inbox :
                            inbox[k].id = i /\ inbox[k].type # "join"
    BY DEF NoShareForgotten
  <2>1. /\ i \in Miners /\ MailInv
    BY DEF ShareInv, SchedInv, PoolInv, Pool, Busy
  <2>2. CASE i \in lost
    <3>1. \E k \in DOMAIN inbox : inbox[k].type = "lost" /\ inbox[k].id = i
      BY <2>1, <2>2 DEF MailInv, Mailed
    <3>. QED
      BY <3>1
  <2>3. CASE i \notin lost /\ work[i] = <<>>
    <3>1. \E k \in DOMAIN inbox : inbox[k].type = "result" /\ inbox[k].id = i
      BY <2>1, <2>3 DEF MailInv, Mailed
    <3>. QED
      BY <3>1
  <2>4. CASE i \notin lost /\ work[i] # <<>>
    <3>1. work[i] = <<miner[i]>>
      BY <2>1, <2>4 DEF MailInv, Mailed
    <3>2. miner[i] = work[i][Len(work[i])]
      BY <3>1
    <3>. QED
      BY <2>4, <3>2
  <2>. QED
    BY <2>2, <2>3, <2>4
<1>2. Safety => []ShareInv
  BY InductiveShares
<1>. QED
  BY <1>1, <1>2, PTL
-----------------------------------------------------------------------------
(***************************************************************************)
(* The requests among the messages.  RequestsIn is recursive: what it is   *)
(* for a longer sequence is shown by a smallest counterexample.            *)
(***************************************************************************)

\* f[k] are the requests among the first k messages of box, up to n.
Filters(box, n, f) ==
  /\ f = [k \in 0 .. n |-> f[k]] /\ f[0] = <<>>
  /\ \A k \in 1 .. n :
       f[k] = IF box[k].type = "request" THEN Append(f[k - 1], box[k])
              ELSE f[k - 1]

\* What is said of 0, and of each number up to n when it is said of the one
\* before, is said of all of them.
LEMMA Induct ==
  ASSUME NEW n \in Nat, NEW S, 0 \in S,
         \A k \in 1 .. n : k - 1 \in S => k \in S
  PROVE  \A k \in 0 .. n : k \in S
<1>. SUFFICES ASSUME NEW m \in 0 .. n, m \notin S PROVE FALSE
  OBVIOUS
<1>. DEFINE T == {k \in 0 .. n : k \notin S}
<1>1. T \in SUBSET Nat /\ T # {}
  OBVIOUS
<1>2. PICK x \in T : \A y \in T : x <= y
  BY <1>1, Smallest
<1>3. x \in 1 .. n /\ x - 1 \in 0 .. n
  BY <1>2
<1>4. x - 1 \in S
  BY <1>2, <1>3
<1>. QED
  BY <1>2, <1>3, <1>4

\* Two walks through the same messages find the same requests.
LEMMA FiltersOne ==
  ASSUME NEW n \in Nat, NEW b, NEW c, NEW f, NEW g,
         Filters(b, n, f), Filters(c, n, g),
         \A k \in 1 .. n : b[k] = c[k]
  PROVE  \A k \in 0 .. n : f[k] = g[k]
<1>. DEFINE S == {k \in 0 .. n : f[k] = g[k]}
<1>1. 0 \in S
  <2>1. f[0] = g[0]
    BY DEF Filters
  <2>. QED
    BY <2>1
<1>2. ASSUME NEW k \in 1 .. n, k - 1 \in S PROVE k \in S
  <2>1. /\ f[k] = IF b[k].type = "request" THEN Append(f[k - 1], b[k])
                  ELSE f[k - 1]
        /\ g[k] = IF c[k].type = "request" THEN Append(g[k - 1], c[k])
                  ELSE g[k - 1]
    BY DEF Filters
  <2>2. f[k - 1] = g[k - 1] /\ b[k] = c[k]
    BY <1>2
  <2>3. f[k] = g[k]
    BY <2>1, <2>2
  <2>. QED
    BY <2>3
<1>. HIDE DEF S
<1>3. \A k \in 0 .. n : k \in S
  BY <1>1, <1>2, Induct
<1>. QED
  BY <1>3 DEF S

\* The requests among the messages.
Asked == {msg \in Messages : msg.type = "request"}

\* A sequence of requests is one of messages.
LEMMA AskedIs == ASSUME NEW s \in Seq(Asked) PROVE s \in Seq(Messages)
<1>1. Asked \subseteq Messages
  BY DEF Asked
<1>2. s \in [1 .. Len(s) -> Asked] /\ Len(s) \in Nat
  OBVIOUS
<1>3. s \in [1 .. Len(s) -> Messages]
  BY <1>1, <1>2
<1>. QED
  BY <1>2, <1>3

\* There is such a walk, and all it finds are requests.
LEMMA FiltersSome ==
  ASSUME NEW box \in Seq(Messages)
  PROVE  \E f : /\ Filters(box, Len(box), f)
                /\ \A k \in 0 .. Len(box) : f[k] \in Seq(Asked)
<1>. DEFINE Good(n, f) == /\ Filters(box, n, f)
                          /\ \A k \in 0 .. n : f[k] \in Seq(Asked)
            S == {n \in 0 .. Len(box) : \E f : Good(n, f)}
<1>1. 0 \in S
  <2>1. Good(0, [k \in 0 .. 0 |-> <<>>])
    BY DEF Filters
  <2>. HIDE DEF Good
  <2>. QED
    BY <2>1
<1>2. ASSUME NEW n \in 1 .. Len(box), n - 1 \in S PROVE n \in S
  <2>1. PICK g : Good(n - 1, g)
    BY <1>2
  <2>. DEFINE new == IF box[n].type = "request" THEN Append(g[n - 1], box[n])
                     ELSE g[n - 1]
              f == [k \in 0 .. n |-> IF k = n THEN new ELSE g[k]]
  <2>2. new \in Seq(Asked)
    <3>1. g[n - 1] \in Seq(Asked) /\ box[n] \in Messages
      BY <2>1
    <3>2. CASE box[n].type = "request"
      <4>1. box[n] \in Asked
        BY <3>1, <3>2 DEF Asked
      <4>. QED
        BY <3>1, <3>2, <4>1
    <3>3. CASE box[n].type # "request"
      BY <3>1, <3>3
    <3>. QED
      BY <3>2, <3>3
  <2>. HIDE DEF new
  <2>3. f[n] = new /\ \A k \in 0 .. n - 1 : f[k] = g[k]
    OBVIOUS
  <2>4. f = [k \in 0 .. n |-> f[k]]
    OBVIOUS
  <2>. HIDE DEF f
  <2>5. \A k \in 0 .. n : f[k] \in Seq(Asked)
    BY <2>1, <2>2, <2>3
  <2>6. ASSUME NEW k \in 1 .. n
        PROVE  f[k] = IF box[k].type = "request" THEN Append(f[k - 1], box[k])
                      ELSE f[k - 1]
    <3>1. CASE k = n
      BY <2>3, <3>1 DEF new
    <3>2. CASE k # n
      <4>1. k \in 1 .. n - 1 /\ k - 1 \in 0 .. n - 1 /\ k \in 0 .. n - 1
        BY <3>2
      <4>2. g[k] = IF box[k].type = "request" THEN Append(g[k - 1], box[k])
                   ELSE g[k - 1]
        BY <2>1, <4>1 DEF Filters
      <4>. QED
        BY <2>3, <4>1, <4>2
    <3>. QED
      BY <3>1, <3>2
  <2>7. f[0] = <<>>
    BY <2>1, <2>3 DEF Filters
  <2>8. Good(n, f)
    BY <2>4, <2>5, <2>6, <2>7 DEF Filters
  <2>. HIDE DEF Good
  <2>. QED
    BY <2>8
<1>. HIDE DEF S
<1>3. Len(box) \in Nat
  OBVIOUS
<1>4. \A n \in 0 .. Len(box) : n \in S
  BY <1>1, <1>2, <1>3, Induct
<1>. QED
  BY <1>3, <1>4 DEF S

\* RequestsIn is what the walk has found at its end.
LEMMA RequestsInIs ==
  ASSUME NEW box \in Seq(Messages)
  PROVE  \E f : /\ Filters(box, Len(box), f) /\ RequestsIn(box) = f[Len(box)]
                /\ \A k \in 0 .. Len(box) : f[k] \in Seq(Asked)
<1>. DEFINE Step(f) == [k \in 0 .. Len(box) |->
                          IF k = 0 THEN <<>>
                          ELSE IF box[k].type = "request"
                                 THEN Append(f[k - 1], box[k])
                          ELSE f[k - 1]]
            among == CHOOSE f : f = Step(f)
<1>1. PICK f : /\ Filters(box, Len(box), f)
               /\ \A k \in 0 .. Len(box) : f[k] \in Seq(Asked)
  BY FiltersSome
<1>2. Len(box) \in Nat
  OBVIOUS
<1>3. f = Step(f)
  <2>1. f = [k \in 0 .. Len(box) |-> f[k]]
    BY <1>1 DEF Filters
  <2>2. ASSUME NEW k \in 0 .. Len(box)
        PROVE f[k] = IF k = 0 THEN <<>>
                     ELSE IF box[k].type = "request"
                            THEN Append(f[k - 1], box[k])
                     ELSE f[k - 1]
    <3>1. CASE k = 0
      BY <1>1, <3>1 DEF Filters
    <3>2. CASE k # 0
      <4>1. k \in 1 .. Len(box)
        BY <1>2, <3>2
      <4>. QED
        BY <1>1, <3>2, <4>1 DEF Filters
    <3>. QED
      BY <3>1, <3>2
  <2>3. [k \in 0 .. Len(box) |-> f[k]] = Step(f)
    BY <2>2
  <2>. QED
    BY <2>1, <2>3
<1>4. among = Step(among)
  <2>. HIDE DEF Step
  <2>. QED
    BY <1>3
<1>5. Filters(box, Len(box), among)
  <2>. HIDE DEF among
  <2>1. among[0] = <<>>
    BY <1>2, <1>4
  <2>2. ASSUME NEW k \in 1 .. Len(box)
        PROVE  among[k] = IF box[k].type = "request"
                            THEN Append(among[k - 1], box[k])
                          ELSE among[k - 1]
    <3>1. k \in 0 .. Len(box) /\ k # 0
      BY <1>2
    <3>2. Step(among)[k] = IF box[k].type = "request"
                             THEN Append(among[k - 1], box[k])
                           ELSE among[k - 1]
      BY <3>1
    <3>. HIDE DEF Step
    <3>. QED
      BY <1>4, <3>2
  <2>3. among = [k \in 0 .. Len(box) |-> among[k]]
    <3>1. Step(among) = [k \in 0 .. Len(box) |-> Step(among)[k]]
      OBVIOUS
    <3>. HIDE DEF Step
    <3>. QED
      BY <1>4, <3>1
  <2>. QED
    BY <2>1, <2>2, <2>3 DEF Filters
<1>6. RequestsIn(box) = among[Len(box)]
  BY DEF RequestsIn
<1>. HIDE DEF among
<1>7. among[Len(box)] = f[Len(box)]
  BY <1>1, <1>2, <1>5, FiltersOne
<1>. QED
  BY <1>1, <1>6, <1>7

\* No messages, no requests.
LEMMA RequestsNone == RequestsIn(<<>>) = <<>>
<1>1. <<>> \in Seq(Messages) /\ Len(<<>>) = 0
  OBVIOUS
<1>2. PICK f : Filters(<<>>, 0, f) /\ RequestsIn(<<>>) = f[0]
  BY <1>1, RequestsInIs
<1>. QED
  BY <1>2 DEF Filters

\* A message arrives.
LEMMA RequestsAppend ==
  ASSUME NEW box \in Seq(Messages), NEW msg \in Messages
  PROVE  /\ RequestsIn(Append(box, msg)) =
              IF msg.type = "request" THEN Append(RequestsIn(box), msg)
              ELSE RequestsIn(box)
         /\ RequestsIn(box) \in Seq(Asked)
<1>. DEFINE n == Len(box)
            b == Append(box, msg)
<1>1. /\ n \in Nat /\ b \in Seq(Messages) /\ Len(b) = n + 1
      /\ \A k \in 1 .. n : b[k] = box[k]
      /\ b[n + 1] = msg
  OBVIOUS
<1>2. PICK f : /\ Filters(box, n, f) /\ RequestsIn(box) = f[n]
               /\ \A k \in 0 .. n : f[k] \in Seq(Asked)
  BY RequestsInIs
<1>. HIDE DEF b
<1>3. PICK g : Filters(b, n + 1, g) /\ RequestsIn(b) = g[n + 1]
  BY <1>1, RequestsInIs
<1>. HIDE DEF n
<1>. DEFINE h == [k \in 0 .. n |-> g[k]]
<1>4. Filters(b, n, h)
  <2>1. h = [k \in 0 .. n |-> h[k]]
    OBVIOUS
  <2>2. h[0] = <<>>
    BY <1>1, <1>3 DEF Filters
  <2>3. ASSUME NEW k \in 1 .. n
        PROVE  h[k] = IF b[k].type = "request" THEN Append(h[k - 1], b[k])
                      ELSE h[k - 1]
    <3>1. k \in 1 .. n + 1 /\ k \in 0 .. n /\ k - 1 \in 0 .. n
      BY <1>1
    <3>2. g[k] = IF b[k].type = "request" THEN Append(g[k - 1], b[k])
                 ELSE g[k - 1]
      BY <1>3, <3>1 DEF Filters
    <3>3. h[k] = g[k] /\ h[k - 1] = g[k - 1]
      BY <3>1
    <3>. QED
      BY <3>2, <3>3
  <2>. HIDE DEF h
  <2>. QED
    BY <2>1, <2>2, <2>3 DEF Filters
<1>5. g[n] = f[n]
  <2>1. h[n] = g[n] /\ n \in 0 .. n
    BY <1>1
  <2>. HIDE DEF h
  <2>2. \A k \in 0 .. n : h[k] = f[k]
    BY <1>1, <1>2, <1>4, FiltersOne
  <2>. QED
    BY <2>1, <2>2
<1>6. g[n + 1] = IF b[n + 1].type = "request" THEN Append(g[n], b[n + 1])
                 ELSE g[n]
  <2>1. n + 1 \in 1 .. n + 1 /\ (n + 1) - 1 = n
    BY <1>1
  <2>2. \A k \in 1 .. n + 1 :
          g[k] = IF b[k].type = "request" THEN Append(g[k - 1], b[k])
                 ELSE g[k - 1]
    BY <1>3 DEF Filters
  <2>. QED
    BY <2>1, <2>2
<1>7. f[n] \in Seq(Asked)
  BY <1>1, <1>2
<1>. QED
  BY <1>1, <1>2, <1>3, <1>5, <1>6, <1>7 DEF b

\* A message is taken.
LEMMA RequestsTail ==
  ASSUME NEW box \in Seq(Messages), box # <<>>
  PROVE  RequestsIn(box) =
           IF Head(box).type = "request" THEN <<Head(box)>> \o RequestsIn(Tail(box))
           ELSE RequestsIn(Tail(box))
<1>. DEFINE n == Len(Tail(box))
            b == Tail(box)
            first == IF box[1].type = "request" THEN <<box[1]>> ELSE <<>>
<1>1. /\ n \in Nat /\ b \in Seq(Messages) /\ Len(box) = n + 1
      /\ \A k \in 1 .. n : b[k] = box[k + 1] /\ b[k] \in Messages
      /\ Head(box) = box[1] /\ box[1] \in Messages /\ Len(b) = n
  OBVIOUS
<1>. HIDE DEF b, n
<1>2. PICK f : /\ Filters(box, n + 1, f) /\ RequestsIn(box) = f[n + 1]
  BY <1>1, RequestsInIs
<1>3. PICK g : /\ Filters(b, n, g) /\ RequestsIn(b) = g[n]
               /\ \A k \in 0 .. n : g[k] \in Seq(Messages)
  <2>1. PICK g : /\ Filters(b, n, g) /\ RequestsIn(b) = g[n]
                 /\ \A k \in 0 .. n : g[k] \in Seq(Asked)
    BY <1>1, RequestsInIs
  <2>2. \A k \in 0 .. n : g[k] \in Seq(Messages)
    BY <2>1, AskedIs
  <2>. QED
    BY <2>1, <2>2
<1>4. first \in Seq(Messages)
  BY <1>1
<1>5. /\ f[0] = <<>> /\ g[0] = <<>>
      /\ \A k \in 1 .. n + 1 :
           f[k] = IF box[k].type = "request" THEN Append(f[k - 1], box[k])
                  ELSE f[k - 1]
      /\ \A k \in 1 .. n :
           g[k] = IF b[k].type = "request" THEN Append(g[k - 1], b[k])
                  ELSE g[k - 1]
  BY <1>2, <1>3 DEF Filters
<1>6. f[1] = first
  <2>1. 1 \in 1 .. n + 1 /\ 1 - 1 = 0
    BY <1>1
  <2>2. f[1] = IF box[1].type = "request" THEN Append(f[0], box[1]) ELSE f[0]
    BY <1>5, <2>1
  <2>3. Append(<<>>, box[1]) = <<box[1]>>
    OBVIOUS
  <2>. QED
    BY <1>5, <2>2, <2>3
<1>. HIDE DEF first
<1>. DEFINE S == {k \in 0 .. n : f[k + 1] = first \o g[k]}
<1>7. 0 \in S
  <2>1. first \o <<>> = first
    BY <1>4
  <2>2. 0 \in 0 .. n /\ 0 + 1 = 1
    BY <1>1
  <2>3. f[0 + 1] = first \o g[0]
    BY <1>5, <1>6, <2>1, <2>2
  <2>. QED
    BY <2>2, <2>3
<1>8. ASSUME NEW k \in 1 .. n, k - 1 \in S PROVE k \in S
  <2>1. k \in 0 .. n /\ k - 1 \in 0 .. n /\ k + 1 \in 1 .. n + 1
        /\ (k - 1) + 1 = k /\ (k + 1) - 1 = k
    BY <1>1
  <2>2. f[k] = first \o g[k - 1]
    BY <1>8, <2>1
  <2>3. g[k - 1] \in Seq(Messages) /\ b[k] \in Messages /\ b[k] = box[k + 1]
    BY <1>1, <1>3, <2>1
  <2>4. f[k + 1] = IF b[k].type = "request" THEN Append(f[k], b[k]) ELSE f[k]
    BY <1>5, <2>1, <2>3
  <2>5. g[k] = IF b[k].type = "request" THEN Append(g[k - 1], b[k])
               ELSE g[k - 1]
    BY <1>5
  <2>. DEFINE gg == g[k - 1]
              bb == b[k]
  <2>6. Append(first \o gg, bb) = first \o Append(gg, bb)
    <3>1. gg \in Seq(Messages) /\ bb \in Messages
      BY <2>3
    <3>. HIDE DEF gg, bb
    <3>2. first \o gg \in Seq(Messages) /\ <<bb>> \in Seq(Messages)
      BY <1>4, <3>1
    <3>3. /\ Append(first \o gg, bb) = (first \o gg) \o <<bb>>
          /\ Append(gg, bb) = gg \o <<bb>>
      BY <3>1, <3>2, AppendIsConcat
    <3>. QED
      BY <1>4, <3>1, <3>2, <3>3, ConcatAssociative
  <2>7. f[k + 1] = first \o g[k]
    BY <2>2, <2>4, <2>5, <2>6
  <2>. QED
    BY <2>1, <2>7
<1>. HIDE DEF S
<1>9. \A k \in 0 .. n : k \in S
  BY <1>1, <1>7, <1>8, Induct
<1>10. f[n + 1] = first \o g[n]
  BY <1>1, <1>9 DEF S
<1>11. g[n] \in Seq(Messages)
  BY <1>1, <1>3
<1>12. <<>> \o g[n] = g[n]
  BY <1>11
<1>13. RequestsIn(box) = first \o RequestsIn(b)
  BY <1>2, <1>3, <1>10
<1>. QED
  BY <1>1, <1>3, <1>12, <1>13 DEF first, b
-----------------------------------------------------------------------------
(***************************************************************************)
(* The queue of jobs, and that Scheduler implements JobServer.             *)
(***************************************************************************)

\* The jobs a queue is made of.
Jobs == [client : Clients, upper : Uppers]

\* The requests with the numbers from lo up to hi, and those to be read.
Waiting(jobs, clients, lo, hi) ==
  [k \in 1 .. hi - lo |-> [client |-> clients[lo + k - 1],
                           upper |-> jobs[lo + k - 1]]]
Coming(box) ==
  [k \in DOMAIN RequestsIn(box) |-> [client |-> RequestsIn(box)[k].id,
                                     upper |-> RequestsIn(box)[k].upper]]

\* The queue of jobs: the one that runs, those that wait, those to be read.
Running     == IF run THEN <<job>> ELSE <<>>
FirstNumber == IF run THEN currid + 1 ELSE currid
QueueNow    == Running \o Waiting(pendjobs, pendclients, FirstNumber, reqct)
               \o Coming(inbox)

\* The queue JobServer sees, without the count of the map's keys.
LEMMA QueueIs == QueueInv => JobQueue = QueueNow
<1>. SUFFICES ASSUME QueueInv PROVE JobQueue = QueueNow
  OBVIOUS
<1>. DEFINE lo    == FirstNumber
            count == Cardinality(DOMAIN pendjobs)
<1>1. /\ lo \in Nat /\ reqct \in Nat /\ lo <= reqct
      /\ DOMAIN pendjobs = lo .. reqct - 1
  BY DEF QueueInv, FirstNumber
<1>. HIDE DEF lo
<1>2. count = reqct - lo
  <2>1. Cardinality(lo .. reqct - 1) =
          IF lo > reqct - 1 THEN 0 ELSE (reqct - 1) - lo + 1
    BY <1>1, FS_Interval
  <2>. QED
    BY <1>1, <2>1
<1>3. [k \in 1 .. count |->
         LET n == k + reqct - count - 1
         IN  [client |-> pendclients[n], upper |-> pendjobs[n]]] =
      Waiting(pendjobs, pendclients, lo, reqct)
  <2>1. \A k \in 1 .. reqct - lo : k + reqct - count - 1 = lo + k - 1
    BY <1>1, <1>2
  <2>. QED
    BY <1>2, <2>1 DEF Waiting
<1>. QED
  BY <1>3 DEF JobQueue, QueueNow, Running, Coming, lo

\* The same of the next state.
LEMMA QueueIsNext == (QueueInv => JobQueue = QueueNow)'
  BY QueueIs, PTL

\* The requests that wait, from the first.
LEMMA WaitingIs ==
  ASSUME NEW lo \in Nat, NEW hi \in Nat, lo <= hi,
         NEW jobs, NEW clients,
         \A k \in lo .. hi - 1 : jobs[k] \in Uppers /\ clients[k] \in Clients
  PROVE  /\ Waiting(jobs, clients, lo, hi) \in Seq(Jobs)
         /\ lo = hi => Waiting(jobs, clients, lo, hi) = <<>>
         /\ lo < hi =>
              Waiting(jobs, clients, lo, hi) =
                <<[client |-> clients[lo], upper |-> jobs[lo]]>>
                \o Waiting(jobs, clients, lo + 1, hi)
<1>. DEFINE W(l) == Waiting(jobs, clients, l, hi)
            entry(k) == [client |-> clients[k], upper |-> jobs[k]]
<1>1. ASSUME NEW l \in lo .. hi
      PROVE  /\ W(l) \in Seq(Jobs) /\ Len(W(l)) = hi - l
             /\ \A k \in 1 .. hi - l : W(l)[k] = entry(l + k - 1)
  <2>1. \A k \in 1 .. hi - l : l + k - 1 \in lo .. hi - 1
    OBVIOUS
  <2>2. \A k \in lo .. hi - 1 : entry(k) \in Jobs
    BY DEF Jobs
  <2>3. W(l) = [k \in 1 .. hi - l |-> entry(l + k - 1)]
    BY DEF Waiting
  <2>. HIDE DEF W, entry
  <2>4. W(l) \in [1 .. hi - l -> Jobs]
    BY <2>1, <2>2, <2>3
  <2>5. hi - l \in Nat
    OBVIOUS
  <2>6. W(l) \in Seq(Jobs) /\ Len(W(l)) = hi - l
    BY <2>4, <2>5
  <2>. QED
    BY <2>3, <2>6
<1>2. lo \in lo .. hi
  OBVIOUS
<1>3. ASSUME lo = hi PROVE W(lo) = <<>>
  <2>. HIDE DEF W
  <2>1. W(lo) \in Seq(Jobs) /\ Len(W(lo)) = 0
    BY <1>1, <1>2, <1>3
  <2>. QED
    BY <2>1
<1>4. ASSUME lo < hi PROVE W(lo) = <<entry(lo)>> \o W(lo + 1)
  <2>1. lo + 1 \in lo .. hi
    BY <1>4
  <2>2. entry(lo) \in Jobs
    BY <1>4 DEF Jobs
  <2>. HIDE DEF W, entry
  <2>. DEFINE a == W(lo)
              b == W(lo + 1)
              c == <<entry(lo)>> \o b
  <2>3. /\ a \in Seq(Jobs) /\ Len(a) = hi - lo
        /\ \A k \in 1 .. hi - lo : a[k] = entry(lo + k - 1)
    BY <1>1, <1>2
  <2>4. /\ b \in Seq(Jobs) /\ Len(b) = hi - (lo + 1)
        /\ \A k \in 1 .. hi - (lo + 1) : b[k] = entry((lo + 1) + k - 1)
    BY <1>1, <2>1
  <2>. HIDE DEF a, b
  <2>5. /\ c \in Seq(Jobs) /\ Len(c) = hi - lo
        /\ c[1] = entry(lo)
        /\ \A k \in 2 .. hi - lo : c[k] = b[k - 1]
    BY <1>4, <2>2, <2>4
  <2>. HIDE DEF c
  <2>6. ASSUME NEW k \in 1 .. hi - lo PROVE a[k] = c[k]
    <3>1. CASE k = 1
      <4>1. a[1] = entry(lo + 1 - 1) /\ lo + 1 - 1 = lo
        BY <1>4, <2>3
      <4>. QED
        BY <2>5, <3>1, <4>1
    <3>2. CASE k # 1
      <4>1. k \in 2 .. hi - lo /\ k - 1 \in 1 .. hi - (lo + 1)
            /\ (lo + 1) + (k - 1) - 1 = lo + k - 1
        BY <3>2
      <4>2. c[k] = entry((lo + 1) + (k - 1) - 1)
        BY <2>4, <2>5, <4>1
      <4>. QED
        BY <2>3, <4>1, <4>2
    <3>. QED
      BY <3>1, <3>2
  <2>7. a = c
    BY <2>3, <2>5, <2>6
  <2>. QED
    BY <2>7 DEF a, b, c
<1>. QED
  BY <1>1, <1>2, <1>3, <1>4

\* A request gets the next number.
LEMMA WaitingMore ==
  ASSUME NEW lo \in Nat, NEW hi \in Nat, lo <= hi,
         NEW jobs, NEW clients, NEW jobs2, NEW clients2,
         \A k \in lo .. hi - 1 : jobs[k] \in Uppers /\ clients[k] \in Clients,
         \A k \in lo .. hi - 1 : jobs2[k] = jobs[k] /\ clients2[k] = clients[k],
         jobs2[hi] \in Uppers, clients2[hi] \in Clients,
         NEW next, next = hi + 1
  PROVE  Waiting(jobs2, clients2, lo, next) =
           Waiting(jobs, clients, lo, hi)
           \o <<[client |-> clients2[hi], upper |-> jobs2[hi]]>>
<1>. DEFINE e == [client |-> clients2[hi], upper |-> jobs2[hi]]
            a == Waiting(jobs2, clients2, lo, hi + 1)
            b == Waiting(jobs, clients, lo, hi)
            c == b \o <<e>>
<1>1. a = [k \in 1 .. hi + 1 - lo |-> [client |-> clients2[lo + k - 1],
                                       upper |-> jobs2[lo + k - 1]]]
  BY DEF Waiting
<1>2. b = [k \in 1 .. hi - lo |-> [client |-> clients[lo + k - 1],
                                   upper |-> jobs[lo + k - 1]]]
  BY DEF Waiting
<1>3. b \in Seq(Jobs)
  BY WaitingIs
<1>4. Len(b) = hi - lo /\ hi - lo \in Nat
  <2>. HIDE DEF b
  <2>1. DOMAIN b = 1 .. hi - lo /\ hi - lo \in Nat
    BY <1>2
  <2>. QED
    BY <1>3, <2>1
<1>5. e \in Jobs
  BY DEF Jobs
<1>. HIDE DEF b, e
<1>6. /\ DOMAIN c = 1 .. hi + 1 - lo
      /\ \A k \in 1 .. hi - lo : c[k] = b[k]
      /\ c[hi + 1 - lo] = e
      /\ c = [k \in 1 .. hi + 1 - lo |-> c[k]]
  BY <1>3, <1>4, <1>5
<1>. HIDE DEF c
<1>7. ASSUME NEW k \in 1 .. hi + 1 - lo
      PROVE  c[k] = [client |-> clients2[lo + k - 1],
                     upper |-> jobs2[lo + k - 1]]
  <2>1. CASE k = hi + 1 - lo
    <3>1. lo + k - 1 = hi
      BY <2>1
    <3>. QED
      BY <1>6, <2>1, <3>1 DEF e
  <2>2. CASE k # hi + 1 - lo
    <3>1. k \in 1 .. hi - lo /\ lo + k - 1 \in lo .. hi - 1
      BY <2>2
    <3>2. b[k] = [client |-> clients[lo + k - 1], upper |-> jobs[lo + k - 1]]
      BY <1>2, <3>1
    <3>. QED
      BY <1>6, <3>1, <3>2
  <2>. QED
    BY <2>1, <2>2
<1>8. a = c
  BY <1>1, <1>6, <1>7
<1>. QED
  BY <1>8 DEF c, b, e

\* What is to be read, when a message arrives and when one is read.
LEMMA ComingIs ==
  ASSUME NEW box \in Seq(Messages)
  PROVE  /\ Coming(box) \in Seq(Jobs)
         /\ \A msg \in Messages :
              Coming(Append(box, msg)) =
                IF msg.type = "request"
                  THEN Append(Coming(box), [client |-> msg.id,
                                            upper |-> msg.upper])
                ELSE Coming(box)
         /\ box # <<>> =>
              Coming(box) =
                IF Head(box).type = "request"
                  THEN <<[client |-> Head(box).id, upper |-> Head(box).upper]>>
                       \o Coming(Tail(box))
                ELSE Coming(Tail(box))
<1>. DEFINE entry(m) == [client |-> m.id, upper |-> m.upper]
            C(s) == [k \in DOMAIN s |-> entry(s[k])]
<1>1. \A b : Coming(b) = C(RequestsIn(b))
  BY DEF Coming
<1>2. \A b \in Seq(Messages) : RequestsIn(b) \in Seq(Asked)
  <2>1. ASSUME NEW b \in Seq(Messages) PROVE RequestsIn(b) \in Seq(Asked)
    <3>1. PICK f : /\ RequestsIn(b) = f[Len(b)]
                   /\ \A k \in 0 .. Len(b) : f[k] \in Seq(Asked)
      BY RequestsInIs
    <3>2. Len(b) \in 0 .. Len(b)
      OBVIOUS
    <3>. QED
      BY <3>1, <3>2
  <2>. QED
    BY <2>1
<1>3. \A m \in Asked : entry(m) \in Jobs
  BY DEF Asked, Messages, Jobs
<1>. HIDE DEF entry
<1>4. ASSUME NEW s \in Seq(Asked) PROVE C(s) \in Seq(Jobs) /\ Len(C(s)) = Len(s)
  <2>1. s \in [1 .. Len(s) -> Asked] /\ Len(s) \in Nat
    OBVIOUS
  <2>2. C(s) \in [1 .. Len(s) -> Jobs]
    BY <1>3, <2>1
  <2>. HIDE DEF C
  <2>. QED
    BY <2>1, <2>2
<1>5. ASSUME NEW s \in Seq(Asked), NEW m \in Asked
      PROVE  C(Append(s, m)) = Append(C(s), entry(m))
  <2>. DEFINE t == Append(s, m)
              n == Len(s)
              a == C(t)
              b == Append(C(s), entry(m))
  <2>1. /\ t \in Seq(Asked) /\ Len(t) = n + 1 /\ n \in Nat
        /\ \A k \in 1 .. n : t[k] = s[k]
        /\ t[n + 1] = m
        /\ DOMAIN s = 1 .. n /\ DOMAIN t = 1 .. n + 1
    OBVIOUS
  <2>. HIDE DEF t, n
  <2>2. /\ \A k \in 1 .. n : C(s)[k] = entry(s[k])
        /\ \A k \in 1 .. n + 1 : a[k] = entry(t[k])
    BY <2>1
  <2>3. /\ C(s) \in Seq(Jobs) /\ Len(C(s)) = n
        /\ a \in Seq(Jobs) /\ Len(a) = n + 1
    BY <1>4, <2>1 DEF n
  <2>4. entry(m) \in Jobs
    BY <1>3
  <2>. HIDE DEF C
  <2>5. /\ b \in Seq(Jobs) /\ Len(b) = n + 1
        /\ \A k \in 1 .. n : b[k] = C(s)[k]
        /\ b[n + 1] = entry(m)
    BY <2>1, <2>3, <2>4
  <2>. HIDE DEF a, b
  <2>6. \A k \in 1 .. n + 1 : a[k] = b[k]
    BY <2>1, <2>2, <2>5
  <2>7. a = b
    BY <2>1, <2>3, <2>5, <2>6
  <2>. QED
    BY <2>7 DEF a, b, t
<1>6. ASSUME NEW s \in Seq(Asked), NEW m \in Asked
      PROVE  C(<<m>> \o s) = <<entry(m)>> \o C(s)
  <2>. DEFINE t == <<m>> \o s
              n == Len(s)
              a == C(t)
              b == <<entry(m)>> \o C(s)
  <2>1. /\ t \in Seq(Asked) /\ Len(t) = n + 1 /\ n \in Nat
        /\ \A k \in 1 .. n : t[k + 1] = s[k]
        /\ t[1] = m
        /\ DOMAIN s = 1 .. n /\ DOMAIN t = 1 .. n + 1
    OBVIOUS
  <2>. HIDE DEF t, n
  <2>2. /\ \A k \in 1 .. n : C(s)[k] = entry(s[k])
        /\ \A k \in 1 .. n + 1 : a[k] = entry(t[k])
    BY <2>1
  <2>3. /\ C(s) \in Seq(Jobs) /\ Len(C(s)) = n
        /\ a \in Seq(Jobs) /\ Len(a) = n + 1
    BY <1>4, <2>1 DEF n
  <2>4. entry(m) \in Jobs
    BY <1>3
  <2>. HIDE DEF C
  <2>5. /\ b \in Seq(Jobs) /\ Len(b) = n + 1
        /\ \A k \in 1 .. n : b[k + 1] = C(s)[k]
        /\ b[1] = entry(m)
    BY <2>1, <2>3, <2>4
  <2>. HIDE DEF a, b
  <2>6. ASSUME NEW k \in 1 .. n + 1 PROVE a[k] = b[k]
    <3>1. CASE k = 1
      BY <2>1, <2>2, <2>5, <3>1
    <3>2. CASE k # 1
      <4>1. k - 1 \in 1 .. n /\ (k - 1) + 1 = k
        BY <2>1, <3>2
      <4>2. b[k] = C(s)[k - 1] /\ C(s)[k - 1] = entry(s[k - 1])
        BY <2>2, <2>5, <4>1
      <4>3. t[k] = s[k - 1] /\ a[k] = entry(t[k])
        BY <2>1, <2>2, <4>1
      <4>. QED
        BY <4>2, <4>3
    <3>. QED
      BY <3>1, <3>2
  <2>7. a = b
    BY <2>1, <2>3, <2>5, <2>6
  <2>. QED
    BY <2>7 DEF a, b, t
<1>. HIDE DEF C
<1>7. Coming(box) \in Seq(Jobs)
  BY <1>1, <1>2, <1>4
<1>8. ASSUME NEW msg \in Messages
      PROVE  Coming(Append(box, msg)) =
               IF msg.type = "request" THEN Append(Coming(box), entry(msg))
               ELSE Coming(box)
  <2>1. RequestsIn(box) \in Seq(Asked)
    BY <1>2
  <2>2. CASE msg.type = "request"
    <3>1. msg \in Asked
      BY <2>2 DEF Asked
    <3>2. RequestsIn(Append(box, msg)) = Append(RequestsIn(box), msg)
      BY <2>2, RequestsAppend
    <3>. QED
      BY <1>1, <1>5, <2>1, <2>2, <3>1, <3>2
  <2>3. CASE msg.type # "request"
    <3>1. RequestsIn(Append(box, msg)) = RequestsIn(box)
      BY <2>3, RequestsAppend
    <3>. QED
      BY <1>1, <2>3, <3>1
  <2>. QED
    BY <2>2, <2>3
<1>9. ASSUME box # <<>>
      PROVE  Coming(box) = IF Head(box).type = "request"
                             THEN <<entry(Head(box))>> \o Coming(Tail(box))
                           ELSE Coming(Tail(box))
  <2>1. Tail(box) \in Seq(Messages) /\ Head(box) \in Messages
    BY <1>9
  <2>2. RequestsIn(Tail(box)) \in Seq(Asked)
    BY <1>2, <2>1
  <2>3. CASE Head(box).type = "request"
    <3>1. Head(box) \in Asked
      BY <2>1, <2>3 DEF Asked
    <3>2. RequestsIn(box) = <<Head(box)>> \o RequestsIn(Tail(box))
      BY <1>9, <2>3, RequestsTail
    <3>. QED
      BY <1>1, <1>6, <2>2, <2>3, <3>1, <3>2
  <2>4. CASE Head(box).type # "request"
    <3>1. RequestsIn(box) = RequestsIn(Tail(box))
      BY <1>9, <2>4, RequestsTail
    <3>. QED
      BY <1>1, <2>4, <3>1
  <2>. QED
    BY <2>3, <2>4
<1>. QED
  BY <1>7, <1>8, <1>9 DEF entry

\* Who is to get the answer is the client of the request, and the job is given
\* up only when that client was lost.
ServeInv ==
  run => /\ job \in Jobs /\ curclient = job.client
         /\ jobgiveup => job.client \in lost

\* Only what the numbers stand for matters.
LEMMA WaitingSame ==
  ASSUME NEW lo \in Nat, NEW hi \in Nat, NEW jobs, NEW clients,
         NEW jobs2, NEW clients2,
         \A k \in lo .. hi - 1 : jobs2[k] = jobs[k] /\ clients2[k] = clients[k]
  PROVE  Waiting(jobs2, clients2, lo, hi) = Waiting(jobs, clients, lo, hi)
<1>1. \A k \in 1 .. hi - lo : lo + k - 1 \in lo .. hi - 1
  OBVIOUS
<1>. QED
  BY <1>1 DEF Waiting

\* assign: the job that starts was the first of those that wait.
LEMMA AssignServes ==
  ASSUME NEW m, DOMAIN m # {}, NEW id \in Nat, NEW next \in Nat, id < next,
         NEW jobs, jobs \in [DOMAIN jobs -> Uppers],
         NEW clients, clients \in [DOMAIN jobs -> Clients],
         DOMAIN jobs = id .. next - 1, Assign(m, jobs, clients, id),
         currid' = id, reqct' = next, QueueInv'
  PROVE  /\ JobQueue' = Waiting(jobs, clients, id, next) \o Coming(inbox')
         /\ ServeInv'
<1>1. id \in DOMAIN jobs
  OBVIOUS
<1>2. /\ run' = TRUE /\ jobgiveup' = FALSE /\ curclient' = clients[id]
      /\ job' = [client |-> clients[id], upper |-> jobs[id]]
      /\ pendjobs' = Restrict(jobs, DOMAIN jobs \ {id})
      /\ pendclients' = Restrict(clients, DOMAIN clients \ {id})
  BY <1>1 DEF Assign
<1>3. ServeInv'
  <2>1. job' \in Jobs /\ job'.client = clients[id]
    BY <1>1, <1>2 DEF Jobs
  <2>. QED
    BY <1>2, <2>1 DEF ServeInv
<1>4. \A k \in id + 1 .. next - 1 : /\ pendjobs'[k] = jobs[k]
                                    /\ pendclients'[k] = clients[k]
  <2>1. DOMAIN clients = DOMAIN jobs
    OBVIOUS
  <2>2. ASSUME NEW k \in id + 1 .. next - 1
        PROVE  k \in DOMAIN jobs \ {id} /\ k \in DOMAIN clients \ {id}
    BY <2>1
  <2>. QED
    BY <1>2, <2>2 DEF Restrict
<1>5. Waiting(pendjobs', pendclients', id + 1, next) =
        Waiting(jobs, clients, id + 1, next)
  <2>1. id + 1 \in Nat
    OBVIOUS
  <2>. QED
    BY ONLY <1>4, <2>1, next \in Nat, WaitingSame
<1>6. Waiting(jobs, clients, id, next) =
        <<job'>> \o Waiting(jobs, clients, id + 1, next)
  <2>1. \A k \in id .. next - 1 : jobs[k] \in Uppers /\ clients[k] \in Clients
    OBVIOUS
  <2>2. Waiting(jobs, clients, id, next) =
          <<[client |-> clients[id], upper |-> jobs[id]]>>
          \o Waiting(jobs, clients, id + 1, next)
    <3>1. id <= next
      OBVIOUS
    <3>. QED
      BY ONLY <2>1, <3>1, id \in Nat, next \in Nat, id < next, WaitingIs
  <2>. QED
    BY <1>2, <2>2
<1>7. QueueNow' = <<job'>> \o Waiting(pendjobs', pendclients', id + 1, next)
                  \o Coming(inbox')
  BY <1>2 DEF QueueNow, Running, FirstNumber
<1>8. JobQueue' = QueueNow'
  BY QueueIsNext
<1>. QED
  BY <1>3, <1>5, <1>6, <1>7, <1>8

\* The parts of the queue.
LEMMA QueueParts ==
  ASSUME SchedInv
  PROVE  /\ FirstNumber \in Nat /\ FirstNumber <= reqct /\ reqct \in Nat
         /\ \A k \in FirstNumber .. reqct - 1 :
              pendjobs[k] \in Uppers /\ pendclients[k] \in Clients
         /\ Waiting(pendjobs, pendclients, FirstNumber, reqct) \in Seq(Jobs)
         /\ Coming(inbox) \in Seq(Jobs)
         /\ JobQueue = Running
                       \o Waiting(pendjobs, pendclients, FirstNumber, reqct)
                       \o Coming(inbox)
<1>1. QueueInv /\ inbox \in Seq(Messages)
  BY DEF SchedInv, TypeInv
<1>2. /\ FirstNumber \in Nat /\ FirstNumber <= reqct /\ reqct \in Nat
      /\ \A k \in FirstNumber .. reqct - 1 :
           pendjobs[k] \in Uppers /\ pendclients[k] \in Clients
  BY <1>1 DEF QueueInv, FirstNumber
<1>3. Waiting(pendjobs, pendclients, FirstNumber, reqct) \in Seq(Jobs)
  BY <1>2, WaitingIs
<1>4. Coming(inbox) \in Seq(Jobs)
  BY <1>1, ComingIs
<1>5. JobQueue = QueueNow
  BY <1>1, QueueIs
<1>. QED
  BY <1>2, <1>3, <1>4, <1>5 DEF QueueNow

\* case <-yy.waitans: the job that ended leaves the queue.
LEMMA WaitAnsQueue ==
  ASSUME SchedInv, SchedInv', run, job \in Jobs, WaitAns
  PROVE  /\ JobQueue # <<>> /\ Head(JobQueue) = job /\ JobQueue' = Tail(JobQueue)
         /\ ServeInv'
<1>. DEFINE w == Waiting(pendjobs, pendclients, currid + 1, reqct)
            c == Coming(inbox)
<1>1. /\ QueueInv /\ QueueInv' /\ pendminer = {}
      /\ pendjobs \in [DOMAIN pendjobs -> Uppers]
      /\ pendclients \in [DOMAIN pendjobs -> Clients]
      /\ currid \in Nat /\ reqct \in Nat
      /\ DOMAIN pendjobs = currid + 1 .. reqct - 1
  BY DEF SchedInv, QueueInv, PoolInv
<1>2. /\ inbox' = inbox /\ currid' = currid + 1 /\ reqct' = reqct
      /\ IF DOMAIN pendjobs # {} /\ currid + 1 < reqct
           THEN Assign(Resized(miner, pendminer), pendjobs, pendclients,
                       currid + 1)
           ELSE run' = FALSE /\ UNCHANGED <<pendjobs, pendclients>>
  BY DEF WaitAns
<1>3. /\ w \in Seq(Jobs) /\ c \in Seq(Jobs)
      /\ JobQueue = <<job>> \o w \o c
  <2>1. FirstNumber = currid + 1 /\ Running = <<job>>
    BY DEF FirstNumber, Running
  <2>. QED
    BY <2>1, QueueParts
<1>. HIDE DEF w
<1>4. JobQueue' = w \o c /\ ServeInv'
  <2>1. CASE DOMAIN pendjobs # {} /\ currid + 1 < reqct
    <3>. DEFINE m == Resized(miner, pendminer)
    <3>1. DOMAIN m # {}
      <4>1. waitans
        BY DEF WaitAns
      <4>2. DOMAIN miner # {}
        BY <4>1 DEF SchedInv, CountInv
      <4>. QED
        BY <4>2 DEF Resized
    <3>2. Assign(m, pendjobs, pendclients, currid + 1)
      BY <1>2, <2>1
    <3>. HIDE DEF m
    <3>3. currid + 1 \in Nat
      BY <1>1
    <3>4. /\ JobQueue' = Waiting(pendjobs, pendclients, currid + 1, reqct)
                         \o Coming(inbox')
          /\ ServeInv'
      BY <1>1, <1>2, <2>1, <3>1, <3>2, <3>3, AssignServes
    <3>. QED
      BY <1>2, <3>4 DEF w
  <2>2. CASE ~ (DOMAIN pendjobs # {} /\ currid + 1 < reqct)
    <3>1. run' = FALSE /\ UNCHANGED <<pendjobs, pendclients>>
      BY <1>2, <2>2
    <3>2. JobQueue' = QueueNow'
      BY <1>1, QueueIsNext
    <3>3. QueueNow' = <<>> \o w \o c
      BY <1>2, <3>1 DEF QueueNow, Running, FirstNumber, w
    <3>4. <<>> \o w = w
      BY <1>3
    <3>. QED
      BY <3>1, <3>2, <3>3, <3>4 DEF ServeInv
  <2>. QED
    BY <2>1, <2>2
<1>. HIDE DEF c
<1>5. <<job>> \o w \o c = <<job>> \o (w \o c)
  <2>1. <<job>> \in Seq(Jobs)
    OBVIOUS
  <2>. QED
    BY <1>3, <2>1, ConcatAssociative
<1>. DEFINE q == w \o c
<1>6. q \in Seq(Jobs)
  BY <1>3
<1>. HIDE DEF q
<1>7. /\ <<job>> \o q # <<>> /\ Head(<<job>> \o q) = job
      /\ Tail(<<job>> \o q) = q
  BY <1>6
<1>. QED
  BY <1>3, <1>4, <1>5, <1>7 DEF q

\* A message that is no request is read, and no job starts.
LEMMA OtherQueue ==
  ASSUME SchedInv, NEW type, type # "request", Read(type),
         UNCHANGED <<pendjobs, pendclients, reqct, run, job>>
  PROVE  JobQueue' = JobQueue
<1>1. inbox \in Seq(Messages) /\ inbox # <<>> /\ inbox' = Tail(inbox)
      /\ Head(inbox).type = type
  BY DEF SchedInv, TypeInv, Read
<1>2. RequestsIn(inbox) = RequestsIn(Tail(inbox))
  BY <1>1, RequestsTail
<1>3. RequestsIn(inbox') = RequestsIn(inbox)
  BY <1>1, <1>2
<1>. QED
  BY <1>3 DEF JobQueue

\* Of the losses, only that of the current client is remembered.
LEMMA LostQueue ==
  ASSUME SchedInv, MailInv, ServeInv,
         LostBusyMiner \/ LostFreeMiner \/ LostOther
  PROVE  JobQueue' = JobQueue /\ ServeInv'
<1>1. /\ Read("lost")
      /\ UNCHANGED <<pendjobs, pendclients, reqct, run, job, curclient>>
  BY DEF LostBusyMiner, LostFreeMiner, LostOther, queueVars
<1>2. JobQueue' = JobQueue
  BY <1>1, OtherQueue
<1>3. Head(inbox).id \in lost /\ lost' = lost
  <2>1. /\ Head(inbox) = inbox[1] /\ 1 \in DOMAIN inbox
        /\ Head(inbox).type = "lost" /\ lost' = lost
    <3>1. inbox \in Seq(Messages) /\ inbox # <<>> /\ lost' = lost
          /\ Head(inbox).type = "lost"
      BY <1>1 DEF SchedInv, TypeInv, Read, envVars
    <3>2. Head(inbox) = inbox[1] /\ 1 \in DOMAIN inbox
      BY <3>1
    <3>. QED
      BY <3>1, <3>2
  <2>. QED
    BY <2>1 DEF MailInv, Mailed
<1>4. jobgiveup' => jobgiveup \/ curclient = Head(inbox).id
  BY DEF LostBusyMiner, LostFreeMiner, LostOther
<1>5. ServeInv'
  BY <1>1, <1>3, <1>4 DEF ServeInv
<1>. QED
  BY <1>2, <1>5

\* case bitcoin.Result.
LEMMA ResultQueue ==
  ASSUME SchedInv, ServeInv, ReadResult
  PROVE  JobQueue' = JobQueue /\ ServeInv'
<1>1. /\ Read("result")
      /\ UNCHANGED <<pendjobs, pendclients, reqct, run, job, curclient,
                     jobgiveup>>
  BY DEF ReadResult, queueVars
<1>2. JobQueue' = JobQueue
  BY <1>1, OtherQueue
<1>3. lost' = lost
  BY <1>1 DEF Read, envVars
<1>. QED
  BY <1>1, <1>2, <1>3 DEF ServeInv

\* case bitcoin.Join: a job that starts was the first to wait.
LEMMA JoinQueue ==
  ASSUME SchedInv, SchedInv', ServeInv, ReadJoin
  PROVE  JobQueue' = JobQueue /\ ServeInv'
<1>. DEFINE free == Resized(miner, {Head(inbox).id})
<1>1. /\ Read("join") /\ reqct' = reqct
      /\ \/ UNCHANGED <<pendjobs, pendclients, run, job, curclient, jobgiveup>>
         \/ /\ ~ run /\ DOMAIN pendclients # {}
            /\ Assign(free, pendjobs, pendclients, currid)
  BY DEF ReadJoin
<1>2. inbox' = Tail(inbox) /\ lost' = lost /\ currid' = currid
  BY <1>1 DEF Read, envVars
<1>3. CASE UNCHANGED <<pendjobs, pendclients, run, job, curclient, jobgiveup>>
  <2>1. JobQueue' = JobQueue
    BY <1>1, <1>3, OtherQueue
  <2>. QED
    BY <1>2, <1>3, <2>1 DEF ServeInv
<1>4. CASE /\ ~ run /\ DOMAIN pendclients # {}
           /\ Assign(free, pendjobs, pendclients, currid)
  <2>1. /\ pendjobs \in [DOMAIN pendjobs -> Uppers]
        /\ pendclients \in [DOMAIN pendjobs -> Clients]
        /\ currid \in Nat /\ reqct \in Nat
        /\ DOMAIN pendjobs = currid .. reqct - 1
        /\ QueueInv'
    BY <1>4 DEF SchedInv, QueueInv
  <2>2. currid < reqct
    BY <1>4, <2>1
  <2>3. DOMAIN free # {}
    BY DEF Resized
  <2>. HIDE DEF free
  <2>4. /\ JobQueue' = Waiting(pendjobs, pendclients, currid, reqct)
                       \o Coming(inbox')
        /\ ServeInv'
    BY <1>1, <1>2, <1>4, <2>1, <2>2, <2>3, AssignServes
  <2>. DEFINE w == Waiting(pendjobs, pendclients, currid, reqct)
              c == Coming(inbox)
  <2>5. w \in Seq(Jobs) /\ JobQueue = <<>> \o w \o c
    <3>1. FirstNumber = currid /\ Running = <<>>
      BY <1>4 DEF FirstNumber, Running
    <3>. QED
      BY <3>1, QueueParts
  <2>6. Coming(inbox') = c
    <3>1. inbox \in Seq(Messages) /\ inbox # <<>> /\ Head(inbox).type = "join"
      BY <1>1 DEF SchedInv, TypeInv, Read
    <3>. QED
      BY <1>2, <3>1, ComingIs
  <2>. HIDE DEF w, c
  <2>7. <<>> \o w = w
    BY <2>5
  <2>. QED
    BY <2>4, <2>5, <2>6, <2>7 DEF w
<1>. QED
  BY <1>1, <1>3, <1>4

\* case bitcoin.Request: the request read becomes the last of those that wait,
\* or runs at once.
LEMMA RequestQueue ==
  ASSUME SchedInv, SchedInv', ServeInv, ReadRequest
  PROVE  JobQueue' = JobQueue /\ ServeInv'
<1>. DEFINE jobs == [k \in DOMAIN pendjobs \cup {reqct} |->
                       IF k = reqct THEN Head(inbox).upper ELSE pendjobs[k]]
            from == [k \in DOMAIN pendclients \cup {reqct} |->
                       IF k = reqct THEN Head(inbox).id ELSE pendclients[k]]
            lo   == FirstNumber
            new  == [client |-> from[reqct], upper |-> jobs[reqct]]
            w    == Waiting(pendjobs, pendclients, lo, reqct)
            w2   == Waiting(jobs, from, lo, reqct + 1)
            c    == Coming(inbox')
            r    == Running
<1>1. /\ Read("request") /\ reqct' = reqct + 1
      /\ IF CanStart
           THEN Assign(miner, jobs, from, currid)
           ELSE /\ pendjobs' = jobs /\ pendclients' = from
                /\ UNCHANGED <<curclient, run, jobgiveup, job>>
  BY DEF ReadRequest
<1>2. /\ inbox' = Tail(inbox) /\ lost' = lost /\ currid' = currid
      /\ inbox \in Seq(Messages) /\ inbox # <<>>
      /\ Head(inbox).type = "request"
  BY <1>1 DEF SchedInv, TypeInv, Read, envVars
<1>3. Head(inbox).id \in Clients /\ Head(inbox).upper \in Uppers
  BY <1>1, ReadIs, MessageIs
<1>4. /\ jobs \in [DOMAIN pendjobs \cup {reqct} -> Uppers]
      /\ from \in [DOMAIN pendjobs \cup {reqct} -> Clients]
  BY <1>3 DEF SchedInv, QueueInv
<1>5. /\ lo \in Nat /\ reqct \in Nat /\ lo <= reqct
      /\ DOMAIN pendjobs = lo .. reqct - 1
      /\ DOMAIN pendclients = lo .. reqct - 1
  BY DEF SchedInv, QueueInv, FirstNumber
<1>6. new = [client |-> Head(inbox).id, upper |-> Head(inbox).upper]
  OBVIOUS
<1>7. \A k \in lo .. reqct - 1 : jobs[k] = pendjobs[k] /\ from[k] = pendclients[k]
  <2>1. ASSUME NEW k \in lo .. reqct - 1
        PROVE  k # reqct /\ k \in DOMAIN pendjobs /\ k \in DOMAIN pendclients
    BY <1>5
  <2>. QED
    BY <2>1
<1>8. jobs[reqct] \in Uppers /\ from[reqct] \in Clients
  BY <1>4
<1>. HIDE DEF jobs, from
<1>9. w2 = w \o <<new>>
  <2>1. \A k \in lo .. reqct - 1 :
          pendjobs[k] \in Uppers /\ pendclients[k] \in Clients
    BY QueueParts
  <2>. HIDE DEF lo
  <2>. DEFINE next == reqct + 1
  <2>2. lo \in Nat /\ reqct \in Nat /\ lo <= reqct /\ next = reqct + 1
    BY <1>5
  <2>. HIDE DEF next
  <2>3. Waiting(jobs, from, lo, next) =
          Waiting(pendjobs, pendclients, lo, reqct)
          \o <<[client |-> from[reqct], upper |-> jobs[reqct]]>>
    BY ONLY <1>7, <1>8, <2>1, <2>2, WaitingMore
  <2>. QED
    BY <2>2, <2>3
<1>10. JobQueue = r \o w \o (<<new>> \o c)
  <2>1. JobQueue = r \o w \o Coming(inbox)
    BY QueueParts
  <2>2. Coming(inbox) = <<new>> \o c
    BY <1>2, <1>6, ComingIs
  <2>. QED
    BY <2>1, <2>2
<1>11. /\ r \in Seq(Jobs) /\ w \in Seq(Jobs) /\ c \in Seq(Jobs)
       /\ <<new>> \in Seq(Jobs)
  <2>1. w \in Seq(Jobs)
    BY QueueParts
  <2>2. new \in Jobs
    BY <1>8 DEF Jobs
  <2>3. c \in Seq(Jobs)
    <3>1. inbox' \in Seq(Messages)
      BY <1>2
    <3>. QED
      BY <3>1, ComingIs
  <2>4. r \in Seq(Jobs)
    BY DEF Running, ServeInv
  <2>. QED
    BY <2>1, <2>2, <2>3, <2>4
<1>12. JobQueue' = r \o w2 \o c /\ ServeInv'
  <2>1. CASE CanStart
    <3>1. ~ run /\ DOMAIN miner # {} /\ lo = currid /\ r = <<>>
      BY <2>1 DEF CanStart, FirstNumber, Running
    <3>2. Assign(miner, jobs, from, currid)
      BY <1>1, <2>1
    <3>. DEFINE next == reqct + 1
    <3>3. /\ currid \in Nat /\ next \in Nat /\ currid < next
          /\ DOMAIN jobs = currid .. next - 1
          /\ jobs \in [DOMAIN jobs -> Uppers]
          /\ from \in [DOMAIN jobs -> Clients]
      BY <1>4, <1>5, <3>1
    <3>4. currid' = currid /\ reqct' = next /\ QueueInv'
      BY <1>1, <1>2 DEF SchedInv
    <3>5. /\ JobQueue' = Waiting(jobs, from, currid, next) \o Coming(inbox')
          /\ ServeInv'
      <4>. HIDE DEF next
      <4>. QED
        BY <3>1, <3>2, <3>3, <3>4, AssignServes
    <3>6. w2 \in Seq(Jobs)
      BY <1>9, <1>11
    <3>7. r \o w2 = w2
      <4>. HIDE DEF w2, r
      <4>. QED
        BY <3>1, <3>6
    <3>. QED
      BY <3>1, <3>5, <3>7
  <2>2. CASE ~ CanStart
    <3>1. /\ pendjobs' = jobs /\ pendclients' = from
          /\ UNCHANGED <<curclient, run, jobgiveup, job>>
      BY <1>1, <2>2
    <3>2. JobQueue' = QueueNow'
      BY QueueIsNext DEF SchedInv
    <3>3. QueueNow' = r \o w2 \o c
      BY <1>1, <1>2, <3>1 DEF QueueNow, Running, FirstNumber
    <3>4. ServeInv'
      BY <1>2, <3>1 DEF ServeInv
    <3>. QED
      BY <3>2, <3>3, <3>4
  <2>. QED
    BY <2>1, <2>2
<1>. HIDE DEF r, w, w2, c, new
<1>13. r \o w \o (<<new>> \o c) = r \o (w \o <<new>>) \o c
  <2>1. r \o w \in Seq(Jobs)
    BY <1>11
  <2>2. (r \o w) \o (<<new>> \o c) = ((r \o w) \o <<new>>) \o c
    BY <1>11, <2>1, ConcatAssociative, SMTT(30)
  <2>3. (r \o w) \o <<new>> = r \o (w \o <<new>>)
    BY <1>11, ConcatAssociative
  <2>. QED
    BY <2>2, <2>3
<1>. QED
  BY <1>9, <1>10, <1>12, <1>13

\* The environment: a request is submitted, a client is lost, or nothing of
\* the queue changes.
LEMMA EnvironmentQueue ==
  ASSUME SchedInv, ServeInv, Environment
  PROVE  /\ ServeInv' /\ answers' = answers
         /\ \/ /\ \E e \in Jobs : JobQueue' = Append(JobQueue, e)
               /\ lost' = lost
            \/ JobQueue' = JobQueue /\ lost' = lost
            \/ /\ JobQueue' = JobQueue
               /\ \E i \in Miners \cup Clients : lost' = lost \cup {i}
<1>1. UNCHANGED <<queueVars, jobVars, poolVars, answers>>
  BY DEF Environment, Join, Mine, Crash, Request, Lose
<1>2. UNCHANGED <<pendclients, pendjobs, reqct, currid, run, job, curclient,
                  jobgiveup>>
  BY <1>1 DEF queueVars, jobVars
<1>3. inbox \in Seq(Messages) /\ lost \subseteq Miners \cup Clients
      /\ work \in [Miners -> Seq(Shares)]
  BY DEF SchedInv, TypeInv
<1>4. ASSUME NEW msg \in Messages, inbox' = Append(inbox, msg),
             msg.type # "request"
      PROVE  JobQueue' = JobQueue
  <2>1. RequestsIn(inbox') = RequestsIn(inbox)
    BY <1>3, <1>4, RequestsAppend
  <2>. QED
    BY <1>2, <2>1 DEF JobQueue
<1>5. lost \subseteq lost'
  BY DEF Environment, Join, Mine, Crash, Request, Lose, envVars
<1>6. ServeInv'
  BY <1>2, <1>5 DEF ServeInv
<1>7. ASSUME NEW i \in Miners, Join(i)
      PROVE  JobQueue' = JobQueue /\ lost' = lost
  <2>. DEFINE msg == [type |-> "join", id |-> i]
  <2>1. inbox' = Append(inbox, msg) /\ lost' = lost
    BY <1>7 DEF Join, Deliver
  <2>2. msg \in Messages /\ msg.type # "request"
    BY DEF Messages
  <2>. HIDE DEF msg
  <2>. QED
    BY <1>4, <2>1, <2>2
<1>8. ASSUME NEW i \in Miners, Crash(i)
      PROVE  JobQueue' = JobQueue /\ lost' = lost
  <2>1. inbox' = inbox /\ lost' = lost
    BY <1>8 DEF Crash
  <2>. QED
    BY <1>2, <2>1 DEF JobQueue
<1>9. ASSUME NEW i \in Miners \cup Clients, Lose(i)
      PROVE  JobQueue' = JobQueue /\ lost' = lost \cup {i}
  <2>. DEFINE msg == [type |-> "lost", id |-> i]
  <2>1. inbox' = Append(inbox, msg) /\ lost' = lost \cup {i}
    BY <1>9 DEF Lose
  <2>2. msg \in Messages /\ msg.type # "request"
    BY DEF Messages
  <2>. HIDE DEF msg
  <2>. QED
    BY <1>4, <2>1, <2>2
<1>10. ASSUME NEW i \in Miners, Mine(i)
       PROVE  JobQueue' = JobQueue /\ lost' = lost
  <2>. DEFINE share == Head(work[i])
              best  == BestOf(share.client, Nonces(share), MaxUint)
              msg   == [type |-> "result", id |-> i, hash |-> best[1],
                        nonce |-> best[2]]
  <2>1. inbox' = Append(inbox, msg) /\ lost' = lost /\ work[i] # <<>>
    BY <1>10 DEF Mine, Deliver, envVars
  <2>2. share \in Shares
    <3>1. work[i] \in Seq(Shares)
      BY <1>3
    <3>. QED
      BY <2>1, <3>1, HeadTailProperties
  <2>3. best \in Hashes \X Hashes
    <3>. HIDE DEF share
    <3>1. share.client \in Clients /\ Nonces(share) \in SUBSET Hashes
      BY <2>2 DEF Shares, Nonces, Hashes
    <3>2. MaxUint \in Hashes
      BY DEF Hashes
    <3>. QED
      BY <3>1, <3>2, BestOfIs
  <2>. HIDE DEF best
  <2>4. msg \in Messages /\ msg.type # "request"
    BY <2>3 DEF Messages
  <2>. HIDE DEF msg
  <2>. QED
    BY <1>4, <2>1, <2>4
<1>11. ASSUME NEW c \in Clients, NEW u \in Uppers, Request(c, u)
       PROVE  /\ \E e \in Jobs : JobQueue' = Append(JobQueue, e)
              /\ lost' = lost
  <2>. DEFINE msg == [type |-> "request", id |-> c, upper |-> u]
              e   == [client |-> c, upper |-> u]
              q   == Running
                     \o Waiting(pendjobs, pendclients, FirstNumber, reqct)
  <2>1. inbox' = Append(inbox, msg) /\ lost' = lost
    BY <1>11 DEF Request, Deliver
  <2>2. /\ msg \in Messages /\ msg.type = "request" /\ msg.id = c
        /\ msg.upper = u /\ e \in Jobs
    BY DEF Messages, Jobs
  <2>. HIDE DEF msg
  <2>3. Coming(inbox') = Append(Coming(inbox), e)
    BY <1>3, <2>1, <2>2, ComingIs
  <2>. HIDE DEF e
  <2>4. q \in Seq(Jobs) /\ Coming(inbox) \in Seq(Jobs)
        /\ JobQueue = q \o Coming(inbox)
    <3>1. Running \in Seq(Jobs)
      BY DEF Running, ServeInv
    <3>. QED
      BY <3>1, QueueParts
  <2>5. JobQueue' = q \o Coming(inbox')
    <3>1. SchedInv'
      BY EnvironmentKeeps
    <3>2. JobQueue' = QueueNow'
      BY <3>1, QueueIsNext DEF SchedInv
    <3>. QED
      BY <1>2, <3>2 DEF QueueNow, Running, FirstNumber
  <2>. DEFINE d == Coming(inbox)
  <2>. HIDE DEF q
  <2>6. q \o Append(d, e) = Append(q \o d, e)
    <3>1. d \in Seq(Jobs) /\ q \o d \in Seq(Jobs) /\ <<e>> \in Seq(Jobs)
      BY <2>2, <2>4
    <3>. HIDE DEF d
    <3>2. /\ Append(d, e) = d \o <<e>>
          /\ Append(q \o d, e) = (q \o d) \o <<e>>
      BY <2>2, <3>1, AppendIsConcat
    <3>. QED
      BY <2>4, <3>1, <3>2, ConcatAssociative
  <2>. QED
    BY <2>1, <2>2, <2>3, <2>4, <2>5, <2>6
<1>. QED
  BY <1>1, <1>6, <1>7, <1>8, <1>9, <1>10, <1>11 DEF Environment

\* What stands for no result, when no nonce is left out, is no better than one
\* of them, whatever nonce it has.
LEMMA WholeBest ==
  ASSUME NEW c \in Clients, NEW u \in Uppers
  PROVE  BestOf(c, 0 .. u, u) = BestOf(c, 0 .. u, MaxUint)
<1>. DEFINE N == 0 .. u
            p == BestOf(c, N, u)
            e == <<Hash[c][u], u>>
            top == <<MaxUint, MaxUint>>
<1>1. /\ u \in Nat /\ u \in Hashes /\ u \in N /\ MaxUint \in Hashes
      /\ N \in SUBSET Hashes /\ MaxUint \in Nat
  BY DEF Hashes
<1>. HIDE DEF N
<1>2. /\ p \in ResultsOf(c, N, u)
      /\ ResultsOf(c, N, u) \subseteq Hashes \X Hashes
      /\ \A q \in ResultsOf(c, N, u) : ~ Better(q, p)
  BY <1>1, BestOfIs
<1>3. e \in ResultsOf(c, N, u) /\ Hash[c][u] \in Hashes
  <2>1. e \in ResultsOf(c, N, u)
    BY <1>1 DEF ResultsOf
  <2>2. Hash[c][u] \in Hashes
    BY <1>1, HashAssumption DEF Hashes
  <2>. QED
    BY <2>1, <2>2
<1>. HIDE DEF p
<1>4. p = <<p[1], p[2]>> /\ p[1] \in Hashes /\ p[2] \in Hashes
  BY <1>2
<1>5. p \in ResultsOf(c, N, MaxUint)
  <2>1. CASE p = <<MaxUint, u>>
    <3>1. ~ (Hash[c][u] < MaxUint)
      <4>1. ~ Better(e, p)
        BY <1>2, <1>3
      <4>. QED
        BY <2>1, <4>1 DEF Better
    <3>2. Hash[c][u] = MaxUint
      BY <1>1, <1>3, <3>1 DEF Hashes
    <3>. QED
      BY <1>1, <2>1, <3>2 DEF ResultsOf
  <2>2. CASE p # <<MaxUint, u>>
    BY <1>2, <2>2 DEF ResultsOf
  <2>. QED
    BY <2>1, <2>2
<1>6. ASSUME NEW q \in ResultsOf(c, N, MaxUint) PROVE ~ Better(q, p)
  <2>1. CASE q = top
    <3>1. p[1] \in 0 .. MaxUint /\ p[2] \in 0 .. MaxUint
      BY <1>4 DEF Hashes
    <3>. QED
      BY <1>1, <2>1, <3>1 DEF Better
  <2>2. CASE q # top
    BY <1>2, <2>2 DEF ResultsOf
  <2>. QED
    BY <2>1, <2>2
<1>7. BestOf(c, N, MaxUint) = p
  BY <1>1, <1>5, <1>6, BestOfOnly
<1>. QED
  BY <1>7 DEF p, N

\* case <-yy.waitans: every nonce of the range is reported, so the answer is
\* that of the request.
LEMMA WaitAnsAnswer ==
  ASSUME SchedInv, JobInv, ServeInv, WaitAns
  PROVE  /\ run /\ job \in Jobs /\ curclient = job.client
         /\ <<ans1, ans2>> = BestOf(job.client, 0 .. job.upper, MaxUint)
<1>1. run /\ waitans
  BY DEF WaitAns, SchedInv, CountInv
<1>2. /\ job \in Jobs /\ curclient = job.client
      /\ job.client \in Clients /\ job.upper \in Uppers
      /\ <<ans1, ans2>> =
           BestOf(job.client, Reported(miner, pendrange, job.upper), job.upper)
  BY <1>1 DEF ServeInv, JobInv
<1>3. Busy(miner) = {} /\ DOMAIN pendrange = {}
  <2>1. ~ run \/ waitans
    BY <1>1
  <2>. QED
    BY <2>1, NothingDue, Zenon
<1>4. Reported(miner, pendrange, job.upper) = 0 .. job.upper
  <2>1. Holders(miner, pendrange) = {}
    BY <1>3 DEF Holders
  <2>. QED
    BY <2>1 DEF Reported
<1>5. BestOf(job.client, 0 .. job.upper, job.upper) =
        BestOf(job.client, 0 .. job.upper, MaxUint)
  BY <1>2, WholeBest
<1>. QED
  BY <1>1, <1>2, <1>4, <1>5

\* Each step of Scheduler is one of JobServer, or changes nothing there.
LEMMA ServerStep ==
  ASSUME SchedInv, SchedInv', JobInv, MailInv, ServeInv, [Next]_vars
  PROVE  ServeInv' /\ [Served!Next]_(Served!jobVars)
<1>1. ASSUME JobQueue' = JobQueue, answers' = answers, lost' = lost
      PROVE  UNCHANGED Served!jobVars
  BY <1>1 DEF Served!jobVars
<1>2. CASE WaitAns
  <2>1. /\ run /\ job \in Jobs /\ curclient = job.client
        /\ <<ans1, ans2>> = BestOf(job.client, 0 .. job.upper, MaxUint)
    BY <1>2, WaitAnsAnswer
  <2>2. /\ JobQueue # <<>> /\ Head(JobQueue) = job
        /\ JobQueue' = Tail(JobQueue) /\ ServeInv'
    BY <1>2, <2>1, WaitAnsQueue
  <2>3. /\ lost' = lost
        /\ answers' = IF jobgiveup \/ curclient \in lost
                        THEN answers
                        ELSE [answers EXCEPT ![curclient] =
                                Append(@, <<ans1, ans2>>)]
    BY <1>2 DEF WaitAns, envVars
  <2>4. jobgiveup => job.client \in lost
    BY <2>1 DEF ServeInv
  <2>5. CASE job.client \in lost
    <3>1. answers' = answers
      BY <2>1, <2>3, <2>5
    <3>2. job.client \in lost \cap Clients
      BY <2>1, <2>5 DEF Jobs
    <3>3. Served!Drop
      BY <2>2, <2>3, <3>1, <3>2 DEF Served!Drop
    <3>. QED
      BY <2>2, <3>3 DEF Served!Next
  <2>6. CASE job.client \notin lost
    <3>1. answers' = [answers EXCEPT ![job.client] =
                        Append(@, BestOf(job.client, 0 .. job.upper, MaxUint))]
      BY <2>1, <2>3, <2>4, <2>6
    <3>2. job.client \notin lost \cap Clients
      BY <2>6
    <3>3. Served!Reply
      BY <2>2, <2>3, <3>1, <3>2 DEF Served!Reply
    <3>. QED
      BY <2>2, <3>3 DEF Served!Next
  <2>. QED
    BY <2>5, <2>6
<1>3. CASE LostBusyMiner \/ LostFreeMiner \/ LostOther
  <2>1. answers' = answers /\ lost' = lost
    BY <1>3 DEF LostBusyMiner, LostFreeMiner, LostOther, Read, envVars
  <2>. QED
    BY <1>1, <1>3, <2>1, LostQueue
<1>4. CASE ReadJoin \/ ReadRequest \/ ReadResult
  <2>1. answers' = answers /\ lost' = lost
    BY <1>4 DEF ReadJoin, ReadRequest, ReadResult, Read, envVars
  <2>. QED
    BY <1>1, <1>4, <2>1, JoinQueue, RequestQueue, ResultQueue
<1>5. CASE Environment
  <2>1. /\ ServeInv' /\ answers' = answers
        /\ \/ /\ \E e \in Jobs : JobQueue' = Append(JobQueue, e)
              /\ lost' = lost
           \/ JobQueue' = JobQueue /\ lost' = lost
           \/ /\ JobQueue' = JobQueue
              /\ \E i \in Miners \cup Clients : lost' = lost \cup {i}
    BY <1>5, EnvironmentQueue
  <2>2. ASSUME NEW e \in Jobs, JobQueue' = Append(JobQueue, e), lost' = lost
        PROVE  Served!Next
    <3>1. Served!Submit(e)
      BY <2>1, <2>2 DEF Served!Submit
    <3>. QED
      BY <3>1 DEF Served!Next, Served!Requests, Jobs
  <2>3. ASSUME JobQueue' = JobQueue, NEW i \in Miners \cup Clients,
               lost' = lost \cup {i}
        PROVE  [Served!Next]_(Served!jobVars)
    <3>1. CASE i \in Clients
      <4>1. (lost \cap Clients)' = (lost \cap Clients) \cup {i}
        BY <2>3, <3>1
      <4>2. Served!Lose(i)
        BY <2>1, <2>3, <4>1 DEF Served!Lose
      <4>. QED
        BY <3>1, <4>2 DEF Served!Next
    <3>2. CASE i \notin Clients
      <4>1. (lost \cap Clients)' = lost \cap Clients
        BY <2>3, <3>2
      <4>. QED
        BY <2>1, <2>3, <4>1 DEF Served!jobVars
    <3>. QED
      BY <3>1, <3>2
  <2>. QED
    BY <1>1, <2>1, <2>2, <2>3
<1>6. CASE UNCHANGED vars
  <2>1. UNCHANGED <<run, job, curclient, jobgiveup, lost, answers, pendjobs,
                    pendclients, reqct, inbox>>
    BY <1>6 DEF vars, queueVars, jobVars, envVars
  <2>2. JobQueue' = JobQueue
    BY <2>1 DEF JobQueue
  <2>3. ServeInv'
    BY <2>1 DEF ServeInv
  <2>. QED
    BY <1>1, <2>1, <2>2, <2>3
<1>. QED
  BY <1>2, <1>3, <1>4, <1>5, <1>6 DEF Next, Loop

\* The server keeps the promise of JobServer: requests are answered in the
\* order they arrived, each once, with the best result over its whole range,
\* or given up when their client is lost.
THEOREM ServerImplements == ASSUME RangesFit PROVE Safety => JobServerSafety
<1>1. Init => ServeInv /\ Served!Init
  <2>. SUFFICES ASSUME Init PROVE ServeInv /\ Served!Init
    OBVIOUS
  <2>1. /\ run = FALSE /\ inbox = <<>> /\ lost = {} /\ pendjobs = <<>>
        /\ answers = [c \in Clients |-> <<>>] /\ reqct = 1 /\ currid = 1
    BY DEF Init
  <2>2. JobQueue = <<>>
    <3>1. Coming(inbox) = <<>>
      BY <2>1, RequestsNone DEF Coming
    <3>2. FirstNumber = 1 /\ reqct = 1 /\ Running = <<>>
      BY <2>1 DEF FirstNumber, Running
    <3>3. Waiting(pendjobs, pendclients, 1, 1) = <<>>
      BY DEF Waiting
    <3>4. JobQueue = QueueNow
      BY InitSched, QueueIs DEF SchedInv
    <3>. QED
      BY <3>1, <3>2, <3>3, <3>4 DEF QueueNow
  <2>. QED
    BY <2>1, <2>2 DEF ServeInv, Served!Init
<1>2. ASSUME ShareInv, ShareInv', ServeInv, [Next]_vars
      PROVE  ServeInv' /\ [Served!Next]_(Served!jobVars)
  BY <1>2, ServerStep DEF ShareInv
<1>3. Safety => []ShareInv
  BY InductiveShares
<1>. QED
  BY <1>1, <1>2, <1>3, PTL DEF Safety, JobServerSafety, Served!Safety
=============================================================================
