-------------------------- MODULE Keepalive_proofs --------------------------
(***************************************************************************)
(* The proof that the server keeps the connection of a client that is      *)
(* alive and has sent data, for any clients, EpochLimit and MaxConn.       *)
(***************************************************************************)
EXTENDS Keepalive, Handshake_proofs

\* What reached the handler of an established connection was counted, so the
\* connection has not been silent for longer than it has been quiet.  Of a
\* pending one this is not true: its keepalives are not counted.
QuietInv ==
  /\ quiet \in [ConnIds -> 0 .. EpochLimit]
  /\ \A i \in conn \ pendconn : ssilent[i] <= quiet[i]

HeardInv == HInv /\ QuietInv

USE EpochLimitAssumption, MaxConnAssumption
-----------------------------------------------------------------------------
\* A step of this module is a step of Handshake, or changes nothing there.
LEMMA HeardIsNext == [NextHeard]_heardVars => [Next]_vars
  BY DEF NextHeard, ClientStep, HeardFrom, CountedEpoch, KeepaliveIgnored,
         heardVars, Next, Step

\* A client's step leaves the counts alone.
LEMMA ClientStepQuiet ==
  ASSUME QuietInv, ClientStep, UNCHANGED quiet PROVE QuietInv'
<1>1. UNCHANGED serverVars
  BY DEF ClientStep, NewClient, NewClientReturns, Write, AskAgain,
         ClientEpoch, Established, ServerAlive, DataAcked
<1>. QED
  BY <1>1 DEF QuietInv, serverVars

\* A Connect makes a pending connection, or shows that a client is alive.
LEMMA ServerConnectQuiet ==
  ASSUME HInv, QuietInv, NEW c \in Addrs, ServerConnect(c), UNCHANGED quiet
  PROVE  QuietInv'
<1>1. /\ conn' \ pendconn' \subseteq conn \ pendconn
      /\ \A i \in ConnIds : ssilent'[i] = ssilent[i] \/ ssilent'[i] = 0
  BY DEF HInv, TypeOK, ServerConnect
<1>2. conn \subseteq ConnIds
  BY DEF HInv, TypeOK
<1>. QED
  BY <1>1, <1>2 DEF QuietInv

\* What the handler hears of an established connection resets both counts,
\* and what it ignores is of a pending one.
LEMMA HeardFromQuiet ==
  ASSUME HInv, QuietInv, NEW c \in Addrs, NEW i \in ConnIds, HeardFrom(c, i)
  PROVE  QuietInv'
<1>1. quiet' = [quiet EXCEPT ![i] = 0]
  BY DEF HeardFrom
<1>2. quiet' \in [ConnIds -> 0 .. EpochLimit]
  BY <1>1 DEF QuietInv
<1>3. ASSUME NEW k \in conn' \ pendconn' PROVE ssilent'[k] <= quiet'[k]
  <2>1. conn' = conn /\ k \in conn /\ k \in ConnIds
    BY <1>3 DEF HeardFrom, ServerKeepalive, ServerData, KeepaliveIgnored,
                vars, serverVars, HInv, TypeOK
  <2>2. CASE k = i
    <3>1. ssilent'[i] = 0
      BY <1>3, <2>2 DEF HeardFrom, ServerKeepalive, ServerData,
         KeepaliveIgnored, vars, serverVars, HInv, TypeOK
    <3>. QED
      BY <2>2, <3>1, <1>1 DEF QuietInv
  <2>3. CASE k # i
    <3>1. ssilent'[k] = ssilent[k] /\ k \notin pendconn
      BY <1>3, <2>1, <2>3 DEF HeardFrom, ServerKeepalive, ServerData,
         KeepaliveIgnored, vars, serverVars, HInv, TypeOK
    <3>. QED
      BY <2>1, <2>3, <3>1, <1>1 DEF QuietInv
  <2>. QED
    BY <2>2, <2>3
<1>. QED
  BY <1>2, <1>3 DEF QuietInv

\* An epoch of the server adds one to both counts, or the connection goes.
LEMMA CountedEpochQuiet ==
  ASSUME HInv, QuietInv, CountedEpoch PROVE QuietInv'
<1>1. quiet' \in [ConnIds -> 0 .. EpochLimit]
  BY DEF QuietInv, CountedEpoch
<1>2. ASSUME NEW i \in conn' \ pendconn' PROVE ssilent'[i] <= quiet'[i]
  <2>1. /\ i \in conn \ pendconn /\ i \in ConnIds /\ ssilent'[i] = ssilent[i] + 1
        /\ ~ TooSilent(ssilent[i] + 1)
    BY <1>2 DEF CountedEpoch, ServerEpoch, HInv, TypeOK
  <2>2. ssilent[i] \in Nat /\ quiet[i] \in 0 .. EpochLimit /\ ssilent[i] <= quiet[i]
    BY <2>1 DEF QuietInv, HInv, TypeOK
  <2>3. quiet'[i] = IF quiet[i] < EpochLimit THEN quiet[i] + 1 ELSE quiet[i]
    BY <2>1 DEF CountedEpoch
  <2>. QED
    BY <2>1, <2>2, <2>3 DEF TooSilent
<1>. QED
  BY <1>1, <1>2 DEF QuietInv

\* The invariant of the handshake with the bound on the server's counts is
\* inductive (handleEpoch, handleReceive).
THEOREM HeardInductive == SafetyHeard => []HeardInv
<1>1. InitHeard => HeardInv
  <2>1. InitHeard => QuietInv
    BY DEF InitHeard, Init, QuietInv
  <2>. QED
    BY <2>1, InitInv DEF InitHeard, HeardInv
<1>2. HeardInv /\ [NextHeard]_heardVars => HeardInv'
  <2>. SUFFICES ASSUME HeardInv, [NextHeard]_heardVars PROVE HeardInv'
    OBVIOUS
  <2>1. HInv'
    BY HeardIsNext, NextInv DEF HeardInv
  <2>2. QuietInv'
    <3>1. CASE UNCHANGED heardVars
      BY <3>1 DEF HeardInv, QuietInv, heardVars, vars, serverVars
    <3>2. CASE NextHeard
      BY <3>2, ClientStepQuiet, ServerConnectQuiet, HeardFromQuiet,
         CountedEpochQuiet DEF HeardInv, NextHeard
    <3>. QED
      BY <3>1, <3>2
  <2>. QED
    BY <2>1, <2>2 DEF HeardInv
<1>. QED
  BY <1>1, <1>2, PTL DEF SafetyHeard

\* Of every established connection the server's count of silent epochs
\* (lastrece of handleEpoch) is at most the number of epochs since a datagram
\* of it last reached the handler: data and keepalives are all counted.
THEOREM SilentAtMostQuiet == SafetyHeard => []QuietInv
BY HeardInductive, PTL DEF HeardInv

\* The connection of a client that is alive and has sent data is not declared
\* lost: only an epoch drops connections, and the counts say this one has
\* been heard in time.
THEOREM EstablishedIsKept == SafetyHeard => EstablishedKept
<1>1. HeardInv /\ [NextHeard]_heardVars
      => [\A i \in conn \ pendconn : Alive(i) => i \in conn']_heardVars
  <2>. SUFFICES ASSUME HeardInv, NextHeard,
                       NEW i \in conn \ pendconn, Alive(i)
                PROVE  i \in conn'
    OBVIOUS
  <2>1. CASE ClientStep \/ \E c \in Addrs : ServerConnect(c)
    BY <2>1 DEF ClientStep, NewClient, NewClientReturns, Write, AskAgain,
       ClientEpoch, Established, ServerAlive, DataAcked, serverVars,
       ServerConnect
  <2>2. CASE \E c \in Addrs, k \in ConnIds : HeardFrom(c, k)
    BY <2>2 DEF HeardFrom, ServerKeepalive, ServerData, KeepaliveIgnored,
       vars, serverVars
  <2>3. CASE CountedEpoch
    <3>1. i \in ConnIds /\ ssilent[i] \in Nat /\ quiet[i] \in Nat
          /\ ssilent[i] <= quiet[i] /\ quiet[i] + 1 < EpochLimit
      BY DEF HeardInv, HInv, TypeOK, QuietInv, Alive
    <3>2. ~ TooSilent(ssilent[i] + 1)
      BY <3>1 DEF TooSilent
    <3>. QED
      BY <2>3, <3>2 DEF CountedEpoch, ServerEpoch
  <2>. QED
    BY <2>1, <2>2, <2>3 DEF NextHeard
<1>. QED
  BY <1>1, HeardInductive, PTL DEF SafetyHeard, EstablishedKept
=============================================================================
