---------------------------- MODULE MCScheduler -----------------------------
(***************************************************************************)
(* Instances of Scheduler for TLC.  Each client sends one request and each *)
(* miner process joins once, so the state space is finite.                 *)
(***************************************************************************)
EXTENDS Scheduler

\* For client 1 the smallest hash is in several shares, so the nonce has to
\* decide; for any other client the last nonces have the smaller hashes.
MCHash == [c \in Clients |->
             [n \in 0 .. MaxUint |->
                IF c = 1 THEN (n + 1) % 2 ELSE (MaxUint - n) % 4]]
=============================================================================
