---------------------------- MODULE MCKeepalive -----------------------------
(***************************************************************************)
(* Instances of Keepalive for TLC, bounded as Handshake is.                *)
(***************************************************************************)
EXTENDS Keepalive, TLC

\* The clients are alike.
Symmetry == Permutations(Addrs)
=============================================================================
