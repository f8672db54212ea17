---------------------------- MODULE MCHandshake -----------------------------
(***************************************************************************)
(* Instances of Handshake for TLC.  MaxConn bounds the connections the     *)
(* server makes; everything else is finite by itself.                      *)
(***************************************************************************)
EXTENDS Handshake
=============================================================================
