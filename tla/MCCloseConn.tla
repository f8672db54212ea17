---------------------------- MODULE MCCloseConn -----------------------------
(***************************************************************************)
(* Instances of CloseConn for TLC; the numbers are in the .cfg files.  The *)
(* bounds are those of SlidingWindow.                                      *)
(***************************************************************************)
EXTENDS CloseConn
=============================================================================
