---------------------------- MODULE MCLspClient -----------------------------
(***************************************************************************)
(* Instances of LspClient for TLC; the numbers are in the .cfg files.  A   *)
(* state space is finite because epochs and datagrams are posted only      *)
(* while req is shorter than MaxWaiting, over is bounded, and the          *)
(* application makes a bounded number of calls.                            *)
(***************************************************************************)
EXTENDS LspClient
=============================================================================
