---------------------------- MODULE MCLspServer -----------------------------
(***************************************************************************)
(* Instances of LspServer for TLC; the numbers are in the .cfg files.  A   *)
(* state space is finite because every client connects once, the           *)
(* application makes a bounded number of calls, and no more than MaxPosted *)
(* sclose packets wait.                                                    *)
(***************************************************************************)
EXTENDS LspServer
=============================================================================
