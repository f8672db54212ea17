-------------------------- MODULE MCSlidingWindow ---------------------------
(***************************************************************************)
(* Instances of SlidingWindow for TLC.  The numbers are in the .cfg files; *)
(* a state space is finite because the application writes MaxWrites        *)
(* messages, every message is read at most once, and an sread packet comes *)
(* with a new message or a call of Read.                                   *)
(***************************************************************************)
EXTENDS SlidingWindow
=============================================================================
