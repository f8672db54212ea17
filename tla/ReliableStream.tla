--------------------------- MODULE ReliableStream ---------------------------
(***************************************************************************)
(* What one direction of an LSP connection promises the application that   *)
(* writes at one end and reads at the other: every payload written is read *)
(* once, in the order written.  It knows of no datagram, window or epoch.  *)
(*                                                                         *)
(* SlidingWindow implements it.                                            *)
(***************************************************************************)
EXTENDS Naturals, Sequences

CONSTANT Data           \* the payloads an application can write

VARIABLES written,      \* the payloads the writing application has written
          delivered     \* the payloads the reading application has read

streamVars == <<written, delivered>>

Init == /\ written = <<>>
        /\ delivered = <<>>

\* The writing application hands a payload over (Client.Write).
Send(d) == /\ written' = Append(written, d)
           /\ UNCHANGED delivered

\* The reading application gets the next payload (Server.Read).
Recv == /\ Len(delivered) < Len(written)
        /\ delivered' = Append(delivered, written[Len(delivered) + 1])
        /\ UNCHANGED written

Next == Recv \/ \E d \in Data : Send(d)

Safety == Init /\ [][Next]_streamVars

\* What was written is eventually read.
Spec == Safety /\ WF_streamVars(Recv)
=============================================================================
