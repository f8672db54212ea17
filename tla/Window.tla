------------------------------- MODULE Window -------------------------------
(***************************************************************************)
(* The arithmetic of LSP's windows.  lsp/client_impl.go and                *)
(* lsp/server_impl.go hold the same code twice; every module that has a    *)
(* window takes it from here.                                              *)
(*                                                                         *)
(* The sender keeps a base seq and the numbers databuf it sent and has no  *)
(* Ack of; the receiver keeps the lowest number ack it still acknowledges  *)
(* and the numbers ackbuf whose Acks it sends again.                       *)
(*                                                                         *)
(* Each operator named after another with a suffix (InWindowOffByOne, ...) *)
(* is a mistake the code does not make.  No action uses it; it takes the   *)
(* place of the other when a property is tested.                           *)
(***************************************************************************)
EXTENDS Integers

CONSTANT WindowSize     \* Params.WindowSize, the same at both ends

ASSUME WindowSizeAssumption == WindowSize \in Nat \ {0}

\* handleWrite: message n may be sent now.
InWindowOffByOne(base, n) == n <= base + WindowSize
InWindow(base, n) == n < base + WindowSize

\* handleReceive looks at the Ack of n at all.
AckInWindow(base, n) == base <= n /\ n <= base + WindowSize

\* The scan for the new base stops at s: nothing is unacknowledged (then it
\* does not scan at all), the scan has covered the window that began at base,
\* or message s is unacknowledged.
ScanStops(base, buf, s) ==
  \/ buf = {}
  \/ s >= base + WindowSize - 1
  \/ s \in buf

\* s is the base after the acknowledgement of message base, when buf holds
\* what is still unacknowledged.
NewBase(base, buf, s) ==
  /\ s \in base + 1 .. base + WindowSize
  /\ ScanStops(base, buf, s)
  /\ \A i \in base + 1 .. s - 1 : ~ ScanStops(base, buf, i)

\* What the slide from base to s lets out of the waiting messages.
ReleasedUnwritten(base, s, waiting) ==
  base + WindowSize .. s + WindowSize - 1
Released(base, s, waiting) ==
  {i \in waiting : base + WindowSize <= i /\ i < s + WindowSize}

\* A number WindowSize or more above ack moves ack up ...
AckFloorTooHigh(ack, n) ==
  IF n - WindowSize >= ack THEN n - WindowSize + 2 ELSE ack
AckFloor(ack, n) ==
  IF n - WindowSize >= ack THEN n - WindowSize + 1 ELSE ack

\* ... and the Acks below the new ack are dropped.
KeptAcksOneShort(ack, acks, n) ==
  {i \in acks \cup {n} : n - WindowSize >= ack => i > n - WindowSize + 1}
KeptAcks(ack, acks, n) ==
  {i \in acks \cup {n} : n - WindowSize >= ack => i > n - WindowSize}
=============================================================================
