----------------------------- MODULE JobServer ------------------------------
(***************************************************************************)
(* What the bitcoin server promises its clients: requests are served one   *)
(* at a time in the order they arrived, each with the smallest hash over   *)
(* the whole of its own range and the smallest nonce that has it; a        *)
(* request is given up only when its client is lost.  It knows of no       *)
(* miners.                                                                 *)
(*                                                                         *)
(* Scheduler implements it.                                                *)
(***************************************************************************)
EXTENDS Naturals, Sequences

CONSTANTS Clients,      \* the connections that send requests
          Uppers,       \* the upper bounds a request may have
          Answer(_, _)  \* Answer(c, u): the result of the request (c, u)

VARIABLES queue,        \* the requests not answered yet, in order
          answers,      \* the results each client was sent
          lost          \* the clients that are lost

jobVars == <<queue, answers, lost>>

Requests == [client : Clients, upper : Uppers]

Init == /\ queue = <<>>
        /\ answers = [c \in Clients |-> <<>>]
        /\ lost = {}

Submit(r) == /\ queue' = Append(queue, r)
             /\ UNCHANGED <<answers, lost>>

\* The oldest request is answered, or dropped if its client is lost.
Reply ==
  /\ queue # <<>>
  /\ LET r == Head(queue)
     IN  /\ r.client \notin lost
         /\ answers' = [answers EXCEPT ![r.client] =
                          Append(@, Answer(r.client, r.upper))]
  /\ queue' = Tail(queue)
  /\ UNCHANGED lost

Drop == /\ queue # <<>>
        /\ Head(queue).client \in lost
        /\ queue' = Tail(queue)
        /\ UNCHANGED <<answers, lost>>

Lose(c) == /\ lost' = lost \cup {c}
           /\ UNCHANGED <<queue, answers>>

Next == \/ \E r \in Requests : Submit(r)
        \/ Reply
        \/ Drop
        \/ \E c \in Clients : Lose(c)

Safety == Init /\ [][Next]_jobVars
=============================================================================
