----------------------------- MODULE Scheduler ------------------------------
(***************************************************************************)
(* The bitcoin server (bitcoin/server/server.go): it splits the range of   *)
(* nonces of a request among the miners that joined, collects their        *)
(* results, gives the range of a lost miner to another one, and sends the  *)
(* client the best result.  Requests wait for the one that runs.           *)
(*                                                                         *)
(* The main loop is one goroutine; one pass of it is one step here.  The   *)
(* miners (bitcoin/miner/miner.go) and the clients (bitcoin/client) are    *)
(* the environment.  The LSP server below is seen through its API: Read    *)
(* returns the messages and the losses in the order of inbox, and Write    *)
(* fails exactly when the connection was declared lost before it.  A loss  *)
(* during a pass, before or after the pass's one Write to that connection, *)
(* is a loss before or after the pass.                                     *)
(*                                                                         *)
(* Each operator named after another with a suffix (NthShareGap,           *)
(* MergeTies, ...) is a mistake the code does not make.  No action uses    *)
(* it; it takes the place of the other when a property is tested.          *)
(***************************************************************************)
EXTENDS Integers, Sequences, FiniteSets, Functions

CONSTANTS Miners,       \* IDs of the connections miners make
          Clients,      \* IDs of the connections clients make
          Uppers,       \* the Upper field of the requests
          Hash,         \* Hash[c][n]: bitcoin.Hash of c's data and nonce n
          MaxUint       \* 2^64 - 1, scaled down

ASSUME IdAssumption ==
  /\ Miners \cap Clients = {} /\ IsFiniteSet(Miners) /\ IsFiniteSet(Clients)
  /\ Miners \cup Clients \subseteq Nat \ {0}
ASSUME RangeAssumption == MaxUint \in Nat /\ Uppers \subseteq 0 .. MaxUint
ASSUME HashAssumption == Hash \in [Clients -> [0 .. MaxUint -> 0 .. MaxUint]]

VARIABLES
  \* type Scheduler; a Go map is a function on the set of its keys.
  pendclients,  \* job number -> client
  pendjobs,     \* job number -> Upper of the request
  reqct,        \* number the next request gets
  currid,       \* number of the current job
  curclient,    \* client of the current job
  run,          \* a job is running
  waitans,      \* the channel waitans holds a value
  jobgiveup,    \* the client of the current job was lost
  block,        \* how many shares of the job are not reported
  ans1, ans2,   \* best hash and nonce so far
  miner,        \* miner -> its share, or Idle (nil)
  pendminer,    \* miners that wait to be put into miner
  pendrange,    \* lost miner -> the share it had
  minerfail,    \* how many shares wait for a miner
  panicked,     \* the server process crashed on a run-time panic
  \* The environment.
  inbox,        \* what s.Read will return, in order
  work,         \* miner -> the shares on their way to it
  started,      \* connections that sent their first message
  crashed,      \* miners whose process is gone
  lost,         \* connections the LSP server has declared lost
  answers,      \* client -> the results it was sent
  job           \* the request the current job serves

queueVars == <<pendclients, pendjobs, reqct>>
jobVars   == <<currid, curclient, run, waitans, jobgiveup, block, ans1, ans2,
               job, panicked>>
poolVars  == <<miner, pendminer, pendrange, minerfail>>
envVars   == <<started, crashed, lost>>
vars      == <<queueVars, jobVars, poolVars, envVars, inbox, work, answers>>

Idle == [client |-> 0, lower |-> 0, upper |-> 0]
Share(c, l, u) == [client |-> c, lower |-> l, upper |-> u]

\* NewScheduler; no process has said anything yet.
Init ==
  /\ pendclients = <<>> /\ pendjobs = <<>> /\ reqct = 1 /\ currid = 1
  /\ curclient = 1 /\ run = FALSE /\ waitans = FALSE /\ jobgiveup = FALSE
  /\ block = 0 /\ ans1 = 0 /\ ans2 = 0
  /\ miner = <<>> /\ pendminer = {} /\ pendrange = <<>> /\ minerfail = 0
  /\ panicked = FALSE
  /\ inbox = <<>> /\ work = [i \in Miners |-> <<>>]
  /\ started = {} /\ crashed = {} /\ lost = {}
  /\ answers = [c \in Clients |-> <<>>]
  /\ job = [client |-> 0, upper |-> 0]

-----------------------------------------------------------------------------
(***************************************************************************)
(* Splitting a range, and comparing results.                               *)
(***************************************************************************)
Wrap(x) == x % (MaxUint + 1)

\* block in assign: u / n, rounded up.
ShareSize(u, n) == u \div n + (IF u % n # 0 THEN 1 ELSE 0)

\* The share of size size that begins at lower, in the arithmetic of uint64,
\* cut off at u.
CutShare(c, u, lower, size) ==
  LET upper == Wrap(lower + size)
  IN  Share(c, lower, IF upper > u THEN u ELSE upper)

\* The k-th of the n shares of 0 .. u.
NthShareGap(c, u, n, k) ==
  CutShare(c, u, Wrap(k * (ShareSize(u, n) + 2)), ShareSize(u, n))
NthShareOverlap(c, u, n, k) ==
  CutShare(c, u, Wrap(k * ShareSize(u, n)), ShareSize(u, n))
NthShare(c, u, n, k) ==
  CutShare(c, u, Wrap(k * (ShareSize(u, n) + 1)), ShareSize(u, n))

\* A result is a pair <<hash, nonce>>; the smaller hash is the better one,
\* then the smaller nonce.
Better(p, q) == p[1] < q[1] \/ (p[1] = q[1] /\ p[2] < q[2])
MergeTies(p, q) == IF p[1] < q[1] THEN p ELSE q
Merge(p, q) == IF Better(q, p) THEN q ELSE p

\* The best result for client c's data among some nonces, and <<top, top>>
\* when there is none.
BestOf(c, nonces, top) ==
  LET results == {<<Hash[c][n], n>> : n \in nonces} \cup {<<MaxUint, top>>}
  IN  CHOOSE p \in results : \A q \in results : ~ Better(q, p)

Nonces(share) == share.lower .. share.upper

(***************************************************************************)
(* The functions the main loop calls.  A parameter stands for a field the  *)
(* caller may have changed before the call.                                *)
(***************************************************************************)
AnyBusy(m) == DOMAIN m
Busy(m) == {i \in DOMAIN m : m[i] # Idle}

\* resize: the waiting miners join the pool, without work.
JoinersForgotten(m, waiting) == m
Resized(m, waiting) ==
  [i \in DOMAIN m \cup waiting |-> IF i \in waiting THEN Idle ELSE m[i]]

\* s.Write of a share to each miner in the domain of f.
Sent(f) ==
  [i \in Miners |-> IF i \in DOMAIN f THEN Append(work[i], f[i]) ELSE work[i]]

\* The connections among S that a Write reaches.
ReachableUnchecked(S) == S
Reachable(S) == S \ lost

\* How many results a job has to wait for, one for each miner in m.
ReportsDueReachable(m) == Cardinality(Reachable(DOMAIN m))
ReportsDue(m) == Cardinality(DOMAIN m)

\* assign: one share of job number id for every miner in m, in the order of
\* a walk through the map; a miner whose Write fails is dropped and its
\* share waits.  A job that is not there or an empty pool is a panic.
Assign(m, jobs, clients, id) ==
  IF id \notin DOMAIN jobs \/ DOMAIN m = {}
    THEN /\ panicked' = TRUE
         /\ UNCHANGED <<pendjobs, pendclients, curclient, run, jobgiveup,
                        block, ans1, ans2, miner, pendrange, minerfail, work,
                        job>>
    ELSE LET n    == Cardinality(DOMAIN m)
             dead == DOMAIN m \ Reachable(DOMAIN m)
         IN \E turn \in Bijection(DOMAIN m, 0 .. n - 1) :
              LET share == [i \in DOMAIN m |->
                              NthShare(clients[id], jobs[id], n, turn[i])]
              IN  /\ miner' = Restrict(share, DOMAIN m \ dead)
                  /\ work' = Sent(miner')
                  /\ pendrange' = [i \in DOMAIN pendrange \cup dead |->
                       IF i \in dead THEN share[i] ELSE pendrange[i]]
                  /\ minerfail' = minerfail + Cardinality(dead)
                  /\ block' = ReportsDue(m)
                  /\ ans1' = MaxUint /\ ans2' = jobs[id]
                  /\ curclient' = clients[id]
                  /\ jobgiveup' = FALSE
                  /\ run' = TRUE
                  /\ pendjobs' = Restrict(jobs, DOMAIN jobs \ {id})
                  /\ pendclients' = Restrict(clients, DOMAIN clients \ {id})
                  /\ job' = [client |-> clients[id], upper |-> jobs[id]]
                  /\ UNCHANGED panicked

\* reassign: waiting shares go to idle miners, in any order, until the
\* shares or the idle miners run out.  An idle miner found lost is dropped;
\* all of them are found when a share is left over.
Reassign(m, ranges, fails) ==
  LET idle  == DOMAIN m \ Busy(m)
      alive == Reachable(idle)
  IN \E given \in SUBSET DOMAIN ranges, dropped \in SUBSET (idle \ alive) :
       /\ ranges = <<>> => dropped = {}
       /\ given # DOMAIN ranges =>
            Cardinality(given) = Cardinality(alive) /\ dropped = idle \ alive
       /\ \E to \in Injection(given, alive) :
            LET share == [i \in Range(to) |->
                            ranges[CHOOSE j \in given : to[j] = i]]
            IN  /\ miner' = [i \in DOMAIN m \ dropped |->
                              IF i \in Range(to) THEN share[i] ELSE m[i]]
                /\ work' = Sent(share)
       /\ pendrange' = Restrict(ranges, DOMAIN ranges \ given)
       /\ minerfail' = fails - Cardinality(given)

-----------------------------------------------------------------------------
(***************************************************************************)
(* The main loop.  A finished job has priority over Read.                  *)
(***************************************************************************)

\* case <-yy.waitans: the result goes to the client, unless it is lost, and
\* the next job starts, if there is one.
WaitAns ==
  /\ waitans /\ ~ panicked
  /\ waitans' = FALSE
  /\ answers' = IF jobgiveup \/ curclient \in lost
                  THEN answers
                  ELSE [answers EXCEPT ![curclient] =
                          Append(@, <<ans1, ans2>>)]
  /\ currid' = currid + 1
  /\ IF DOMAIN pendjobs # {} /\ currid + 1 < reqct
       THEN /\ Assign(Resized(miner, pendminer), pendjobs, pendclients,
                      currid + 1)
            /\ pendminer' = {}
       ELSE /\ run' = FALSE
            /\ UNCHANGED <<pendjobs, pendclients, curclient, jobgiveup, block,
                           ans1, ans2, job, panicked, poolVars, work>>
  /\ UNCHANGED <<reqct, inbox, envVars>>

\* s.Read returns.
Read(type) ==
  /\ ~ waitans /\ ~ panicked
  /\ inbox # <<>>
  /\ Head(inbox).type = type
  /\ inbox' = Tail(inbox)
  /\ UNCHANGED <<currid, envVars, answers>>

\* A miner is lost that works on a share of the running job: the share goes
\* to another miner or waits for one.
LostBusyMiner ==
  /\ Read("lost")
  /\ LET id     == Head(inbox).id
         left   == Resized(Restrict(miner, DOMAIN miner \ {id}), pendminer)
         ranges == [i \in DOMAIN pendrange \cup {id} |->
                      IF i = id THEN miner[id] ELSE pendrange[i]]
     IN  /\ run /\ id \in Busy(miner)
         /\ pendminer' = {}
         /\ IF DOMAIN left # {}
              THEN Reassign(left, ranges, minerfail + 1)
              ELSE /\ miner' = left
                   /\ pendrange' = ranges
                   /\ minerfail' = minerfail + 1
                   /\ UNCHANGED work
  /\ UNCHANGED <<queueVars, curclient, run, waitans, jobgiveup, block, ans1,
                 ans2, job, panicked>>

\* A miner is lost while no job runs.
LostFreeMiner ==
  /\ Read("lost")
  /\ ~ run /\ Head(inbox).id \in DOMAIN miner
  /\ miner' = Restrict(miner, DOMAIN miner \ {Head(inbox).id})
  /\ UNCHANGED <<queueVars, curclient, run, waitans, jobgiveup, block, ans1,
                 ans2, job, panicked, pendminer, pendrange, minerfail, work>>

\* Any other connection is lost.  An idle miner stays in the pool while a
\* job runs; of the clients only the current one is noticed.
LostOther ==
  /\ Read("lost")
  /\ LET id == Head(inbox).id
     IN  /\ id \in DOMAIN miner => run /\ miner[id] = Idle
         /\ pendminer' = pendminer \ {id}
         /\ jobgiveup' = (jobgiveup \/ (id \notin pendminer /\ id = curclient))
  /\ UNCHANGED <<queueVars, curclient, run, waitans, block, ans1, ans2, job,
                 panicked, miner, pendrange, minerfail, work>>

\* case bitcoin.Join.
ReadJoin ==
  /\ Read("join")
  /\ LET id     == Head(inbox).id
         joined == Resized(miner, pendminer \cup {id})
         free   == Resized(miner, {id})
     IN  \/ /\ run
            /\ pendminer' = {}
            /\ IF DOMAIN pendrange # {}
                 THEN Reassign(joined, pendrange, minerfail)
                 ELSE miner' = joined /\ UNCHANGED <<pendrange, minerfail, work>>
            /\ UNCHANGED <<pendjobs, pendclients, curclient, run, jobgiveup,
                           block, ans1, ans2, job, panicked>>
         \/ /\ ~ run
            /\ IF DOMAIN pendrange # {}
                 THEN /\ Reassign(free, pendrange, minerfail)
                      /\ UNCHANGED <<pendjobs, pendclients, curclient, run,
                                     jobgiveup, block, ans1, ans2, job,
                                     panicked>>
                 ELSE IF DOMAIN pendclients # {}
                 THEN Assign(free, pendjobs, pendclients, currid)
                 ELSE /\ miner' = free
                      /\ UNCHANGED <<pendjobs, pendclients, curclient, run,
                                     jobgiveup, block, ans1, ans2, job,
                                     panicked, pendrange, minerfail, work>>
            /\ UNCHANGED pendminer
  /\ UNCHANGED <<reqct, waitans>>

\* A request that arrives can start at once.
CanStartAnyway == ~ run
CanStart == ~ run /\ DOMAIN miner # {}

\* case bitcoin.Request: the job is queued, and starts at once if no job
\* runs and there is a miner.
ReadRequest ==
  /\ Read("request")
  /\ LET jobs == [k \in DOMAIN pendjobs \cup {reqct} |->
                    IF k = reqct THEN Head(inbox).upper ELSE pendjobs[k]]
         from == [k \in DOMAIN pendclients \cup {reqct} |->
                    IF k = reqct THEN Head(inbox).id ELSE pendclients[k]]
     IN  IF CanStart
           THEN Assign(miner, jobs, from, currid)
           ELSE /\ pendjobs' = jobs /\ pendclients' = from
                /\ UNCHANGED <<curclient, run, jobgiveup, block, ans1, ans2,
                               job, panicked, miner, pendrange, minerfail,
                               work>>
  /\ reqct' = reqct + 1
  /\ UNCHANGED <<waitans, pendminer>>

\* A share waits for a miner.
ShareWaitsTwo == minerfail > 1
ShareWaits == minerfail > 0

\* case bitcoin.Result: the result is credited to a miner whose share
\* contains the nonce.
ReadResult ==
  /\ Read("result")
  /\ LET msg     == Head(inbox)
         matches == {i \in Busy(miner) : msg.nonce \in Nonces(miner[i])}
         best    == Merge(<<ans1, ans2>>, <<msg.hash, msg.nonce>>)
     IN \/ /\ ~ run
           /\ UNCHANGED <<block, ans1, ans2, waitans, poolVars, work>>
        \/ /\ run /\ matches = {}
           /\ waitans' = (block = 0)
           /\ IF block # 0 /\ ShareWaits
                THEN Reassign(miner, pendrange, minerfail)
                ELSE UNCHANGED <<miner, pendrange, minerfail, work>>
           /\ UNCHANGED <<block, ans1, ans2, pendminer>>
        \/ /\ run
           /\ \E i \in matches :
                LET freed == [miner EXCEPT ![i] = Idle]
                IN  IF block # 1 /\ ShareWaits
                      THEN Reassign(freed, pendrange, minerfail)
                      ELSE /\ miner' = freed
                           /\ UNCHANGED <<pendrange, minerfail, work>>
           /\ ans1' = best[1] /\ ans2' = best[2]
           /\ block' = block - 1
           /\ waitans' = (block = 1)
           /\ UNCHANGED pendminer
  /\ UNCHANGED <<queueVars, curclient, run, jobgiveup, job, panicked>>

Loop == WaitAns \/ LostBusyMiner \/ LostFreeMiner \/ LostOther
        \/ ReadJoin \/ ReadRequest \/ ReadResult

-----------------------------------------------------------------------------
(***************************************************************************)
(* Miners, clients and the LSP server.                                     *)
(***************************************************************************)

\* A message reaches the server's Read, over a connection that lives.
Deliver(msg) == /\ msg.id \notin lost \cup crashed
                /\ inbox' = Append(inbox, msg)

\* A miner starts and sends Join (miner.go).
Join(i) ==
  /\ i \notin started
  /\ Deliver([type |-> "join", id |-> i])
  /\ started' = started \cup {i}
  /\ UNCHANGED <<queueVars, jobVars, poolVars, crashed, lost, work, answers>>

\* A client starts and sends its one request (client.go).
Request(c, u) ==
  /\ c \notin started
  /\ Deliver([type |-> "request", id |-> c, upper |-> u])
  /\ started' = started \cup {c}
  /\ UNCHANGED <<queueVars, jobVars, poolVars, crashed, lost, work, answers>>

\* A miner searches a share and sends the result.  Its loop runs while the
\* nonce is <= Upper, so it never ends when Upper is the largest uint64.
Mine(i) ==
  /\ work[i] # <<>>
  /\ LET share == Head(work[i])
         best  == BestOf(share.client, Nonces(share), MaxUint)
     IN  /\ share.upper = MaxUint => share.lower > share.upper
         /\ Deliver([type |-> "result", id |-> i, hash |-> best[1],
                     nonce |-> best[2]])
  /\ work' = [work EXCEPT ![i] = Tail(@)]
  /\ UNCHANGED <<queueVars, jobVars, poolVars, envVars, answers>>

\* A miner process ends.  That of a client matters to the server only when
\* its connection is declared lost.
Crash(i) ==
  /\ i \in started \ crashed
  /\ crashed' = crashed \cup {i}
  /\ UNCHANGED <<queueVars, jobVars, poolVars, started, lost, inbox, work,
                 answers>>

\* EpochLimit epochs of silence: the connection is declared lost, rightly or
\* not.  What is on its way to the miner is dropped.
Lose(i) ==
  /\ i \in started \ lost
  /\ lost' = lost \cup {i}
  /\ inbox' = Append(inbox, [type |-> "lost", id |-> i])
  /\ work' = [j \in Miners |-> IF j = i THEN <<>> ELSE work[j]]
  /\ UNCHANGED <<queueVars, jobVars, poolVars, started, crashed, answers>>

Environment ==
  \/ \E i \in Miners : Join(i) \/ Mine(i) \/ Crash(i)
  \/ \E c \in Clients, u \in Uppers : Request(c, u)
  \/ \E i \in Miners \cup Clients : Lose(i)

Next == Loop \/ Environment

Safety == Init /\ [][Next]_vars

(***************************************************************************)
(* The main loop runs, miners are started and search what they get, and a  *)
(* process that is gone is declared lost in the end.                       *)
(***************************************************************************)
Fairness ==
  /\ WF_vars(Loop)
  /\ \A i \in Miners :
       WF_vars(Join(i)) /\ WF_vars(Mine(i)) /\ WF_vars(i \in crashed /\ Lose(i))

Spec == Safety /\ Fairness
-----------------------------------------------------------------------------
Shares == [client : Clients, lower : 0 .. MaxUint, upper : 0 .. MaxUint]
Hashes == 0 .. MaxUint      \* and nonces: both are uint64
Messages ==
  [type : {"join", "lost"}, id : Miners \cup Clients]
  \cup [type : {"request"}, id : Clients, upper : Uppers]
  \cup [type : {"result"}, id : Miners, hash : Hashes, nonce : Hashes]

TypeOK ==
  /\ reqct \in Nat \ {0} /\ currid \in Nat \ {0}
  /\ DOMAIN pendjobs = DOMAIN pendclients /\ DOMAIN pendjobs \subseteq Nat
  /\ Range(pendjobs) \subseteq Uppers /\ Range(pendclients) \subseteq Clients
  /\ curclient \in Clients \cup {1}
  /\ {run, waitans, jobgiveup, panicked} \subseteq BOOLEAN
  /\ block \in Nat /\ minerfail \in Nat
  /\ {ans1, ans2} \subseteq Hashes
  /\ DOMAIN miner \subseteq Miners /\ Range(miner) \subseteq Shares \cup {Idle}
  /\ pendminer \subseteq Miners
  /\ DOMAIN pendrange \subseteq Miners /\ Range(pendrange) \subseteq Shares
  /\ inbox \in Seq(Messages) /\ work \in [Miners -> Seq(Shares)]
  /\ {started, crashed, lost} \subseteq SUBSET (Miners \cup Clients)
  /\ answers \in [Clients -> Seq(Hashes \X Hashes)]

\* The shares of the running job nobody has reported.
Open == {miner[i] : i \in Busy(miner)} \cup Range(pendrange)

\* The server never indexes a job that is not there nor divides by an empty
\* pool (assign, called from three places of the loop).
NeverPanics == ~ panicked

\* block and minerfail count what the two maps hold, so the job ends with
\* its last share, not before and not after.
SharesCounted ==
  /\ block = Cardinality(Busy(miner)) + Cardinality(DOMAIN pendrange)
  /\ minerfail = Cardinality(DOMAIN pendrange)
  /\ run <=> block > 0 \/ waitans

\* The answer so far is the best over every nonce outside the open shares:
\* losses and reassignments neither skip a nonce nor merge a wrong result.
AnswerSoFar ==
  run => <<ans1, ans2>> =
           BestOf(job.client, (0 .. job.upper) \ UNION {Nonces(s) : s \in Open},
                  job.upper)

\* Two miners never hold shares with a nonce in common, nor shares of a job
\* other than the current one: a result, which names no miner, can only be
\* credited to the miner that sent it.
SharesDisjoint ==
  LET holders == {<<i, miner[i]>> : i \in Busy(miner)}
                 \cup {<<i, pendrange[i]>> : i \in DOMAIN pendrange}
  IN  \A p, q \in holders :
        /\ p[2].client = job.client
        /\ p # q => Nonces(p[2]) \cap Nonces(q[2]) = {}

\* No share waits while a miner is idle, and no job waits while none runs
\* and a miner is there.
WorkConserving ==
  /\ pendrange # <<>> => Busy(miner) = DOMAIN miner
  /\ ~ run /\ DOMAIN miner # {} => pendjobs = <<>>

\* A busy miner either still has its share, or its result or its loss is on
\* the way: no share is forgotten.
NoShareForgotten ==
  \A i \in Busy(miner) :
    \/ i \notin lost /\ work[i] # <<>> /\ miner[i] = work[i][Len(work[i])]
    \/ \E k \in DOMAIN inbox : inbox[k].id = i /\ inbox[k].type # "join"

\* Requests are served in order of arrival, each answered at most once, with
\* the best result over its whole range, to the client that sent it.
RequestsIn(box) ==
  LET among[k \in 0 .. Len(box)] ==      \* those among the first k messages
        IF k = 0 THEN <<>>
        ELSE IF box[k].type = "request" THEN Append(among[k - 1], box[k])
        ELSE among[k - 1]
  IN  among[Len(box)]

JobQueue ==
  LET pending == [k \in 1 .. Cardinality(DOMAIN pendjobs) |->
                    LET n == k + reqct - Cardinality(DOMAIN pendjobs) - 1
                    IN  [client |-> pendclients[n], upper |-> pendjobs[n]]]
      coming  == RequestsIn(inbox)
  IN  (IF run THEN <<job>> ELSE <<>>) \o pending
      \o [k \in DOMAIN coming |->
            [client |-> coming[k].id, upper |-> coming[k].upper]]

Served == INSTANCE JobServer WITH
            queue <- JobQueue, lost <- lost \cap Clients,
            Answer <- LAMBDA c, u : BestOf(c, 0 .. u, MaxUint)
JobServerSafety == Served!Safety

\* Every request is answered, unless its client or every miner is lost.
EveryRequestServed ==
  \A c \in Clients :
    c \in started ~> \/ answers[c] # <<>>
                     \/ c \in lost
                     \/ Miners \subseteq crashed \cup lost
=============================================================================
