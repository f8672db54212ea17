# TLA+ specifications of dbm

The repository is a distributed bitcoin miner in Go: the Live Sequence Protocol
(LSP), a connection layer over UDP, and a server, miners and clients on top of
it. All paths below are relative to `src/github.com/cmu440/`.

`lsp/common.go` does not compile as committed: the names of the constants in
lines 12-13 are garbled, and a `select` of `connectHandler` stands inside the
literal of `NewConnection` (lines 72-74). The specifications read it as the
copy in `src/github.com/cmu440.tar` has it, which differs only there.

## The system

### Components

| component | files | state | operations | module |
|---|---|---|---|---|
| window arithmetic | `lsp/client_impl.go`, `lsp/server_impl.go` | | the slide, the receiver's floor | `Window` |
| sliding window | the same | `seq`, `sendct`, `databuf`, `writebuf`; `ack`, `ackbuf`, `readbuf`, `readct` | Write, Read, handling of Data and Ack, the epoch's retransmissions | `SlidingWindow` |
| establishment and loss detection | the same | client: `conId`, `receive`, `lastrece`, `estab`; server: `conn`, `addmap`, `pendconn`, `connCt` | NewClient, handling of Connect, Ack 0 and the first Data, the epoch's counting | `Handshake`, `Keepalive` |
| client: handler, Close and loss | `lsp/client_impl.go` | `closepend`, `closeack`, `losted`, `req` (1000), `replyread` (100), `over`, `exit` | every packet of the handler, Read, Write, Close | `LspClient` |
| server: Read, CloseConn, Close and loss | `lsp/server_impl.go` | `conn`, `pendconn`, `closepend`, `closeack`, `banclose`, `readclose`, `over` | the datagrams of several connections, the epoch, `sread`, `sclose`, `closeconn`, the API | `LspServer`, `CloseConn` |
| goroutines and channels | the same, `lsp/common.go` | the channels above | `connectHandler`, `Timers`, the handlers | `LspClient` (the client's) |
| bitcoin server | `bitcoin/server/server.go` | the `Scheduler` struct | one pass of the main loop | `Scheduler` |
| miner, client | `bitcoin/miner/miner.go`, `bitcoin/client/client.go` | none kept | Join, compute a share; Request | `Scheduler` (environment) |
| messages, hash, parameters | `bitcoin/message.go`, `bitcoin/hash.go`, `lsp/message.go`, `lsp/params.go` | | | records, CONSTANTS |
| lspnet | `lspnet/*.go` | drop rates | lossy UDP | Lose actions |
| srunner, crunner | `srunner/`, `crunner/` | none kept | echo over the LSP API | the applications of `LspServer`, `LspClient` |

### Interaction

Each end of LSP is one *handler* goroutine that takes packets from its channel
`req`. A reader goroutine (`connectHandler`) posts the datagrams that arrive, a
timer goroutine posts an epoch every `EpochMillis`, and the API calls post
their requests and wait on a reply channel. State belongs to the handler, some
flags apart, so a handler runs atomically and the interesting orders are those
of the packets in `req`.

The bitcoin server is one goroutine over `lsp.Server`: it alternates between a
finished job (the channel `waitans`) and the next message or loss that `Read`
returns. Miners and clients are `lsp.Client` programs.

### What is hard

Datagrams are lost, duplicated and reordered; what is acknowledged is forgotten
at both ends at different times; Read meets the handler through packets that
may find nothing; connections are declared lost, rightly or not, while
datagrams of theirs are in flight; miners come, go and are lost in the middle
of a job, between two Writes of one assignment, or while idle; ranges are split
by rounded divisions in uint64. A connection ends in three ways, by Close, by
CloseConn and by loss, and they meet: the loss of the client's connection calls
Close itself, the handlers post packets to the channel they take from, one
packet in `over` may be wanted by two, and a Close of the server waits for
clients that are lost, one by one, meanwhile. `PROJECT.json` lists these hazards at the lines
where they bite, with the properties that watch them.

## Modules

### `ReliableStream`, `Window` and `SlidingWindow`

`ReliableStream` is the promise of one direction of a connection: payloads are
read once, in the order written, and in the end all of them.

`SlidingWindow` is one direction of an established connection. The sender is
the client, the receiver the server; the other direction is the same code with
the files exchanged. `Window` has the arithmetic of both ends, which the code
holds twice, for every module that has a window. A message is made once and never changes, so each
`map[int]*Message` is the set of its keys.

| action | code |
|---|---|
| `Write` | `client.Write` and `handleWrite`: into the window or into `writebuf` |
| `RecvAck` | `handleReceive`, MsgAck: the base slides, `writebuf` is released |
| `SenderEpoch` | `handleEpoch`: `databuf` again |
| `RecvData` | server `handleReceive`, MsgData: the Ack, `ack` and `ackbuf`, `readbuf`, an `sread` packet |
| `ReceiverEpoch` | `handleEpoch`: `ackbuf` again |
| `Sread` | the handler's `sread` case: at most one message to `reply` |
| `ReadCall`, `ReadReturn` | `server.Read` before and after it waits |
| `LoseData`, `LoseAck` | lspnet and UDP |

The slide is specified, not looped: `NewBase(base, buf, s)` says that `s` is
the first number at which the loop's condition stops it. It slides by one only
when `databuf` is empty, whatever was acknowledged before; that is why
`UnackedIsAckable` matters. A datagram in flight is an element of a set that
receiving leaves there (duplication, any order) and losing takes away.

Posting an sread packet, and taking one, are single steps on the counter
`sreads`; packets of other kinds in `req` only order the steps. `reply` and
`req` are unbounded here: the client's capacities are in `LspClient`. Being lost
and being closed are not part of this module.

### `Handshake`

Several clients and one server, up to the first message of each client, which
ends the establishment at the server. `csilent` and `ssilent` are
`receive - lastrece`; nothing else reads the two counters. A client process has
an address of its own and connects once; the server may drop it and make a new
connection for the same address (a late Connect). Messages name a connection by
ID only; `peer` is the datagram's address.

A client's actions are `NewClient`, `Established` (the Ack with the ID),
`NewClientReturns` (the calling goroutine sets `estab`), `ServerAlive` (a later
Ack 0), `Write`, `DataAcked`, and the epoch as `AskAgain` without an ID and
`ClientEpoch` with one. The server's are `ServerConnect`, `ServerKeepalive`,
`ServerData` and `ServerEpoch`. A client whose handler finds
the loss stops (phase "lost"); a server connection that is lost leaves the maps
(`handleclosecon`, or the branch for pending ones). Its error packet to Read is
not modelled.

### `Keepalive`

`Handshake` with one history variable, `quiet[i]`: the server's epochs since any
datagram of connection `i` reached its handler, whatever the handler did with
it. `KeepaliveIgnored` is the branch that drops the keepalive of a pending
connection: a stutter of `Handshake`, and heard all the same. Against this the
server's own count is judged: `EstablishedKept` says that whoever is heard in
time, and has sent data, is not declared lost.

### `LspClient`

The whole handler of one established client, with the channels. The handler
blocks when it puts a packet on a full channel, so a packet is handled in steps:
one that changes the state, and one per channel operation that is left, which
`todo` holds (`Channel`).

| action | code |
|---|---|
| `Top` | the test of `exit` at the top of the handler's loop |
| `HandleRead`, `HandleWrite`, `HandleClose` | the packets `cread`, `cwrite`, `cclose` |
| `HandleEpoch` | `handleEpoch`; `OnLoss` is what the last epoch puts on the channels, the nested call of `Close` included |
| `HandleReceiveDone`, `HandleAck`, `HandleData` | `handleReceive`: Close may return; an Ack; a message |
| `Tick`, `Receive` | the timer goroutine and `connectHandler` post |
| `Write`, `Close`, `CloseReturns`, `Read`, `ReadReturns` | the API calls before and after they wait |
| `ServerStops` | the server, or the way to it, is gone for good |

Datagrams are the environment's: one arrives only if `SlidingWindow` allows the
server to send it, in any order and any number of times. That an epoch sends
`databuf` and `ackbuf` again is why their Acks may always arrive. `closepend`,
`losted` and `estab` are read outside the handler without a lock; each such read
is a step.

### `LspServer`

Several connections at once. `connect[i]` is the `Connect` struct of connection
`i`; the maps `conn`, `pendconn`, `closepend`, `closeack` and `banclose` are sets
of IDs. A client connects once, so its number is its ID.

| action | code |
|---|---|
| `Connect`, `Receive`, `Keepalive`, `Ack` | `handleReceive` |
| `AckToClose` | its first branches, while Close waits for the connection |
| `BanAck` | its branch for `banclose` |
| `Epoch` | `handleEpoch` over all connections; `Walks` is the order of the map's walk |
| `Sread`, `Sclose` | the handler's cases `sread` and `sclose` |
| `Write`, `CloseConn`, `Close`, `CloseReturns`, `Read`, `ReadReturns` | the API |
| `ClientStops` | the client, or the way to it, is gone for good |

`Sclose` says what the walk over `conn` can leave: it deletes connections that
are acknowledged until it meets one that is not, so any subset of the
acknowledged ones may be gone (`done`), and all are if none is left to wait for.
A pending connection is waited for only if both its buffers hold messages (`full`).
`sread` walks `conn`, too, and hands over one message of one connection that is
ready. `Write` and `CloseConn` wait for the handler's answer, so each is one
step. `CloseConn` of an established connection copies its buffers to `banclose`,
of a pending one it drops them; `connect[i]` is kept either way, so that what was
not acknowledged stays visible, and `dismissed` remembers which connections the
application closed in this way.

Two specifications differ in the IDs the application uses: in `Safety` (and
`Spec`) those that `Read` gave it, as `srunner` and the bitcoin server do, in
`SafetyAnyId` those of any connection in `conn`, pending ones included, as the
server of `lsp4_test.go` does. What depends on it is `CloseWaitsForAcks` and
`NoNilConnect`: they hold of the first, and `V_pending` and `V_nil` show what
happens in the second.

### `CloseConn`

`SlidingWindow` with the server as the sender, until it calls CloseConn
(`ServerCloseConn`): what was not acknowledged moves to `ban` (`banclose`), what
waited in `writebuf` is sent at once, and `BanEpoch` and `BanAck` go on without
a window: this is the composition in which messages may leave the window that
`SlidingWindow` keeps.

| action | code |
|---|---|
| `ServerCloseConn` | `closeconn` and `handleclosecon` |
| `BanEpoch`, `BanAck` | the parts of the server's `handleEpoch` and `handleReceive` for `banclose` |
| `ClientEpoch` | the client's `handleEpoch`: one more epoch of silence (`unheard`), the last one (`Lost`) or one that sends the Acks again |
| `ClientRecvData`, `ClientRecvAnswer` | the client's `handleReceive`: a message, an answer to a keepalive |
| `ClientRead` | `client.Read` and the packet `cread` |

The client is not told of CloseConn, and the server answers no keepalive of a
connection that is not in `conn` (`server_impl.go:281`). Once everything is
acknowledged the client therefore hears nothing more, declares the loss, and
drops what is still in `readbuf`. So `ReceivesInWindow` is about what the
client's end received, not about what its application has read by then, and
nobody has to read.

### `JobServer` and `Scheduler`

`JobServer` is the promise of the bitcoin server: requests are answered in
order of arrival, each once, with the smallest hash over its own range and the
smallest nonce that has it, or given up when the client is lost.

`Scheduler` is `server.go`. Maps are functions on their keys; the nil entry of
an idle miner is `Idle`. One pass of the loop is one action:

| action | code |
|---|---|
| `WaitAns` | `case <-yy.waitans`: answer, next job |
| `LostBusyMiner`, `LostFreeMiner`, `LostOther` | `Read` returns an error |
| `ReadJoin`, `ReadRequest`, `ReadResult` | the three message types |

`Assign`, `Reassign` and `Resized` are the three functions the loop calls.
`Assign` chooses an order of the miners and `Reassign` which shares go to which
idle miners, for Go walks a map in any order. `Reassign` says what is left when
both loops have ended: all shares given, or all living idle miners used and all
lost ones dropped.

The environment: miners join, get shares over `work`, search them and post the
result to `inbox`; clients post one request; `Lose` is the LSP server declaring
a connection lost, at any time, of a process that lives or not; `Crash` ends a
miner. A Write fails exactly when the connection was declared lost before;
a loss during a pass is one before or after it, since a pass writes at most
once to each connection. `scheduler.txt:4` says that joining miners wait in
`pendminer` until a miner fails or the job ends; the code empties `pendminer`
in the pass that fills it (lines 258-259). The model does what the code does.

### Mistakes

Some operators of the modules are named after the operator below them with a suffix (`AckFloorTooHigh`, `NthShareGap`). Each
is a plausible mistake; no action uses it. Put in the place of the other, it
makes the property that `PROJECT.json` pairs it with fail, which shows that the
property and the run's bounds can see the mistake.

## Runs

The modules `MC...` are the instances; a `.cfg` only gives values to CONSTANTS
and names the specification and the properties.

| run | bounds | states | what it shows |
|---|---|---|---|
| `SW_window` | window 2, 3 messages, two payloads | 269k | the invariants of both windows; one direction is a FIFO stream (`StreamSafety`) that delivers everything (`StreamSpec`) |
| `K_closing` | window 2, 3 messages, limit 2 | 669k | CloseConn at any point: nothing is forgotten, nothing read twice, what was in the window is received unless one end finds the other silent |
| `S_jobs` | 2 clients, 2 miners, range 0..3, 64 bits scaled to 3 | 530k | no panic, work conservation, refinement of `JobServer`, every request is served |
| `S_pool` | 1 client, 3 miners, range 0..6, 64 bits scaled to 4 | 1.4M | the accounts of the shares |
| `H_two` | 2 clients, limit 3, 3 connections, symmetric | 328k | the maps, the IDs, who is heard is kept |
| `H_live` | 1 client, limit 3, 2 connections | 7.5k | a client that asks is connected |
| `C_close` | window 2, 4 writes, 2 messages in, 3 Reads, limit 2 | 6.9M | Close waits for every Ack and is not forgotten, Read is woken, in order, and hears of the loss |
| `V_one` | 1 client, window 2, 4 writes, 3 messages in, 4 Reads, known IDs | 1.1M | no nil connection, Close waits for every Ack, Read is in order until the loss and reports it once |
| `V_two` | 2 clients, window 1, 2 writes and 1 message each, 1 Read, any ID | 6.1M | no Read and no Close is forgotten |

Why the bounds are enough. With three messages and a window of two the base
slides by one, also when it then rests on a number acknowledged earlier,
the slide releases a message from `writebuf`, and the receiver's `ack` and the
Acks it forgets move while duplicates of all of them are in flight. What a window
of two, or one, does not reach is the body of the scan loop
(`client_impl.go:253-261`, `i < hold+WindowSize-1`), which slides past further
numbers: it runs from a window of three on. `SW_three`, which is beside the runs,
has a window of three and three messages, the window's invariants and `StreamSpec`,
safety and liveness, and holds in 58k states; the scan happens when the Ack of 2
comes before that of 1. With a fourth message, which `writebuf` would release
after such a scan, the liveness check takes too long to be kept; that every
released number is right is proved for all windows, as all the
invariants are (see Proofs). That the stream also goes on is
checked for these windows and message counts only. Two payloads are enough
to see one read for another. Four writes are needed in `C_close` and `V_one`: the
base passes `WindowSize` numbers only then, and `databuf` is empty for a moment
while a message still waits in `writebuf`, the state in which Close must not
return. Three Reads in
`C_close` meet a message, the loss and what comes after it, and four in `V_one`
all three messages and the loss. In `C_close`
`req` holds at most `MaxWaiting` epochs or datagrams that nobody asked for, and
whatever the application and the handler put there; capacities above what fits
into the run let no channel fill, which is the subject of `C_full` alone. Two
clients are enough in `V_two` for a walk to stop between them, for a packet to
be used up on one, and for one to be lost while Close waits for the other. Two
writes and a window of one fill both buffers of a pending connection. One Read is enough
there, for each posts a packet of its own, and so is `MaxPosted` = 1, for one epoch
may still find both clients lost and post two packets. `V_wait` checks `NoNilConnect` and
`CloseWaitsForAcks` with two clients and two Reads, for both IDs (2.9M states).
Three miners and a range of seven nonces split into two full shares and a
short one, and let two shares wait at once; two clients with two miners queue a
second request, lose either client at any point of the queue, and lose the whole
pool. In `Handshake` two clients and three connections let a client be dropped
and connected again while another lives.

Where the system stops, the deadlock check is off: every process of `Scheduler`
joins or asks once; `Handshake` stops when `MaxConn` connections were made and
every client is lost; the applications of `LspClient` and `LspServer` make a
bounded number of calls and a closed end does nothing more; `CloseConn` stops when
the client's end is lost and nothing is sent again. `SlidingWindow` never stops.

`H_two` and `H_connid` leave `Lose` out (`NextHeard`, `SafetyNoLoss`): a datagram
that may arrive need not, so for an invariant that does not need a datagram to
be there, losing one adds no behaviour that counts. `H_live` and all of
`SlidingWindow` have it.

### Disagreements

Three runs end in a counterexample; `PROJECT.json` "findings" has the lines.

- `S_short`: a range too short for the number of miners (`Upper = 1`, two
  miners) gives a miner an empty share. Its result matches no share and the job
  never ends. The passing runs use ranges that split without an empty share.
- `H_connid`: a repeated establishing Ack carries ID 1, so a second client may
  take the first one's ID, and Read names the wrong client. What holds is
  checked as `AdoptedId` and `OthersReadRight`: nothing but connection 1 is
  ever confused.
- `C_full`: the handler posts to the channel it takes from and puts messages on
  `replyread`; when one is full it blocks for ever, and Write with it (small
  capacities here).

The other configurations are beside them, one property each: `S_` for
`MCScheduler`, `C_` for `MCLspClient`, `V_` for `MCLspServer`, `K_` for
`MCCloseConn`, `H_noserver` for `MCHandshake`, `H_idle` for `MCKeepalive`
(`tlc -config V_ban.cfg MCLspServer`). The property states what a comment
promises, and TLC shows a behaviour of the code without it:

| configuration | property | what the code does |
|---|---|---|
| `S_wrap` | `AnswerSoFar` | `server.go:130`: the end of a share near the largest uint64 wraps around, its nonces are in no share |
| `S_max` | `EveryRequestServed` | `miner.go:74`: `i <= r` never ends when `r` is 2^64-1 |
| `H_noserver` | `NewClientReturnsAnyway` | `client_impl.go:154`: without an ID the epoch resets the count, NewClient never gives up |
| `H_idle` | `LiveClientKept` | `server_impl.go:281`: keepalives of a client that has not written are ignored, it is dropped |
| `C_closing` | `CloseAlwaysReturns` | `client_impl.go:184`: the loss takes the packet it put on `over` itself; the application's Close waits for ever |
| `C_exit` | `HandlerExits` | `client_impl.go:361`: after Close the handler waits at `req`, the goroutine stays |
| `C_lost` | `ReadReturnsAfterLoss` | `client_impl.go:317`: the second Read after the loss waits for ever |
| `C_closed` | `ReadReturnsAfterClose` | `client_impl.go:317`: Close does not wake a Read that waits |
| `V_read` | `ReadReturnsAfterClose` | `server_impl.go:355`: the same at the server |
| `V_conn` | `CloseConnReported` | `server_impl.go:546`: Read is not told of CloseConn |
| `V_lost` | `LossReportedLast` | `server_impl.go:139`: a loss drops messages received and not yet read |
| `V_ban` | `CloseConnAcked` | `server_impl.go:477`: Close forgets what CloseConn still sends |
| `V_pending` | `CloseWaitsForAcks` | `server_impl.go:496`: Close does not wait for a pending connection unless both its buffers hold messages |
| `V_nil` | `NoNilConnect` | `server_impl.go:505-509`: Close deletes a pending connection from `conn` and not from `pendconn`; the next datagram of it uses a nil Connect |
| `K_beyond` | `BanAccepted` | `server_impl.go:426`: what CloseConn sends beyond the window moves the client's `ack` past what is missing, which it then ignores |

Three others hold. `V_live` is `CloseEnds` under fairness;
`CloseNotForgotten` is its safety part, checked in `V_two` with more
calls. `SW_three` is the window of three and `V_wait` the two clients of the bounds above.

### Fairness

- `SlidingWindow`: weak fairness of the epochs and of the handler's sread
  steps (goroutines that run for ever), of ReadCall and ReadReturn (an
  application that keeps reading); strong fairness of receiving each datagram:
  lspnet drops by an independent choice per datagram, so one that is sent again
  every epoch gets through. Nothing obliges anyone to write.
- `CloseConn`: weak fairness of `BanEpoch` and strong fairness of receiving each
  message (`ClientRecvData`), for the reasons above; nothing obliges the keepalives
  or their answers to come, the client's epochs to wait for them, or anybody to read.
- `Scheduler`: weak fairness of the loop, of miners starting and searching, and
  of the loss of a process that is gone (the LSP epochs). No fairness of losing
  what lives.
- `Handshake`: as in the window; `ClientFairness` is the client's own steps
  only, for `H_noserver`.
- `LspClient`: weak fairness of the handler and of the application's goroutines
  that wait on a channel; strong fairness of the ticker, for a place in `req` is
  free now and then, and of each Ack the server owes while it is there. Nothing
  obliges the application to call.
- `LspServer`: the same; `ReaderSpec` adds an application that keeps reading,
  for `V_conn`.

## Proofs

Every safety invariant and every safety refinement that a passing run checks is
also a theorem, proved for every value of the constants: any sets of clients,
miners, payloads and ranges, any `Hash`, window, limits, capacities and bounds.
Each module's theorems are in its `..._proofs` module, and `PROJECT.json` lists
them. They suppose the named assumptions of the modules and nothing else, the
`RangesFit` of `Scheduler_proofs` apart: `WindowSize`, `EpochLimit` and `MaxConn`
are at least 1, other bounds are natural numbers, the clients of `LspServer` are
numbers from 1 on (a client is its ID), the IDs of the miners and
of the clients of `Scheduler` are disjoint finite sets of numbers from 1 on, and hashes and ranges are
values of uint64.

Hardly any of the invariants is inductive alone. For each specification one
conjunction of named parts is shown to hold at first and to be preserved by
each action, one lemma per action (or per action and part), and the theorems
follow from it. The parts say what the handlers rely on without testing it.

**`SlidingWindow_proofs`** (`IInv`; lemmas about `Window` in `Window_proofs`).

- `SenderInv`, `SentInv`: every number below `sendct` is in exactly the place
  its relation to the base allows, and only numbers below `sendct`, inside the
  window, were ever sent;
- `AckInv`: `ackbuf` is exactly the received messages from `ack` on, nothing
  below `ack` is missing, and `ack` never passes the sender's base;
- `KeptInv`: what was sent and has left `databuf` was received;
- `ReplyInv`: `reply` holds, in order, the numbers between what was delivered
  and `readct`;
- `OnceOnly` and `NoLostWakeup` themselves.

The heart is that `ack` cannot pass the base: a number `n` moves `ack` to
`n - WindowSize + 1`, and `n` was sent only if `n < seq + WindowSize`. Then
every unacknowledged message is at or above `ack`, so its Ack is still in
`ackbuf` if it was received, and a message absent from `ackbuf` was not
received, so that nothing is read twice. `NewBaseBound` bounds the slide;
`StreamStep` shows that `ReadReturn` is `Recv`, `Write` is `Send`, and all else
stutters: `SlidingWindow` implements the safety part of `ReliableStream`.

**`CloseConn_proofs`** (`CInv`). After CloseConn the server sends without a
window, the client's `ack` may pass the base, and `IInv` is false. `CInv` does
without a window: what was written is in `databuf`, `writebuf`, `ban` or was
received (`NothingForgotten`), nothing is known that was not written, and
`AckKept` still makes `ackbuf` decide what is new. The stream stays a FIFO stream
(`ClosingImplements`); only its progress is lost, which `K_beyond` shows. That the client's
end may be lost on the way takes steps away and adds none that the stream sees.

**`Handshake_proofs`** (`HInv`), **`Keepalive_proofs`** (`HeardInv`). An Ack 0 on its way
carries an ID the server gave to the datagram's address, or 1; `MadeFor` ties
the datagrams, the ID a client has adopted and the maps together. That only
connection 1 is ever confused rests on this. `QuietInv` (`SilentAtMostQuiet`): of an established
connection the server's count of silent epochs is at most what the history variable `quiet` counts
(not so for a pending one, which is `H_idle`). `EstablishedIsKept` follows, since only
the server's epoch drops connections. Both are about the server's end; the client's
count of silence is only typed.

**`LspClient_proofs`** (`ClientInv`), one lemma per part: `ShutInv`, who puts the
value in `exit` and what `over` may hold between the loss's own Close and the
application's, so that `exit` never gets a second value; `CloseInv`, that no
`cwrite` is behind a `cclose` in `req`, so that what `closeack` says of the buffers
stays true; `CloseComes`, `ReadComes`, `LossInv`, what is in a channel, or among the
operations left in `todo`, for whoever waits; `OrderInv`, the whole sequence of
answers returned, in `replyread` and about to be put there: numbers without a gap,
the last 0 after a loss. Once `closepend` is set the handler may skip messages,
so then only the answer of a Read under way is known, which is enough.

**`LspServer_proofs`** (`VInv`, whatever IDs the application uses, and `KnownInv`, when
it uses those that Read gave it). `VInv`: `MapsInv` (connections that Close waits for are in `conn`),
`IdsInv`, `OpenInv` (nothing is closing before Close is called), `SendInv` and `FreshInv` for the
windows, `OrderInv` and `OnceInv` on the answers returned and sure to be,
`NoLostWakeup` and `CloseNotForgotten` themselves. `KnownInv` adds `PendInv` (a pending
connection is in `conn`, has nothing written to it and is not waited for) and
`DoneInv` (who has left `conn`, or is in `closeack`, has everything
acknowledged, is lost or was closed by CloseConn, and a packet in `over` says so of all). `PendInv` rests on
the application: Read gives it an ID only when data of the connection came, and
then it is no longer pending. From `KnownInv` follow `NoNilConnect` and
`CloseWaitsForAcks`, which are false without it (`V_nil`, `V_pending`).
The walks over Go's maps are any subset and any order here, too.

**`Scheduler_proofs`**, in three stages.

1. `SchedInv`, for any ranges: job numbers have no gap, `pendminer` is empty after
   every pass, `block` and `minerfail` are the numbers of busy miners and waiting
   shares, a miner's Join is read once. `AssignIs`, `ReassignGives` and `GivesIs` say what
   the two functions do to these numbers whatever the order of the map. From it
   `TypeOK`, `SharesCounted`, `WorkConserving`, and `NeverPanics`.
2. `ShareInv`, under `RangesFit`: it adds `JobInv` (the shares held are disjoint
   parts of the job's range, and the answer so far is the best over the nonces in
   none) and `MailInv` (what is on its way to a miner is its share; a result on
   its way is the result of the share its sender holds, alone, and before the
   sender's loss). `FittingShare` and `AssignApart` are about the rounded division: the
   shares are disjoint and cover the range. `Reassign` renames the holders of
   shares and changes nothing else. From it `SharesDisjoint`, `AnswerSoFar`,
   `NoShareForgotten`.
3. `ServerImplements`: with `ServeInv` (the client to be answered is the running
   job's, given up only if lost) every step is a step of `JobServer` or a stutter.
   `WaitAns` takes the head off the queue and answers with the best over all
   nonces, for none is held any more; a request that arrives is appended; that
   reading it and starting it leave the queue as it is, is what has to be shown.

`RangesFit` is a hypothesis of the theorems of stages 2 and 3, not an assumption of the
module: with any number `n` of the miners that exist, `assign` gives none an empty
share, `(n-1) * (size+1) <= upper`, and computes no bound beyond uint64,
`n * (size+1) <= 2^64`. The instances of `S_jobs` and `S_pool` satisfy it. Without
it the theorems are false, which `S_short` and `S_wrap` show; the results of
stage 1 hold all the same.

Only model-checked is liveness under fairness, which is out of the prover's
reach: `StreamSpec`, `ReceivesInWindow`, `EveryRequestServed`, `EventuallyConnected`.
Induction over data is, too, as a citation of the library's theorems. The one
recursive definition proved about is `RequestsIn` in `Scheduler`, the requests
among the messages to be read; what it does to a message appended or taken is
shown by a smallest counterexample, with the interval's finiteness in place of
induction. `TypeOK` of `LspClient` belongs to no run; its types are `Types` in the
proof module.

## Not modelled

- JSON, logging, sockets, command lines, what the client prints.
- `ConnID`, which reads a value through the handler and changes nothing.
- The capacities of the server's channels; `C_full` shows for the client what
  a full channel does.
- The data races on `estab`, `losted`, `closepend` and `readclose` beyond a read
  or a write being a step of its own; Read testing the client's `closepend` and
  posting its packet is one step.
- What becomes of a client that goes on with an ID the server has dropped,
  after `H_idle`'s step, and datagrams of a connection that outlive it.
- Addresses and drop rates of lspnet: losses are any.

## Plan

1. `LspSystem`: `LspClient` and `LspServer` composed, with the IDs of `Handshake`.
2. Proofs: that `Reassign` and `Sclose`, which say what is left when the code's
   loops have ended, are what the loops compute, each loop as a specification
   of its own; `RangesFit` weakened to the pools that a job meets.
