# ComuFrame: a TLA+ verification project

ComuFrame starts a set of *nodes* that publish and subscribe to packets of data.
One *Central* registers the nodes, learns which packets each sends, collects
which data each needs, answers with the packets that hold them, and releases all
nodes together once every one of them has subscribed. The code is under
`src/ComuFrame` (about 1000 lines of C++). It stands on ZeroMQ, which the
repository keeps in source form under `src/ExternalLib/libzmq`; the parts of it
that the start-up depends on are modelled too. The rest of the repository is
vendored libraries, build trees, tests and configuration files.

## 1. Inventory

| part | state | operations | talks to |
|---|---|---|---|
| Central service thread (`Central.cpp`) | `state` (Fsm), `connectedClients`, `requestMap`, `toCheckSubscriptions` | `registerClient`, announcement, request loop, answer loop, checking loop | nodes (ROUTER), data base (calls), main thread (inproc) |
| Central main and timer threads | none | wait for the service thread, start the timer, drop its ticks | service thread (inproc) |
| Node service thread (`Node.cpp`) | `state`, `subscriptions` | register, `receiveStrMsgTimeout`, request, receive subscriptions, serve | Central (DEALER), main thread (inproc) |
| Node main, publisher, subscriber threads | none | forward texts between threads; bind; subscribe | each other (inproc PAIRs) |
| `DataBase` | `index`, `avaiablePacks` | `addPacket`, `providePackets` (recursive `tuneFunctions`) | called by the service thread of Central |
| `Fsm` | `currState` | `nextState`, `crash`, `toString` | held by Central and Node |
| `DataNode` | `packetTypes` | `addPacket`, `findPacket`, ... | nobody; in no build target |

The life of a node: it sends a registration (again every five seconds until
something arrives), gets "connected", waits for the announcement of the
syncronization phase, sends its request, stores the answer as its subscriptions,
subscribes, and confirms. Central moves on when it has `expectedClient` nodes,
when it has as many requests as nodes, and when all have confirmed; then it sends
"AllSubscribed" to all.

Below them, in `src/ExternalLib/libzmq/src`:

| part | state | operations | talks to |
|---|---|---|---|
| lock-free queue (`ypipe.hpp`, `yqueue.hpp`) | linked chunks, pointers `_w _f _r _c`, spare chunk | `write`, `unwrite`, `flush`, `check_read`, `read` | a writer and a reader thread |
| mailbox and signaler (`mailbox.cpp`, `signaler.cpp`) | command queue, mutex, `_active`, eventfd | `send`, `recv`, destructor | every thread of the process |
| pipe (`pipe.cpp`) | per end: state, two queues, counters | reading, writing, hiccup, termination | the peer end, by queue and commands |
| ROUTER (`router.cpp`, `fq.cpp`) | `_out_pipes`, `_anonymous_pipes`, list of pipes and turn, prefetched part | attach, identify, `xrecv`, `xhas_in`, `xsend` | sessions of its connections |
| DEALER (`dealer.cpp`, `lb.cpp`) | list of pipes and turn, `_more`, `_dropping` | `xsend`, `xhas_out`, attach, terminate | the peer ends of its pipes |

What is hard here:

- a node does not look at *what* it receives, only at how many messages it has
  received, while repeated registrations earn repeated answers;
- Central's loops compare sizes, not names, and take any message in the right
  state;
- no wait has an end: one message lost or read in the wrong place stops everybody;
- the confirmation crosses four threads;
- exceptions leave their threads and end the process, which may host other nodes;
- the data base's search recurs, works by side effects on flags, and can fall off
  the end of a function;
- the queue below everything is lock-free and reuses memory whose addresses it
  compares; wake-ups are given after the lock is released;
- a connection ends by a command and a delimiter that take different ways, while
  messages are half read or half written, perhaps at both ends at once;
- the sockets' turns are indices into arrays that commands reorder.

`PROJECT.json` lists each of these as a hazard at its line, with the properties
that watch it.

What makes each part correct: Central counts every node once, counts only
registered nodes' requests, and does not release before all have subscribed; a
node's request reaches Central as configured and its subscriptions are the data
base's answer to it; start-up completes; the data base's search stays inside its
formula, ends, lists packets for what was asked, and forgets between requests.
The queue delivers each item once and in order and never leaves a sleeping reader
with work; the mailbox loses no wake-up; both ends of a pipe are freed, once,
after what was to be read has been read; a ROUTER reads whole messages of every
peer in turn under the right id, a DEALER sends whole messages or nothing.

## 2. Modules

| module | models |
|---|---|
| `Fsm` | `fsm.cpp`: states, `toString`, `nextState` |
| `Transport` | external: ROUTER/DEALER queues `up`, `down`, and the processes of nodes |
| `Central` | service thread and main thread of `Central.cpp` |
| `Node` | the four threads of every node |
| `ComuFrame` | the composition, its fairness, its properties, the inductive invariant |
| `SubscriptionBarrier` | abstract: register, subscribe, release, tell |
| `DataBase` | `DataBase.cpp`, the search as a machine with an explicit stack |
| `FlushQueue` | operations of `ypipe_t` as its users see them |
| `WakeQueue` | abstract: a queue of one writer and one reader that may sleep |
| `YPipe` | `ypipe.hpp` on `yqueue.hpp`, shared access by shared access |
| `Mailbox` | `mailbox.cpp`, `signaler.cpp` |
| `Pipe` | `pipe.cpp`: a pair of ends |
| `PipeList` | what `fq.cpp` and `lb.cpp` do with their array of pipes |
| `Router` | `router.cpp` with `fq.cpp` and the routing table of `socket_base.cpp` |
| `Dealer` | the sending side of `dealer.cpp` with `lb.cpp` |
| `MC...` | constants for TLC |
| `ComuFrameProofs`, `DataBaseProofs`, `YPipeProofs`, `MailboxProofs`, `PipeProofs`, `DealerProofs`, `RouterProofs` | theorems about the module of that name |
| `PipeListProofs` | lemmas about the operations of `PipeList` |

**Central.** `serviceThread` is the place in `initServiceThread`: `binding`,
`registering`, `requests`, `answering`, `checking`. A round of a loop is one
action (`RegisterClient`, `AcceptRequest`/`DiscardMessage`/`RequestTimeout`,
`Answer`, `CountSubscription`/`IgnoreMessage`), and what the code does between
two loops belongs to the action that leaves the first. `registerClient` appends
the sender, counts it, and removes it again; the action has the net effect. The
vector's C++ `erase` is `Erase`. `providePackets` is the constant `Answers`, a
function from a request to the set of lists that may be returned: the theorems
about the protocol hold for *any* such function, whatever the data base does.

**Node.** `nodeService` is the place in `initServiceThread` of the node:
`connecting`, `awaitAck`, `awaitNotice`, `awaitAnswer`, `serving`. A node takes
the next message whatever it says. In `serving` two parts are popped; with only
one there the read is undefined behaviour, which either ends the process
(`ReadPastEnd`) or yields a value that makes no difference (`ReceiveFromCentral`),
because the first part is not "syncronization" then. A poll only looks at one
moment, so the order in which the code tests its sockets is no guard.
`mainSeen` records the texts the main thread has reported. The publisher thread
binds and waits forever: the code that would tell it is commented out.

**Ends of processes.** An exception leaves its thread and ends the process when
the publisher's port is taken (`FailToBind`) or when an endpoint is malformed
(`FailToConnect`, `FailToBind`): the default options join "tcp://127.0.0.1" and
"5555" without a ":". All nodes of the process stop, and Central receives any
prefix of what they had sent.

**DataBase.** `providePackets` takes its request datum by datum (`ListDatum`: a flag
for a datum with one provider, a clause of the formula for any other), and
`EndListing` answers at once or starts the search. `stack` holds a frame per
pending call of `tuneFunctions`, outermost first; `callNumber` is its length less
one. Every round of the double loop, every recursion and every return is an action.
`index[d]` is the sequence of packets, in place of pointers to their flags, which
stay valid in an `unordered_map`. `FallOff` returns either truth value, as the
missing return statement may. `before` is a history variable, which no guard reads:
the packets whose flags were up when `providePackets` was called.

**From the queue to Transport.** `Transport` takes the sockets for FIFO queues of
whole messages, one per node and direction, that drop what cannot be routed and
are read in turn. The libzmq modules check that step by step, each on the
interface of the one below:

- `YPipe` implements `WakeQueue`, whose operations are those of `FlushQueue`;
- `Mailbox` and `Pipe` use `FlushQueue` for their queues. `Pipe` takes from the
  mailbox that commands arrive in order (`InOrder`, `AllReceived`);
- `Router` keeps of each pipe the inbound queue (a `FlushQueue`), the commands on
  their way and the states of `Pipe` that the socket can tell apart; `Dealer` the
  outbound side of the same;
- `WholeMessages` is why `up[n]` is a sequence of messages of node `n` in their
  order, `Delivered` why Central's reads have fairness per node, `NothingHalfSent`
  and `AllOrNothing` why a message is sent in one step, and `SendId`'s first case
  why a message to an unknown node disappears.

These links are by construction of the modules and not by a refinement of one
state machine by the other, `YPipe` excepted.

**YPipe.** A slot is an address (chunk, position); freed chunks and the spare one
come back under the same address, so that the comparisons of pointers are those
of the code. The failed compare-and-swap in `flush` and the store that follows it
are two steps. `xchg` of the spare chunk and the compare-and-swaps are single
steps, other accesses touch only what one thread owns. A weaker memory order than
sequential consistency is out of scope.

**Mailbox.** The steps of `send` are separate actions: lock, write, flush, unlock,
and after that the signal. The write itself is two, because `FlushQueue` is what
`YPipe` implements for one writer and here every thread may write: `Store` puts the
command into the slot at the back (`back`) and `Push` makes an item of whatever the
slot holds by then. A second writer between the two would store over the first,
which `_sync` prevents: without it `InOrder` is violated. `recv` aborts
(`receiving = "aborted"`) where the code asserts.

**Pipe.** `pipe[e]` is an end, `upipe` the queues by address, `cmds[e]` the commands
on their way to `e`. A failed `zmq_assert` sets `aborted`. The sinks call an end
whenever they may. Counters have the width `Word`.

**Router.** One round of `fq_t::recvpipe` is one action, because sessions go on
writing in the meantime; commands are handled between two calls. `got` is what
the application has of the current message. **Dealer** has the rounds of
`lb_t::sendpipe` and `has_out` as actions likewise; commands come between any two
parts of a message.

**Left out:** logs, addresses, YAML syntax (a request that is no map reads as no
request), TCP, the retry loop of `sendStrMSG` (the sockets block and never report a
failed send); in libzmq conflating pipes, changes of water marks on open pipes, raw,
mandatory, handover and probe modes of the ROUTER, connections it makes itself (it
binds), and the wrap of its 32-bit counter of generated ids.

## 3. Runs

| run | bounds | checks |
|---|---|---|
| `startup` | four nodes, two of them expected, one without configuration file; no repeated registration | only clients get into `requestMap`; the right requests and subscriptions are stored; start-up completes although a spare node registers and a process ends |
| `resend` | two nodes on one publisher port, each may repeat twice, answers may be empty | types, `RegisteredOnce`, `NoEarlyRelease`, `IInv`, refinement of the barrier; one of the processes always ends |
| `database` | 2 data, 2 packets, 3 additions, requests of up to 3 data | types, `SearchInBounds`, `LeftBehind` (what a refused request leaves taken, and what of it the next list holds), `ProvidedAreFound`, `SearchEnds` |
| `ypipe` | chunks of 2 slots, 4 chunk addresses, up to 4 items at once, complete and partial | chunks are not shared, pointers keep their order, `ImplementsWakeQueue` |
| `mailbox` | 3 senders, 2 commands each | one wake-up per sleep, `InOrder` (no command stored over another, each received once and in order), nobody inside when it is destroyed, all received |
| `pipe` | a SUB socket's end (limit 2, 3 messages of up to 2 parts) and its session's (limit 5, delimiters only), which hiccups | assertions, lifetimes, limits, `NothingLeftBehind`, `WriterResumes`, `TerminationCompletes` |
| `router` | 3 connections, two of one routing id, one that never stops, one that closes; messages of 2 and 1 parts, replies of 2 | assertions, `WholeMessages`, `OneOwner`, `NothingForgotten`, `NothingHalfSent`, `Delivered`, `ClosedIsGivenBack` |
| `dealer` | 2 pipes, messages of 3 parts | `AllOrNothing`, `HalfSentIsCurrent`, `WritableIsActive`, `EverybodyIsDealt` |

The ComuFrame runs, `mailbox`, `pipe` and `router` switch deadlock checking off
because the system really may stop: every thread ends in a blocking wait, a mailbox
or a pipe is gone in the end, a ROUTER nobody writes to waits. A data base search
can always go on, and a DEALER whose application keeps sending too; a queue is
written again and again.

Why the bounds are enough to see the interesting cases: two nodes suffice for
one to overtake the other in every phase and for a release that waits for the
slower one. Two repeats give a spare "connected" both where the announcement and
where the answer is expected, and one that reaches the serving loop. Three
additions of two packets give a datum one, several or repeated providers, and
three requested data give a formula of three clauses and a recursion three deep.
Two slots per chunk let every operation of the queue cross a chunk boundary and
the chunks come back under old addresses. Three senders let two pass between the
flush and the signal of the third. Three messages against a limit of two fill
a pipe, and a third queue lets a hiccup leave one behind while commands cross. Two peers of one
id with a third that never stops give every change of the ROUTER's list, a taken
id, and starvation if there were any. Messages are numbered modulo two, with at
most one of a peer in its queue, so a lost, repeated or swapped one shows.

Runs that are expected to fail show where the code disagrees with what it says:

| run | property | what the trace shows |
|---|---|---|
| `retry_hangs` | `RetriesComplete` | one repeated registration: the spare "connected" is read as the announcement, the early request is swallowed by `registerClient`, all wait |
| `default_options` | `DefaultsRegister` | a node "using default options" ends, and with it the other node of the process (`LaunchNode.cpp` runs two in one) |
| `db_coverage` | `AllDataCovered` | `evaluateOR` tests pointers, so one packet satisfies all clauses |
| `dealer_three` | `AllOrNothing` | `lb.cpp:65`: while the last active pipe has half a message, another pipe terminates; `_current` becomes 0 and the rest goes to another peer |

`startup` and `retry_hangs` belong together: with two expected nodes start-up is
certain to complete only as long as nobody's timer fires before the answer.
`dealer` and `dealer_three` likewise: with two pipes the swap in `pipe_terminated`
cannot move a pipe that stays to an index other than 0. A ComuFrame node connects
its DEALER once and has one pipe. `fq.cpp:59-62` has the same code for reading. A
pipe that is skipped this way may be deactivated twice or activated while active,
which swaps past the end of the array; the model stops there (`WriteActivated`).

What else the models show about the code, without a run of its own:

- after a repeated registration the announcement may be stored as subscriptions
  (`Node.cpp:129`);
- the request loop's timeout logs "sending registration again" (`Central.cpp:104`)
  and sends nothing;
- flags a refused request has set show up in the next answer (`DataBase.cpp:52`;
  `LeftBehind` says exactly which: a node may be told to subscribe to packets that
  only another node, whose request was refused, has asked for), and
  the missing return statement (`DataBase.cpp:85`) decides whether "can't find your
  data in the DB" is reported, which `tests/DataBaseTest.cpp:36` requires;
- a node that is answered with nothing waits forever;
- a hiccup that crosses `terminate` drops the delimiter with the old queue
  (`pipe.cpp:312`): the other end stays in `waiting_for_delimiter` until it is told
  to terminate without delay, as a SUB socket's session is (`xsub.cpp:50`);
- a connection whose routing id is taken is ignored for good (`router.cpp:500`): it
  stays open, what it sends is never read, and its pipe is never given back. A node
  that restarts under its identity (`Node.cpp:107`) before Central's ROUTER has
  noticed the end of the old connection is not heard.

**Fairness.** Weak fairness per thread: each is a free-running thread that blocks
only on its sockets. For Central's reads it is per node, because a ROUTER serves
its peers in turn (`Delivered`). Timeouts get no fairness. In the data base the
caller waits for the search, so the search goes on. In `YPipe` the reader reads
until it finds nothing, a flush once begun ends and the wake-up it asks for is
delivered; in `Mailbox` every thread goes on when it can. In `Pipe` commands are
handled, sinks read while they may and flush what they have written; nobody has to
write or terminate, except that the session of a SUB socket is told to terminate
without delay. In `Router` and `Dealer` the application ends the messages it has
begun and goes on receiving or sending; commands have strong fairness, since they
are handled only between two calls, and every so many calls at least. Peers of a
`Dealer` read what they are sent.

Every property of a passing run has a mutant in `PROJECT.json`: a changed form of
one definition, kept in the module just before it, under which TLC finds the
property violated.

## 4. Proofs

`ComuFrameProofs` proves, for every set of nodes and processes, every
`expectedClient`, any `Answers` and any `MaxResend`:

- `Invariance`: `Spec => []IInv`, and from it `TypeCorrect`, `NodesRegisterOnce`,
  `OnlyClientsRequest`, `ReleaseIsNotEarly`;
- `BarrierImplemented`: `Spec => ImplementsBarrier`.

Assumptions: `Nodes` is finite, each node has a process, `expectedClient` is a
natural number, requests are sets of data, answers are sequences of topics, and
no topic is one of Central's own words (packet names contain "_").

The argument. `NoEarlyRelease` is not inductive: Central counts any message in
the syncronization state as a confirmation, so one must know that such a message
*is* a confirmation once Central is checking. Hence:

1. `PhaseInv`: Central's place and Fsm state move together.
2. `NodeInv`: a node leaves Registration only after Central registered it
   (anything in `down[n]` is proof of that), and a node in `requestMap` has sent
   its request.
3. `UpInv`: per message in `up[n]`, a registration carries the registration state
   and nothing else does; a request waits only while Central has accepted nothing
   from the node, with only registrations before it; a "subscribed" implies a
   subscriber that has subscribed. So once Central has an entry for every client
   no request can be left in a queue, and what counts is a confirmation.
4. `InprocInv`: the confirmation starts at the subscriber thread.
5. `CheckInv`, `ReleaseInv`: clients not to be checked any more have subscribed;
   AllSubscribed is in transit only after the release.

`RequestsComeFromClients` and the cardinality lemma `InjectiveCount` give that
"as many requests as clients" means "all clients". There is one lemma per action;
the ends of processes share `ExitStep`, since a prefix of a queue keeps `UpInv`.

**Requests and answers.** `RequestsAreTheirs` and `AnswersAreTheirs` add the
hypothesis `MaxResend = 0`: no node waits the five seconds after which it repeats
its registration. Without it both are false: the spare "connected" of a repeated
registration is taken for the announcement, and the announcement for the answer
(`retry_hangs` shows the mildest case). A node counts the messages it gets and reads
none of them, so the invariant `OnceInv` counts too: before Central ends the
registration a client has at most its ack coming, after that at most ack and
announcement, one less when it has read one; a node whose request Central has not
accepted has nothing coming; and what comes after that is an answer to the request.
`OnceInv` is on top of `IInv`, and processes may end at any time.

**Data base.** `DataBaseProofs` proves, for data bases, requests and numbers of
additions of any size,

- `TypeCorrect` and `SearchStaysInBounds`: together they are inductive, because
  `SearchInBounds` already speaks of the pending calls (a column is at least the
  number of its call, a pending call waits inside its clause);
- `ProvidedDataAreFound`, with `FoundInv`: while data are listed the flags of the
  single providers are up, the first clause is that of the first datum with several
  providers, and the search ends at the first place it tries, because `evaluateOR`
  tests pointers;
- `FlagsLeftBehind`, with `LeftInv` on top of both: while data are listed the taken
  packets are those found taken and the single providers so far; the search changes
  no other flags than those of its clauses; its first level, which does not recur,
  has put back the packet of every place it has passed, and on deeper levels the
  packets of clauses that are taken are those of the pending calls. So a search that
  has failed has put back all packets of its clauses, also the ones a datum with one
  provider needs, and what stays taken is what `LeftBehind` names.

Assumed is that the report of a failure is no packet.

**Lock-free queue.** `YPipeProofs`, for chunks of any size, any set of addresses
and any bound on the number of items: `ChunksAreDisjoint`, `PointersStayInOrder`
and `QueueImplemented`, the safety part of `ImplementsWakeQueue` (every step is a
step of `WakeQueue` or a stutter). The pointers of the code are addresses that come
back when chunks are reused, so "before" means nothing for them. The invariant
`YPipeInv` says where they are by *positions* counted from the first linked chunk:
since no chunk is linked twice a position has one slot and a slot one position
(`Lies`), the positions of `front`, `r`, `w`, `f` and `back` ascend (`InOrder`), and
`c` is `NULL` exactly while the reader sleeps (`Handshake`). For the refinement the
contents between two positions are a *cut* of the linked chunks; each operation
moves one border of the cuts (write, flush, read) or adds a slot behind the last,
and taking up or freeing a chunk shifts all positions together. Assumed is that
`Nothing` is no address of a chunk.

**Mailbox.** `MailboxProofs`, for any number of senders and commands: `NoWakeUpLost`,
`CommandsInOrder`, `DestroyedWhenUnused`. `MailboxInv` adds to the properties that a
sender inside the lock is alone, so that between its store and its push the slot at
the back holds its command and nobody else's (`LockInv`), that a flush that finds the reader
asleep makes its sender owe the one signal (`WakeUps`, `WakeInv`), and that the
stream of commands received, flushed and written holds each command once and those
of a sender in order (`StreamInv`).

**Pipe.** `PipeProofs`, for any water marks (none included), any number of queue
addresses, of messages (fewer than `Word`) and of parts, and for both ends writing,
hiccuping and terminating in any order: `PipeTypeCorrect`, `PipeNeverAborts`,
`PipeNothingDangles`, `PipeWithinHwm` and the action property
`PipeNothingLeftBehind`. What an end may do next depends on commands that the other
one has not yet seen, so `PipeInv` relates the two ends through the commands between
them:

1. `Protocol`: the `Handshake` of each end. Which states may meet (`Meets`);
   `pipe_term` and `pipe_term_ack` are on their way exactly when the two states say
   that they are due (`Due`, `AckDue`); nothing follows the acknowledgement, and no
   hiccup follows the request (`Ordered`); the outbound queue is given up exactly in
   the last three states. The assertions of the handlers follow from it;
2. `Chained`: the hiccups on their way to an end lead from the queue it writes to to
   the queue its peer reads, and never back;
3. `Owned`: a queue exists exactly when it belongs to one of the two directions (it
   is read, written to, or brought by a hiccup), and never to both. With 1 and 2 it
   says who deletes what, which is `NothingDangles`;
4. `Fresh` and `Contents`: what a hiccup brings is empty until it has arrived; what
   is incomplete has more parts to come, which is the assertion of `rollback`;
5. `Flows`: while an end is active it counts as written what its peer has read and
   what is in its queue. A delimiter that will be read is the last part of a queue
   both ends use, so an end that reads it has read all that was counted, although
   `process_hiccup` takes messages back. The counts that are reported are at most the
   count of the reader, so `check_hwm`, which sees an old one, errs on the safe side:
   that is `WithinHwm`.

Each relation is an operator on values (two states, a sequence of commands, a
queue), so that its lemmas are about one command sent or received, one part written
or read; an action then changes the arguments. Assumed is that `NULL` is neither the
address of a queue nor a queue.

**DEALER.** `DealerProofs`: `WholeMessagesDealt`, `NothingLeftBehind`,
`NoPipePassedOver`, for messages of any number of parts, with the hypothesis
`AtMostTwo` (at most two connections). It is needed: `dealer_three` is the
counterexample with three. A ComuFrame node has one. `DealerInv` says that the
listed pipes are the attached ones, the active ones those not found full, and that
inside a message the current pipe has what was sent or was rolled back. It stands on
`PipeListProofs`, where each operation of `PipeList` is shown to keep the array free
of repetitions, `active` and `current` in range, and to add or remove exactly its
pipe among the listed and the active ones, for any number of pipes.

**ROUTER.** `RouterProofs`: `PeersHaveOneOwner`, `WholeMessagesAreSent`,
`NothingIsForgotten` (which contains the type invariant), `NothingAborts` and
`WholeMessagesAreReceived`, for any finite set of connections, messages of any number of parts and pipes of any length, without a
further hypothesis. What a pipe is good for depends on the commands of its session
that the socket has not yet handled, so `RouterInv` relates, for each connection
(`Conn`):

1. `Commanded`: no command is on its way twice, `bind` is the first one, and
   `pipe_term` or `pipe_term_ack` on its way say how far the termination is;
2. `Awake`: a pipe the socket found empty has a sleeping queue, or `activate_read`
   is on its way;
3. `Open`: the delimiter is written, and the states after it are reached, only when
   the session has closed;
4. `Placed`: the pipe is not yet attached, anonymous, listed or gone, and until it
   is identified the first thing to be read from it is the routing id. So no message
   is taken for an id, although `xread_activated` identifies a pipe long after
   `xattach_pipe` failed to;

and, for the socket, that the routing table holds the listed pipes under their ids
(`Table`) and `NothingHalfSent`. It stands on `PipeListProofs` too, and the first
three theorems follow from it: they need to know which pipes are listed and active
after an operation, not in which order.

The last two are about the contents of the queues and about whose turn it is. Their
invariant `MessageInv` is inductive together with `RouterInv`:

1. `Whole`: between two parts in a queue nothing is missing, it ends at the end of a
   message or with the delimiter, and the session goes on where it ends;
2. `Holding`: how much of which message the socket has taken out of a queue, and
   where it is: prefetched by `xhas_in` with its id still to be returned, prefetched
   by `xrecv` after the id, or with the application;
3. `Turn`: while a message is half read (`_more`) its pipe is the current one. Here
   the order matters: attaching, activating and giving back a pipe leave the active
   pipes where they are, because a pipe that is given back is not active any more;
4. `Lines`: the next part of every peer heads its queue. With 3, recvpipe finds the
   rest of a half-read message (the assertion of `fq.cpp:107`) even if the peer has
   closed meanwhile, since the delimiter comes behind whole messages;
5. `Writers`: a pipe that is not worth writing is marked so in the table, which is
   the assertion of `xwrite_activated`; that of `xsend` follows from
   `NothingHalfSent`;
6. `Calls`: what the application may call, and that the last message it has is the
   one before the next of its peer.

The inductive invariants that no run checks (`OnceInv`, `FoundInv`, `LeftInv`,
`YPipeInv`, `MailboxInv`, `PipeInv`, `DealerInv`, `RouterInv`, `MessageInv`) were checked by TLC
under the bounds of the runs of their modules before they were proved; `PipeInv` also,
in part, with both ends writing and hiccuping.

Only model-checked: everything about liveness (`StartUpCompletes`,
`PortClashIsFatal`, `SearchEnds`, `AllReceived`, `WriterResumes`,
`TerminationCompletes`, `Delivered`, `ClosedIsGivenBack`, `EverybodyIsDealt`, and the
fairness that `ImplementsWakeQueue` contains), which the prover does not treat.

## 5. Plan

Done: the core (`Fsm`, `Transport`, `Central`, `Node`, `ComuFrame`, its barrier
and proofs), the data base, the parts of libzmq that `Transport` takes for granted,
and the proofs above. What is left is to compose
`DataBase` with Central's answer loop, so that flags that leak from one node's
request into another's answer are seen in `subscriptions`.

**Not modelled.** The program's `main` prints a line. `DataNode` is in no build
target, is used by nobody and does not compile as it stands. `Fsm::crash` has no
caller. The ticks of Central's timer thread carry nothing and are dropped. Of
libzmq: the engines and sessions (byte streams, handshakes, encryption), the
ownership tree and the context's shutdown (ComuFrame never closes its context),
options, pollers and name resolution, and socket types nobody here uses; PUB and SUB
carry nothing in this program, because the publisher waits forever. These are most
of the repository's lines and none of its own logic. cppzmq is a wrapper. The build
files and the trees under `src/Builds` are generated.
