# A TLA+ model of PProx

PProx puts two proxies between the clients of a recommender and the recommender
itself. The first (type 1, "UA") pseudonymises users, the second (type 2, "IA")
items; both run the same program, `PrivateRecSys-proxy`, whose message rewriting
sits in an SGX enclave, and both shuffle what they forward so that an observer
of the network cannot pair what goes in with what comes out. This directory
holds a model of that program, the TLC runs that check it and the TLAPS proofs
about it. Line numbers are those of the files under `src/`.

## The system and its parts

| Part | Source | State it keeps | Operations |
|--|--|--|--|
| Event loop | `App/server.cpp` `poll_handler` | `clientsfds`, `buffer`/`waiting`, epoll registrations | accept + connect a client, take an answer event, stage a ticket, shuffle and hand a batch off |
| Workers | `App/server.cpp` `message_handler` | a ticket, a message | dequeue, receive, enter the enclave, send, close two descriptors |
| Socket wrappers | `App/common_socket.cpp` | none (the kernel's descriptor table) | connect, accept, framing of a message, send |
| Queue | `App/concurrentqueue.h` (vendored) | producers, block index, blocks, free lists | `enqueue_bulk`, `try_dequeue` |
| Enclave | `Enclave/Enclave.cpp`, `keys.h`, `crypto_fct.h` | `inRAM[65536]` (IV and user key per client descriptor), RSA and symmetric keys | `ecall_init`, `ecall_proxy` |
| Process start | `App/App.cpp`, `App/server.cpp` | environment variables, the enclave, the listening socket | `main`, `initialize_enclave`, `server_loop`, every `exit` |
| Clients and target | injectors, stubs, Harness | a connection each | ask, leave, answer, refuse, hang up |
| Deployment | `charts/`, `manager-scripts/` | containers, jobs | restart a container, wait for a job, train and wait |

How they interact. One thread runs the loop. For each connection waiting on the
listening socket it opens an upstream socket, accepts the client, notes the
client in `clientsfds[upstream]`, registers the upstream socket with epoll and
stages the ticket `<<client, upstream, 0>>`. An event on an upstream socket
unregisters it and stages `<<client, upstream, 1>>`. When `BUFFER_SHUFFLING`
tickets are staged, or a second has passed without an event, the staged tickets
are shuffled and go to the queue. `NB_THREADS` workers take them. A worker
receives from one socket of the ticket (blocking), has the enclave rewrite the
message, sends it to the other socket, and, after an answer, closes both.

What is hard about it:

* tickets, `clientsfds` and `inRAM` hold descriptor *numbers*, which the kernel
  gives out again the moment a worker has closed them. The loop and the workers
  share no lock; whether a number still means what it meant when it was noted
  depends on the order of events on four sides (client, target, loop, worker);
* requests and answers go through the same buffer, shuffle, queue and workers;
* a worker can be held by a silent client, an enclave call can fail for want of
  a TCS, the target can refuse, drop or answer a connection at any time;
* the queue is lock-free, with counters that wrap around, an index that is
  replaced while it is read, blocks that are recycled while they are looked for,
  and memory that may run out in the middle of a batch;
* the end of a message is found in a stream that arrives in pieces of any size,
  and each layer changes the message's length;
* nothing is persistent: a crash loses all connections, and there is no retry;
  what outlives the process are connections in TIME_WAIT on its port.

What makes each part correct:

* loop and workers: a client is only ever sent the answer to its own request,
  the target only the request of the client a connection was opened for, once;
  tickets stay fresh; each connection has one ticket at a time; every request
  is answered and its descriptors are released; batches are full or a second old;
* enclave: the key and IV a request has left in `inRAM[csock]` are still there
  when its answer comes; nobody else's call changes them; an answer is enciphered
  with no key of another number; a user has one pseudonym per number;
* queue: what is dequeued was enqueued, once, in the order of its one producer;
  a batch is in it as a whole or not at all; each thread that enqueues has one
  sub-queue, which consumers find; no block is lost or used twice;
* framing: a message goes on whole or not at all, and nobody waits for bytes
  that nobody sends;
* start: a proxy that has exited can be started again at once, and one that is
  reached has an enclave (which may not have been configured: see `Startup`).

## Modules

| Module | What it is |
|--|--|
| `Server` | loop, workers, descriptor table, clients and target; the properties |
| `Relay` | abstract: what the process promises, without descriptors, threads, buffer or queue |
| `ServerInv`, `Server_proofs`, `Relay_proofs` | the inductive invariant `IInv`, the proofs, and the proof that `Server` implements `Relay` |
| `ShuffleTimer` | the clock of the shuffle buffer, and the bound on a ticket's wait |
| `Enclave`, `Enclave_proofs` | `ecall_init` and `ecall_proxy`: the slots of `inRAM`, keys, IVs, pseudonyms |
| `ItemsList` | `iterative_encryption`: the loop over an answer's items |
| `Messages` | `do_recv`'s framing and `update_headers`, over a chain of hops |
| `Queue`, `Queue_proofs`, `QueueBlocks_proofs` | the queue's implicit producer: `enqueue_bulk`, `try_dequeue`, block index, blocks |
| `Fifo` | abstract: what the loop and the workers rely on of the queue |
| `FreeList`, `FreeList_proofs` | the reference-counted lock-free list of emptied blocks |
| `FreePool` | abstract: what `Queue` relies on of that list |
| `Producers`, `Producers_proofs` | `get_or_add_implicit_producer`: hash tables, resize flag, list of producers |
| `Startup` | from `main` to the loop, the exits, the next start |
| `Units_proofs` | the proofs about `ShuffleTimer`, `ItemsList`, `Messages` and `Startup` |
| `MCServer`, `MCEnclave`, `MCItemsList`, `MCQueue`, `MCUnits` | constants, symmetry and views for TLC; `MCServer` also states `UncrossedUnlessRefused` |

How they fit together. `Server` takes the queue for a FIFO; `Queue` implements
`Fifo`. `Queue` takes the free list for a set of which a thread may get a member;
`FreeList` implements `FreePool`. `Queue` has one producer; `Producers` shows that
each thread keeps the one it was given. Of this program only `poll_handler`
enqueues, and it alone takes blocks from the free list, while several workers may
push: `Producers` and the concurrent gets of `FreeList` check the vendored queue
beyond what the proxy asks of it today, and no hazard of the proxy rests on them.
`Server` takes messages for whole; `Messages` is about when they are. `Enclave`
takes its callers' descriptor numbers for the connection's own until its answer
is done with; that is `Server`'s `FreshTickets`. `Server` begins where `Startup`
reaches its loop.

### Server

| Code | Model |
|--|--|
| kernel: descriptor numbers | `fdt[f]`: the socket number `f` means, or `Closed`; `LowestFree` is the number `socket`/`accept` return, `CloseFd` is `close` |
| sockets | `Client(k)`, `Upstream(k)`: the proxy's two sockets of client `k`; `inbox`, `eof`, `outbox` what can be read there, whether the peer has closed, what has been sent |
| `clientsfds`, `buffer`, `waiting`, `events`, `sckS` | `clientsfds`, `buffer`, `Len(buffer)`, `events`, `sckS` |
| position in `poll_handler` | `lpc`: `poll` (in `epoll_wait`), `dispatch` (between events), `accept` (between `do_connect` and `do_accept`) |
| `cq` | a FIFO sequence: what `Queue` is shown to implement |
| worker | `wpc`, `job` (its `Socks`), `at` (the socket `recv` has resolved), `msg` |
| `exit(errno)` in `epoll_ctl_add` | `up` becomes FALSE, all threads stop |

The steps are cut where another thread or the kernel can see or change the
shared state: `Connect` and `Accept` are separate because a worker may close a
number between them; `RecvCall` and `RecvReturn` because `recv` keeps the socket
it was called on whatever happens to the number; `Send`, `CloseSock` and
`CloseCsock` because each takes a number and resolves it anew. The end of the
loop body (`Stage`, `Handled`) is part of the action of the event it follows.
A message is who asked, request or answer, and which rewriting it got (`via`):
enough to tell whether the right message went to the right socket.

`Connect` may fail (`"target_refuses"`): `do_connect` then returns the number
of a socket it has closed. `HangUp` (`"target_hangs_up"`) closes an upstream
connection before anything was sent on it; `Leave` (`"client_leaves"`) closes a
client's side. `Faults` says which of the three a run allows. Definitions marked
`[Wrong]` are plausible slips in the code; each property is checked to fail
when one of them takes the place of the definition that follows it.

### Relay and the refinement

`Relay` has four variables: who has asked, what was forwarded on each
connection, which connections were answered, what each client was sent. `Server`
implements it under the mapping at the end of `Server.tla` (`asked` from
`client`, `forwarded` and `returned` from `outbox`, `answered` from `eof`):
`RelaySafety` its safety part, `RelaySpec` with its fairness.

### ShuffleTimer

`Server` has no clock: its `Timeout` may happen whenever the loop waits.
`ShuffleTimer` keeps only how many tickets wait, how old the oldest is and how
long `epoll_wait` has been entered for; every event enters it anew (`Event`),
and only a second without one (`Expire`) hands a partly filled buffer off.

### Enclave

| Code | Model |
|--|--|
| globals of `ecall_init` | `config` |
| `inRAM[f]` | `inRAM[f].key`, split into the first byte (`head`) and the rest of its first 8 bytes (`body`), and `inRAM[f].iv` |
| a call of `ecall_proxy` | `call[t]`: its connection and where it is: `iv`, `nul` (in `init_ivs`), `field` (before `encrypt_json_field`), `items` (before `encrypt_items_list`) |
| what is sent on | `forwarded[k]`: unchanged, blanked, in clear, or a pseudonym with the 16 bytes used as IV |
| the key of an answer | `returned[k]`: the 32 bytes at `inRAM[csock].key` |

A request has the id of the field `encrypt_json_field` looks for, or none
(`None`): it then goes on as it came, and a query leaves the key in its slot as an
earlier owner of the number left it. `AnswerCall` takes an answer of layer 2 with
or without a list of results; one that has a list is worked on whatever was
asked, with the key that is in the slot.

`RequestCall` gives a connection a number no open connection has, as the kernel
does; that the number stays its own until its answer is done with is `Server`'s
`FreshTickets`. The steps of a call are cut where it writes a slot or reads a
slot another call may write. Keys and IVs are named by whose they are: a
connection's key, the hash of a number, zeroes.

Slots are adjacent, and the code takes in what follows them: `init_ivs` writes a
zero behind the IV, AES-256 reads 32 bytes of key where 16 were kept. `Cells`
therefore has the slot behind each client's. With client numbers that are not
adjacent (`Spaced`) that slot is never used; `poll_handler` opens an upstream
socket before it accepts a client, so numbers often alternate, but nothing sees
to it: numbers freed one by one go to upstream sockets while clients get the
next ones above.

Of an answer's items `Enclave` has one, and takes it for enciphered. `ItemsList`
shows what becomes of the list.

### ItemsList

`buff` is the answer's list of items, each with the form its identifier is in
(as the recommender sent it, in clear, enciphered for the user); `final_ret` is
the copy `json_change_id_value` last made; `pos_end` and `aenc` are the position
after and the value of the item last read. The two calls of the loop body are
actions. A new value is longer than the one it replaces, so that a position in
the changed copy may lie beyond further items of `buff`: `Read` may go past any
number of them.

The loop reads an item and changes the one after it, in a fresh copy of `buff`,
and ends with the turn that finds none: it returns what it was given
(`ReturnsBuff`).

### Messages

A message is its lengths: `head` (up to the blank line), `clAt` (where
`Content-Length: ` is complete, if it is there), `claims` (what it says), `body`,
and whether the body ends like a chunked one. That is all `do_recv` looks at.
`Receive` is one `recv`, of any number of bytes; `WantsMore` is the condition of
the loop; `Forward` is what the enclave does to the lengths and `do_send`. `hop`
counts the proxies passed, so that a length one hop states is one the next
believes. The digits of a length, chunk sizes and what exceeds the enclave's
result buffer are left out; sixteen bytes or fewer in the first segment, a full
buffer and a peer that closes all discard the message, as in the code.

### Queue

| Code | Model |
|--|--|
| `tailIndex`, `headIndex`, `dequeueOptimisticCount`, `dequeueOvercommit` | the same, modulo `Modulus` (2^64 in the code) |
| `blockIndex` and the header it points to | `blockIndex` is the number of the current index, `index[h]` its capacity, tail and circular array of entries; `new_block_index` makes the next |
| `BlockIndexEntry` | `key[e]`, `value[e]` |
| `Block` | `elements[b]`, `completed[b]`, `chain[b]` |
| block pool, free list, `malloc` | `fresh` and `free`; memory runs out when `fresh` is empty and a thread finds nothing in `free` |
| locals of `enqueue_bulk`, of `try_dequeue` | `ppc` and the variables after it; `cpc[c]` and `reg[c]` |

Each access that another thread can see is a step: the reads and increments of
a claim, the three reads that find its block, taking the element, and counting,
unlinking and giving back the emptied block. An element is named by the index it was enqueued at.
Capacities double, positions are differences of wrapped counters divided with
their sign, a stale index or tail is used as the code uses it. When an
allocation fails the batch's blocks are taken out of the index one by one, and
given back. Accesses are sequentially consistent; the code's weaker orders are
not examined.

`FirstInFirstOut` maps this to `Fifo`: what has come in is what `tailIndex` says,
the line is what is found in the blocks between `headIndex` and `tailIndex`, and
what a consumer holds is what is in the slot it will look up, or what it has
taken from it. A consumer that is given the wrong block, or a block that is
given back too early, breaks the mapping at once.

### FreeList

One variable per member and local, one action per atomic access. `freeListRefs`
counts a node's references, with the mark `SHOULD_BE_ON_FREELIST` on top;
`owner` (not in the code) says whose a block is. A node that is given back while
someone looks at it is marked and left to whoever brings its count to zero; a
count of zero is never raised. That is what keeps `try_get`'s CAS from
succeeding on a head that was taken off and put back with another next
(`PoolSpec`), and blocks from being left to nobody (`NothingLost`).

### Producers

`hashes` is the list of hash tables, oldest first; a slot has a thread's id and
its producer. A thread looks through all of them (`lookup`), copies what an older
one has into the newest, or counts itself, enlarges the table if it is half full
and the flag is free, makes a producer, links it into the list with a CAS and
takes the first slot free for it. `hashedId` may give threads the same first
slot. An allocation may fail wherever there is one. The capacity of a new table
is the first that the code's doubling comes to (`NewCapacity`).

### Startup

`mpc` is the call last returned from, `eid` the enclave, `lingering` whether
connections of earlier processes are in TIME_WAIT and whether they have
`SO_REUSEADDR`. Every failing call exits, except `ecall_init`, whose status is
not looked at: `Configure` may leave a live enclave as it was created (`fresh`), with
`PROXY_TYPE` 0, and the process goes on to serve, passing every message on as it
came. Nothing in the code prevents it, and no property says otherwise. An enclave
can also be lost at any time (power transition), after which every ecall fails.
`bind` fails for connections in TIME_WAIT unless both sides have `SO_REUSEADDR`
(`bind_lingering`), or for any other reason (`bind_other`); `RestartBinds` is about the
first. The next start may follow at once, as a container's does.

## Runs

| Run | Instance | Result |
|--|--|--|
| `server_safety` | 3 clients, 2 workers sharing 1 TCS, buffer of 2, batches of 2 events, clients may leave | `OwnAnswer`, `OwnRequest`, `FreshTickets`, `OneTicket`, `BufferBound`, `BatchHandOff`, types, the invariant of the proofs, and the safety part of `Relay` |
| `server_liveness` | 2 clients, 2 workers, a TCS each, fair | `AskedIsServed`, `WorkersReturn`, `ClosedAfterAnswer`, `Relay` with its liveness |
| `server_serial` | 3 clients that may leave, 1 worker, no shuffling, the target hangs up and does not refuse | `UncrossedUnlessRefused` |
| `server_hangup` | 2 workers, buffer of 2, the target hangs up | `OwnAnswer` is violated |
| `server_refused` | the target refuses | `AnswersOnly` is violated |
| `server_silent` | clients may stay silent | `AskedIsServed` is violated |
| `queue` | 2 consumers, batches of up to 3, blocks of 2, memory for 2 blocks and 2 indices (of 1 and 2 entries), counters modulo 10 | `FirstInFirstOut`, `EntryIsRight`, `ClaimsAddUp`, `BlocksKept`, types |
| `queue_starved` | 2 consumers, batches of 1, memory for 1 block and 1 index, fair | `EventuallyClaimed` is violated |
| `units` | `ShuffleTimer`, `Enclave`, `FreeList`, `Producers`, `Messages`, `ItemsList`, `Startup`, each as if alone | see below |
| `enclave_neighbours` | client numbers 2 and 3, layer 2 | `OwnKey` is violated |
| `enclave_pseudonyms` | client numbers 2 and 4 | `SamePseudonym` is violated |
| `items` | lists of items, `ENABLE_ITEMS_DECR=0` | `NoItemInClear` is violated |

`units` starts in one of seven parts and takes only that part's steps; the others
rest in a state of theirs. What it checks of each:

| Part | Instance | Properties |
|--|--|--|
| timer | buffer of 5, a period of 6 ticks | `HandedOffInTime`, `AgeByPeriods`, `TimerType` |
| enclave | 3 connections, 2 threads, numbers 2 and 4, all 12 configurations | `OwnKey`, `KeyOfNumber`, `SamePseudonymOnSocket`, `EnclaveInv`, `EnclaveType` |
| free list | 3 threads, 2 blocks | `PoolSpec`, `RefCount`, `NothingLost`, `FreeListType` |
| producers | 3 threads, two with the same hash, a table of 2 | `OneProducerEach`, `SlotFree`, `ResizeHeld`, `AllListed`, `ProducersType` |
| messages | 3 hops, a buffer of 10 bytes; no body, a body, chunks, too long | `NeverStalled`, `CutInChunksOnly` |
| items | lists of items, `ENABLE_ITEMS_DECR=1` | `ReturnsBuff` |
| startup | unbounded starts, exits, losses | `RestartBinds` |

Bounds of `Server`. Each client makes one request on one connection, as the
program closes both sockets after an answer. With three clients a descriptor
number has two successive owners while a third connection is under way; two
workers and a buffer of two give every order of a request, an answer and the
next client's request. `Fds` has two numbers per client, so that descriptors
never run out (the program has thousands). `MCPerm` lists the permutations that
libstdc++'s `shuffle` makes of 1 to 4 elements with `default_random_engine(0)`:
the engine is constructed anew at each call (line 97), so a length is always
permuted the same way. The proofs hold for any permutation. With one TCS for
two workers an ecall may fail; messages are then lost, never misdirected or
sent raw. Clients and workers are symmetric in the safety runs. Deadlock is
checked where the system can always go on (the loop's time-out), and not where
the process may exit.

Bounds of `Queue`. A batch of three with blocks of two spans a block boundary
from either side, needs two blocks at once and finds memory for one, both or
none. Two blocks are in use, recycled and put in again while a consumer still
looks for an element of their earlier life; the index of one entry is replaced
by one of two, once. A modulus of 10 is the smallest that `QueueAssumption`
allows (no distance may reach half of it), and the counters wrap around. The
two counts of claims only matter by their difference, which `MCQueue`'s `View`
uses to keep the states finite and few. Consumers, and blocks, are symmetric.
The system may stop when nobody enqueues.

Bounds of the others. Three threads on two blocks are what it takes for one to
look at a node another takes off and a third puts back. Three producers make a
table of two grow twice. In the enclave three connections on two numbers give a
slot two successive owners while the other is in use; two ids tell whether
pseudonyms are mixed up. Three hops are one more than PProx has. The timer and the
start need no bound.

Fairness. The loop and the workers are threads the operating system schedules,
so each is weakly fair; a client that has connected sends its request or leaves,
and the target answers what it is sent. The last two are assumptions about
others: `server_silent` shows what happens without the first. In `queue_starved`
a call of `enqueue_bulk` goes on and every worker keeps calling `try_dequeue`
(weakly fair); nobody has to enqueue anything.

### What the violations show

* `server_hangup`. An event on an upstream socket is taken for an answer, also
  when it is the target closing a connection whose request still waits in the
  buffer. The answer's worker closes both numbers, a new client gets them, and
  the old request ticket is run on the new client's sockets. With one worker and
  no shuffling the request ticket always goes first, and as long as no connect is
  refused nothing is crossed, whether clients leave or not (`server_serial`).
* `server_refused`. After a refused connect, `sckS` is a closed number, which
  `accept` returns next: the client is paired with itself and gets its own,
  rewritten request back. If a worker frees a lower number in between, `accept`
  returns that one, and `epoll_ctl_add` ends the process instead. The client that
  was paired with itself does more harm when it leaves: `close(sock); close(csock)`
  then close one number twice. If the loop has been given the number for the
  next client's upstream socket in between, that one is closed, and the number
  goes to the client after it, while a ticket still names it: that client's
  upstream connection is sent the other's request, with one worker and no
  shuffling. This is why `server_serial` is about a target that refuses no
  connect: with `"target_refuses"` added, its `OwnRequest` fails.
* `server_silent`. README.md:183 documents a delay after which a response is
  sent anyway. `RESPONSE_TIMEOUT` is set by the charts and read by nobody, and
  `recv` blocks (line 85 sets `O_NONBLOCK` with `F_SETFD`, where it has no
  effect), so silent clients use up the workers.
* `enclave_neighbours`. A request on number 2 zeroes the first byte of the key
  that waits in slot 3 for its answer. What that answer's items are enciphered
  with is then not the client's key. (The list is discarded anyway: `items`.) (The
  injector expects AES under the 16 bytes it sent, main.py:154, while AES-256
  takes 16 more from the slot's IV and the next slot, so it could not in any
  case; the line that would decipher the items, main.py:160, is a comment.)
* `enclave_pseudonyms`. The IV is the hash of the descriptor's number: a user
  coming back on another number is another user to the recommender, and so is
  an item, if items are pseudonymised.
* `items`. `iterative_encryption` returns the list it is given. With
  `ENABLE_ITEMS_DECR=0` the items of the answer cross the first layer, which
  knows the user, in clear, where README.md:19 says that the layers hide links
  between users and items; with `ENABLE_ITEMS_DECR=1` the client gets them as
  the recommender's pseudonyms.
* `queue_starved`. Two workers that busy-loop on `try_dequeue` can keep each
  other from a ticket: each raises `dequeueOptimisticCount` between the other's
  read of `dequeueOvercommit` and its check, both fail, both undo, and again. The
  comment at concurrentqueue.h:1853 calls the count "eventually consistent"; it
  may never be at the moment it is compared. An unlucky schedule, but one in
  which every thread keeps running.

## Proofs

`Server_proofs.tla` proves, for every set of clients, workers and descriptors,
every buffer size, permutation and number of TCSs (`ServerAssumption` is all it
takes):

* `TypeCorrect`: `Spec => [](TypeOK /\ BufferBound)`, with any faults;
* under `WellBehaved` (the target neither refuses nor drops connections):
  `Invariance` (`[]IInv`), `OwnMessages` (`[](OwnAnswer /\ OwnRequest)`),
  `TicketsStayFresh`, `OneTicketEach` and `NeverExits`.

The argument. A ticket is harmless if its numbers still name the two sockets of
one connection. They do unless some other ticket's worker has closed them,
which takes a second ticket of the same connection (`OneTicket`). A second
ticket is made only by an event on the upstream socket while it is registered
(`Registered`), an event there means the target has spoken (`TargetSpeaks`),
and it speaks only after the request was sent, that is after the request
ticket's worker has finished (`Due`: a request ticket's connection has nothing
sent upstream yet, an answer ticket's is no longer registered). None of these
is inductive without the others; `IInv` is their conjunction, with the types,
with what the loop's locals refer to (`LoopState`) and with what connections not
yet accepted look like (`Unaccepted`). TLC checks `IInv` in `server_safety`.
The proof has one lemma per action; `LocalStep`, `StageStep` and `CloseStep`
hold what several actions have in common.

`Relay_proofs.tla` builds on that:

* `Implements`, under `WellBehaved`: `Spec => RelaySafety`. Each action of `Server`
  is an action of `Relay` or leaves its four variables alone. The step that
  needs proof is a send: that the message was asked for, or given as an answer,
  is `Provenance` (what is in an inbox or in a worker's hands has an origin), and
  that it goes out where `Relay` says is `IInv`;
* `BatchesFullOrOld` (`BatchHandOff`), in any environment: the buffer can only be
  full when an event fills it, or empty into the queue when none is `Ready`;
* `AnsweredBeforeClosed` (`ClosedAfterAnswer`), under `WellBehaved` and with as many
  TCSs as workers (Enclave.config.xml:5, Dockerfile:21: two each): no call of the enclave can then fail,
  and the answer of a connection is, one after the other, in the target's hands,
  in the upstream socket, in a worker's hands and with the client (`AnswersKept`),
  so that when the sockets are closed it has been sent.

`Units_proofs.tla` holds the smaller components. `BoundedWait`: a ticket waits at
most `BUFFER_SHUFFLING - 1` periods. `HandedOffInTime` is not inductive, as it does not
say what the oldest ticket's age has to do with how many wait; `AgeByPeriods`
does (`PeriodsBringTickets`): each period it has outlived has brought a ticket.

`Enclave_proofs.tla` proves, for all connections, threads, numbers and
configurations: `CallsApart` (types; a call is alone with its connection's number
and finds its IV), and under `Spaced` `KeysAreOwn` (`[]OwnKey`, `[]KeyOfNumber`) and
`PseudonymByNumber` (`[]SamePseudonymOnSocket`). `OwnKey` is about requests that
bring a key: its answer's items are enciphered with that key. `KeyOfNumber` is about
all others too: layer 2 enciphers the items of any answer, with what is in the
slot, and that is what some connection with the same number has left, or zeroes.
It is the best that can be said: an earlier client's key it may well be. The
invariant has two halves.
`Structure` (which stage a connection and its call are in, who has a number)
needs no `Spaced`. On top of it `KeyKept` says that the key is in the slot while
the answer is awaited, `LeftBehind` whose key a slot can hold at all, `ZeroBetween`
that what follows a slot is zero, so that `ByNumber` can name all 16 bytes of IV a
pseudonym was made with.

In `Units_proofs.tla`, `AnswerAsItCame` proves `[]ReturnsBuff`, for lists of any
length. `ItemsInv` says that a copy differs from `buff` only as long as there is
an item left in it to read, so that the last copy does not.

There too, for any number of hops, any buffer and any set of framed messages:
`NoHopStalls` and `WholeOrNothing`. `MessagesInv` says that the
message on the wire is framed as HTTP asks, which each hop has to restore, and
that `do_recv` is in its loop exactly as long as the lengths make it wait.

`Queue_proofs.tla` proves `EveryClaimCounted`: for any number of workers and any
modulus the optimistic count equals `headIndex` plus the overcommits plus the
claims not decided, modulo `Modulus`. The lemmas `Wrapped`, `WrapSum`
and `WrapSmall` are what it takes of modular arithmetic; the rest is who moves between
the undecided and the others at each step, and by how much each counter moves.

There too, `NeverOverclaimed`: `headIndex` never passes `tailIndex`, which is what
"guaranteed to be at least one element to dequeue" (concurrentqueue.h:1799) rests
on. A claim compares its number, less an old `dequeueOvercommit`, with the tail.
The invariant `Claims` is about all claims under way together: with `m` one more
than the highest number granted so far, the claims granted and those below `m`
still undecided do not exceed the tail, and one that is not below has as many
before it as its number and what it read make them. `Tails` says how far ahead of
the head a batch has got. Both are about counters that do not wrap (`H`, `T`, ...),
of which the code's are the remainders; `Compare` is what makes
`circular_less_than` agree with `<`. Its premise, `NotOvertaken`, is where the
code has no defence: a consumer stopped between its read of `dequeueOvercommit`
and its test, while others fail and undo about 2^63 claims, would compare numbers
that are too far apart.

`QueueBlocks_proofs.tla` proves, under the same premise and for any blocks, sizes and
batches, memory that runs out anywhere included:

* `QueueIsFirstInFirstOut` (`FirstInFirstOut`): the queue implements `Fifo`;
* `RightEntryFound` (`[]EntryIsRight`), `BlocksNeverLost` (`[]BlocksKept`) and
  `QueueTypeHolds` (`[]QueueType`).

All four rest on one inductive invariant, `Inv`, about the queue as it would be
with numbers that never wrap and with blocks that are never used twice: elements
and blocks are numbered from 0 on, and the invariant says what the code's
wrapped indices, recycled blocks and entries are of them. The numbers are
existentially quantified (`Some`), so that the model needs no auxiliary variables:
`H`, `T`, `N` are the numbers of head, tail and the tail after the batch, `Z` and `U`
the last block acquired and the last undone, `bb[n]` is the `n`th block, `kn[e]` the
block entry `e` was last keyed for, `cl[c]` the element consumer `c` has claimed.
Its parts, none inductive without the others:

* `Indexed`: the keys of consecutive places of the index are those of consecutive
  blocks, in each of the indices there has been, shifted by `off[h]` in the `h`th. This is what
  lets the search subtract bases instead of comparing keys: with
  `2 * MaxEntries * BLOCK_SIZE < Modulus` (`QueueAssumption`) a distance between two
  blocks survives the wrap-around, and growing moves all entries by the same
  distance (`GrownKeys`);
* `Working`: a block is in the index exactly as long as it is in use (`InUse`): from
  its acquisition until it is undone, or until every element of it has been
  emptied. The count that tells, `elementsCompletelyDequeued`, plus the consumers at
  work in the block is how much of it has been claimed (`Counting`). So an entry is
  only used again when nobody can look for what it held, and what a consumer
  has loaded (a stale index, a stale tail, `WorkOf`) is still a right place to start from;
* `Owned`: each block is at one place, fresh, free, in one entry, out with one
  consumer, or undone and not given back;
* `Batch`: the chain of the batch's blocks has them in order, and `undo` and
  `fill` are at a known number of it;
* `Contents`: the element with number `i` is in slot `i % BLOCK_SIZE` of block `i \div
  BLOCK_SIZE` from when it is written until it is taken, and no two consumers have
  claimed the same.

What ties the consumers to the blocks in use is `NeverOverclaimed`: a claim is of an
element before the tail (`Ages`, `Tails`). From `Inv` the line of `Fifo` is `H` to `T - 1`
(`LineIs`) and each worker holds the number it claimed (`HandIs`), which makes
`Publish` a `ComeIn` and a granted `Check` a `Claim`; a worker's hand is emptied by
`HandOver` when `try_dequeue` returns, and no other step changes either.

`Producers_proofs.tla` proves, for any threads, hashes and table sizes:
`OwnProducer` (`OneProducerEach`: a thread is always given the same producer, and
nobody else is given it) and `FlagHasHolder` (`[]ResizeHeld`). `ProducersInv` is the
argument of linear probing with tables that are never cleaned: a thread's entry
in a table has no free slot before it in its order of probing (`Probeable`), so
that a look-up cannot miss it; a thread that is on its way to make a producer is
in no table (`Unknown`); what is in the tables is one producer per thread
(`OneEach`), and is what it was given (`GotOwned`).

Three more of its theorems add to `ProducersInv`:

* `EveryProducerListed` (`[]AllListed`). `ListedProducers` is the least set that
  contains the tail and the next of its members, so that no induction along
  the list is needed: a push adds its producer (`ListPush`), and what a producer
  that is not on the list points to is of no consequence (`ListSame`). `Linked`
  says that a producer about to be linked is not on the list and points to the
  tail its thread expects, and that all others that have an owner are on it;
* `ProbingEnds` (`[]SlotFree`). A thread goes into a table only if its number
  (`newCount`) is below three quarters of it, but the numbers are no ranks: a
  thread whose allocation fails gives its number back, and threads may have the
  same one. `RoomSuffices` counts instead: the threads in the tables up to `h`, or
  on their way there with a number of at most `n`, are no more than `n`, for
  every `n` that is not below the room of `h`. `CountSuffices`
  (`implicitProducerHashCount` is at least the number of threads counted) and
  `Growing` (each table is larger than the one before) keep it so. With
  `KeysUnique` and the pigeonhole principle a full table is impossible;
* `ProducersTypes` (`[]ProducersType`), as the same facts are what bounds the
  count from below and the indices from above.

Both take any threads, as long as they are finitely many.

`FreeList_proofs.tla` proves, for any blocks and threads fewer than the mark:
`FreeListTypes`, `CountsReferences` (`[]RefCount`), `NoBlockLost` (`[]NothingLost`) and
`ImplementsPool` (`PoolSpec`). `FreeListInv` is the argument why reference counts
rule out ABA: a thread that holds the head knows its next (`Locals`), for a node
is written to only by who is to push it (`Claims`), which takes a count of zero
(`RefCount`, `Unheld`); and a block that is nobody's, on no list and held by nobody
has a thread that is to push it (`Pending`). The list is a least set as above;
`Chain` says that it is one chain.

`Units_proofs.tla` proves `PortComesBack` (`[]RestartBinds`) and `EnclaveBehind` (a
process that is reached has created an enclave), over any number of starts, exits
and losses.

Only model-checked: the liveness properties (out of the prover's reach), that of
`Relay` among them; runs in which the target refuses or hangs up.

## Plan

Done: the modules above. What is left, most useful first:

1. `Server` composed with `Enclave`: the numbers `RequestCall` chooses become
   those of `Server`'s tickets, so that a run shows which histories make client
   numbers adjacent.
2. Two layers end to end, from the client's request to its answer.

## Not modelled

* Of the queue, what the proxy never calls: explicit producers, tokens, single
  `enqueue`, `try_dequeue_bulk`, move and swap. Its destructor never runs (the
  process ends by `exit` with the threads still in it), elements are plain data
  that cannot throw when copied, and the clean-up at thread exit is compiled
  out. Memory orders weaker than sequential consistency; liveness of the free
  list and of the hash of producers.
* A failure of the queue's constructor to make its first block index.
* Partial `send`s, `SIGPIPE`, `EINTR`, running out of descriptors.
* The text of a message: JSON, base64, padding, header names; encryption and
  hashing are symbolic and RSA always succeeds. Logging and statistics.
* `wait_for_job.sh` and the other scripts, the injectors' own counters (among
  them `index.js`'s walk past the end of its users), Locust scenarios, stubs,
  plots, notebooks, data generators: they hold no state of the proxy. Injectors
  and stubs appear as clients and target. Of the charts only the restart of a
  container that has ended is there (`Startup`).
