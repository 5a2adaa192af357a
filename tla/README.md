# A TLA+ model of carrot-rpc

carrot-rpc is a small RPC library over protobuf: clients call methods of remote
services through a channel, servers look the method up, call it and send its
response back. This directory models the library's two channels, its three
servers, its messages and its packet buffer where a mistake is hard to see in a
test (callbacks that race, threads that share descriptors, pooled objects,
timers, failures in the middle of a step), checks the models with TLC on small
instances, and proves the central properties with TLAPS for every value of the
constants. All paths below are relative to the root of the repository.

## 1. The system

| Part | Source | State | Operations |
|---|---|---|---|
| Asynchronous channel | `src/client/carrot_async_channel.{h,cpp}` | one `RpcClientConnection` per `host:service`: socket, resolver, `connecting_`, `outgoing_tasks`, a counter of call ids, one read buffer; per call a `call_task` with its timer, its packet and its `called` flag | `CallMethod`, `issue`, `start_call`, `start_read`, `destroy`, `finish_task`, `setup_task_timer` and the handlers of resolve, connect, write, read and timeout |
| Blocking channel | `src/client/carrot_blocking_channel.{h,cpp}` | one socket | constructor, `CallMethod`, destructor |
| Asynchronous server | `src/server/carrot_async_server.{h,cpp}` | acceptor, `conns_`, `services_`; per `RpcServerConnection` a socket, a buffer and `n_` | `start_accept`, `handle_accept`, `serve`, the read and write handlers, `respond_to_client`, `destroy`, the destructor |
| Threaded server | `src/server/carrot_threaded_server.{h,cpp}` | `stopped`, a thread and a descriptor number per client | `Run`, `Stop`, `handle_client`, `respond_to_client`, `destroy_connection` |
| Simple server | `src/server/carrot_simple_server.{h,cpp}` | a reactor, `conns_in_use`, `conns_unused`, a buffer per pooled object | `Run`, `Stop`, `handle_listen_sock`, `handle_client`, `destroy_rpc_connection`, the destructor |
| Server base class | `src/server/carrot_server.{h,cpp}` | listening socket, `services` | constructor, `RegisterService` |
| Packet buffer | `expand_packet` in `src/common/utils.cpp`, `src/common/packet.h` | a pointer and a size kept from message to message | `expand_packet` |
| Socket helpers | `src/common/utils.cpp` | none | `read_n`, `write_n`, `connect_to`, `create_server_tcp_socket`, ... |
| Messages | `src/protob/rpc.proto`, `src/protob/rpc.pb.{h,cc}` | has-bits, values and unknown fields of a `Request` or `Response` | accessors, `Clear`, `MergeFrom`, `CopyFrom`, `Swap`, `ByteSize`, serialization, parsing |
| Controller | `src/common/carrot_controller.h` | error code, failed flag | `Reset`, `SetFailed` |

How they interact. A channel and a server exchange packets (three lengths, a
`Request` or `Response`, a parameter) over TCP; the asynchronous channel matches
a response with its call by the id in the metadata, the blocking channel by its
place in the stream. Inside the asynchronous parts everything is a callback of
`boost::asio`: one thread runs the `io_service` and dispatches the handlers one
at a time. A handler that fails throws out of `io_service::run()`, which the
program enters again (`examples/carrotrpc-async_client.cpp:67`). The threaded
server starts a detached thread per client; the simple server serves everyone
from one reactor with blocking reads.

What is hard:

* **The client's shared socket.** Calls issued before the connection is up each
  resolve and each connect the same socket. `async_connect` closes the socket
  first, under the connects, reads and writes of the other calls.
* **Late handlers.** A handler that a close leaves behind still runs, possibly
  when a new connection has been made. If its operation was aborted, it destroys
  that connection; if the operation had already completed, it goes on with it: it
  starts a second read loop there, or takes bytes of another packet for its own.
* **Timers.** A timer whose expiry is queued can no longer be cancelled, and
  `start_call` arms a timer that may have expired. `handle_timeout` also takes
  the connection down when `connecting_` is set.
* **Closures run once.** Seven places run `done->Run()`; the closure may delete
  itself, so running it twice is an error, never running it a leak and a hang.
* **Failures half way.** Several handlers throw for lack of memory without
  undoing what they did: a server connection stays open but unserved, or the
  server stops accepting.
* **Descriptor numbers.** The threads of the threaded server close a number on
  an error and again at their end; in between it may have become another
  client's.
* **Pooled objects.** The simple server destroys a connection inside its own
  callback and hands the object, with its buffer, to the next client.
* **A stream read in steps.** A blocking call that fails half way leaves the
  rest of a response to the next call.
* **Signals.** `read_n` looks at `errno` also when `read` has returned 0, which
  does not set it: an `EINTR` of an earlier call makes it read for ever.

`PROJECT.json` lists these hazards with their lines and the properties that
cover each of them.

## 2. Modules

| Module | Role |
|---|---|
| `RpcCodes` | statuses, error codes and how one becomes the other |
| `RpcCall` | abstract: what an asynchronous channel promises its callers |
| `AsyncChannel` | the asynchronous channel, handler by handler |
| `AsyncServer` | acceptor and connections of the asynchronous server |
| `ThreadedServer` | the threaded server, its base class and its listening socket |
| `SimpleServer` | the reactor server and its pool |
| `BlockingChannel` | the blocking channel, its controller and a peer |
| `RpcMessages` | the generated classes as operators on message objects and wires |
| `MessageObjects` | two message objects and everything that can be done to them |
| `Packet` | `expand_packet` on one buffer |
| `MC...` | constants of the module of that name for TLC |
| `AsyncChannelProofs`, `AsyncServerProofs`, `ThreadedServerProofs`, `SimpleServerProofs`, `BlockingChannelProofs`, `RpcMessagesProofs`, `MessageObjectsProofs`, `PacketProofs` | proofs about the module of that name |

`BlockingChannel` and `MessageObjects` are built on `RpcMessages`, which, like
`AsyncChannel` and `AsyncServer`, uses `RpcCodes`; `AsyncChannel` instantiates
`RpcCall`.

Definitions carry the names of the functions they model; where a handler has a
success path and error paths, each path is an action with a suffix (`_ok`,
`_error`, ...). Definitions introduced by a comment that begins with "Mutant"
are altered copies of the definition that follows: they show that a property
notices the change, and no specification uses them.

### AsyncChannel

A call is its id. `op[t]` is the asynchronous operation call `t` has
outstanding: a call resolves, connects and writes in this order. `reader` is the
read of the one loop on the current socket. `armed` and `fired` are the calls
whose timer waits, and whose expiry is queued. `received` holds the requests the
server has on the current connection; the server may answer them in any order,
or never. `called`, `outgoing_tasks`, `connecting_` and `id_` are the code's own.
`runs` counts how often a closure was run and `code` is what its controller held
then.

`boost::asio` (the version the repository's README names, 1.57) is external. An
operation completes first, its handler is queued and runs later. When nothing
closes the socket in between, what happens between the two makes no difference
to the handler, so they are one step. When `destroy` or `async_connect` closes
the socket (`CloseSocket`, `async_connect`), every operation is either still
pending, and is aborted, or has completed, and its handler is queued with
success; the model chooses.

* A completed connect becomes `connect_queued`. If the socket is closed when its
  handler runs, it is an error after all: asio's `connect_op` tests `is_open()`.
  If another call has opened it again, `handle_connect` runs with success on a
  socket that is still connecting, or connected to another peer.
* A completed write changes nothing when its handler runs.
* Reads go to `queued`: `failed` ones were aborted, `partial` ones have read a
  header (or `async_read` has read some of it, which is the same: it reads on),
  `whole` ones a payload. A handler that reads on does so from the socket there
  is by then.

From then on, or when a second `handle_connect` starts a second loop, the read
loops of a socket may be out of step with its stream: their number is `torn`. Such
a loop takes bytes in the middle of a packet for lengths. It may fail, wait for
ever for bytes that never come, or find a response by luck; all of these are
steps of the model. Handlers that are queued run in any order.

`destroy(own, e, o, n, q, out)` is the code's `destroy` together with the
`if (!task->called) ... Run()` that its callers execute just before it: `own` are
the calls the handler fails itself, with code `e`; the others of `out` get the
`EC_FAILED` of the one-argument `SetFailed`; `o`, `n` and `q` are the operations,
reads and queued reads the handler leaves. The call to `chann_->conns().erase`
has no effect, because `conns()` returns a copy, so the one connection object
lives as long as the channel.

A cancelled resolution may still succeed if it was finished. A host has several
endpoints: a refused connect may go on with the next one (`connect_next`), which
closes and opens the socket again. The second expiry of a timer that was armed
again waits for the handler of its first one. `Faults` says what may fail on its
own.

Three assumptions about bytes: packets are written whole; bytes of different
packets, read together, do not spell the response of an outgoing call; and the
two loops' use of the one buffer `p_`, which one may reallocate while the other
reads into it, is taken to damage what is read and nothing else (the code is
undefined there).

Left out: CallMethod running in parallel with handlers in another thread,
closures that call `CallMethod` again, exceptions thrown by closures (they are
caught and change only an error text nobody reads any more), the bytes of a
packet, `task->state` (only used in a message) and the default-constructed
controller, whose `timeout_` is uninitialized.

### AsyncServer

Each connection has one operation outstanding: `accept`, `header`, `payload` or
`write`, or none. `conns_`, `n_` and `size_` are the code's; `block` is what `p_`
really points to. Clients send requests at will; a request record says what
becomes of it (`garbled`, `unknown`, `returns`, `fails`, `throws`) and how large
its parameter and its response are. A null pointer that is dereferenced ends the
process (`alive` becomes FALSE); bytes written beyond a block may end it or not.
Sizes are in arbitrary units. Which services are registered is part of the
request's outcome, so `RegisterService` is no action here.

### ThreadedServer

`fds` is the process's descriptor table: which client's connection each number
refers to. `Run_accept` takes the lowest free number, `destroy_connection` frees
whatever the number refers to by then. A thread that is blocked in a read keeps
the connection the read was entered on, as the kernel does, even if the number
is closed and given away meanwhile; a read that a signal interrupts is called
again on the number, whatever that is by then. The reads of one request are one
step: every failure among them takes the same path, and a request that two
threads read parts of counts as garbled. `eintr` are the threads whose `errno` is
`EINTR`: at the end of a stream `read_n` of such a thread reads on for ever.
`main` is where `Run` is; `Stop` only sets the flag, so a thread blocked in
`accept` returns with one more client. When `std::thread` throws, `Run` ends and
the client it had accepted is served and closed by nobody. `closedBy` and `late`
are history.

Left out: the descriptor that `create_server_tcp_socket` leaks when `bind` or
`listen` fails (the constructor throws and there is no server), and the fields of
the `Response`, whose required `id` this server and the simple server never set.

### SimpleServer

`client_fd`, `live`, `size` and `block` are per `rpc_connection` object,
`conns_unused` and `conns_in_use` the code's containers, `events` what the
reactor watches. `busy` is the object whose `handle_client` is running: while its
request is only half there nothing else is dispatched. The reactor (libcheetah)
is external; so are the clients, who send a request in two steps and may leave
after the first. `client_callback` heeds an event only if its flags are exactly
`E_READ`: `flagged` are the clients whose events have more of them after they
have left. `eintr` says that `errno` is `EINTR`, on which `read_n` loops at the
end of a stream. `ReactorWaits` is the state in which `read_n` holds the reactor:
half a request, or such an end. `Run` may return and be called again: it removes
the events and keeps the connections.

### BlockingChannel

`connect_to` tries the host's addresses in turn; `CallMethod` is the sequence of
its system calls (`pc`), each of which may be interrupted or fail. `incoming` is
the stream of headers and bodies; `astray` records that a body was left in it,
after which the next call takes its bytes for a header and the model leaves open
what comes of that. `errno` is kept because `read_n` looks at it after a read
that has returned 0. A `carrot` peer is one of the servers of this repository,
which refuses a `Request` without `id`; a `lenient` one answers anything,
responses without an id, with two statuses, with an unknown status, and cut off
ones included. The caller may or may not `Reset` the controller between calls.

### RpcMessages and MessageObjects

A message object is its has-bits, its values and its unknown fields; a wire is a
sequence of elements, among them fields this version does not know, an end tag
and a field cut off by the end of the data. `Clear` skips by has-bits as the
generated code does, an invalid status goes to the unknown fields, parsing is a
fold over the wire that keeps what it has read when it fails. `MessageObjects`
lets two objects of either class go through every sequence of operations the
generated interface allows. The library itself parses into fresh objects only.

### Packet

One buffer and the calls of `expand_packet` on it, one step per turn of the
loop, in the arithmetic of an unsigned type with `Limit` values.

## 3. Runs

| Run | Instance | Question |
|---|---|---|
| `channel` | 3 calls, 1 with a timeout, all faults | safety of the channel, that it implements `RpcCall`, and that calls return |
| `server` | 3 connections, 2 requests each, all faults | order and multiplicity, bookkeeping, accepting, answering |
| `threaded` | 2 clients, 2 descriptor numbers, all faults | what threads that share numbers do to each other, what is released, what `Stop` leaves |
| `simple` | 2 clients, 2 objects, 2 requests of one and 1 of the other, all faults, restarts | pool, descriptors, events and buffers agree; requests are served unless the reactor waits |
| `blocking` | 3 calls, 2 addresses, both peers, all faults | own response, earned success, no leaked socket, calls return |
| `messages` | 2 objects, wires of up to 2 elements, 1 unknown field | parsing forgets, round trip, merging, sizes |
| `packet` | 8-bit size, all lengths, failing allocations | what `expand_packet` leaves, and when it returns |

Why the bounds are enough. In the channel the interesting cases need two calls
that share a socket, a third that finds the connection after their teardown, and
calls with and without a timer: the timed one, the second, may connect before or
after the others. The handler that a closed socket leaves
behind meets the next socket, and a third one after that. Two verdicts differ, so
a response given to the wrong call shows. In the asynchronous server one connection is served, one
is abandoned or destroyed and one waits in the acceptor; the second request of a
connection is one that was sent ahead. In the threaded server a thread, the
number it has lost and the thread of the client that got the number are the
whole story; two numbers let it happen with and without a free one. In the simple
server the second client gets the object the first has left, or a new one while
the first is in use; one of them sends two requests, so that a buffer is used
twice by one client as well. In the blocking channel the second call meets what the first
has left in the stream or in the controller, and the third what the second has
left after recovering or not. An object of `MessageObjects` becomes half filled by one
parse and is parsed into again by the next. An 8-bit size wraps after eight
doublings, as a 32-bit one does after 32. All but `packet` issue a bounded number
of calls, connections or requests, or end with their process, so they stop when
the bound is used up and deadlock is not checked there; in `messages` a bound on
unknown fields does the same.

Fairness, all of it weak: nothing disables these steps once they are enabled
except a step that makes them unnecessary.

* `channel`: fairness is a hypothesis of the property. `TimedCallsReturn` assumes
  `TimerFairness` (timers expire and the `io_service` runs their handlers) and
  nothing of the network; `CallsReturn` assumes `IoFairness` (operations given to
  the `io_service` complete, and the server answers what it has received) and
  nothing of timers. Nothing is assumed of reads that are out of step, so
  `CallsReturn` excepts the calls of a connection whose loops stay out of step for
  ever: without a timeout such a call need not return.
* `server`: `ServeFairness`, hypothesis of `EveryRequestAnswered`: operations that
  can complete do, and their handlers run.
* `threaded`: the system schedules every thread, and reads that can end do.
  `ThreadsEnd` excepts a thread whose `errno` is `EINTR` at the end of its stream.
* `simple`: the reactor dispatches what is readable, and a callback that can go on
  does. Nothing is assumed of the clients. `RequestsServed` excepts the states in
  which the code cannot go on: `ReactorWaits` (one client that sends half a header
  stops the server for all), a client whose event could not be added or is not
  heeded, and the connections that a first `Run` has left behind.
* `blocking`: system calls that can return do, and a peer that has a request
  answers it or closes the connection. `CallsReturn` names the two cases in which
  a call does not return even so: a header taken from the bytes of an old body,
  and an end of stream while `errno` holds `EINTR`, on which `read_n` loops.
* `packet`: a running call is scheduled.

### What the code does not do

Five runs are expected to end in a counterexample. Each states what a comment of
the source says.

* `channel_reconnect`: two calls are issued before the connection is up, and both
  resolve. While the connect of one is in progress, the other's resolution
  completes and connects the same socket again, which aborts that connect: its
  call ends with `EC_CONNECTION_FAILED`, and its `destroy` closes the socket under
  the connect of the other. No fault and no timeout is needed.
* `server_response_size`: `respond_to_client` makes room for the size of the
  request, not of the response.
* `server_unknown_method`: answering a request for an unknown method
  dereferences a null response in a log statement. (The other servers do the
  same; their models end the process there too.)
* `threaded_answers`: a client's connection is closed under its thread, which
  goes on with the number and answers on the connection of the client that was
  given it; a response reaches a client that did not ask.
* `blocking_servers`: the blocking channel never sets the required `id`; each of
  the three servers refuses such a request, so no call of a blocking channel
  ever runs a method.

## 4. Proofs

Every invariant and every action property that the runs check, and the
refinement of `RpcCall`, is proved for all values of the constants. `PROJECT.json`
lists the theorems with the property each one states.

`AsyncChannelProofs` proves, from `ChannelAssumption` alone (any number of calls,
any set of timed calls, any verdicts, any faults):

* `Invariance`: the inductive invariant `IInv`, and from it `TypeCorrect`,
  `ClosuresRunOnce`, `NoCallIsLost`, `TimersGuardCalls`, `ResultsAreVerdicts`,
  `ConnectionIsConsistent`;
* `TeardownIsComplete`: an action property;
* `ChannelImplementsCalls`: `Spec => CallsSpec`, the refinement of `RpcCall`.

The argument. `NoLostCall` says that an unfinished call still connects, is
awaited, or is outgoing on a connection whose sockets got mixed up (`MixedUp`: a
completed operation of an earlier socket is still to be applied to the present
one, or the loops are out of step). It is not inductive alone: that a response
will reach a call needs the read loop of the same socket to run and a connected
socket to be read at all (`SocketState`), that a step of one call leaves another
alone needs to know that calls not yet issued have nothing outstanding
(`Unissued`), and that `called` and `runs` agree (`RunsOnce`). `IInv` is the
conjunction of these with the types. Four lemmas carry the proof. `RunDoneLemma`:
running closures as the handlers do keeps `RunsOnce` and is `Progress`: calls only
become finished, with a local failure or the server's own verdict, and all other
results stay. `AbortReadsLemma`: a close loses no read; each becomes a queued
handler, and so a call that waited for it is still awaited, or mixed up.
`DestroyLemma`: `destroy` re-establishes the whole of `IInv` from any state a
handler leaves, provided that every outgoing call, and every call whose operation
the handler has consumed, is failed by it or by the handler; every error path is
one application of it. `AsyncConnectStep` and `QueuedReadStep` are the two ends of
the hard case: a socket that is replaced, and a handler that goes on with the new
one. The refinement needs only `Progress`: a step that issues nothing finishes
`called' \ called`, and `CallMethod` issues the next call or rejects it.

`AsyncServerProofs` proves `TypeCorrect`, `AnswersAreInOrder`, `MethodsRunOnce`,
`ConnectionsAreTracked` and `ServerKeepsAccepting` from `ServerAssumption`. The
invariant adds `Cycle`, what the outstanding operation of a connection says of
its socket, its request and how far execution is ahead of the responses (a
connection that writes is exactly one ahead, and that is why the response it
then sends is the one to the request it executed), and `AcceptLost`: without an
accept outstanding there is a connection that `serve()` abandoned, and since it
has no operation it stays as it is. `HistoryLemma` and `DestroyLemma` handle
every step that executes and answers nothing.

The buffers have an invariant of their own, `BufferOK` (`BufferInvariance`): the
block is as large as the code believes, unless `realloc` has failed and the
connection was given up, and what is being read fits into it. It rests on
`GrownLemma`: the doublings of `expand_packet` pass any length in the end. Two
theorems then delimit the defects that two of the runs show.
`SmallResponsesFit`: if no response is larger than the parameter of its request,
every response that is sent fits into the block. `ServerSurvives`: if, besides,
every method is known and the server is not deleted while it serves, the process
stays alive under every other fault.

`ThreadedServerProofs` proves `TypeCorrect`, `ThreadsAreConfined`,
`DescriptorsAreReleased` and `AtMostOneLateClient` from `ThreadedAssumption`. The
invariant adds `TableAgrees`: an accepted connection that nobody has closed is in
the table under the number of its thread, and the table holds nothing else. So a
thread that finds another client under its number has lost its own connection,
and a thread that closes its number at its end leaves its own connection closed,
by itself or by whoever closed the number before. A late client has been accepted
by a `Run` that will see `stopped` next.

`SimpleServerProofs` proves `TypeCorrect`, `PoolIsSound`, `NoDescriptorForgotten`,
`AllWatched` and the action property `CallsFit`. `PoolSound` is not inductive
alone: that an object taken from the pool or newly made is in use by nobody
needs `PoolAgrees` (the flag of an object, the map, the reactor and the running
callback agree on which objects serve a client, and new objects were never used),
and that a buffer holds a call needs `SizeIsHonest`, because the code compares
lengths with `size` and not with the block.

`BlockingChannelProofs` proves `TypeCorrect`, `CallsGetTheirOwn`,
`NoUnearnedSuccess` and `SocketsClosed`. The invariant's core is `Exchange`: as
long as no body was left in the stream, the stream is empty between two calls,
and during one it holds the request, then the response to it, or as much of that
as came before the connection closed. So whatever a call reads is an answer to
itself. `Unknown` says that outcomes are recorded only when calls return, which
keeps `SuccessIsEarned` while answers arrive. That a success was earned is a
statement about the wire the response was parsed from; `ParsedResponse` traces
the has-bits and the status of the parsed message back to the elements of that
wire, for wires of any length.

`RpcMessagesProofs` shows that the parsing loop, a fold, runs element by element
(`MergeEmpty`, `MergeOne`, `MergeConcat`) and what it keeps (`MergeInvariant`).
The provers cannot instantiate the library's induction rules, whose parameter is
a predicate; the lemma `Induction` there, and in `AsyncServerProofs`, states
induction for a set of numbers, derived from the well-foundedness of `<`, and that
form can be cited.

`MessageObjectsProofs` proves `TypeCorrect`, `ParseDependsOnWire`, `WireKeepsAll`,
`ReadingMerges` and `SizesAreRight` for any values, wires and numbers of unknown
fields. The invariant is `WellFormed`: a field whose bit is not set has its
default (why `Clear` may skip it, and so why `ParseFromArray` forgets), a status is
one of the enumeration, and an unknown field is one the class will not know next
time either (why the round trip restores it as unknown).

`PacketProofs` proves `TypeCorrect`, `ExpandKeepsContract` and `SizesAreHonest` for
every `Limit` greater than 1. The invariant adds that in the loop the size is
either positive or below `n`, so that a wrapped size never reaches `realloc`.

Only model-checked are the liveness properties, because fairness and `ENABLED` are
outside the prover's reach: `TimedCallsReturn`, `CallsReturn` (of both channels),
`EveryRequestAnswered`, `ThreadsEnd`, `RequestsServed` and
`ReturnsIfRepresentable`. The five properties that do not hold are of course not
proved either.

## 5. Plan

Done: both channels, the three servers, the messages and the packet buffer; the
abstract specification of the asynchronous channel and its refinement; handlers
queued across the replacement of a socket; the loop of `read_n` on an old `EINTR`
in everything that calls it; proofs of every safety property of every component.

Left, in this order:

1. Proofs that delimit the other defects as `SmallResponsesFit` and
   `ServerSurvives` do: the asynchronous channel, when no call is issued before
   the connection is up; the threaded server, when no connection is closed under
   its thread; the simple server, when every method is known.
2. The safety half of the liveness properties: a variant for the loop of
   `expand_packet`, and that a connection with an unanswered request always has
   an operation outstanding.
3. The bytes of overlapping `async_write`s and of read loops out of step, with the
   lengths of a packet in 32-bit arithmetic.
4. `RpcSystem`: the asynchronous channel and the asynchronous server composed; a
   call is executed at most once, and exactly once if it succeeds.

## 6. Not modelled

* `CallMethod` in a thread of its own beside the `io_service` thread: what
  unsynchronized operations on a `std::map` leave behind is undefined, and a
  model that lets anything happen shows nothing.
* `arithmetic.pb.{h,cc}` and the programs under `examples/`: uses of the library,
  read for how it is driven.
* Descriptors, reflection, and the registration and destruction of default
  instances in the generated code: tables for the protobuf library, no behaviour
  of this one.
* `resolve_hostname`, `create_nonblocking_tcp_socket` and `set_fd_nonblocking` in
  `utils.cpp`, which nothing in the library calls.
* Cancellation in the controller, which nothing consults, error texts and
  logging, except where a log statement dereferences its argument.
