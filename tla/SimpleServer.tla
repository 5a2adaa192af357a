---------------------------- MODULE SimpleServer ----------------------------
(***************************************************************************)
(* CarrotSimpleServer: one thread, one reactor.  Its callbacks accept      *)
(* clients and serve one request at a time with blocking reads and writes; *)
(* while a request is only half there the reactor, and with it every other *)
(* client, waits.  rpc_connection objects are pooled: a connection that is *)
(* destroyed goes to conns_unused with its buffer and is used again for    *)
(* another client.                                                         *)
(*                                                                         *)
(* The reactor (libcheetah) is external: it calls the callback of a        *)
(* registered descriptor that is readable, one at a time.  Objects are     *)
(* numbered in the order of their creation.  Clients are external too; the *)
(* sizes of requests and responses are in arbitrary units.  Of errno, which *)
(* read_n tests whether read failed or came to the end of the stream, it   *)
(* matters if it is EINTR.                                                 *)
(***************************************************************************)
EXTENDS Naturals, Sequences

CONSTANTS Clients,      \* the clients that may connect, each at most once
          None,         \* no client
          MaxObjects,   \* bound on the rpc_connections created
          MaxRequests,  \* bound on the requests each client sends
          Requests,     \* the requests clients may send
          Faults        \* what may fail, a subset of FaultKinds

Object == 1..MaxObjects

\* "read", "write": the call fails although the client is there; "oom": realloc
\* or new fails; "event": reactor_add_event fails; "sigpipe": SIGPIPE is not
\* ignored, so that writing to a client that is gone may end the process;
\* "signal": a handled signal interrupts a call; "flags": the reactor reports a
\* client that has gone with more flags than E_READ.
FaultKinds == {"read", "write", "oom", "event", "sigpipe", "signal", "flags"}

\* "garbled": metadata or parameter cannot be parsed; "unknown": no such service
\* or method; else the method returns, having failed or not, or throws.
Outcomes == {"garbled", "unknown", "returns", "throws"}

ASSUME SimpleAssumption ==
    /\ None \notin Clients
    /\ MaxObjects \in Nat
    /\ MaxRequests \in [Clients -> Nat]
    /\ Requests \subseteq [outcome : Outcomes, req : Nat \ {0}, resp : Nat \ {0}]
    /\ Faults \subseteq FaultKinds

VARIABLES
    alive,          \* the process runs
    eintr,          \* errno is EINTR
    phase,          \* of the server: "idle", "loop" (in reactor_loop), "deleted"
    get_out,        \* reactor_get_out was called
    restarted,      \* Run has returned before
    busy,           \* the object whose handle_client runs, 0 for none
    created,        \* number of objects created
    conns_unused,   \* the vector of that name
    conns_in_use,   \* the objects of the map of that name
    events,         \* the objects whose event the reactor watches
    client_fd,      \* the client each object's client_fd is connected to
    live,           \* objects whose member `alive' is true
    size,           \* the member of that name
    block,          \* the bytes p points to, 0 for NULL
    conn,           \* the clients' connections: "away", "backlog", "open", "closed"
    refused,        \* clients whose event could not be added
    left,           \* clients that have closed their end
    flagged,        \* those whose events have more flags than E_READ
    sent,           \* the requests each client has begun to send
    half,           \* clients whose last request is not complete
    done            \* how many requests of each client have been answered

poolVars == <<created, conns_unused, conns_in_use, events, client_fd, live>>
clientVars == <<left, flagged, sent, half>>
bufferVars == <<size, block>>
vars == <<alive, eintr, phase, get_out, restarted, busy, poolVars, bufferVars, conn,
          refused, clientVars, done>>

TypeOK ==
    /\ alive \in BOOLEAN
    /\ eintr \in BOOLEAN
    /\ phase \in {"idle", "loop", "deleted"}
    /\ get_out \in BOOLEAN
    /\ restarted \in BOOLEAN
    /\ busy \in 0..MaxObjects
    /\ created \in 0..MaxObjects
    /\ conns_unused \in Seq(Object)
    /\ conns_in_use \in SUBSET Object
    /\ events \in SUBSET Object
    /\ client_fd \in [Object -> Clients \cup {None}]
    /\ live \in SUBSET Object
    /\ size \in [Object -> Nat]
    /\ block \in [Object -> Nat]
    /\ conn \in [Clients -> {"away", "backlog", "open", "closed"}]
    /\ refused \in SUBSET Clients
    /\ left \in SUBSET Clients
    /\ flagged \in SUBSET Clients
    /\ sent \in [Clients -> Seq(Requests)]
    /\ half \in SUBSET Clients
    /\ done \in [Clients -> Nat]

Init ==
    /\ alive = TRUE
    /\ eintr = FALSE
    /\ phase = "idle"
    /\ get_out = FALSE
    /\ restarted = FALSE
    /\ busy = 0
    /\ created = 0
    /\ conns_unused = <<>>
    /\ conns_in_use = {}
    /\ events = {}
    /\ client_fd = [o \in Object |-> None]
    /\ live = {}
    /\ size = [o \in Object |-> 0]
    /\ block = [o \in Object |-> 0]
    /\ conn = [c \in Clients |-> "away"]
    /\ refused = {}
    /\ left = {}
    /\ flagged = {}
    /\ sent = [c \in Clients |-> <<>>]
    /\ half = {}
    /\ done = [c \in Clients |-> 0]

-----------------------------------------------------------------------------
(* The clients (external).                                                 *)

serverVars == <<alive, eintr, phase, get_out, restarted, busy, poolVars, bufferVars,
                 refused, done>>

client_connect(c) ==
    /\ alive /\ phase # "deleted"
    /\ conn[c] = "away"
    /\ conn' = [conn EXCEPT ![c] = "backlog"]
    /\ UNCHANGED <<serverVars, clientVars>>

\* The server may still take notice of what c does.
Heeded(c) ==
    /\ alive /\ phase # "deleted"
    /\ conn[c] \in {"backlog", "open"} /\ c \notin left \cup refused

\* The first bytes of a request, and the others.
client_begin(c, r) ==
    /\ Heeded(c) /\ c \notin half
    /\ Len(sent[c]) < MaxRequests[c]
    /\ sent' = [sent EXCEPT ![c] = Append(@, r)]
    /\ half' = half \cup {c}
    /\ UNCHANGED <<serverVars, conn, left, flagged>>

client_finish(c) ==
    /\ Heeded(c) /\ c \in half
    /\ half' = half \ {c}
    /\ UNCHANGED <<serverVars, conn, left, flagged, sent>>

client_leave(c) ==
    /\ Heeded(c)
    /\ left' = left \cup {c}
    /\ \/ UNCHANGED flagged
       \/ "flags" \in Faults /\ flagged' = flagged \cup {c}
    /\ UNCHANGED <<serverVars, conn, sent, half>>

-----------------------------------------------------------------------------
(* What the callbacks share.                                               *)

\* The object handle_client may run for.  client_callback returns at once from an
\* event that is not exactly E_READ, which changes nothing.
Ready(o) ==
    /\ alive /\ phase = "loop" /\ busy = 0 /\ o \in events
    /\ client_fd[o] \notin flagged

\* Mutant: the connection stays in conns_in_use.
destroy_rpc_connection_keeps(o) ==
    /\ events' = events \ {o}
    /\ conn' = IF o \in live THEN [conn EXCEPT ![client_fd[o]] = "closed"] ELSE conn
    /\ live' = live \ {o}
    /\ conns_unused' = Append(conns_unused, o)
    /\ busy' = 0
    /\ UNCHANGED <<created, conns_in_use, client_fd>>

\* Mutant: the reactor goes on watching the connection.
destroy_rpc_connection_watched(o) ==
    /\ conn' = IF o \in live THEN [conn EXCEPT ![client_fd[o]] = "closed"] ELSE conn
    /\ live' = live \ {o}
    /\ conns_unused' = Append(conns_unused, o)
    /\ conns_in_use' = conns_in_use \ {o}
    /\ busy' = 0
    /\ UNCHANGED <<created, events, client_fd>>

\* Mutant: the flag is cleared and the descriptor is not closed.
destroy_rpc_connection_open(o) ==
    /\ events' = events \ {o}
    /\ live' = live \ {o}
    /\ conns_unused' = Append(conns_unused, o)
    /\ conns_in_use' = conns_in_use \ {o}
    /\ busy' = 0
    /\ UNCHANGED <<created, client_fd, conn>>

\* Mutant: the descriptor goes to the pool instead of the object.
destroy_rpc_connection_pools_fd(o) ==
    /\ events' = events \ {o}
    /\ conn' = IF o \in live THEN [conn EXCEPT ![client_fd[o]] = "closed"] ELSE conn
    /\ live' = live \ {o}
    /\ conns_unused' = Append(conns_unused, client_fd[o])
    /\ conns_in_use' = conns_in_use \ {o}
    /\ busy' = 0
    /\ UNCHANGED <<created, client_fd>>

\* destroy_rpc_connection: the object goes back to the pool with its buffer.  It
\* is the last thing a callback does.
destroy_rpc_connection(o) ==
    /\ events' = events \ {o}
    /\ conn' = IF o \in live THEN [conn EXCEPT ![client_fd[o]] = "closed"] ELSE conn
    /\ live' = live \ {o}
    /\ conns_unused' = Append(conns_unused, o)
    /\ conns_in_use' = conns_in_use \ {o}
    /\ busy' = 0
    /\ UNCHANGED <<created, client_fd>>

\* Mutant: a buffer lost by a failed realloc is not noticed.
NeedsSize(o, n) == size[o] < n

\* if (c->size < size || c->p == NULL)
NeedsBlock(o, n) == size[o] < n \/ block[o] = 0

\* expand_connection_packet grows to exactly n bytes.  For the request and then
\* the response of one call the block need only be looked at once: neither
\* shrinks it.
expand_connection_packet(o, n) ==
    IF NeedsBlock(o, n)
    THEN /\ size' = [size EXCEPT ![o] = n]
         /\ block' = [block EXCEPT ![o] = n]
    ELSE UNCHANGED bufferVars

\* realloc fails: p is NULL, size stays.
expand_connection_packet_fails(o, n) ==
    /\ "oom" \in Faults
    /\ NeedsBlock(o, n)
    /\ block' = [block EXCEPT ![o] = 0]
    /\ UNCHANGED size

-----------------------------------------------------------------------------
(* Running and stopping.                                                   *)

\* Run registers the listening socket, or throws, and loops.  Whether the loop
\* forgets an earlier reactor_get_out is the reactor's business.
Run ==
    /\ alive /\ phase = "idle"
    /\ phase' = "loop"
    /\ get_out' \in {FALSE, get_out}
    /\ UNCHANGED <<alive, eintr, restarted, busy, poolVars, bufferVars, conn, refused,
                   clientVars, done>>

\* Stop, from another thread or from a method.
Stop ==
    /\ alive /\ phase # "deleted" /\ ~get_out
    /\ get_out' = TRUE
    /\ UNCHANGED <<alive, eintr, phase, restarted, busy, poolVars, bufferVars, conn,
                   refused, clientVars, done>>

\* The loop ends between two callbacks; reactor_clean_events removes all events.
Run_return ==
    /\ alive /\ phase = "loop" /\ busy = 0 /\ get_out
    /\ phase' = "idle"
    /\ restarted' = TRUE
    /\ events' = {}
    /\ UNCHANGED <<alive, eintr, get_out, busy, created, conns_unused, conns_in_use,
                   client_fd, live, bufferVars, conn, refused, clientVars, done>>

\* ~CarrotSimpleServer closes and deletes the objects of both containers.
delete_server ==
    /\ alive /\ phase = "idle"
    /\ phase' = "deleted"
    /\ conn' = [c \in Clients |->
                   IF \E o \in live : client_fd[o] = c THEN "closed" ELSE conn[c]]
    /\ live' = {}
    /\ conns_unused' = <<>>
    /\ conns_in_use' = {}
    /\ events' = {}
    /\ UNCHANGED <<alive, eintr, get_out, restarted, busy, created, client_fd, bufferVars,
                   refused, clientVars, done>>

\* A signal interrupts the reactor, or a call of the running callback that waits;
\* or, between two callbacks, another call fails: of the reactor, of a method, or
\* accept, after which handle_listen_sock returns.
call_fails ==
    /\ alive /\ phase = "loop"
    /\ "signal" \in Faults
    /\ eintr' = ~eintr
    /\ busy # 0 => eintr'
    /\ UNCHANGED <<alive, phase, get_out, restarted, busy, poolVars, bufferVars, conn,
                   refused, clientVars, done>>

-----------------------------------------------------------------------------
(* handle_listen_sock.                                                     *)

\* The object for the new connection: the last one of the pool, or a new one.
TakeObject(o) ==
    \/ /\ conns_unused # <<>>
       /\ o = conns_unused[Len(conns_unused)]
       /\ conns_unused' = SubSeq(conns_unused, 1, Len(conns_unused) - 1)
       /\ UNCHANGED created
    \/ /\ conns_unused = <<>>
       /\ created < MaxObjects
       /\ o = created + 1
       /\ created' = o
       /\ UNCHANGED conns_unused

Accept(c) ==
    /\ alive /\ phase = "loop" /\ busy = 0
    /\ conn[c] = "backlog"
    /\ conn' = [conn EXCEPT ![c] = "open"]

handle_listen_sock(c, o) ==
    /\ Accept(c)
    /\ TakeObject(o)
    /\ client_fd' = [client_fd EXCEPT ![o] = c]
    /\ live' = live \cup {o}
    /\ events' = events \cup {o}
    /\ conns_in_use' = conns_in_use \cup {o}
    /\ UNCHANGED <<alive, eintr, phase, get_out, restarted, busy, bufferVars, refused,
                   clientVars, done>>

\* The event cannot be added: the object is deleted; the descriptor stays open.
handle_listen_sock_refused(c, o) ==
    /\ "event" \in Faults
    /\ Accept(c)
    /\ TakeObject(o)
    /\ refused' = refused \cup {c}
    /\ UNCHANGED <<alive, eintr, phase, get_out, restarted, busy, conns_in_use, events,
                   client_fd, live, bufferVars, clientVars, done>>

\* new throws bad_alloc (it does not return NULL), out of a callback of the
\* reactor, which nobody catches.
handle_listen_sock_oom(c) ==
    /\ "oom" \in Faults
    /\ Accept(c)
    /\ conns_unused = <<>>
    /\ alive' = FALSE
    /\ UNCHANGED <<eintr, phase, get_out, restarted, busy, poolVars, bufferVars, refused,
                   clientVars, done>>

-----------------------------------------------------------------------------
(* handle_client.                                                          *)

\* The descriptor of object o is readable: handle_client enters its first read.
handle_client_enter(o) ==
    /\ Ready(o)
    /\ LET c == client_fd[o] IN Len(sent[c]) > done[c] \/ c \in left
    /\ busy' = o
    /\ UNCHANGED <<alive, eintr, phase, get_out, restarted, poolVars, bufferVars, conn,
                   refused, clientVars, done>>

\* The request client c's connection delivers is complete.
Complete(c) == Len(sent[c]) > done[c] + (IF c \in half THEN 1 ELSE 0)

NextRequest(c) == sent[c][done[c] + 1]

Reading(o, c) == alive /\ busy = o /\ c = client_fd[o]

\* read_n fails: read does, or the client has left before its request is complete,
\* unless read_n finds an old EINTR in errno then and reads on for ever.
read_n_fails(c) ==
    \/ "read" \in Faults /\ eintr' = FALSE
    \/ c \in left /\ ~Complete(c) /\ ~eintr /\ UNCHANGED eintr

\* Mutant: a failed read only returns.
handle_client_read_error_returns(o, c) ==
    /\ Reading(o, c)
    /\ read_n_fails(c)
    /\ busy' = 0
    /\ UNCHANGED <<alive, phase, get_out, restarted, poolVars, bufferVars, conn, refused,
                   clientVars, done>>

\* The header cannot be read or, once there is room for it, the rest.
handle_client_read_error(o, c) ==
    /\ Reading(o, c)
    /\ read_n_fails(c)
    /\ \/ UNCHANGED bufferVars
       \/ Len(sent[c]) > done[c] /\ expand_connection_packet(o, NextRequest(c).req)
    /\ destroy_rpc_connection(o)
    /\ UNCHANGED <<alive, phase, get_out, restarted, refused, clientVars, done>>

\* There is no memory for the packet.
handle_client_oom(o, c) ==
    /\ Reading(o, c)
    /\ Len(sent[c]) > done[c]
    /\ expand_connection_packet_fails(o, NextRequest(c).req)
    /\ destroy_rpc_connection(o)
    /\ eintr' = FALSE
    /\ UNCHANGED <<alive, phase, get_out, restarted, refused, clientVars, done>>

handle_client_garbled(o, c) ==
    /\ Reading(o, c)
    /\ Complete(c)
    /\ NextRequest(c).outcome = "garbled"
    /\ expand_connection_packet(o, NextRequest(c).req)
    /\ destroy_rpc_connection(o)
    /\ UNCHANGED <<alive, eintr, phase, get_out, restarted, refused, clientVars, done>>

\* respond_to_client(c, NULL, ...) evaluates resp->DebugString() in its log
\* statement, or the method throws out of the reactor's callback; or the client
\* is gone when the response is written, and SIGPIPE ends the process.
handle_client_crash(o, c) ==
    /\ Reading(o, c)
    /\ Complete(c)
    /\ \/ NextRequest(c).outcome \in {"unknown", "throws"}
       \/ NextRequest(c).outcome = "returns" /\ c \in left /\ "sigpipe" \in Faults
    /\ alive' = FALSE
    /\ UNCHANGED <<eintr, phase, get_out, restarted, busy, poolVars, bufferVars, conn,
                   refused, clientVars, done>>

\* Room for the request, then for the response that overwrites it.
CallSize(r) == IF r.req > r.resp THEN r.req ELSE r.resp

\* The method is called and respond_to_client writes the response.
handle_client_call(o, c) ==
    /\ Reading(o, c)
    /\ Complete(c)
    /\ NextRequest(c).outcome = "returns"
    /\ expand_connection_packet(o, CallSize(NextRequest(c)))
    /\ done' = [done EXCEPT ![c] = @ + 1]
    /\ busy' = 0
    /\ UNCHANGED <<alive, eintr, phase, get_out, restarted, poolVars, conn, refused,
                   clientVars>>

\* The method is called, but respond_to_client has no memory for the response
\* (there was enough for the request), cannot serialize it or cannot write it.
handle_client_no_response(o, c) ==
    /\ Reading(o, c)
    /\ Complete(c)
    /\ NextRequest(c).outcome = "returns"
    /\ LET r == NextRequest(c)
           grown == IF NeedsBlock(o, r.req) THEN r.req ELSE size[o]
       IN
       \/ /\ "oom" \in Faults /\ grown < r.resp
          /\ size' = [size EXCEPT ![o] = grown]
          /\ block' = [block EXCEPT ![o] = 0]
       \/ /\ "write" \in Faults \/ c \in left
          /\ expand_connection_packet(o, CallSize(r))
    /\ eintr' \in {eintr, FALSE}
    /\ destroy_rpc_connection(o)
    /\ UNCHANGED <<alive, phase, get_out, restarted, refused, clientVars, done>>

handle_client(o) ==
    \E c \in Clients :
        \/ handle_client_read_error(o, c) \/ handle_client_oom(o, c)
        \/ handle_client_garbled(o, c) \/ handle_client_crash(o, c)
        \/ handle_client_call(o, c) \/ handle_client_no_response(o, c)

-----------------------------------------------------------------------------

Next ==
    \/ Run \/ Stop \/ Run_return \/ delete_server \/ call_fails
    \/ \E c \in Clients : \/ client_connect(c) \/ client_finish(c) \/ client_leave(c)
                          \/ \E r \in Requests : client_begin(c, r)
                          \/ \E o \in Object : \/ handle_listen_sock(c, o)
                                               \/ handle_listen_sock_refused(c, o)
                          \/ handle_listen_sock_oom(c)
    \/ \E o \in Object : handle_client_enter(o) \/ handle_client(o)

\* The running callback waits in read_n, and everyone with it: for a client that
\* does not finish its request, or for ever at the end of a stream.
ReactorWaits ==
    /\ busy # 0
    /\ ~Complete(client_fd[busy])
    /\ client_fd[busy] \in left => eintr

\* The reactor dispatches what is readable, and a callback that can go on does.
Fairness ==
    /\ \A o \in Object : /\ WF_vars(handle_client_enter(o))
                         /\ WF_vars(~ReactorWaits /\ handle_client(o))
    /\ \A c \in Clients : WF_vars(\E o \in Object : handle_listen_sock(c, o))

Spec == Init /\ [][Next]_vars /\ Fairness

-----------------------------------------------------------------------------
(* Properties.                                                             *)

Unused == {conns_unused[i] : i \in 1..Len(conns_unused)}

\* The pool: an object is never in both containers, nor twice in conns_unused,
\* so two clients never share one; an object in use has its descriptor open,
\* and one in the pool has none and is not watched by the reactor.
PoolSound ==
    /\ \A i, j \in 1..Len(conns_unused) : conns_unused[i] = conns_unused[j] => i = j
    /\ Unused \cap conns_in_use = {}
    /\ \A o \in conns_in_use : o \in live /\ conn[client_fd[o]] = "open"
    /\ \A o, q \in conns_in_use : client_fd[o] = client_fd[q] => o = q
    /\ Unused \cap (live \cup events) = {}

\* No descriptor is forgotten: an open connection belongs to an object in use,
\* unless its event could not be added, and a deleted server has closed it.
OpenIsHeld ==
    \A c \in Clients : conn[c] = "open" /\ alive =>
        c \in refused \/ \E o \in conns_in_use : client_fd[o] = c

\* Until Run returns for the first time the reactor watches exactly the objects
\* in use.  (After that it no longer watches those that Run left behind.)
Watched == ~restarted => events = conns_in_use

\* The buffer is large enough for every request that is answered.
CallFits ==
    [][\A c \in Clients, o \in Object :
          done'[c] > done[c] /\ client_fd[o] = c /\ o \in live =>
              block'[o] >= CallSize(NextRequest(c))]_vars

\* No request is left waiting by an idle reactor: again and again every client
\* has been answered all it has sent, or is disconnected, unless the reactor waits
\* in read_n, the server is stopped, or the client's events are not heeded.
RequestsServed ==
    \A c \in Clients :
        []<>(\/ done[c] = Len(sent[c])
             \/ conn[c] = "closed"
             \/ ~alive \/ phase # "loop" \/ restarted
             \/ c \in refused \cup flagged
             \/ ReactorWaits)

-----------------------------------------------------------------------------
(* The inductive invariant.                                                *)

\* The flag of an object, the map, the reactor and the running callback agree on
\* which objects serve a client, and a new object is one that was never used.
PoolAgrees ==
    /\ live = conns_in_use
    /\ events \subseteq conns_in_use
    /\ Unused \cup conns_in_use \subseteq 1..created
    /\ \A o \in conns_in_use : client_fd[o] \in Clients
    /\ busy # 0 => busy \in events /\ phase = "loop"

\* An object's size is that of its block, unless a realloc has failed.
SizeIsHonest == \A o \in Object : block[o] \in {0, size[o]}

IInv ==
    /\ TypeOK
    /\ PoolAgrees
    /\ PoolSound
    /\ OpenIsHeld
    /\ Watched
    /\ SizeIsHonest

=============================================================================
