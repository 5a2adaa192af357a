---------------------------- MODULE AsyncChannel ----------------------------
(***************************************************************************)
(* The asynchronous client: CarrotAsyncChannel and the RpcClientConnection *)
(* it keeps for one `host:service'.  The connection is a set of callbacks  *)
(* that the io_service dispatches one at a time; each callback is one      *)
(* action here.  What is shared between them, and hard to get right, is    *)
(*   - the socket, which an async_connect silently closes and reopens;     *)
(*   - the handlers that a close leaves behind: they run later, with an    *)
(*     error if the close aborted their operation, with success if it had  *)
(*     already completed -- and then they go on with whatever socket is    *)
(*     open by then;                                                       *)
(*   - one deadline timer per call, whose expiry may already be queued     *)
(*     when the timer is cancelled or armed again;                         *)
(*   - the map of outgoing calls and the `called' flag of each call.       *)
(*                                                                         *)
(* boost.asio is external.  It is modelled from the way the code uses it.  *)
(* An operation completes first and its handler runs later; what the       *)
(* connection does meanwhile matters to the handler only if it closes the  *)
(* socket.  So the completion is a step of its own exactly there: a close  *)
(* finds each operation either still pending, and aborts it, or completed, *)
(* and its handler queued; otherwise the completion and the handler are    *)
(* one step.  Queued handlers run in any order.  A handler that throws     *)
(* leaves io_service::run(), which its caller enters again (as the         *)
(* programs under examples/ do); nothing follows a throw in a handler.     *)
(*                                                                         *)
(* A read loop can get out of step with the stream it reads: it continues  *)
(* a read begun on an earlier socket, or it shares the stream with another *)
(* loop.  What it reads is not modelled: it may fail, go on for ever, or   *)
(* find a whole response by luck.  Bytes of different packets are assumed  *)
(* not to spell the response of an outgoing call.  A packet is written     *)
(* whole: write_op's progress inside a packet is not modelled.             *)
(*                                                                         *)
(* A call is the number `++id_' gives it.  destroy() erases the connection *)
(* from conns(), which returns a copy of the map: the channel's own map    *)
(* keeps it, so there is one connection object for the life of the channel.*)
(***************************************************************************)
EXTENDS Naturals, RpcCodes

CONSTANTS MaxCalls,   \* bound on the calls issued
          Timed,      \* the calls whose controller->timeout() is not TIMEOUT_NEVER
          Verdict,    \* the status the server puts into the response of each call
          Faults      \* what the environment may do, a subset of FaultKinds

CallId == 1..MaxCalls

\* "resolve", "connect", "read", "write": the operation completes with an error
\* that was not provoked by the connection itself; "oom": expand_packet returns
\* -1 or a message cannot be serialized; "garbled": metadata or response cannot
\* be parsed.
FaultKinds == {"resolve", "connect", "read", "write", "oom", "garbled"}

ASSUME ChannelAssumption ==
    /\ MaxCalls \in Nat
    /\ Timed \subseteq CallId
    /\ Verdict \in [CallId -> Status]
    /\ Faults \subseteq FaultKinds

VARIABLES
    id_,             \* the last id given to a call
    socket_,         \* "closed", "opening" (open, connect in progress), "connected"
    connecting_,     \* the flag of that name
    outgoing_tasks,  \* keys of the map of that name
    called,          \* calls whose task->called is true
    runs,            \* how often done->Run() was called for each call
    code,            \* the controller's error code when done->Run() was called
    op,              \* the asynchronous operation each call has outstanding
    armed,           \* calls whose timer is waiting
    fired,           \* calls whose timer has expired and whose handler is queued
    reader,          \* the read of the one loop on the current socket, in step
    torn,            \* the reads on the current socket whose loop is out of step
    queued,          \* queued handlers of reads of sockets that were closed
    received         \* requests the server has on the current connection, unanswered

vars == <<id_, socket_, connecting_, outgoing_tasks, called, runs, code, op,
          armed, fired, reader, torn, queued, received>>

\* A call resolves, connects and writes in this order, one operation at a time.
\* "connect_queued", "connect_failed": the connect had succeeded when its socket was
\* closed, or had not (it was refused, or it is aborted).
Ops == {"none", "resolve", "resolve_cancelled", "connect", "connect_failed",
        "connect_queued", "write", "write_aborted"}

\* The reads a closed socket left behind, by what their handler finds: an error,
\* a part of a packet (its header, or some bytes of header or payload) after
\* which it reads on, or the whole payload of the response of a call.
ReadQueues == [failed : Nat, partial : Nat, whole : SUBSET CallId]

\* The calls issued so far.
Issued == 1..id_

TypeOK ==
    /\ id_ \in 0..MaxCalls
    /\ socket_ \in {"closed", "opening", "connected"}
    /\ connecting_ \in BOOLEAN
    /\ outgoing_tasks \in SUBSET CallId
    /\ called \in SUBSET CallId
    /\ runs \in [CallId -> Nat]
    /\ code \in [CallId -> Code]
    /\ op \in [CallId -> Ops]
    /\ armed \in SUBSET Timed
    /\ fired \in SUBSET Timed
    /\ reader \in {"none", "header", "payload"}
    /\ torn \in Nat
    /\ queued \in ReadQueues
    /\ received \in SUBSET CallId

Init ==
    /\ id_ = 0
    /\ socket_ = "closed"
    /\ connecting_ = FALSE
    /\ outgoing_tasks = {}
    /\ called = {}
    /\ runs = [t \in CallId |-> 0]
    /\ code = [t \in CallId |-> "EC_SUCCESS"]
    /\ op = [t \in CallId |-> "none"]
    /\ armed = {}
    /\ fired = {}
    /\ reader = "none"
    /\ torn = 0
    /\ queued = [failed |-> 0, partial |-> 0, whole |-> {}]
    /\ received = {}

-----------------------------------------------------------------------------
(* What the handlers share.                                                *)

\* Mutant: done->Run() without looking at task->called.
RunDoneAgain(own, e, others) ==
    /\ called' = called \cup own \cup others
    /\ runs' = [t \in CallId |-> IF t \in own \cup others THEN runs[t] + 1 ELSE runs[t]]
    /\ code' = [t \in CallId |-> IF t \in own THEN e
                                 ELSE IF t \in others THEN "EC_FAILED" ELSE code[t]]

\* if (!task->called) { SetFailed(...); done->Run(); called = true; }, for the
\* calls of `own' with error code e and then for those of `others' with the
\* EC_FAILED of the one-argument SetFailed.
RunDone(own, e, others) ==
    LET new == (own \cup others) \ called IN
    /\ called' = called \cup own \cup others
    /\ runs' = [t \in CallId |-> IF t \in new THEN runs[t] + 1 ELSE runs[t]]
    /\ code' = [t \in CallId |-> IF t \notin new THEN code[t]
                                 ELSE IF t \in own THEN e ELSE "EC_FAILED"]

\* Mutant: the timer is armed only for calls on an open socket.
ArmedLate(t) == IF socket_ = "closed" THEN armed ELSE armed \cup ({t} \cap Timed)

\* Mutant: the test for TIMEOUT_NEVER is missing.
ArmedAlways(t) == armed \cup {t}

\* setup_task_timer: cancel, expires_from_now, async_wait, unless TIMEOUT_NEVER.
setup_task_timer(t) == armed \cup ({t} \cap Timed)

\* The operations on the socket that may have succeeded, their handlers not yet run.
\* While the socket connects, its writes wait for the connect.
Completed(o) ==
    {done \in SUBSET {t \in CallId : o[t] \in {"connect", "write"}} :
        socket_ = "connected" \/ done = {} \/ \E t \in done : o[t] = "connect"}

\* close(): operations still pending are aborted.  The successful connect of `done'
\* keeps its handler queued; that of a completed write changes nothing when it runs.
AbortSocketOps(o, done) ==
    [t \in CallId |->
        CASE o[t] = "connect" -> IF t \in done THEN "connect_queued" ELSE "connect_failed"
          [] o[t] = "write"   -> IF t \in done THEN "none" ELSE "write_aborted"
          [] OTHER            -> o[t]]

\* resolver_.cancel(): a resolution not yet under way will complete with an error.
CancelResolves(o) ==
    [t \in CallId |-> IF o[t] = "resolve" THEN "resolve_cancelled" ELSE o[t]]

\* The reads outstanding on the current socket.
Reads == IF reader = "none" THEN torn ELSE 1

\* close(): of the n reads outstanding, those still pending are aborted and the
\* others have read a part of a packet, or the whole payload of a response.
AbortReads(n, q) ==
    /\ reader' = "none"
    /\ torn' = 0
    /\ received' = {}
    /\ \/ \E i \in 0..n :
            /\ i > 0 => torn > 0 \/ received # {}
            /\ queued' = [failed |-> q.failed + (n - i), partial |-> q.partial + i,
                          whole |-> q.whole]
       \/ \E m \in received :
            /\ n > 0 /\ reader = "payload"
            /\ queued' = [failed |-> q.failed, partial |-> q.partial,
                          whole |-> q.whole \cup {m}]

\* The half of destroy() that is about asio: cancel the resolver, cancel the
\* socket's operations and close it.
CloseSocket(o, n, q) ==
    /\ socket_' = "closed"
    /\ \E done \in Completed(o) : op' = CancelResolves(AbortSocketOps(o, done))
    /\ AbortReads(n, q)

\* Mutant: the map is cleared and the closures are forgotten.
DestroyQuietly(own, e, o, n, q, out) ==
    /\ CloseSocket(o, n, q)
    /\ RunDone(own, e, {})
    /\ armed' = armed \ out
    /\ outgoing_tasks' = {}

\* Mutant: every timer is cancelled, also those of calls that still connect.
DestroyAllTimers(own, e, o, n, q, out) ==
    /\ CloseSocket(o, n, q)
    /\ RunDone(own, e, out)
    /\ armed' = {}
    /\ outgoing_tasks' = {}

\* Mutant: outgoing_tasks.clear() is missing.
DestroyWithoutClear(own, e, o, n, q, out) ==
    /\ CloseSocket(o, n, q)
    /\ RunDone(own, e, out)
    /\ armed' = armed \ out
    /\ outgoing_tasks' = out

\* destroy(): close, then cancel the timer and run the closure of every outgoing
\* call.  The handler that calls it has already failed the calls of `own' with
\* code e; it leaves the operations o, n reads on the socket, the queued reads q
\* and the outgoing calls `out'.
destroy(own, e, o, n, q, out) ==
    /\ CloseSocket(o, n, q)
    /\ RunDone(own, e, out)
    /\ armed' = armed \ out
    /\ outgoing_tasks' = {}

\* The errors that make start_call give up before it writes.
PacketErrors == IF "oom" \in Faults THEN {"EC_OOM", "EC_SERIALIZATION_ERROR"} ELSE {}

\* start_call: build the packet, enter the call into outgoing_tasks, set its
\* timer and write; or fail the call through finish_task, which cancels its timer.
start_call(t) ==
    \/ /\ outgoing_tasks' = outgoing_tasks \cup {t}
       /\ armed' = setup_task_timer(t)
       /\ op' = [op EXCEPT ![t] = "write"]
       /\ UNCHANGED <<called, runs, code>>
    \/ \E e \in PacketErrors :
       /\ RunDone({t}, e, {})
       /\ armed' = armed \ {t}
       /\ op' = [op EXCEPT ![t] = "none"]
       /\ UNCHANGED outgoing_tasks

\* A read that is not the next of the one loop of its socket: from now on every
\* loop on this socket is out of step.
read_out_of_step(q) ==
    /\ reader' = "none"
    /\ torn' = Reads + 1
    /\ queued' = q

\* async_read on a closed socket: its handler is queued with an error.
read_closed(q) ==
    /\ queued' = [failed |-> q.failed + 1, partial |-> q.partial, whole |-> q.whole]
    /\ UNCHANGED <<reader, torn>>

\* start_read: the header of the next response, on whatever socket there is.
start_read(q) ==
    \/ socket_ = "closed" /\ read_closed(q)
    \/ socket_ # "closed" /\ Reads > 0 /\ read_out_of_step(q)
    \/ /\ socket_ # "closed" /\ Reads = 0
       /\ reader' = "header"
       /\ queued' = q
       /\ UNCHANGED torn

-----------------------------------------------------------------------------
(* The caller.                                                             *)

\* issue: with a closed socket the call resolves first; with an open one,
\* connected or not, it is written.
issue(t) ==
    /\ id_' = t
    /\ \/ /\ socket_ = "closed"
          /\ op' = [op EXCEPT ![t] = "resolve"]
          /\ connecting_' = TRUE
          /\ armed' = setup_task_timer(t)
          /\ UNCHANGED <<outgoing_tasks, called, runs, code>>
       \/ /\ socket_ # "closed"
          /\ start_call(t)
          /\ UNCHANGED connecting_
    /\ UNCHANGED <<socket_, fired, reader, torn, queued, received>>

\* CallMethod finds the connection, or creates it, and issues the next call.
CallMethod ==
    /\ id_ < MaxCalls
    /\ issue(id_ + 1)

-----------------------------------------------------------------------------
(* The handlers, in the order in which a call meets them.                  *)

\* boost::asio::async_connect: for each endpoint, close the socket, whatever it
\* was used for, and open and connect a new one.
async_connect(t) ==
    /\ \E done \in Completed([op EXCEPT ![t] = "none"]) :
          op' = [AbortSocketOps(op, done) EXCEPT ![t] = "connect"]
    /\ socket_' = "opening"
    /\ AbortReads(Reads, queued)
    /\ UNCHANGED <<id_, connecting_, outgoing_tasks, called, runs, code, armed, fired>>

\* A cancelled resolution may have been finished when cancel() came: then it
\* still succeeds.
handle_resolve_ok(t) ==
    /\ op[t] \in {"resolve", "resolve_cancelled"}
    /\ async_connect(t)

handle_resolve_error(t) ==
    /\ \/ op[t] = "resolve_cancelled"
       \/ op[t] = "resolve" /\ "resolve" \in Faults
    /\ destroy({t}, "EC_ERROR", [op EXCEPT ![t] = "none"], Reads, queued, outgoing_tasks)
    /\ UNCHANGED <<id_, connecting_, fired>>

\* An endpoint refused, or its refusal is handled while the socket is open again:
\* async_connect goes on with the next endpoint.
connect_next(t) ==
    /\ "connect" \in Faults
    /\ \/ op[t] = "connect"
       \/ op[t] = "connect_failed" /\ socket_ # "closed"
    /\ async_connect(t)

\* A connect succeeded.  connect_op asks whether the socket is open, so that a queued
\* success fails on a closed socket and counts on one that is open again.
Connected(t) ==
    \/ op[t] = "connect"
    \/ op[t] = "connect_queued" /\ socket_ # "closed"

\* Mutant: connecting_ is never taken back.
handle_connect_keeps_flag(t) ==
    /\ Connected(t)
    /\ start_call(t)
    /\ start_read(queued)
    /\ socket_' = IF op[t] = "connect" THEN "connected" ELSE socket_
    /\ UNCHANGED <<id_, connecting_, fired, received>>

\* Mutant: the connection's read loop is not started.
handle_connect_no_loop(t) ==
    /\ Connected(t)
    /\ connecting_' = FALSE
    /\ start_call(t)
    /\ socket_' = IF op[t] = "connect" THEN "connected" ELSE socket_
    /\ UNCHANGED <<id_, fired, reader, torn, queued, received>>

\* Connected: the call is written and a read loop starts.
handle_connect_ok(t) ==
    /\ Connected(t)
    /\ connecting_' = FALSE
    /\ start_call(t)
    /\ start_read(queued)
    /\ socket_' = IF op[t] = "connect" THEN "connected" ELSE socket_
    /\ UNCHANGED <<id_, fired, received>>

\* Connected, but start_read has no memory for the header.
handle_connect_no_read(t) ==
    /\ Connected(t)
    /\ "oom" \in Faults
    /\ connecting_' = FALSE
    /\ \/ destroy({}, "EC_FAILED", [op EXCEPT ![t] = "write"], Reads, queued,
                  outgoing_tasks \cup {t})
       \/ \E e \in PacketErrors :
             destroy({t}, e, [op EXCEPT ![t] = "none"], Reads, queued,
                     outgoing_tasks \cup {t})
    /\ UNCHANGED <<id_, fired>>

\* The connect failed, or its socket was closed before its handler runs.
ConnectFailed(t) ==
    \/ op[t] = "connect_failed"
    \/ op[t] = "connect_queued" /\ socket_ = "closed"
    \/ op[t] = "connect" /\ "connect" \in Faults

\* Mutant: the connecting call is not failed; only the outgoing calls are.
handle_connect_error_loses(t) ==
    /\ ConnectFailed(t)
    /\ destroy({}, "EC_FAILED", [op EXCEPT ![t] = "none"], Reads, queued, outgoing_tasks)
    /\ UNCHANGED <<id_, connecting_, fired>>

handle_connect_error(t) ==
    /\ ConnectFailed(t)
    /\ destroy({t}, "EC_CONNECTION_FAILED", [op EXCEPT ![t] = "none"], Reads, queued,
               outgoing_tasks)
    /\ UNCHANGED <<id_, connecting_, fired>>

\* The request reaches the server.  A write queued on a socket that still
\* connects waits behind the connect.
handle_write_ok(t) ==
    /\ op[t] = "write"
    /\ socket_ = "connected"
    /\ op' = [op EXCEPT ![t] = "none"]
    /\ received' = received \cup {t}
    /\ UNCHANGED <<id_, socket_, connecting_, outgoing_tasks, called, runs, code,
                   armed, fired, reader, torn, queued>>

handle_write_error(t) ==
    /\ \/ op[t] = "write_aborted"
       \/ op[t] = "write" /\ socket_ = "connected" /\ "write" \in Faults
    /\ destroy({t}, "EC_TRANSPORT_ERROR", [op EXCEPT ![t] = "none"], Reads, queued,
               outgoing_tasks)
    /\ UNCHANGED <<id_, connecting_, fired>>

\* The header of a response arrives; the payload is read next.
handle_read_header_ok ==
    /\ reader = "header"
    /\ received # {}
    /\ reader' = "payload"
    /\ UNCHANGED <<id_, socket_, connecting_, outgoing_tasks, called, runs, code, op,
                   armed, fired, torn, queued, received>>

\* The header cannot be read, or there is no memory for the payload.
handle_read_header_error ==
    /\ reader = "header" /\ {"read", "oom"} \cap Faults # {}
    /\ destroy({}, "EC_FAILED", op, 0, queued, outgoing_tasks)
    /\ UNCHANGED <<id_, connecting_, fired>>

\* The payload cannot be read, or its metadata cannot be parsed.
handle_read_payload_error ==
    /\ reader = "payload" /\ {"read", "garbled"} \cap Faults # {}
    /\ destroy({}, "EC_FAILED", op, 0, queued, outgoing_tasks)
    /\ UNCHANGED <<id_, connecting_, fired>>

\* A loop out of step fails to read, to allocate what it took for a length, or
\* to parse what it took for a response.
handle_read_torn_error ==
    /\ torn > 0
    /\ destroy({}, "EC_FAILED", op, torn - 1, queued, outgoing_tasks)
    /\ UNCHANGED <<id_, connecting_, fired>>

\* The codes a response of call m can leave in the controller: that of the
\* status, or EC_SERIALIZATION_ERROR when the response message does not parse.
ResponseCodes(m) ==
    {CodeOf(Verdict[m])} \cup (IF "garbled" \in Faults THEN {"EC_SERIALIZATION_ERROR"} ELSE {})

\* Mutant: a response is given to the oldest outgoing call, not looked up by id.
handle_read_payload_in_order(m) ==
    /\ reader = "payload"
    /\ m \in received
    /\ received' = received \ {m}
    /\ reader' = "header"
    /\ \/ /\ outgoing_tasks = {}
          /\ UNCHANGED <<outgoing_tasks, armed, called, runs, code>>
       \/ /\ outgoing_tasks # {}
          /\ \E e \in ResponseCodes(m), t \in outgoing_tasks :
                /\ \A u \in outgoing_tasks : t <= u
                /\ RunDone({t}, e, {})
                /\ outgoing_tasks' = outgoing_tasks \ {t}
                /\ armed' = armed \ {t}
    /\ UNCHANGED <<id_, socket_, connecting_, op, fired, torn, queued>>

\* handle_read_payload from the lookup of the call on.  A call not outgoing (it
\* timed out) is discarded; otherwise it leaves the map and finish_task cancels
\* its timer and runs its closure.
finish_call(m) ==
    \/ /\ m \notin outgoing_tasks
       /\ UNCHANGED <<outgoing_tasks, armed, called, runs, code>>
    \/ /\ m \in outgoing_tasks
       /\ outgoing_tasks' = outgoing_tasks \ {m}
       /\ armed' = armed \ {m}
       /\ \E e \in ResponseCodes(m) : RunDone({m}, e, {})

\* The response of call m arrives, and the next header is read (start_read finds
\* the buffer large enough, so it cannot fail here).  Loops that are out of step
\* stay so.
handle_read_payload_ok(m) ==
    /\ m \in received
    /\ received' = received \ {m}
    /\ \/ reader = "payload" /\ reader' = "header"
       \/ torn > 0 /\ UNCHANGED reader
    /\ finish_call(m)
    /\ UNCHANGED <<id_, socket_, connecting_, op, fired, torn, queued>>

\* The handler of a read that a close aborted, or that found the socket closed.
\* It destroys whatever connection there is by now.
handle_read_failed ==
    /\ queued.failed > 0
    /\ destroy({}, "EC_FAILED", op, Reads, [queued EXCEPT !.failed = @ - 1], outgoing_tasks)
    /\ UNCHANGED <<id_, connecting_, fired>>

\* The handler of a read that had read a part when its socket was closed reads on,
\* from the socket there is by now.
handle_read_partial ==
    /\ queued.partial > 0
    /\ LET q == [queued EXCEPT !.partial = @ - 1] IN
       \/ socket_ = "closed" /\ read_closed(q)
       \/ socket_ # "closed" /\ read_out_of_step(q)
    /\ UNCHANGED <<id_, socket_, connecting_, outgoing_tasks, called, runs, code, op,
                   armed, fired, received>>

\* The part was a header and there is no memory for its payload.
handle_read_partial_error ==
    /\ queued.partial > 0
    /\ "oom" \in Faults
    /\ destroy({}, "EC_FAILED", op, Reads, [queued EXCEPT !.partial = @ - 1], outgoing_tasks)
    /\ UNCHANGED <<id_, connecting_, fired>>

\* The handler of a read that had the whole payload when its socket was closed.
\* The buffer p_ is the connection's: a read of a later socket may have
\* overwritten it, and then the call is not found.
handle_read_whole(m) ==
    /\ m \in queued.whole
    /\ start_read([queued EXCEPT !.whole = @ \ {m}])
    /\ \/ finish_call(m)
       \/ UNCHANGED <<outgoing_tasks, armed, called, runs, code>>
    /\ UNCHANGED <<id_, socket_, connecting_, op, fired, received>>

\* What is in p_ by now cannot be parsed.
handle_read_whole_error(m) ==
    /\ m \in queued.whole
    /\ destroy({}, "EC_FAILED", op, Reads, [queued EXCEPT !.whole = @ \ {m}], outgoing_tasks)
    /\ UNCHANGED <<id_, connecting_, fired>>

\* Timer expiry (external): from now on cancelling the timer has no effect.  A
\* timer armed again expires after the handler of its first expiry has run.
expire(t) ==
    /\ t \in armed \ fired
    /\ armed' = armed \ {t}
    /\ fired' = fired \cup {t}
    /\ UNCHANGED <<id_, socket_, connecting_, outgoing_tasks, called, runs, code, op,
                   reader, torn, queued, received>>

\* The handler of an expired timer.  With the connecting_ flag up it destroys the
\* connection as well.  (A cancelled wait also calls it, and it does nothing.)
handle_timeout(t) ==
    /\ t \in fired
    /\ fired' = fired \ {t}
    /\ \/ /\ connecting_
          /\ destroy({t}, "EC_RPC_TIMEOUT", op, Reads, queued, outgoing_tasks \ {t})
       \/ /\ ~connecting_
          /\ RunDone({t}, "EC_RPC_TIMEOUT", {})
          /\ outgoing_tasks' = outgoing_tasks \ {t}
          /\ UNCHANGED <<socket_, op, armed, reader, torn, queued, received>>
    /\ UNCHANGED <<id_, connecting_>>

-----------------------------------------------------------------------------

handle_resolve(t) == handle_resolve_ok(t) \/ handle_resolve_error(t)

handle_connect(t) ==
    handle_connect_ok(t) \/ handle_connect_no_read(t) \/ handle_connect_error(t)

handle_write(t) == handle_write_ok(t) \/ handle_write_error(t)

\* The handlers of the reads of the current socket.
handle_read ==
    \/ handle_read_header_ok \/ handle_read_header_error
    \/ handle_read_payload_error \/ \E m \in CallId : handle_read_payload_ok(m)

\* The handlers of the reads of earlier sockets.
handle_queued_read ==
    \/ handle_read_failed
    \/ handle_read_partial \/ handle_read_partial_error
    \/ \E m \in CallId : handle_read_whole(m) \/ handle_read_whole_error(m)

Next ==
    \/ CallMethod
    \/ \E t \in CallId : \/ handle_resolve(t)
                         \/ connect_next(t)
                         \/ handle_connect(t)
                         \/ handle_write(t)
                         \/ expire(t)
                         \/ handle_timeout(t)
    \/ handle_read
    \/ handle_queued_read
    \/ handle_read_torn_error

Spec == Init /\ [][Next]_vars

\* Timers expire and the io_service runs the handlers of expired timers: what
\* the library may rely on when the server never answers.
TimerFairness == \A t \in CallId : WF_vars(expire(t)) /\ WF_vars(handle_timeout(t))

\* Every operation given to the io_service completes, and the server answers
\* the requests it has received.  A call has one operation at a time.  Nothing is
\* assumed of a read that is out of step: it may wait for ever for the bytes of a
\* length that never was one.
IoFairness ==
    /\ \A t \in CallId : WF_vars(handle_resolve(t) \/ handle_connect(t) \/ handle_write(t))
    /\ WF_vars(handle_read)
    /\ WF_vars(handle_queued_read)

-----------------------------------------------------------------------------
(* Properties.                                                             *)

\* The closure of a call, which may delete itself (NewCallback), is run at most
\* once although seven handlers may run it; task->called says whether it was.
RunsOnce == \A t \in CallId : runs[t] = IF t \in called THEN 1 ELSE 0

\* Call t has an operation of its own outstanding whose failure finishes it.
Connecting(t) == op[t] \in {"resolve", "resolve_cancelled", "connect", "connect_failed",
                            "connect_queued"}

\* The sockets of the connection got mixed up: a completed read or connect of an
\* earlier socket is still to be handled, a read already waits on a socket that
\* is only connecting, or the loops of the socket are out of step.
MixedUp == \/ queued.partial > 0 \/ queued.whole # {}
           \/ \E t \in CallId : op[t] = "connect_queued"
           \/ socket_ = "opening" /\ reader # "none"
           \/ torn > 0

\* Call t is outgoing and something outstanding will finish it: the server has
\* it and the read loop of the same connection runs; its write is still to
\* report; or the failed read of an earlier connection is queued, which destroys
\* whatever connection there is by then.
Awaited(t) == /\ t \in outgoing_tasks
              /\ \/ t \in received /\ reader # "none"
                 \/ op[t] \in {"write", "write_aborted"}
                 \/ queued.failed > 0

\* No call is forgotten: while the closure of an issued call has not run, some
\* outstanding handler will run it.  Sockets that are closed and reopened under
\* a call, and calls issued on a socket that still connects, make this subtle.
\* The one thing that can take an outgoing call's handler away is a completion of
\* an earlier socket that is applied to the present one.
NoLostCall ==
    \A t \in Issued \ called : Connecting(t) \/ Awaited(t) \/ (t \in outgoing_tasks /\ MixedUp)

\* A call with a timeout is guarded by its timer until its closure runs: no
\* cancel or re-arming (destroy, finish_task, start_call) leaves it without.
TimerGuard == Timed \cap (Issued \ called) \subseteq armed \cup fired

\* A closed socket has no outgoing calls and nothing outstanding; an opening
\* socket has exactly one connect outstanding; a connected one is read, by one
\* loop in step or by loops out of step.  issue() relies on it when it decides by
\* is_open() alone.
SocketState ==
    /\ socket_ = "closed" => /\ outgoing_tasks = {} /\ Reads = 0
                             /\ \A t \in CallId : op[t] # "write"
    /\ socket_ = "opening" <=> \E t \in CallId : op[t] = "connect"
    /\ \A t, u \in CallId : op[t] = "connect" /\ op[u] = "connect" => t = u
    /\ socket_ = "connected" => Reads > 0
    /\ reader # "none" => torn = 0
    /\ socket_ # "connected" => received = {} /\ reader # "payload"

\* handle_timeout destroys the connection when connecting_ is set; it is never
\* set on an established connection, so a timeout does not cost the other calls
\* of a working connection theirs.
ConnectingFlag == connecting_ => socket_ # "connected"

\* What the handlers find of the connection, whichever calls and sockets they
\* belong to, is consistent.
ConnectionState == SocketState /\ ConnectingFlag

\* Responses reach the call they answer: a call ends as a success, or as calling
\* an unknown method, only if that is the server's verdict on this very call.
ResultIsVerdict ==
    \A t \in called : code[t] \in {"EC_SUCCESS", "EC_METHOD_NOT_FOUND"}
                         => code[t] = CodeOf(Verdict[t])

\* Nothing is known of a call before it is issued.
Unissued ==
    \A t \in CallId \ Issued :
        /\ t \notin outgoing_tasks \cup called \cup armed \cup fired \cup received
        /\ t \notin queued.whole
        /\ op[t] = "none"

\* The inductive invariant.
IInv == /\ TypeOK
        /\ Unissued
        /\ RunsOnce
        /\ SocketState
        /\ NoLostCall
        /\ TimerGuard
        /\ ConnectingFlag
        /\ ResultIsVerdict

\* When the connection is torn down, every call that was outgoing has its
\* closure run in that very step: destroy() drops none of them.
TeardownCompletes ==
    [][socket_' = "closed" /\ socket_ # "closed" => outgoing_tasks \subseteq called']_vars

\* The refinement mapping: what the caller knows of each call.
CallPhase == [t \in CallId |-> IF t \notin Issued THEN "idle"
                               ELSE IF t \in called THEN "done" ELSE "pending"]

Calls == INSTANCE RpcCall WITH phase <- CallPhase, result <- code

\* What the channel promises, of which the connection is an implementation.
CallsSpec == Calls!Spec

\* With timers alone: a call with a timeout returns, whatever the network does
\* or does not do.
TimedCallsReturn == TimerFairness => \A t \in Timed : t \in Issued ~> t \in called

\* Without relying on any timer: if every operation completes, well or not, and
\* the server answers what it receives, every call returns, unless the loops of
\* its connection are out of step for ever.
CallsReturn ==
    IoFairness => \A t \in CallId : t \in Issued ~> (t \in called \/ [](torn > 0))

-----------------------------------------------------------------------------
(* Properties the comments of the source suggest and the code does not have. *)

\* `first call, try to establish connection' (carrot_async_channel.cpp:114): the
\* calls after the first use the connection.  Then, on a network without faults
\* and without timeouts, every call ends with the server's verdict.
HealthyCallsSucceed == \A t \in called : code[t] = CodeOf(Verdict[t])

=============================================================================
