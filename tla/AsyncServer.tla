----------------------------- MODULE AsyncServer -----------------------------
(***************************************************************************)
(* The asynchronous server: CarrotAsyncServer, its acceptor and the        *)
(* RpcServerConnections it keeps in conns_.  Every connection runs a cycle *)
(* of one outstanding operation at a time: header, payload, response.  The *)
(* io_service dispatches the handlers one by one.  A handler that throws   *)
(* leaves io_service::run(), which the program enters again; what the      *)
(* handler had not done by then is never done.                             *)
(*                                                                         *)
(* Clients are external: they send requests, which wait in the socket, and *)
(* receive responses.  The i-th request of a connection carries id i.  A   *)
(* request is a record: what becomes of it, and the sizes of its parameter *)
(* and of the response it produces.                                        *)
(*                                                                         *)
(* A null dereference ends the process; writing beyond the end of a heap   *)
(* block may or may not.                                                   *)
(***************************************************************************)
EXTENDS Naturals, Sequences, RpcCodes

CONSTANTS MaxConns,     \* bound on the connections created by start_accept
          MaxRequests,  \* bound on the requests sent on one connection
          Requests,     \* the requests clients may send
          PacketSize,   \* sizeof(packet)
          MetaSize,     \* size of a serialized Request or Response
          Faults        \* what the environment may do, a subset of FaultKinds

Conn == 1..MaxConns

\* "accept", "read", "write": the operation completes with an error, a read also
\* because the client is gone; "oom": realloc fails; "serialize": the
\* response cannot be serialized (SerializeToArray); "shutdown": the program deletes
\* the server while connections are served.
FaultKinds == {"accept", "read", "write", "oom", "serialize", "shutdown"}

\* "garbled": metadata or parameter cannot be parsed; "unknown": no such service
\* or method; else the method returns, reports a failure, or throws.
Outcomes == {"garbled", "unknown", "returns", "fails", "throws"}

ASSUME ServerAssumption ==
    /\ MaxConns \in Nat \ {0}
    /\ MaxRequests \in Nat
    /\ Requests \subseteq [outcome : Outcomes, req : Nat, resp : Nat]
    /\ PacketSize \in Nat \ {0}
    /\ MetaSize \in Nat
    /\ Faults \subseteq FaultKinds

VARIABLES
    alive,      \* the process runs
    deleted,    \* the CarrotAsyncServer has been deleted
    created,    \* number of connections created
    conns_,     \* keys of the map of that name
    socket_,    \* [Conn -> {"none", "open", "closed"}]
    op,         \* the operation outstanding on each connection
    n_,         \* size of the packet being read
    size_,      \* the size the code believes p_ to have
    block,      \* the bytes p_ really points to, 0 for NULL
    sent,       \* the requests the client of each connection has sent
    executed,   \* ids of the requests whose method was called, in order
    filled,     \* bytes written to p_ for the response being sent
    replies     \* the responses received by the client: <<id, status>>

vars == <<alive, deleted, created, conns_, socket_, op, n_, size_, block, sent,
          executed, filled, replies>>

Ops == {"none", "accept", "header", "payload", "write"}

ControlTypes ==
    /\ alive \in BOOLEAN
    /\ deleted \in BOOLEAN
    /\ created \in 0..MaxConns
    /\ conns_ \in SUBSET Conn
    /\ socket_ \in [Conn -> {"none", "open", "closed"}]
    /\ op \in [Conn -> Ops]
    /\ n_ \in [Conn -> Nat]
    /\ sent \in [Conn -> Seq(Requests)]
    /\ executed \in [Conn -> Seq(Nat)]
    /\ filled \in [Conn -> Nat]
    /\ replies \in [Conn -> Seq(Nat \X Status)]

BufferTypes == size_ \in [Conn -> Nat] /\ block \in [Conn -> Nat]

TypeOK == ControlTypes /\ BufferTypes

\* The constructor's start_accept.
Init ==
    /\ alive = TRUE
    /\ deleted = FALSE
    /\ created = 1
    /\ conns_ = {1}
    /\ socket_ = [c \in Conn |-> "none"]
    /\ op = [c \in Conn |-> IF c = 1 THEN "accept" ELSE "none"]
    /\ n_ = [c \in Conn |-> 0]
    /\ size_ = [c \in Conn |-> 0]
    /\ block = [c \in Conn |-> 0]
    /\ sent = [c \in Conn |-> <<>>]
    /\ executed = [c \in Conn |-> <<>>]
    /\ filled = [c \in Conn |-> 0]
    /\ replies = [c \in Conn |-> <<>>]

-----------------------------------------------------------------------------
(* What the handlers share.                                                *)

\* expand_packet doubles size, from 1, until n fits.
Grown(size, n) ==
    LET doubled[k \in 0..n] == IF k > 0 THEN 2 * doubled[k - 1]
                               ELSE IF size = 0 THEN 1 ELSE size
    IN  doubled[CHOOSE k \in 0..n : doubled[k] >= n /\ \A l \in 0..n : doubled[l] >= n => k <= l]

NeedsBlock(c, n) == size_[c] < n \/ block[c] = 0

expand_packet(c, n) ==
    IF NeedsBlock(c, n)
    THEN /\ size_' = [size_ EXCEPT ![c] = Grown(@, n)]
         /\ block' = [block EXCEPT ![c] = Grown(size_[c], n)]
    ELSE UNCHANGED <<size_, block>>

\* realloc fails: p_ is NULL, size_ has grown all the same.
expand_packet_fails(c, n) ==
    /\ "oom" \in Faults
    /\ NeedsBlock(c, n)
    /\ size_' = [size_ EXCEPT ![c] = Grown(@, n)]
    /\ block' = [block EXCEPT ![c] = 0]

\* Mutant: the connection is closed but not erased from conns_.
destroy_forgets(c) ==
    /\ socket_' = [socket_ EXCEPT ![c] = "closed"]
    /\ op' = [op EXCEPT ![c] = "none"]
    /\ UNCHANGED conns_

\* destroy: the connection leaves conns_ and its socket is closed.  It is called
\* from the handler of its only operation.
destroy(c) ==
    /\ conns_' = conns_ \ {c}
    /\ socket_' = [socket_ EXCEPT ![c] = "closed"]
    /\ op' = [op EXCEPT ![c] = "none"]

\* A handler that leaves connection c with no operation but does not destroy it.
Abandon(c) ==
    /\ op' = [op EXCEPT ![c] = "none"]
    /\ UNCHANGED <<conns_, socket_>>

\* A connection in conns_ that no handler will ever look at again.
Abandoned(c) == c \in conns_ /\ op[c] = "none"

\* Mutant: the controller's code is put into the response.
StatusCode(r) == IF r.outcome = "returns" THEN "EC_SUCCESS" ELSE "EC_FAILED"

\* The status of the response to request r of a service that could be called.
StatusOf(r) == IF r.outcome = "returns" THEN "SUCCESS" ELSE "FAILED"

\* The request being served on connection c, and its id.
CurrentId(c) == Len(replies[c]) + 1

Current(c) == sent[c][CurrentId(c)]

-----------------------------------------------------------------------------
(* The clients (external).                                                 *)

\* A client may send further requests without waiting for responses.
client_send(c, r) ==
    /\ alive /\ socket_[c] = "open"
    /\ Len(sent[c]) < MaxRequests
    /\ sent' = [sent EXCEPT ![c] = Append(@, r)]
    /\ UNCHANGED <<alive, deleted, created, conns_, socket_, op, n_, size_, block, executed,
                   filled, replies>>

-----------------------------------------------------------------------------
(* The acceptor.                                                           *)

\* Mutant: accepting goes on only after a successful accept.
handle_accept_error_stops(c) ==
    /\ alive /\ ~deleted
    /\ op[c] = "accept"
    /\ "accept" \in Faults
    /\ created < MaxConns
    /\ Abandon(c)
    /\ UNCHANGED <<alive, deleted, created, n_, size_, block, sent, executed, filled, replies>>

\* The accept fails: start_accept creates the next connection, and this one
\* stays in conns_.
handle_accept_error(c) ==
    /\ alive /\ ~deleted
    /\ op[c] = "accept"
    /\ "accept" \in Faults
    /\ created < MaxConns
    /\ created' = created + 1
    /\ conns_' = conns_ \cup {created'}
    /\ op' = [op EXCEPT ![c] = "none", ![created'] = "accept"]
    /\ UNCHANGED <<alive, deleted, socket_, n_, size_, block, sent, executed, filled, replies>>

\* Accepted: serve() reads the first header, start_accept waits for the next.
handle_accept_ok(c) ==
    /\ alive /\ ~deleted
    /\ op[c] = "accept"
    /\ created < MaxConns
    /\ expand_packet(c, PacketSize)
    /\ created' = created + 1
    /\ conns_' = conns_ \cup {created'}
    /\ socket_' = [socket_ EXCEPT ![c] = "open"]
    /\ op' = [op EXCEPT ![c] = "header", ![created'] = "accept"]
    /\ UNCHANGED <<alive, deleted, n_, sent, executed, filled, replies>>

\* Accepted, but serve() throws bad_alloc: start_accept is not reached.
handle_accept_oom(c) ==
    /\ alive /\ ~deleted
    /\ op[c] = "accept"
    /\ expand_packet_fails(c, PacketSize)
    /\ socket_' = [socket_ EXCEPT ![c] = "open"]
    /\ op' = [op EXCEPT ![c] = "none"]
    /\ UNCHANGED <<alive, deleted, created, conns_, n_, sent, executed, filled, replies>>

handle_accept(c) == handle_accept_ok(c) \/ handle_accept_error(c) \/ handle_accept_oom(c)

\* ~CarrotAsyncServer: the connections lose their pointer to the server, conns_
\* is gone with it, and with conns_ the connections that no handler refers to.
\* Closing the acceptor aborts the accept.
delete_server ==
    /\ alive /\ ~deleted
    /\ "shutdown" \in Faults
    /\ deleted' = TRUE
    /\ conns_' = {}
    /\ socket_' = [c \in Conn |-> IF Abandoned(c) /\ socket_[c] = "open" THEN "closed"
                                                                       ELSE socket_[c]]
    /\ UNCHANGED <<alive, created, op, n_, size_, block, sent, executed, filled,
                   replies>>

\* The aborted accept calls start_accept on the deleted server.
handle_accept_deleted(c) ==
    /\ alive /\ deleted
    /\ op[c] = "accept"
    /\ alive' \in BOOLEAN
    /\ op' = [op EXCEPT ![c] = "none"]
    /\ UNCHANGED <<deleted, created, conns_, socket_, n_, size_, block, sent, executed, filled,
                   replies>>

-----------------------------------------------------------------------------
(* A connection.                                                           *)

\* The header of the next request arrives.
handle_read_header_ok(c) ==
    /\ alive
    /\ op[c] = "header"
    /\ CurrentId(c) <= Len(sent[c])
    /\ n_' = [n_ EXCEPT ![c] = PacketSize + MetaSize + Current(c).req]
    /\ \/ /\ expand_packet(c, n_'[c])
          /\ op' = [op EXCEPT ![c] = "payload"]
          /\ UNCHANGED <<conns_, socket_>>
       \/ /\ expand_packet_fails(c, n_'[c])
          /\ Abandon(c)
    /\ UNCHANGED <<alive, deleted, created, sent, executed, filled, replies>>

\* A read fails, of a header or of a payload.
handle_read_error(c) ==
    /\ alive
    /\ op[c] \in {"header", "payload"} /\ "read" \in Faults
    /\ destroy(c)
    /\ UNCHANGED <<alive, deleted, created, n_, size_, block, sent, executed, filled, replies>>

\* respond_to_client makes room for n_ bytes, which it has, writes n and sends
\* them; if the response cannot be serialized the connection is destroyed.
respond_to_client(c) ==
    LET n == PacketSize + MetaSize + Current(c).resp IN
    \/ /\ filled' = [filled EXCEPT ![c] = n]
       /\ alive' \in (IF n <= block[c] THEN {TRUE} ELSE BOOLEAN)
       /\ op' = [op EXCEPT ![c] = "write"]
       /\ UNCHANGED <<conns_, socket_>>
    \/ /\ "serialize" \in Faults
       /\ destroy(c)
       /\ UNCHANGED <<alive, filled>>

\* Mutant: the method is called again when it has failed.
handle_read_payload_retries(c) ==
    /\ alive
    /\ op[c] = "payload"
    /\ ~deleted
    /\ Current(c).outcome \in {"returns", "fails", "throws"}
    /\ executed' = [executed EXCEPT ![c] = @ \o (IF Current(c).outcome = "returns"
                                                 THEN <<CurrentId(c)>>
                                                 ELSE <<CurrentId(c), CurrentId(c)>>)]
    /\ respond_to_client(c)
    /\ UNCHANGED <<deleted, created, n_, size_, block, sent, replies>>

\* The payload arrives and the method is called; a throwing method counts as a
\* failed one.
handle_read_payload_call(c) ==
    /\ alive
    /\ op[c] = "payload"
    /\ ~deleted
    /\ Current(c).outcome \in {"returns", "fails", "throws"}
    /\ executed' = [executed EXCEPT ![c] = Append(@, CurrentId(c))]
    /\ respond_to_client(c)
    /\ UNCHANGED <<deleted, created, n_, size_, block, sent, replies>>

handle_read_payload_garbled(c) ==
    /\ alive
    /\ op[c] = "payload"
    /\ Current(c).outcome = "garbled"
    /\ destroy(c)
    /\ UNCHANGED <<alive, deleted, created, n_, size_, block, sent, executed, filled, replies>>

\* Looking the service up through a server_ that is gone, or, for an unknown
\* method, respond_to_client(NULL, ...), whose log statement evaluates
\* resp->DebugString(): the process ends.
handle_read_payload_crash(c) ==
    /\ alive
    /\ op[c] = "payload"
    /\ deleted \/ Current(c).outcome = "unknown"
    /\ alive' = FALSE
    /\ UNCHANGED <<deleted, created, conns_, socket_, op, n_, size_, block, sent, executed,
                   filled, replies>>

handle_read_payload(c) ==
    \/ handle_read_payload_call(c)
    \/ handle_read_payload_garbled(c)
    \/ handle_read_payload_crash(c)

\* Mutant: the next call is not served.
handle_write_response_last(c) ==
    /\ alive
    /\ op[c] = "write"
    /\ replies' = [replies EXCEPT ![c] = Append(@, <<CurrentId(c), StatusOf(Current(c))>>)]
    /\ Abandon(c)
    /\ UNCHANGED <<alive, deleted, created, n_, size_, block, sent, executed, filled>>

\* Mutant: the response of a throwing method is a success.
handle_write_response_masks(c) ==
    /\ alive
    /\ op[c] = "write"
    /\ replies' = [replies EXCEPT ![c] = Append(@, <<CurrentId(c), "SUCCESS">>)]
    /\ op' = [op EXCEPT ![c] = "header"]
    /\ UNCHANGED <<alive, deleted, created, conns_, socket_, n_, size_, block, sent, executed,
                   filled>>

\* The response is written; serve() reads the next header into the same block.
handle_write_response_ok(c) ==
    /\ alive
    /\ op[c] = "write"
    /\ replies' = [replies EXCEPT ![c] = Append(@, <<CurrentId(c), StatusOf(Current(c))>>)]
    /\ op' = [op EXCEPT ![c] = "header"]
    /\ UNCHANGED <<alive, deleted, created, conns_, socket_, n_, size_, block, sent, executed,
                   filled>>

handle_write_response_error(c) ==
    /\ alive
    /\ op[c] = "write" /\ "write" \in Faults
    /\ destroy(c)
    /\ UNCHANGED <<alive, deleted, created, n_, size_, block, sent, executed, filled, replies>>

-----------------------------------------------------------------------------

Next ==
    \/ delete_server
    \/ \E c \in Conn : \/ handle_accept(c)
                       \/ handle_accept_deleted(c)
                       \/ handle_read_header_ok(c)
                       \/ handle_read_payload(c)
                       \/ handle_write_response_ok(c)
                       \/ handle_read_error(c)
                       \/ handle_write_response_error(c)
                       \/ \E r \in Requests : client_send(c, r)

Spec == Init /\ [][Next]_vars

\* Operations that can complete do, and the io_service runs their handlers.
ServeFairness ==
    \A c \in Conn : WF_vars(\/ handle_read_header_ok(c)
                            \/ handle_read_payload(c)
                            \/ handle_write_response_ok(c))

-----------------------------------------------------------------------------
(* Properties.                                                             *)

\* Responses leave a connection in the order of its requests, each with the id
\* of its request and the status the method earned, and no response without the
\* method having run.  Requests sent ahead wait their turn.
AnswersInOrder ==
    \A c \in Conn :
        /\ Len(replies[c]) <= Len(sent[c])
        /\ \A i \in 1..Len(replies[c]) : /\ replies[c][i] = <<i, StatusOf(sent[c][i])>>
                                         /\ i \in 1..Len(executed[c])

\* A method is called at most once per request and in order, and the server is
\* never more than one call ahead of the responses it has sent.
ExecutedOnce ==
    \A c \in Conn :
        /\ \A i \in 1..Len(executed[c]) : executed[c][i] = i
        /\ Len(executed[c]) <= Len(replies[c]) + 1
        /\ op[c] \in {"header", "payload"} => Len(executed[c]) = Len(replies[c])

\* conns_ keeps a connection alive exactly as long as it is of use: it holds
\* what is accepting or open, and nothing that was destroyed.
Tracked ==
    ~deleted => \A c \in Conn : /\ op[c] # "none" => c \in conns_
                                /\ socket_[c] = "open" => c \in conns_
                                /\ socket_[c] = "closed" => c \notin conns_

\* The server goes on accepting, with one accept outstanding at a time, unless
\* the allocation for a new connection failed.
KeepsAccepting ==
    alive /\ ~deleted =>
        /\ \A c, d \in Conn : op[c] = "accept" /\ op[d] = "accept" => c = d
        /\ (\A c \in Conn : op[c] # "accept") => \E c \in Conn : socket_[c] = "open" /\ block[c] = 0

\* No connection is ever stuck with a request: again and again it has answered
\* all it was sent, unless it was closed, is out of memory, or the process has
\* ended.
EveryRequestAnswered ==
    ServeFairness =>
        \A c \in Conn :
            []<>(Len(replies[c]) = Len(sent[c]) \/ socket_[c] # "open" \/ block[c] = 0 \/ ~alive)

-----------------------------------------------------------------------------
(* The inductive invariant.                                                *)

\* The cycle of a connection: what its outstanding operation says of its socket,
\* of the request it serves and of what it has executed and answered.
Cycle ==
    \A c \in Conn :
        /\ op[c] = "accept" => c = created /\ socket_[c] = "none"
        /\ op[c] \in {"header", "payload", "write"} => socket_[c] = "open"
        /\ op[c] \in {"payload", "write"} => CurrentId(c) <= Len(sent[c])
        /\ op[c] = "write" => Len(executed[c]) = Len(replies[c]) + 1
        /\ socket_[c] = "none" => executed[c] = <<>> /\ replies[c] = <<>>
        /\ c > created => op[c] = "none" /\ socket_[c] = "none" /\ c \notin conns_

\* Without an accept outstanding, some connection was abandoned by serve().
AcceptLost ==
    ~deleted /\ (\A c \in Conn : op[c] # "accept") =>
        \E c \in Conn : op[c] = "none" /\ socket_[c] = "open" /\ block[c] = 0

IInv ==
    /\ ControlTypes
    /\ block = [c \in Conn |-> block[c]]
    /\ Cycle
    /\ Tracked
    /\ AcceptLost
    /\ ExecutedOnce
    /\ AnswersInOrder

\* The block is as large as the code believes, unless realloc has failed and the
\* connection was given up: what is read fits.
BufferOK ==
    /\ BufferTypes
    /\ \A c \in Conn : /\ block[c] = 0 \/ block[c] = size_[c]
                       /\ op[c] \in {"header", "payload", "write"} => PacketSize <= block[c]
                       /\ op[c] = "payload" => n_[c] <= block[c]

-----------------------------------------------------------------------------
(* Properties that comments of the source state and the code does not have. *)

\* `expand the packet to be big enough to contain at least @n bytes of payload'
\* (utils.h:72): what respond_to_client serializes fits into p_.
ResponseFits == \A c \in Conn : op[c] = "write" => filled[c] <= block[c]

\* `the method called not found on the server side' (rpc.proto:6) is a status of
\* a response: a request for an unknown method does not end the server.
UnknownMethodsSurvived == alive

=============================================================================
