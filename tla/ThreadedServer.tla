--------------------------- MODULE ThreadedServer ---------------------------
(***************************************************************************)
(* CarrotThreadedServer and its base class: Run accepts clients and starts *)
(* a detached thread for each of them, which reads requests and answers    *)
(* them until its client is gone or the server is stopped.                 *)
(*                                                                         *)
(* The threads share the process's descriptor table.  A thread keeps the   *)
(* number of its descriptor for life, but the number is free again as soon *)
(* as any thread closes it, and accept hands out the lowest free number.   *)
(* A read that waits keeps the connection it was entered on, whatever      *)
(* happens to the number meanwhile.                                        *)
(*                                                                         *)
(* The thread of client c is called c.  The four reads that make up a      *)
(* request are one step: a connection that one thread reads cannot tell    *)
(* the difference, and every failure among them takes the same path; what  *)
(* two threads read from one connection may be torn, and then is garbled.  *)
(* Of a thread's errno, which read_n tests whether read failed or came to  *)
(* the end of the stream, it matters if it is EINTR.                       *)
(* Clients, sockets, signals and methods are external.                     *)
(***************************************************************************)
EXTENDS Naturals, Sequences

CONSTANTS Clients,      \* the clients that may connect, each at most once
          None,         \* no client
          MaxFds,       \* bound on the descriptors of the process
          MaxRequests,  \* bound on the requests one client sends
          Requests,     \* the requests clients may send
          Services,     \* the services that may be registered
          Faults        \* what may fail, a subset of FaultKinds

Fd == 1..MaxFds

\* "accept", "read": the call fails; "oom": expand_packet fails; "write": the
\* response cannot be written, serialized or allocated; "sigpipe": the program
\* has left SIGPIPE as it is, so that writing to a client that is gone may end
\* the process; "signal": a handled signal interrupts a call that waits;
\* "socket": the listening socket cannot be created; "thread": nor the thread.
FaultKinds == {"accept", "read", "oom", "write", "sigpipe", "signal", "socket", "thread"}

\* A request names a service; it cannot be parsed, or its method is unknown to
\* the service, returns (having failed or not), or throws.
Outcomes == {"garbled", "unknown", "returns", "throws"}

ASSUME ThreadedAssumption ==
    /\ None \notin Clients
    /\ MaxFds \in Nat
    /\ MaxRequests \in Nat
    /\ Requests \subseteq [service : Services, outcome : Outcomes]
    /\ Faults \subseteq FaultKinds

VARIABLES
    alive,      \* the process runs
    services,   \* keys of the map of that name
    stopped,    \* the flag of that name
    main,       \* where the thread that constructs and runs the server is
    late,       \* connections accepted since Stop was last called
    fds,        \* the descriptor table: the client each number is connected to
    conn,       \* the clients' connections: "away", "backlog", "accepted"
    left,       \* clients that have closed their end
    pc,         \* where the thread of each client is
    fd,         \* client_fd of each thread, 0 before it starts
    file,       \* the client a waiting read was entered on
    eintr,      \* the threads whose errno is EINTR
    job,        \* the request a thread answers: <<client, number>>
    sent,       \* the requests each client has sent
    taken,      \* how many of them have been read
    replies,    \* what each client has received: the requests answered
    closedBy    \* the thread that closed the connection of each client

serverVars == <<services, stopped, main, late>>
threadVars == <<pc, fd, file, eintr, job>>
clientVars == <<left, sent>>
vars == <<alive, serverVars, threadVars, clientVars, conn, fds, taken, replies, closedBy>>

Jobs == (Clients \cup {None}) \X Nat

TypeOK ==
    /\ alive \in BOOLEAN
    /\ services \in SUBSET Services
    /\ stopped \in BOOLEAN
    /\ main \in {"new", "failed", "idle", "test", "accept"}
    /\ late \in Nat
    /\ fds \in [Fd -> Clients \cup {None}]
    /\ conn \in [Clients -> {"away", "backlog", "accepted"}]
    /\ left \in SUBSET Clients
    /\ pc \in [Clients -> {"none", "test", "enter", "read", "reply", "final", "ended"}]
    /\ fd \in [Clients -> 0..MaxFds]
    /\ file \in [Clients -> Clients \cup {None}]
    /\ eintr \in SUBSET Clients
    /\ job \in [Clients -> Jobs]
    /\ sent \in [Clients -> Seq(Requests)]
    /\ taken \in [Clients -> Nat]
    /\ replies \in [Clients -> Seq(Jobs)]
    /\ closedBy \in [Clients -> Clients \cup {None}]

Init ==
    /\ alive = TRUE
    /\ services = {}
    /\ stopped = TRUE
    /\ main = "new"
    /\ late = 0
    /\ fds = [f \in Fd |-> None]
    /\ conn = [c \in Clients |-> "away"]
    /\ left = {}
    /\ pc = [c \in Clients |-> "none"]
    /\ fd = [c \in Clients |-> 0]
    /\ file = [c \in Clients |-> None]
    /\ eintr = {}
    /\ job = [c \in Clients |-> <<None, 0>>]
    /\ sent = [c \in Clients |-> <<>>]
    /\ taken = [c \in Clients |-> 0]
    /\ replies = [c \in Clients |-> <<>>]
    /\ closedBy = [c \in Clients |-> None]

-----------------------------------------------------------------------------
(* The clients (external).                                                 *)

client_connect(c) ==
    /\ alive /\ main \notin {"new", "failed"}
    /\ conn[c] = "away"
    /\ conn' = [conn EXCEPT ![c] = "backlog"]
    /\ UNCHANGED <<alive, serverVars, threadVars, clientVars, fds, taken, replies, closedBy>>

\* The server still holds c's connection.
Held(c) == \/ conn[c] = "backlog"
           \/ \E f \in Fd : fds[f] = c
           \/ \E t \in Clients : file[t] = c

client_send(c, r) ==
    /\ alive /\ Held(c) /\ c \notin left
    /\ Len(sent[c]) < MaxRequests
    /\ sent' = [sent EXCEPT ![c] = Append(@, r)]
    /\ UNCHANGED <<alive, serverVars, threadVars, left, conn, fds, taken, replies, closedBy>>

client_leave(c) ==
    /\ alive /\ conn[c] # "away" /\ c \notin left
    /\ left' = left \cup {c}
    /\ UNCHANGED <<alive, serverVars, threadVars, sent, conn, fds, taken, replies, closedBy>>

-----------------------------------------------------------------------------
(* The server.                                                             *)

\* What comes of socket, bind and listen.
create_server_tcp_socket == {"created"} \cup (IF "socket" \in Faults THEN {"failed"} ELSE {})

\* The constructor of CarrotServer: it throws when there is no listening socket.
construct ==
    /\ alive /\ main = "new"
    /\ \E result \in create_server_tcp_socket :
          main' = IF result = "created" THEN "idle" ELSE "failed"
    /\ UNCHANGED <<alive, services, stopped, late, threadVars, clientVars, conn, fds, taken,
                   replies, closedBy>>

\* `this function should be called before starting the server'.  A name that is
\* taken is refused, and nothing changes.
RegisterService(s) ==
    /\ alive /\ main = "idle" /\ \A t \in Clients : pc[t] = "none"
    /\ s \notin services
    /\ services' = services \cup {s}
    /\ UNCHANGED <<alive, stopped, main, late, threadVars, clientVars, conn, fds, taken, replies,
                   closedBy>>

Run ==
    /\ alive /\ main = "idle"
    /\ stopped' = FALSE
    /\ main' = "test"
    /\ late' = 0
    /\ UNCHANGED <<alive, services, threadVars, clientVars, conn, fds, taken, replies, closedBy>>

\* Mutant: stopped is tested once, before the loop.
Run_test_once ==
    /\ alive /\ main = "test"
    /\ main' = "accept"
    /\ UNCHANGED <<alive, services, stopped, late, threadVars, clientVars, conn, fds, taken,
                   replies, closedBy>>

\* while (!this->stopped)
Run_test ==
    /\ alive /\ main = "test"
    /\ main' = IF stopped THEN "idle" ELSE "accept"
    /\ UNCHANGED <<alive, services, stopped, late, threadVars, clientVars, conn, fds, taken,
                   replies, closedBy>>

Free == {f \in Fd : fds[f] = None}

\* Mutant: the threads are given a reference to the loop's client_fd.
Run_accept_by_reference(c) ==
    /\ alive /\ main = "accept"
    /\ conn[c] = "backlog"
    /\ main' = "test"
    /\ late' = IF stopped THEN late + 1 ELSE late
    /\ conn' = [conn EXCEPT ![c] = "accepted"]
    /\ \E f \in Free :
          /\ \A g \in Free : f <= g
          /\ fds' = [fds EXCEPT ![f] = c]
          /\ fd' = [t \in Clients |-> IF t = c \/ fd[t] # 0 THEN f ELSE 0]
    /\ pc' = [pc EXCEPT ![c] = "test"]
    /\ UNCHANGED <<alive, services, stopped, file, eintr, job, clientVars, taken, replies,
                   closedBy>>

\* accept takes a client from the backlog and the lowest free number.
Accept(c) ==
    /\ alive /\ main = "accept"
    /\ conn[c] = "backlog"
    /\ late' = IF stopped THEN late + 1 ELSE late
    /\ conn' = [conn EXCEPT ![c] = "accepted"]
    /\ \E f \in Free :
          /\ \A g \in Free : f <= g
          /\ fds' = [fds EXCEPT ![f] = c]
          /\ fd' = [fd EXCEPT ![c] = f]

\* A thread is started for the client and detached.
Run_accept(c) ==
    /\ Accept(c)
    /\ main' = "test"
    /\ pc' = [pc EXCEPT ![c] = "test"]
    /\ UNCHANGED <<alive, services, stopped, file, eintr, job, clientVars, taken, replies,
                   closedBy>>

\* std::thread throws and Run with it: nobody serves the client or closes its
\* descriptor.
Run_thread_error(c) ==
    /\ Accept(c)
    /\ "thread" \in Faults
    /\ main' = "idle"
    /\ UNCHANGED <<alive, services, stopped, pc, file, eintr, job, clientVars, taken, replies,
                   closedBy>>

\* accept fails, by itself or for lack of descriptors: Run returns.
Run_accept_error ==
    /\ alive /\ main = "accept"
    /\ "accept" \in Faults \/ (Free = {} /\ \E c \in Clients : conn[c] = "backlog")
    /\ main' = "idle"
    /\ UNCHANGED <<alive, services, stopped, late, threadVars, clientVars, conn, fds, taken,
                   replies, closedBy>>

\* Any thread, at any time.
Stop ==
    /\ alive /\ main \notin {"new", "failed"}
    /\ ~stopped
    /\ stopped' = TRUE
    /\ UNCHANGED <<alive, services, main, late, threadVars, clientVars, conn, fds, taken,
                   replies, closedBy>>

-----------------------------------------------------------------------------
(* handle_client, run by thread t.                                         *)

\* destroy_connection: close the number, whoever it belongs to by now.
destroy_connection(t) ==
    LET c == fds[fd[t]] IN
    /\ fds' = [fds EXCEPT ![fd[t]] = None]
    /\ closedBy' = IF c = None THEN closedBy ELSE [closedBy EXCEPT ![c] = t]

At(t, label) == alive /\ pc[t] = label

Goto(t, label) == pc' = [pc EXCEPT ![t] = label]

\* while (!this->stopped)
handle_client_test(t) ==
    /\ At(t, "test")
    /\ Goto(t, IF stopped THEN "final" ELSE "enter")
    /\ UNCHANGED <<alive, serverVars, fd, file, eintr, job, clientVars, conn, fds, taken,
                   replies, closedBy>>

\* read_n calls read.  On a closed number that fails at once; the number is
\* closed once more, to no effect, and the loop is left.
read_n_enter(t) ==
    /\ At(t, "enter")
    /\ \/ fds[fd[t]] # None /\ Goto(t, "read") /\ UNCHANGED eintr
       \/ fds[fd[t]] = None /\ Goto(t, "final") /\ eintr' = eintr \ {t}
    /\ file' = [file EXCEPT ![t] = fds[fd[t]]]
    /\ UNCHANGED <<alive, serverVars, fd, job, clientVars, conn, fds, taken, replies, closedBy>>

\* Nothing of c's is left to read.
Drained(c) == taken[c] = Len(sent[c])
AtEnd(c) == c \in left /\ Drained(c)

\* read_n calls read again, on whatever the number is connected to by now.
Again(t) ==
    /\ Goto(t, "enter")
    /\ file' = [file EXCEPT ![t] = None]
    /\ UNCHANGED <<alive, serverVars, fd, job, clientVars, conn, fds, taken, replies, closedBy>>

\* A signal interrupts the read that waits.
read_n_interrupted(t) ==
    /\ At(t, "read")
    /\ "signal" \in Faults
    /\ file[t] \notin left /\ Drained(file[t])
    /\ eintr' = eintr \cup {t}
    /\ Again(t)

\* Mutant: a thread whose client is gone tries to read again.
read_n_retries(t) ==
    /\ At(t, "read")
    /\ AtEnd(file[t]) /\ t \notin eintr
    /\ UNCHANGED eintr
    /\ Again(t)

\* The client is gone and has nothing more to read: read returns 0, and errno is
\* what it was.  Close and leave the loop.
read_n_eof(t) ==
    /\ At(t, "read")
    /\ AtEnd(file[t]) /\ t \notin eintr
    /\ destroy_connection(t)
    /\ Goto(t, "final")
    /\ file' = [file EXCEPT ![t] = None]
    /\ UNCHANGED <<alive, serverVars, fd, eintr, job, clientVars, conn, taken, replies>>

\* The same with EINTR left over from a call that was interrupted before.
read_n_eof_eintr(t) ==
    /\ At(t, "read")
    /\ AtEnd(file[t]) /\ t \in eintr
    /\ UNCHANGED eintr
    /\ Again(t)

\* The read fails, or there is no memory for the packet: close and leave the loop.
read_n_error(t) ==
    /\ At(t, "read")
    /\ {"read", "oom"} \cap Faults # {}
    /\ eintr' = eintr \ {t}
    /\ destroy_connection(t)
    /\ Goto(t, "final")
    /\ file' = [file EXCEPT ![t] = None]
    /\ UNCHANGED <<alive, serverVars, fd, job, clientVars, conn, taken, replies>>

\* A request is read from the connection the read was entered on.
Take(t, c) ==
    /\ At(t, "read")
    /\ c = file[t]
    /\ taken[c] < Len(sent[c])
    /\ taken' = [taken EXCEPT ![c] = @ + 1]
    /\ file' = [file EXCEPT ![t] = None]

\* The request read next from c's connection.
NextRequest(c) == sent[c][taken[c] + 1]

\* Another thread reads from c's connection, too.
Torn(t, c) == \E u \in Clients \ {t} : file[u] = c

\* Metadata or parameter cannot be parsed: close, and continue with the loop.
\* Closing a closed number sets errno.
handle_garbled(t, c) ==
    /\ Take(t, c)
    /\ NextRequest(c).outcome = "garbled" \/ Torn(t, c)
    /\ destroy_connection(t)
    /\ eintr' = IF fds[fd[t]] = None THEN eintr \ {t} ELSE eintr
    /\ Goto(t, "test")
    /\ UNCHANGED <<alive, serverVars, fd, job, clientVars, conn, replies>>

\* The service or the method is not found, and the log statement of
\* respond_to_client(..., NULL, ...) evaluates resp->DebugString(); or the
\* method throws, which ends a thread that does not catch it, and the process.
handle_crash(t, c) ==
    /\ Take(t, c)
    /\ \/ NextRequest(c).outcome \in {"unknown", "throws"}
       \/ NextRequest(c).outcome = "returns" /\ NextRequest(c).service \notin services
    /\ alive' = FALSE
    /\ UNCHANGED <<serverVars, pc, fd, eintr, job, clientVars, conn, fds, replies, closedBy>>

\* A method leaves errno alone, or makes a call of its own that is interrupted or
\* fails.
MethodErrno(t) ==
    \/ eintr' \in {eintr, eintr \ {t}}
    \/ "signal" \in Faults /\ eintr' = eintr \cup {t}

\* Mutant: number and client change places.
handle_call_swapped(t, c) ==
    /\ Take(t, c)
    /\ NextRequest(c).outcome = "returns" /\ NextRequest(c).service \in services
    /\ job' = [job EXCEPT ![t] = <<taken'[c], c>>]
    /\ MethodErrno(t)
    /\ Goto(t, "reply")
    /\ UNCHANGED <<alive, serverVars, fd, clientVars, conn, fds, replies, closedBy>>

\* The method is called; its response is sent next.
handle_call(t, c) ==
    /\ Take(t, c)
    /\ NextRequest(c).outcome = "returns" /\ NextRequest(c).service \in services
    /\ job' = [job EXCEPT ![t] = <<c, taken'[c]>>]
    /\ MethodErrno(t)
    /\ Goto(t, "reply")
    /\ UNCHANGED <<alive, serverVars, fd, clientVars, conn, fds, replies, closedBy>>

\* The response is written to whatever the number is connected to; a client that
\* has left does not see it.
respond_to_client(t) ==
    /\ At(t, "reply")
    /\ \E c \in Clients :
          /\ fds[fd[t]] = c
          /\ replies' = IF c \in left THEN replies
                                      ELSE [replies EXCEPT ![c] = Append(@, job[t])]
    /\ Goto(t, "test")
    /\ UNCHANGED <<alive, serverVars, fd, file, eintr, job, clientVars, conn, fds, taken,
                   closedBy>>

\* A signal interrupts the write that waits for room; write_n writes again.
write_n_interrupted(t) ==
    /\ At(t, "reply")
    /\ "signal" \in Faults
    /\ fds[fd[t]] \in Clients \ left
    /\ eintr' = eintr \cup {t}
    /\ UNCHANGED <<alive, serverVars, pc, fd, file, job, clientVars, conn, fds, taken, replies,
                   closedBy>>

\* The response cannot be sent: close, return, and continue with the loop.  Only
\* if it cannot be serialized is errno left alone.
respond_to_client_error(t) ==
    /\ At(t, "reply")
    /\ \/ "write" \in Faults /\ fds[fd[t]] # None /\ eintr' = eintr
       \/ "write" \in Faults /\ eintr' = eintr \ {t}
       \/ fds[fd[t]] \in left \cup {None} /\ eintr' = eintr \ {t}
    /\ destroy_connection(t)
    /\ Goto(t, "test")
    /\ UNCHANGED <<alive, serverVars, fd, file, job, clientVars, conn, taken, replies>>

\* write to a client that is gone raises SIGPIPE.
respond_to_client_sigpipe(t) ==
    /\ At(t, "reply")
    /\ "sigpipe" \in Faults
    /\ fds[fd[t]] \in left
    /\ alive' = FALSE
    /\ UNCHANGED <<serverVars, threadVars, clientVars, conn, fds, taken, replies, closedBy>>

\* Mutant: the number is closed on the error paths only.
handle_client_end_open(t) ==
    /\ At(t, "final")
    /\ Goto(t, "ended")
    /\ UNCHANGED <<alive, serverVars, fd, file, eintr, job, clientVars, conn, fds, taken,
                   replies, closedBy>>

\* After the loop: the number is closed again.
handle_client_end(t) ==
    /\ At(t, "final")
    /\ destroy_connection(t)
    /\ Goto(t, "ended")
    /\ UNCHANGED <<alive, serverVars, fd, file, eintr, job, clientVars, conn, taken, replies>>

handle_client(t) ==
    \/ handle_client_test(t)
    \/ read_n_enter(t) \/ read_n_interrupted(t) \/ read_n_eof(t) \/ read_n_eof_eintr(t)
    \/ read_n_error(t)
    \/ \E c \in Clients : handle_garbled(t, c) \/ handle_crash(t, c) \/ handle_call(t, c)
    \/ respond_to_client(t) \/ write_n_interrupted(t)
    \/ respond_to_client_error(t) \/ respond_to_client_sigpipe(t)
    \/ handle_client_end(t)

-----------------------------------------------------------------------------

Next ==
    \/ construct \/ Run \/ Run_test \/ Run_accept_error \/ Stop
    \/ \E s \in Services : RegisterService(s)
    \/ \E c \in Clients : \/ client_connect(c) \/ client_leave(c)
                          \/ \E r \in Requests : client_send(c, r)
                          \/ Run_accept(c) \/ Run_thread_error(c)
                          \/ handle_client(c)

\* The system schedules the threads, and reads that can end do.
Spec == Init /\ [][Next]_vars /\ \A t \in Clients : WF_vars(handle_client(t))

-----------------------------------------------------------------------------
(* Properties.                                                             *)

\* A thread closes a connection that is not its own only when its own one has
\* been closed before: numbers are the only thing the threads share.
Confined == \A c \in Clients : closedBy[c] \in Clients \ {c} => closedBy[closedBy[c]] # None

\* No descriptor is leaked: a thread that has ended, for whatever reason, leaves
\* its client's connection closed, although others may have used its number.
Released == \A c \in Clients : pc[c] = "ended" => \A f \in Fd : fds[f] # c

\* Stop does not wake accept: one client may still be accepted, never two.
OneLateClient == late <= 1

\* The descriptor table, the connections and the threads agree: a number belongs
\* to the thread that was started with it until someone closes it, and a thread
\* finds another client there only when its own connection has been closed.
TableAgrees ==
    /\ \A c \in Clients :
          \/ conn[c] = "accepted" /\ fd[c] \in Fd
          \/ conn[c] # "accepted" /\ pc[c] = "none" /\ closedBy[c] = None
    /\ \A f \in Fd : fds[f] # None =>
          conn[fds[f]] = "accepted" /\ fd[fds[f]] = f /\ closedBy[fds[f]] = None
    /\ \A c \in Clients : conn[c] = "accepted" /\ closedBy[c] = None => fds[fd[c]] = c

\* The inductive invariant.
IInv ==
    /\ TypeOK
    /\ TableAgrees
    /\ \A c \in Clients : pc[c] = "ended" => closedBy[c] # None
    /\ Confined
    /\ late <= 1
    /\ late = 1 => stopped /\ main # "accept"

\* A thread that lost its number to another connection goes on with that one;
\* even so, when all clients have left all threads end, except one that has come
\* to the end of a stream with EINTR in errno: read_n reads on for ever.
ThreadsEnd ==
    left = Clients ~>
        ~alive \/ \A t \in Clients :
            \/ pc[t] \in {"none", "ended"}
            \/ /\ pc[t] \in {"enter", "read"} /\ t \in eintr
               /\ AtEnd(fds[fd[t]])

\* `Simple request-per-thread server' (carrot_threaded_server.h:21): what a
\* client receives answers its own requests.  It does not hold.
AnswersReachCaller ==
    \A c \in Clients : \A i \in 1..Len(replies[c]) : replies[c][i][1] = c

=============================================================================
