------------------------ MODULE ThreadedServerProofs ------------------------
(***************************************************************************)
(* What the threads of CarrotThreadedServer can and cannot do to each      *)
(* other's connections, for any number of clients, descriptors, requests   *)
(* and services, and whatever fails.                                       *)
(***************************************************************************)
EXTENDS ThreadedServer, TLAPS

USE DEF Fd

LEMMA InitLemma == Init => IInv
  BY ThreadedAssumption
     DEF Init, IInv, TypeOK, TableAgrees, Confined, Jobs

-----------------------------------------------------------------------------
(* The steps of a thread that close its number.                            *)

\* A running thread's number is a descriptor.
LEMMA ThreadHasNumber ==
    ASSUME IInv, NEW t \in Clients, pc[t] # "none"
    PROVE  fd[t] \in Fd /\ conn[t] = "accepted" /\ fds[fd[t]] \in Clients \cup {None}
  BY DEF IInv, TypeOK, TableAgrees

\* Whoever the number belongs to by now, closing it keeps the invariant, and the
\* thread's own connection is closed afterwards.
LEMMA DestroyLemma ==
    ASSUME IInv, NEW t \in Clients, pc[t] # "none",
           destroy_connection(t),
           NEW label \in {"test", "final", "ended"}, Goto(t, label),
           UNCHANGED <<alive, serverVars, fd, job, clientVars, conn>>,
           file' \in [Clients -> Clients \cup {None}],
           eintr' \in SUBSET Clients,
           taken' \in [Clients -> Nat],
           replies' = replies
    PROVE  IInv'
  <1>. DEFINE c == fds[fd[t]]
  <1>1. fd[t] \in Fd /\ conn[t] = "accepted" /\ c \in Clients \cup {None}
    BY ThreadHasNumber
  <1>2. fds' = [fds EXCEPT ![fd[t]] = None]
    BY DEF destroy_connection
  <1>3. /\ closedBy' \in [Clients -> Clients \cup {None}]
        /\ \A d \in Clients : closedBy'[d] = IF d = c THEN t ELSE closedBy[d]
    BY <1>1, ThreadedAssumption DEF destroy_connection, IInv, TypeOK
  <1>4. /\ pc' \in [Clients -> {"none", "test", "enter", "read", "reply", "final", "ended"}]
        /\ \A d \in Clients : pc'[d] = IF d = t THEN label ELSE pc[d]
    BY DEF Goto, IInv, TypeOK
  <1>5. closedBy'[t] # None
    <2>1. CASE c = t
      BY <2>1, <1>3, ThreadedAssumption
    <2>2. CASE c # t
      <3>1. closedBy[t] # None
        BY <2>2, <1>1 DEF IInv, TableAgrees
      <3> QED BY <3>1, <2>2, <1>3
    <2> QED BY <2>1, <2>2
  <1>6. TypeOK'
    BY <1>1, <1>2, <1>3, <1>4
       DEF IInv, TypeOK, serverVars, clientVars, Jobs
  <1>7. TableAgrees'
    <2>1. \A d \in Clients : \/ conn'[d] = "accepted" /\ fd'[d] \in Fd
                             \/ conn'[d] # "accepted" /\ pc'[d] = "none" /\ closedBy'[d] = None
      <3> SUFFICES ASSUME NEW d \in Clients
                   PROVE  \/ conn'[d] = "accepted" /\ fd'[d] \in Fd
                          \/ conn'[d] # "accepted" /\ pc'[d] = "none" /\ closedBy'[d] = None
        OBVIOUS
      <3>1. d = c => conn[d] = "accepted"
        BY <1>1, ThreadedAssumption DEF IInv, TableAgrees
      <3> QED BY <3>1, <1>1, <1>3, <1>4 DEF IInv, TableAgrees
    <2>2. \A f \in Fd : fds'[f] # None =>
            conn'[fds'[f]] = "accepted" /\ fd'[fds'[f]] = f /\ closedBy'[fds'[f]] = None
      <3> SUFFICES ASSUME NEW f \in Fd, fds'[f] # None
                   PROVE  conn'[fds'[f]] = "accepted" /\ fd'[fds'[f]] = f /\ closedBy'[fds'[f]] = None
        OBVIOUS
      <3>1. f # fd[t] /\ fds'[f] = fds[f] /\ fds[f] \in Clients
        BY <1>1, <1>2 DEF IInv, TypeOK
      <3>2. conn[fds[f]] = "accepted" /\ fd[fds[f]] = f /\ closedBy[fds[f]] = None
        BY <3>1 DEF IInv, TableAgrees
      <3>3. fds[f] # c
        BY <3>1, <3>2, <1>1 DEF IInv, TableAgrees
      <3> QED BY <3>1, <3>2, <3>3, <1>3
    <2>3. \A d \in Clients : conn'[d] = "accepted" /\ closedBy'[d] = None => fds'[fd'[d]] = d
      <3> SUFFICES ASSUME NEW d \in Clients, conn'[d] = "accepted", closedBy'[d] = None
                   PROVE  fds'[fd'[d]] = d
        OBVIOUS
      <3>1. d # c /\ closedBy[d] = None
        BY <1>3, ThreadedAssumption
      <3>2. fd[d] \in Fd /\ fds[fd[d]] = d
        BY <3>1 DEF IInv, TableAgrees
      <3> QED BY <3>1, <3>2, <1>1, <1>2 DEF IInv, TypeOK
    <2> QED BY <2>1, <2>2, <2>3 DEF TableAgrees
  <1>8. Confined'
    <2> SUFFICES ASSUME NEW d \in Clients, closedBy'[d] \in Clients \ {d}
                 PROVE  closedBy'[closedBy'[d]] # None
      BY DEF Confined
    <2>1. CASE d = c
      BY <2>1, <1>3, <1>5
    <2>2. CASE d # c
      <3>1. closedBy[d] \in Clients \ {d} /\ closedBy[closedBy[d]] # None
        BY <2>2, <1>3 DEF IInv, Confined
      <3> QED BY <3>1, <2>2, <1>3, ThreadedAssumption
    <2> QED BY <2>1, <2>2
  <1>9. \A d \in Clients : pc'[d] = "ended" => closedBy'[d] # None
    BY <1>3, <1>4, <1>5, ThreadedAssumption DEF IInv
  <1> QED BY <1>6, <1>7, <1>8, <1>9 DEF IInv, serverVars

\* A step that leaves the table, the connections and the numbers alone, and moves
\* no thread to or from "none" or "ended", keeps the invariant.
LEMMA QuietLemma ==
    ASSUME IInv, TypeOK',
           UNCHANGED <<stopped, main, late, fds, conn, fd, closedBy>>,
           \A c \in Clients : /\ pc'[c] = "none" <=> pc[c] = "none"
                              /\ pc'[c] = "ended" <=> pc[c] = "ended"
    PROVE  IInv'
  BY DEF IInv, TableAgrees, Confined

-----------------------------------------------------------------------------
(* Every step.                                                             *)

LEMMA ClientLemma ==
    ASSUME IInv, NEW c \in Clients,
           client_connect(c) \/ client_leave(c) \/ \E r \in Requests : client_send(c, r)
    PROVE  IInv'
  <1>1. CASE client_connect(c)
    BY <1>1 DEF client_connect, IInv, TypeOK, TableAgrees, Confined, serverVars, threadVars,
                clientVars, Jobs
  <1>2. CASE client_leave(c)
    <2>1. TypeOK'
      BY <1>2 DEF client_leave, IInv, TypeOK, serverVars, threadVars, Jobs
    <2> QED BY <1>2, <2>1, QuietLemma DEF client_leave, serverVars, threadVars
  <1>3. ASSUME NEW r \in Requests, client_send(c, r) PROVE IInv'
    <2>1. TypeOK'
      BY <1>3 DEF client_send, IInv, TypeOK, serverVars, threadVars, Jobs
    <2> QED BY <1>3, <2>1, QuietLemma DEF client_send, serverVars, threadVars
  <1> QED BY <1>1, <1>2, <1>3

LEMMA MainLemma ==
    ASSUME IInv,
           \/ construct \/ Run \/ Run_test \/ Run_accept_error \/ Stop
           \/ \E s \in Services : RegisterService(s)
    PROVE  IInv'
  <1> USE DEF IInv, TypeOK, TableAgrees, Confined, threadVars, clientVars, Jobs
  <1>1. CASE construct
    BY <1>1 DEF construct
  <1>2. CASE Run
    <2>1. late' = 0 /\ main' = "test" /\ stopped' \in BOOLEAN
      BY <1>2 DEF Run
    <2>2. TypeOK' /\ TableAgrees' /\ Confined'
      BY <1>2, <2>1 DEF Run
    <2>3. \A c \in Clients : pc'[c] = "ended" => closedBy'[c] # None
      BY <1>2 DEF Run
    <2>4. late' <= 1 /\ (late' = 1 => stopped' /\ main' # "accept")
      BY <2>1
    <2> QED BY <2>2, <2>3, <2>4, Zenon DEF IInv
  <1>3. CASE Run_test
    BY <1>3 DEF Run_test
  <1>4. CASE Run_accept_error
    BY <1>4 DEF Run_accept_error
  <1>5. CASE Stop
    BY <1>5 DEF Stop
  <1>6. ASSUME NEW s \in Services, RegisterService(s) PROVE IInv'
    BY <1>6 DEF RegisterService
  <1> QED BY <1>1, <1>2, <1>3, <1>4, <1>5, <1>6

LEMMA AcceptLemma ==
    ASSUME IInv, NEW c \in Clients, Run_accept(c) \/ Run_thread_error(c)
    PROVE  IInv'
  <1>0. Accept(c)
    BY DEF Run_accept, Run_thread_error
  <1>1. PICK f \in Fd : /\ fds[f] = None
                        /\ fds' = [fds EXCEPT ![f] = c]
                        /\ fd' = [fd EXCEPT ![c] = f]
    BY <1>0 DEF Accept, Free
  <1>2. conn[c] # "accepted" /\ pc[c] = "none" /\ closedBy[c] = None
    BY <1>0 DEF Accept, IInv, TableAgrees
  <1>3. /\ pc' \in [Clients -> {"none", "test", "enter", "read", "reply", "final", "ended"}]
        /\ pc'[c] \in {"none", "test"} /\ \A d \in Clients \ {c} : pc'[d] = pc[d]
    <2>1. pc \in [Clients -> {"none", "test", "enter", "read", "reply", "final", "ended"}]
      BY DEF IInv, TypeOK
    <2>2. pc' = [pc EXCEPT ![c] = "test"] \/ pc' = pc
      BY DEF Run_accept, Run_thread_error
    <2> QED BY <1>2, <2>1, <2>2
  <1>4. /\ UNCHANGED <<alive, services, stopped, file, eintr, job, clientVars, taken, replies,
                       closedBy>>
        /\ main' \in {"test", "idle"}
    BY DEF Run_accept, Run_thread_error
  <1>5. /\ conn' = [conn EXCEPT ![c] = "accepted"]
        /\ late' = IF stopped THEN late + 1 ELSE late
        /\ main = "accept"
    BY <1>0 DEF Accept
  <1>6. TypeOK'
    <2>1. fds' \in [Fd -> Clients \cup {None}] /\ fd' \in [Clients -> 0..MaxFds]
      BY <1>1, ThreadedAssumption DEF IInv, TypeOK
    <2>2. conn' \in [Clients -> {"away", "backlog", "accepted"}] /\ late' \in Nat
      BY <1>5 DEF IInv, TypeOK
    <2> QED BY <2>1, <2>2, <1>3, <1>4 DEF IInv, TypeOK, clientVars, Jobs
  <1>7. TableAgrees'
    BY <1>1, <1>2, <1>3, <1>4, <1>5, ThreadedAssumption DEF IInv, TypeOK, TableAgrees
  <1>8. /\ late' <= 1
        /\ late' = 1 => stopped' /\ main' # "accept"
    BY <1>4, <1>5 DEF IInv, TypeOK
  <1>9. \A d \in Clients : pc'[d] = "ended" => closedBy'[d] # None
    BY <1>3, <1>4 DEF IInv
  <1> QED BY <1>4, <1>6, <1>7, <1>8, <1>9 DEF IInv, Confined

LEMMA ThreadLemma ==
    ASSUME IInv, NEW t \in Clients, handle_client(t)
    PROVE  IInv'
  <1> USE DEF At, serverVars, threadVars, clientVars
  <1>1. CASE handle_client_test(t)
    <2>1. TypeOK'
      BY <1>1 DEF handle_client_test, Goto, IInv, TypeOK, Jobs
    <2> QED BY <1>1, <2>1, QuietLemma DEF handle_client_test, Goto, IInv, TypeOK
  <1>2. CASE read_n_enter(t)
    <2>1. pc[t] = "enter" /\ fds[fd[t]] \in Clients \cup {None}
      BY <1>2, ThreadHasNumber DEF read_n_enter
    <2>2. TypeOK'
      <3>1. /\ pc' \in [Clients -> {"none", "test", "enter", "read", "reply", "final", "ended"}]
            /\ file' \in [Clients -> Clients \cup {None}]
            /\ eintr' \in SUBSET Clients
        BY <1>2, <2>1 DEF read_n_enter, Goto, IInv, TypeOK
      <3>2. UNCHANGED <<alive, serverVars, fd, job, clientVars, conn, fds, taken, replies,
                        closedBy>>
        BY <1>2 DEF read_n_enter
      <3> QED BY <3>1, <3>2 DEF IInv, TypeOK, Jobs
    <2>3. \A c \in Clients : /\ pc'[c] = "none" <=> pc[c] = "none"
                             /\ pc'[c] = "ended" <=> pc[c] = "ended"
      BY <1>2, <2>1 DEF read_n_enter, Goto, IInv, TypeOK
    <2> QED BY <1>2, <2>2, <2>3, QuietLemma DEF read_n_enter
  <1>3. CASE read_n_error(t) \/ read_n_eof(t)
    <2>1. /\ file' \in [Clients -> Clients \cup {None}] /\ taken' \in [Clients -> Nat]
          /\ eintr' \in SUBSET Clients
      BY <1>3 DEF read_n_error, read_n_eof, IInv, TypeOK
    <2> QED BY <1>3, <2>1, DestroyLemma DEF read_n_error, read_n_eof
  <1>11. CASE read_n_interrupted(t) \/ read_n_eof_eintr(t)
    <2>1. pc[t] = "read" /\ eintr' \in SUBSET Clients
      BY <1>11 DEF read_n_interrupted, read_n_eof_eintr, IInv, TypeOK
    <2>2. Again(t)
      BY <1>11 DEF read_n_interrupted, read_n_eof_eintr
    <2>3. TypeOK'
      BY <2>1, <2>2 DEF Again, Goto, IInv, TypeOK, Jobs
    <2> QED BY <2>1, <2>2, <2>3, QuietLemma DEF Again, Goto, IInv, TypeOK
  <1>4. ASSUME NEW c \in Clients, handle_garbled(t, c) PROVE IInv'
    <2>1. file' \in [Clients -> Clients \cup {None}] /\ taken' \in [Clients -> Nat]
      BY <1>4 DEF handle_garbled, Take, IInv, TypeOK
    <2>2. eintr' \in SUBSET Clients
      BY <1>4 DEF handle_garbled, IInv, TypeOK
    <2>3. pc[t] # "none"
      BY <1>4 DEF handle_garbled, Take
    <2> QED BY <1>4, <2>1, <2>2, <2>3, DestroyLemma DEF handle_garbled
  <1>5. ASSUME NEW c \in Clients, handle_crash(t, c) PROVE IInv'
    <2>1. alive' \in BOOLEAN
      BY <1>5, Zenon DEF handle_crash
    <2>2. file' \in [Clients -> Clients \cup {None}] /\ taken' \in [Clients -> Nat]
      BY <1>5 DEF handle_crash, Take, IInv, TypeOK
    <2>3. TypeOK'
      BY <1>5, <2>1, <2>2 DEF handle_crash, IInv, TypeOK, Jobs
    <2> QED BY <1>5, <2>3, QuietLemma DEF handle_crash
  <1>6. ASSUME NEW c \in Clients, handle_call(t, c) PROVE IInv'
    <2>1. taken' \in [Clients -> Nat] /\ taken'[c] \in Nat /\ eintr' \in SUBSET Clients
      BY <1>6 DEF handle_call, MethodErrno, Take, IInv, TypeOK
    <2>2. TypeOK'
      BY <1>6, <2>1 DEF handle_call, Take, Goto, IInv, TypeOK, Jobs
    <2> QED BY <1>6, <2>2, QuietLemma DEF handle_call, Take, Goto, IInv, TypeOK
  <1>7. CASE respond_to_client(t)
    <2>1. job[t] \in Jobs
      BY DEF IInv, TypeOK
    <2>2. replies' \in [Clients -> Seq(Jobs)]
      BY <1>7, <2>1 DEF respond_to_client, IInv, TypeOK
    <2>3. TypeOK'
      BY <1>7, <2>2 DEF respond_to_client, Goto, IInv, TypeOK, Jobs
    <2> QED BY <1>7, <2>3, QuietLemma DEF respond_to_client, Goto, IInv, TypeOK
  <1>12. CASE write_n_interrupted(t)
    <2>1. TypeOK'
      BY <1>12 DEF write_n_interrupted, IInv, TypeOK, Jobs
    <2> QED BY <1>12, <2>1, QuietLemma DEF write_n_interrupted
  <1>8. CASE respond_to_client_error(t)
    <2>1. /\ file' \in [Clients -> Clients \cup {None}] /\ taken' \in [Clients -> Nat]
          /\ eintr' \in SUBSET Clients
      BY <1>8 DEF respond_to_client_error, IInv, TypeOK
    <2> QED BY <1>8, <2>1, DestroyLemma DEF respond_to_client_error
  <1>9. CASE respond_to_client_sigpipe(t)
    <2>1. TypeOK'
      BY <1>9 DEF respond_to_client_sigpipe, IInv, TypeOK, Jobs
    <2> QED BY <1>9, <2>1, QuietLemma DEF respond_to_client_sigpipe
  <1>10. CASE handle_client_end(t)
    <2>1. /\ file' \in [Clients -> Clients \cup {None}] /\ taken' \in [Clients -> Nat]
          /\ eintr' \in SUBSET Clients
      BY <1>10 DEF handle_client_end, IInv, TypeOK
    <2> QED BY <1>10, <2>1, DestroyLemma DEF handle_client_end
  <1> QED BY <1>1, <1>2, <1>3, <1>4, <1>5, <1>6, <1>7, <1>8, <1>9, <1>10,
             <1>11, <1>12
          DEF handle_client

LEMMA StepLemma == IInv /\ [Next]_vars => IInv'
  <1> SUFFICES ASSUME IInv, [Next]_vars PROVE IInv'
    OBVIOUS
  <1>1. CASE UNCHANGED vars
    BY <1>1 DEF vars, serverVars, threadVars, clientVars, IInv, TypeOK, TableAgrees, Confined,
                Jobs
  <1> QED BY <1>1, ClientLemma, MainLemma, AcceptLemma, ThreadLemma DEF Next

THEOREM Invariance == Spec => []IInv
  BY InitLemma, StepLemma, PTL DEF Spec

-----------------------------------------------------------------------------

\* The server's state is well typed in every reachable state.
THEOREM TypeCorrect == Spec => []TypeOK
  <1>1. IInv => TypeOK
    BY DEF IInv
  <1> QED BY Invariance, <1>1, PTL

\* A thread closes another client's connection only after its own was closed:
\* before handle_client has failed once, a connection belongs to its thread.
THEOREM ThreadsAreConfined == Spec => []Confined
  <1>1. IInv => Confined
    BY DEF IInv
  <1> QED BY Invariance, <1>1, PTL

\* Whatever a number was used for in between, handle_client does not end before
\* the connection it was started for is closed.
THEOREM DescriptorsAreReleased == Spec => []Released
  <1>1. IInv => Released
    BY ThreadedAssumption DEF IInv, TableAgrees, Released
  <1> QED BY Invariance, <1>1, PTL

\* After Stop at most one client is accepted, until Run is called again.
THEOREM AtMostOneLateClient == Spec => []OneLateClient
  <1>1. IInv => OneLateClient
    BY DEF IInv, OneLateClient
  <1> QED BY Invariance, <1>1, PTL

=============================================================================
