-------------------------- MODULE SimpleServerProofs --------------------------
(***************************************************************************)
(* The reactor server for any number of clients, objects and requests, any *)
(* sizes and any faults: its pool of connections, the descriptors it holds *)
(* and the buffers it answers from.                                        *)
(***************************************************************************)
EXTENDS SimpleServer, SequenceTheorems, TLAPS

LEMMA InitLemma == Init => IInv
  <1> SUFFICES ASSUME Init PROVE IInv
    OBVIOUS
  <1>1. TypeOK
    <2>1. alive \in BOOLEAN /\ eintr \in BOOLEAN /\ get_out \in BOOLEAN /\ restarted \in BOOLEAN
      BY Zenon DEF Init
    <2>2. busy \in 0..MaxObjects /\ created \in 0..MaxObjects
      BY SimpleAssumption DEF Init
    <2> QED BY <2>1, <2>2 DEF Init, TypeOK
  <1>2. Unused = {}
    BY DEF Init, Unused
  <1>3. PoolAgrees /\ PoolSound
    BY <1>2 DEF Init, PoolAgrees, PoolSound
  <1>4. OpenIsHeld /\ Watched /\ SizeIsHonest
    BY DEF Init, OpenIsHeld, Watched, SizeIsHonest
  <1> QED BY <1>1, <1>3, <1>4 DEF IInv

-----------------------------------------------------------------------------
(* The pool.                                                               *)

\* What is known of conns_unused alone.
PoolOf(created_, seq) ==
    /\ seq \in Seq(Object)
    /\ \A i, j \in 1..Len(seq) : seq[i] = seq[j] => i = j
    /\ \A i \in 1..Len(seq) : seq[i] \in 1..created_

LEMMA PoolLemma ==
    ASSUME IInv
    PROVE  /\ PoolOf(created, conns_unused)
           /\ \A i \in 1..Len(conns_unused) : conns_unused[i] \notin conns_in_use
           /\ created \in 0..MaxObjects
           /\ conns_in_use \subseteq 1..created
  BY DEF IInv, TypeOK, PoolAgrees, PoolSound, Unused, PoolOf

\* A sequence without its last element.
LEMMA FrontLemma ==
    ASSUME NEW S, NEW s \in Seq(S), Len(s) \in Nat \ {0}
    PROVE  /\ SubSeq(s, 1, Len(s) - 1) \in Seq(S)
           /\ Len(SubSeq(s, 1, Len(s) - 1)) = Len(s) - 1
           /\ \A i \in 1..(Len(s) - 1) : SubSeq(s, 1, Len(s) - 1)[i] = s[i]
  <1> DEFINE n == Len(s)
             m == n - 1
             f == SubSeq(s, 1, m)
  <1>1. n \in Nat \ {0} /\ \A i \in 1..n : s[i] \in S
    OBVIOUS
  <1> HIDE DEF n
  <1>2. m \in Nat /\ m \in Int /\ 1 \in Int /\ \A i \in 1..m : i \in 1..n /\ 1 + i - 1 = i
    BY <1>1
  <1> HIDE DEF m
  <1>3. m - 1 + 1 = m /\ (1 <= m \/ m = 0)
    BY <1>2
  <1>4. \A i \in 1..m : s[i] \in S
    BY <1>1, <1>2
  <1>5. /\ f \in Seq(S) /\ Len(f) = (IF 1 <= m THEN m - 1 + 1 ELSE 0)
        /\ \A i \in 1..(m - 1 + 1) : f[i] = s[1 + i - 1]
    BY <1>2, <1>4, SubSeqProperties
  <1> HIDE DEF f
  <1>6. Len(f) = m /\ \A i \in 1..m : f[i] = s[i]
    BY <1>2, <1>3, <1>5
  <1> QED BY <1>5, <1>6 DEF f, m, n

\* The object for a new connection is used by nobody, and leaves the pool.
LEMMA TakeLemma ==
    ASSUME IInv, NEW o \in Object, TakeObject(o)
    PROVE  /\ created' \in 0..MaxObjects /\ 1..created \subseteq 1..created'
           /\ o \in 1..created' /\ o \notin conns_in_use
           /\ PoolOf(created', conns_unused')
           /\ Unused' \subseteq Unused /\ o \notin Unused'
  <1> DEFINE n == Len(conns_unused)
  <1>1. CASE /\ conns_unused # <<>> /\ o = conns_unused[n]
             /\ conns_unused' = SubSeq(conns_unused, 1, n - 1)
             /\ UNCHANGED created
    <2>1. n \in Nat \ {0}
      BY <1>1, PoolLemma DEF PoolOf
    <2>2. /\ conns_unused' \in Seq(Object) /\ Len(conns_unused') = n - 1
          /\ \A i \in 1..(n - 1) : conns_unused'[i] = conns_unused[i]
      BY <1>1, <2>1, PoolLemma, FrontLemma DEF PoolOf
    <2>3. \A i \in 1..(n - 1) : i \in 1..n /\ conns_unused'[i] # o
      BY <1>1, <2>1, <2>2, PoolLemma DEF PoolOf
    <2>4. PoolOf(created', conns_unused')
      <3>1. \A i, j \in 1..(n - 1) : conns_unused'[i] = conns_unused'[j] => i = j
        BY <2>2, <2>3, PoolLemma DEF PoolOf
      <3>2. \A i \in 1..(n - 1) : conns_unused'[i] \in 1..created'
        BY <1>1, <2>2, <2>3, PoolLemma DEF PoolOf
      <3> QED BY <2>2, <3>1, <3>2 DEF PoolOf
    <2>5. Unused' \subseteq Unused /\ o \notin Unused'
      BY <2>2, <2>3 DEF Unused
    <2>6. o \in 1..created /\ o \notin conns_in_use
      BY <1>1, <2>1, PoolLemma DEF PoolOf
    <2> QED BY <1>1, <2>4, <2>5, <2>6, PoolLemma
  <1>2. CASE /\ conns_unused = <<>> /\ created < MaxObjects /\ o = created + 1
             /\ created' = o /\ UNCHANGED conns_unused
    <2>1. created' \in 0..MaxObjects /\ 1..created \subseteq 1..created' /\ o \in 1..created'
      BY <1>2, SimpleAssumption, PoolLemma
    <2>2. o \notin conns_in_use
      BY <1>2, PoolLemma
    <2>3. Unused' = {} /\ PoolOf(created', conns_unused')
      BY <1>2 DEF Unused, PoolOf
    <2> QED BY <2>1, <2>2, <2>3
  <1> QED BY <1>1, <1>2 DEF TakeObject

\* An object that was in use goes to the end of the pool.
LEMMA ReturnLemma ==
    ASSUME IInv, NEW o \in conns_in_use,
           conns_unused' = Append(conns_unused, o), UNCHANGED created
    PROVE  PoolOf(created', conns_unused') /\ Unused' = Unused \cup {o}
  <1> DEFINE n == Len(conns_unused)
  <1>1. conns_unused \in Seq(Object) /\ n \in Nat /\ o \in Object
    BY DEF IInv, TypeOK
  <1>2. /\ conns_unused' \in Seq(Object) /\ Len(conns_unused') = n + 1
        /\ \A i \in 1..n : conns_unused'[i] = conns_unused[i]
        /\ conns_unused'[n + 1] = o
    BY <1>1
  <1>3. \A i \in 1..(n + 1) : i \in 1..n \/ i = n + 1
    BY <1>1
  <1>4. \A i \in 1..n : conns_unused[i] # o
    BY PoolLemma
  <1>5. n + 1 \in 1..(n + 1) /\ 1..n \subseteq 1..(n + 1)
    BY <1>1
  <1>6. Unused' = Unused \cup {o}
    BY <1>2, <1>3, <1>5 DEF Unused
  <1>7. \A i, j \in 1..(n + 1) : conns_unused'[i] = conns_unused'[j] => i = j
    BY <1>2, <1>3, <1>4, PoolLemma DEF PoolOf
  <1>8. \A i \in 1..(n + 1) : conns_unused'[i] \in 1..created
    BY <1>2, <1>3, PoolLemma DEF PoolOf
  <1> QED BY <1>2, <1>6, <1>7, <1>8 DEF PoolOf

\* A running callback has an object in use, and its client's connection.
LEMMA ReadingLemma ==
    ASSUME IInv, NEW o \in Object, NEW c \in Clients, Reading(o, c)
    PROVE  /\ o \in events /\ o \in conns_in_use /\ o \in live
           /\ client_fd[o] = c /\ conn[c] = "open" /\ phase = "loop" /\ alive
           /\ \A q \in conns_in_use \ {o} : client_fd[q] # c
  <1>1. busy = o /\ o # 0 /\ c = client_fd[o] /\ alive
    BY DEF Reading, Object
  <1>2. o \in events /\ phase = "loop"
    BY <1>1 DEF IInv, PoolAgrees
  <1>3. o \in conns_in_use /\ o \in live
    BY <1>2 DEF IInv, PoolAgrees
  <1> QED BY <1>1, <1>2, <1>3 DEF IInv, PoolSound

-----------------------------------------------------------------------------
(* The buffers.                                                            *)

BufferOK == /\ size \in [Object -> Nat] /\ block \in [Object -> Nat]
            /\ SizeIsHonest

LEMMA ExpandLemma ==
    ASSUME IInv, NEW o \in Object, NEW n \in Nat,
           expand_connection_packet(o, n) \/ expand_connection_packet_fails(o, n)
    PROVE  BufferOK'
  <1>1. size \in [Object -> Nat] /\ block \in [Object -> Nat] /\ SizeIsHonest
    BY DEF IInv, TypeOK
  <1>2. CASE expand_connection_packet(o, n)
    BY <1>1, <1>2 DEF expand_connection_packet, bufferVars, BufferOK, SizeIsHonest
  <1>3. CASE expand_connection_packet_fails(o, n)
    BY <1>1, <1>3 DEF expand_connection_packet_fails, BufferOK, SizeIsHonest
  <1> QED BY <1>2, <1>3

\* A successful expand_connection_packet leaves a block of n bytes.
LEMMA RoomLemma ==
    ASSUME IInv, NEW o \in Object, NEW n \in Nat, expand_connection_packet(o, n)
    PROVE  block'[o] >= n
  <1>1. /\ size \in [Object -> Nat] /\ block \in [Object -> Nat]
        /\ block[o] \in {0, size[o]}
    BY DEF IInv, TypeOK, SizeIsHonest
  <1> QED BY <1>1 DEF expand_connection_packet, NeedsBlock, bufferVars

LEMMA RequestLemma ==
    ASSUME IInv, NEW c \in Clients, Len(sent[c]) > done[c]
    PROVE  /\ NextRequest(c) \in Requests
           /\ NextRequest(c).req \in Nat /\ NextRequest(c).resp \in Nat
           /\ CallSize(NextRequest(c)) \in Nat
  <1>1. sent[c] \in Seq(Requests) /\ done[c] \in Nat
    BY DEF IInv, TypeOK
  <1>2. done[c] + 1 \in 1..Len(sent[c])
    BY <1>1
  <1>3. NextRequest(c) \in Requests
    BY <1>1, <1>2 DEF NextRequest
  <1>4. NextRequest(c).req \in Nat /\ NextRequest(c).resp \in Nat
    BY <1>3, SimpleAssumption
  <1> QED BY <1>3, <1>4 DEF CallSize

LEMMA CompleteLemma ==
    ASSUME IInv, NEW c \in Clients, Complete(c)
    PROVE  Len(sent[c]) > done[c]
  <1>1. Len(sent[c]) \in Nat /\ done[c] \in Nat
    BY DEF IInv, TypeOK
  <1> QED BY <1>1 DEF Complete

-----------------------------------------------------------------------------
(* The callbacks.                                                          *)

\* A callback that ends by destroying its connection, whatever it did to the
\* buffer: the object leaves the map, the reactor and the client together.
LEMMA DestroyLemma ==
    ASSUME IInv, NEW o \in Object, NEW c \in Clients, Reading(o, c),
           destroy_rpc_connection(o), BufferOK', eintr' \in BOOLEAN,
           UNCHANGED <<alive, phase, get_out, restarted, refused, clientVars, done>>
    PROVE  IInv'
  <1>1. /\ o \in events /\ o \in conns_in_use /\ o \in live
        /\ client_fd[o] = c /\ conn[c] = "open" /\ phase = "loop" /\ alive
        /\ \A q \in conns_in_use \ {o} : client_fd[q] # c
    BY ReadingLemma
  <1>2. /\ events' = events \ {o} /\ live' = live \ {o} /\ conns_in_use' = conns_in_use \ {o}
        /\ conns_unused' = Append(conns_unused, o) /\ busy' = 0
        /\ conn' = [conn EXCEPT ![c] = "closed"]
        /\ client_fd' = client_fd /\ created' = created
    BY <1>1, Zenon DEF destroy_rpc_connection
  <1>3. PoolOf(created', conns_unused') /\ Unused' = Unused \cup {o}
    BY <1>1, <1>2, ReturnLemma
  <1>4. TypeOK'
    <2>1. alive' \in BOOLEAN /\ eintr' \in BOOLEAN /\ get_out' \in BOOLEAN /\ restarted' \in BOOLEAN
      BY Zenon DEF IInv, TypeOK
    <2>2. conns_unused' \in Seq(Object) /\ size' \in [Object -> Nat] /\ block' \in [Object -> Nat]
      BY <1>3 DEF PoolOf, BufferOK
    <2>3. busy' \in 0..MaxObjects
      BY <1>2, SimpleAssumption
    <2>4. conn' \in [Clients -> {"away", "backlog", "open", "closed"}]
      BY <1>2 DEF IInv, TypeOK
    <2> QED BY <1>2, <2>1, <2>2, <2>3, <2>4 DEF IInv, TypeOK, clientVars
  <1>5. PoolAgrees'
    <2>1. Unused' \cup conns_in_use' \subseteq 1..created'
      BY <1>1, <1>2, <1>3 DEF IInv, PoolAgrees
    <2> QED BY <1>2, <2>1 DEF IInv, PoolAgrees
  <1>6. PoolSound'
    <2>1. \A i, j \in 1..Len(conns_unused') : conns_unused'[i] = conns_unused'[j] => i = j
      BY <1>3 DEF PoolOf
    <2>2. Unused' \cap conns_in_use' = {} /\ Unused' \cap (live' \cup events') = {}
      BY <1>2, <1>3 DEF IInv, PoolSound
    <2>3. \A q \in conns_in_use' : q \in live' /\ conn'[client_fd'[q]] = "open"
      BY <1>1, <1>2 DEF IInv, TypeOK, PoolSound, PoolAgrees
    <2>4. \A q, r \in conns_in_use' : client_fd'[q] = client_fd'[r] => q = r
      BY <1>2 DEF IInv, PoolSound
    <2> QED BY <2>1, <2>2, <2>3, <2>4 DEF PoolSound
  <1>7. OpenIsHeld'
    BY <1>1, <1>2 DEF IInv, TypeOK, OpenIsHeld
  <1>8. Watched'
    BY <1>2 DEF IInv, Watched
  <1>9. SizeIsHonest'
    BY DEF BufferOK
  <1> QED BY <1>4, <1>5, <1>6, <1>7, <1>8, <1>9 DEF IInv

\* The steps that touch neither the pool nor a connection.
LEMMA KeepLemma ==
    ASSUME IInv, BufferOK', alive' \in BOOLEAN, alive' => alive,
           eintr' \in BOOLEAN, get_out' \in BOOLEAN,
           phase' \in {"idle", "loop"},
           busy' \in {0, busy} \cup events, busy' # 0 => phase' = "loop",
           done' \in [Clients -> Nat],
           UNCHANGED <<restarted, poolVars, refused, conn, clientVars>>
    PROVE  IInv'
  <1>1. TypeOK'
    <2>1. busy' \in 0..MaxObjects
      BY SimpleAssumption DEF IInv, TypeOK, Object
    <2>2. restarted' \in BOOLEAN
      BY Zenon DEF IInv, TypeOK
    <2>3. size' \in [Object -> Nat] /\ block' \in [Object -> Nat]
      BY DEF BufferOK
    <2> QED BY <2>1, <2>2, <2>3 DEF IInv, TypeOK, poolVars, clientVars
  <1>2. Unused' = Unused
    BY DEF Unused, poolVars
  <1>3. PoolAgrees'
    BY <1>2 DEF IInv, PoolAgrees, poolVars
  <1>4. PoolSound'
    BY <1>2 DEF IInv, PoolSound, poolVars
  <1>5. OpenIsHeld' /\ Watched'
    BY DEF IInv, OpenIsHeld, Watched, poolVars
  <1>6. SizeIsHonest'
    BY DEF BufferOK
  <1> QED BY <1>1, <1>3, <1>4, <1>5, <1>6 DEF IInv

LEMMA BufferKept == ASSUME IInv, UNCHANGED bufferVars PROVE BufferOK'
  BY DEF IInv, TypeOK, SizeIsHonest, bufferVars, BufferOK

LEMMA EnterLemma ==
    ASSUME IInv, NEW o \in Object, handle_client_enter(o) PROVE IInv'
  <1>1. alive' \in BOOLEAN /\ eintr' \in BOOLEAN /\ get_out' \in BOOLEAN /\ (alive' => alive)
    BY Zenon DEF IInv, TypeOK, handle_client_enter
  <1>2. phase' = "loop" /\ busy' \in events
    BY DEF handle_client_enter, Ready
  <1>3. done' \in [Clients -> Nat] /\ BufferOK'
    BY BufferKept DEF IInv, TypeOK, handle_client_enter
  <1>4. UNCHANGED <<restarted, poolVars, refused, conn, clientVars>>
    BY DEF handle_client_enter
  <1> QED BY <1>1, <1>2, <1>3, <1>4, KeepLemma

LEMMA ReadErrorLemma ==
    ASSUME IInv, NEW o \in Object, NEW c \in Clients, handle_client_read_error(o, c) PROVE IInv'
  <1>1. eintr' \in BOOLEAN
    BY Zenon DEF handle_client_read_error, read_n_fails, IInv, TypeOK
  <1>2. CASE UNCHANGED bufferVars
    BY <1>1, <1>2, BufferKept, DestroyLemma DEF handle_client_read_error
  <1>3. CASE Len(sent[c]) > done[c] /\ expand_connection_packet(o, NextRequest(c).req)
    <2>1. BufferOK'
      BY <1>3, RequestLemma, ExpandLemma
    <2> QED BY <1>1, <2>1, DestroyLemma DEF handle_client_read_error
  <1> QED BY <1>2, <1>3 DEF handle_client_read_error

LEMMA OomLemma ==
    ASSUME IInv, NEW o \in Object, NEW c \in Clients, handle_client_oom(o, c) PROVE IInv'
  <1>1. BufferOK'
    BY RequestLemma, ExpandLemma DEF handle_client_oom
  <1>2. eintr' \in BOOLEAN
    BY Zenon DEF handle_client_oom
  <1> QED BY <1>1, <1>2, DestroyLemma DEF handle_client_oom

LEMMA GarbledLemma ==
    ASSUME IInv, NEW o \in Object, NEW c \in Clients, handle_client_garbled(o, c) PROVE IInv'
  <1>1. BufferOK'
    BY CompleteLemma, RequestLemma, ExpandLemma DEF handle_client_garbled
  <1>2. eintr' \in BOOLEAN
    BY Zenon DEF handle_client_garbled, IInv, TypeOK
  <1> QED BY <1>1, <1>2, DestroyLemma DEF handle_client_garbled

LEMMA CrashLemma ==
    ASSUME IInv, NEW o \in Object, NEW c \in Clients, handle_client_crash(o, c) PROVE IInv'
  <1>1. alive' \in BOOLEAN /\ eintr' \in BOOLEAN /\ get_out' \in BOOLEAN /\ (alive' => alive)
    BY Zenon DEF IInv, TypeOK, handle_client_crash
  <1>2. phase' = "loop" /\ busy' = busy
    BY ReadingLemma DEF handle_client_crash
  <1>3. done' \in [Clients -> Nat] /\ BufferOK'
    BY BufferKept DEF IInv, TypeOK, handle_client_crash
  <1>4. UNCHANGED <<restarted, poolVars, refused, conn, clientVars>>
    BY DEF handle_client_crash
  <1> QED BY <1>1, <1>2, <1>3, <1>4, KeepLemma

LEMMA CallLemma ==
    ASSUME IInv, NEW o \in Object, NEW c \in Clients, handle_client_call(o, c) PROVE IInv'
  <1>1. alive' \in BOOLEAN /\ eintr' \in BOOLEAN /\ get_out' \in BOOLEAN /\ (alive' => alive)
    BY Zenon DEF IInv, TypeOK, handle_client_call
  <1>2. phase' = "loop" /\ busy' = 0
    BY ReadingLemma DEF handle_client_call
  <1>3. BufferOK'
    BY CompleteLemma, RequestLemma, ExpandLemma DEF handle_client_call
  <1>4. done' \in [Clients -> Nat]
    BY DEF IInv, TypeOK, handle_client_call
  <1>5. UNCHANGED <<restarted, poolVars, refused, conn, clientVars>>
    BY DEF handle_client_call
  <1> QED BY <1>1, <1>2, <1>3, <1>4, <1>5, KeepLemma

\* Here the request had room and the response may have none.
LEMMA NoResponseLemma ==
    ASSUME IInv, NEW o \in Object, NEW c \in Clients, handle_client_no_response(o, c) PROVE IInv'
  <1> DEFINE r == NextRequest(c)
             grown == IF NeedsBlock(o, r.req) THEN r.req ELSE size[o]
  <1>0. eintr' \in BOOLEAN
    BY Zenon DEF handle_client_no_response, IInv, TypeOK
  <1>1. r.req \in Nat /\ CallSize(r) \in Nat
    BY CompleteLemma, RequestLemma DEF handle_client_no_response
  <1>2. size \in [Object -> Nat] /\ block \in [Object -> Nat] /\ SizeIsHonest
    BY DEF IInv, TypeOK
  <1>3. CASE size' = [size EXCEPT ![o] = grown] /\ block' = [block EXCEPT ![o] = 0]
    <2>1. grown \in Nat
      BY <1>1, <1>2
    <2> HIDE DEF grown
    <2>2. BufferOK'
      BY <1>2, <1>3, <2>1 DEF BufferOK, SizeIsHonest
    <2> QED BY <1>0, <2>2, DestroyLemma DEF handle_client_no_response
  <1>4. CASE expand_connection_packet(o, CallSize(r))
    <2>1. BufferOK'
      BY <1>1, <1>4, ExpandLemma
    <2> QED BY <1>0, <2>1, DestroyLemma DEF handle_client_no_response
  <1> QED BY <1>3, <1>4 DEF handle_client_no_response

LEMMA HandleClientLemma ==
    ASSUME IInv, NEW o \in Object, handle_client(o) PROVE IInv'
  BY ReadErrorLemma, OomLemma, GarbledLemma, CrashLemma, CallLemma, NoResponseLemma
     DEF handle_client


-----------------------------------------------------------------------------
(* Accepting.                                                              *)

LEMMA AcceptLemma ==
    ASSUME IInv, NEW c \in Clients, Accept(c)
    PROVE  /\ alive /\ phase = "loop" /\ busy = 0
           /\ conn' = [conn EXCEPT ![c] = "open"]
           /\ conn' \in [Clients -> {"away", "backlog", "open", "closed"}]
           /\ \A q \in conns_in_use : client_fd[q] # c /\ client_fd[q] \in Clients
           /\ \A q \in conns_in_use : conn'[client_fd[q]] = "open"
           /\ \A d \in Clients \ {c} : conn'[d] = conn[d]
  <1>1. alive /\ phase = "loop" /\ busy = 0
    BY Zenon DEF Accept
  <1>2. conn[c] = "backlog" /\ conn' = [conn EXCEPT ![c] = "open"]
    BY DEF Accept
  <1>3. conn \in [Clients -> {"away", "backlog", "open", "closed"}]
    BY DEF IInv, TypeOK
  <1>4. \A q \in conns_in_use : client_fd[q] \in Clients /\ conn[client_fd[q]] = "open"
    BY DEF IInv, PoolAgrees, PoolSound
  <1>5. \A q \in conns_in_use : client_fd[q] # c
    BY <1>2, <1>4
  <1> QED BY <1>1, <1>2, <1>3, <1>4, <1>5

\* The new connection's object was used by nobody and its client had none.
LEMMA ListenLemma ==
    ASSUME IInv, NEW c \in Clients, NEW o \in Object, handle_listen_sock(c, o) PROVE IInv'
  <1>1. /\ alive /\ phase = "loop" /\ busy = 0
        /\ conn' = [conn EXCEPT ![c] = "open"]
        /\ conn' \in [Clients -> {"away", "backlog", "open", "closed"}]
        /\ \A q \in conns_in_use : client_fd[q] # c /\ client_fd[q] \in Clients
        /\ \A q \in conns_in_use : conn'[client_fd[q]] = "open"
        /\ \A d \in Clients \ {c} : conn'[d] = conn[d]
    BY AcceptLemma DEF handle_listen_sock
  <1>2. /\ created' \in 0..MaxObjects /\ 1..created \subseteq 1..created'
        /\ o \in 1..created' /\ o \notin conns_in_use
        /\ PoolOf(created', conns_unused')
        /\ Unused' \subseteq Unused /\ o \notin Unused'
    BY TakeLemma DEF handle_listen_sock
  <1>3. /\ client_fd' = [client_fd EXCEPT ![o] = c]
        /\ live' = live \cup {o} /\ events' = events \cup {o}
        /\ conns_in_use' = conns_in_use \cup {o}
        /\ UNCHANGED <<alive, eintr, phase, get_out, restarted, busy, bufferVars, refused,
                       clientVars, done>>
    BY DEF handle_listen_sock
  <1>4. client_fd \in [Object -> Clients \cup {None}] /\ conns_in_use \subseteq Object
    BY DEF IInv, TypeOK
  <1>5. client_fd'[o] = c /\ \A q \in conns_in_use : client_fd'[q] = client_fd[q]
    BY <1>2, <1>3, <1>4
  <1>6. TypeOK'
    <2>1. alive' \in BOOLEAN /\ eintr' \in BOOLEAN /\ get_out' \in BOOLEAN /\ restarted' \in BOOLEAN
      BY <1>3, Zenon DEF IInv, TypeOK
    <2>2. conns_unused' \in Seq(Object) /\ client_fd' \in [Object -> Clients \cup {None}]
      BY <1>2, <1>3, <1>4 DEF PoolOf
    <2>3. live' \in SUBSET Object /\ events' \in SUBSET Object /\ conns_in_use' \in SUBSET Object
      BY <1>3 DEF IInv, TypeOK
    <2>4. /\ phase' \in {"idle", "loop", "deleted"} /\ busy' \in 0..MaxObjects
          /\ refused' \in SUBSET Clients /\ done' \in [Clients -> Nat]
          /\ size' \in [Object -> Nat] /\ block' \in [Object -> Nat]
          /\ left' \in SUBSET Clients /\ flagged' \in SUBSET Clients /\ half' \in SUBSET Clients
          /\ sent' \in [Clients -> Seq(Requests)]
      BY <1>3 DEF IInv, TypeOK, bufferVars, clientVars
    <2> QED BY <1>1, <1>2, <2>1, <2>2, <2>3, <2>4 DEF TypeOK
  <1>7. PoolAgrees'
    <2>1. Unused' \cup conns_in_use' \subseteq 1..created'
      BY <1>2, <1>3 DEF IInv, PoolAgrees
    <2> QED BY <1>1, <1>3, <1>5, <2>1 DEF IInv, PoolAgrees
  <1>8. PoolSound'
    <2>1. \A i, j \in 1..Len(conns_unused') : conns_unused'[i] = conns_unused'[j] => i = j
      BY <1>2 DEF PoolOf
    <2>2. Unused' \cap conns_in_use' = {} /\ Unused' \cap (live' \cup events') = {}
      BY <1>2, <1>3 DEF IInv, PoolSound
    <2>3. conn'[c] = "open"
      BY <1>1 DEF IInv, TypeOK
    <2>4. \A q \in conns_in_use' : q \in live' /\ conn'[client_fd'[q]] = "open"
      BY <1>1, <1>3, <1>5, <2>3 DEF IInv, PoolSound
    <2>5. \A q, r \in conns_in_use' : client_fd'[q] = client_fd'[r] => q = r
      BY <1>1, <1>3, <1>5 DEF IInv, PoolSound
    <2> QED BY <2>1, <2>2, <2>4, <2>5 DEF PoolSound
  <1>9. OpenIsHeld'
    <2> SUFFICES ASSUME NEW d \in Clients, conn'[d] = "open", alive'
                 PROVE  d \in refused' \/ \E q \in conns_in_use' : client_fd'[q] = d
      BY DEF OpenIsHeld
    <2>1. CASE d = c
      BY <1>3, <1>5, <2>1
    <2>2. CASE d # c
      BY <1>1, <1>3, <1>5, <2>2 DEF IInv, OpenIsHeld
    <2> QED BY <2>1, <2>2
  <1>10. Watched'
    BY <1>3 DEF IInv, Watched
  <1>11. SizeIsHonest'
    BY <1>3, BufferKept DEF BufferOK
  <1> QED BY <1>6, <1>7, <1>8, <1>9, <1>10, <1>11 DEF IInv

\* The event is refused: the object is gone, the client's descriptor is not.
LEMMA RefusedLemma ==
    ASSUME IInv, NEW c \in Clients, NEW o \in Object, handle_listen_sock_refused(c, o) PROVE IInv'
  <1>1. /\ alive /\ phase = "loop" /\ busy = 0
        /\ conn' \in [Clients -> {"away", "backlog", "open", "closed"}]
        /\ \A q \in conns_in_use : conn'[client_fd[q]] = "open"
        /\ \A d \in Clients \ {c} : conn'[d] = conn[d]
    BY AcceptLemma DEF handle_listen_sock_refused
  <1>2. /\ created' \in 0..MaxObjects /\ 1..created \subseteq 1..created'
        /\ PoolOf(created', conns_unused') /\ Unused' \subseteq Unused
    BY TakeLemma DEF handle_listen_sock_refused
  <1>3. /\ refused' = refused \cup {c}
        /\ UNCHANGED <<alive, eintr, phase, get_out, restarted, busy, conns_in_use, events,
                       client_fd, live, bufferVars, clientVars, done>>
    BY DEF handle_listen_sock_refused
  <1>4. TypeOK'
    <2>1. alive' \in BOOLEAN /\ eintr' \in BOOLEAN /\ get_out' \in BOOLEAN /\ restarted' \in BOOLEAN
      BY <1>3, Zenon DEF IInv, TypeOK
    <2> QED BY <1>1, <1>2, <1>3, <2>1 DEF IInv, TypeOK, PoolOf, bufferVars, clientVars
  <1>5. PoolAgrees'
    <2>1. Unused' \cup conns_in_use' \subseteq 1..created'
      BY <1>2, <1>3 DEF IInv, PoolAgrees
    <2> QED BY <1>3, <2>1 DEF IInv, PoolAgrees
  <1>6. PoolSound'
    <2>1. \A i, j \in 1..Len(conns_unused') : conns_unused'[i] = conns_unused'[j] => i = j
      BY <1>2 DEF PoolOf
    <2> QED BY <1>1, <1>2, <1>3, <2>1 DEF IInv, PoolSound
  <1>7. OpenIsHeld' /\ Watched'
    BY <1>1, <1>3 DEF IInv, OpenIsHeld, Watched
  <1>8. SizeIsHonest'
    BY <1>3, BufferKept DEF BufferOK
  <1> QED BY <1>4, <1>5, <1>6, <1>7, <1>8 DEF IInv

LEMMA ListenOomLemma ==
    ASSUME IInv, NEW c \in Clients, handle_listen_sock_oom(c) PROVE IInv'
  <1>1. /\ conn' \in [Clients -> {"away", "backlog", "open", "closed"}]
        /\ \A q \in conns_in_use : conn'[client_fd[q]] = "open"
    BY AcceptLemma DEF handle_listen_sock_oom
  <1>2. /\ ~alive' /\ alive' \in BOOLEAN /\ eintr' \in BOOLEAN /\ get_out' \in BOOLEAN /\ restarted' \in BOOLEAN
    BY Zenon DEF IInv, TypeOK, handle_listen_sock_oom
  <1>3. UNCHANGED <<phase, get_out, restarted, busy, poolVars, bufferVars, refused, clientVars,
                    done>>
    BY DEF handle_listen_sock_oom
  <1>4. TypeOK'
    BY <1>1, <1>2, <1>3 DEF IInv, TypeOK, poolVars, bufferVars, clientVars
  <1>5. Unused' = Unused
    BY <1>3 DEF Unused, poolVars
  <1>6. PoolAgrees' /\ PoolSound'
    BY <1>1, <1>3, <1>5 DEF IInv, PoolAgrees, PoolSound, poolVars
  <1>7. OpenIsHeld' /\ Watched'
    BY <1>2, <1>3 DEF IInv, OpenIsHeld, Watched, poolVars
  <1>8. SizeIsHonest'
    BY <1>3, BufferKept DEF BufferOK
  <1> QED BY <1>4, <1>6, <1>7, <1>8 DEF IInv

-----------------------------------------------------------------------------
(* Running, stopping and the clients.                                      *)

LEMMA RunLemma == ASSUME IInv, Run PROVE IInv'
  <1>1. alive' \in BOOLEAN /\ eintr' \in BOOLEAN /\ get_out' \in BOOLEAN /\ (alive' => alive)
    BY Zenon DEF IInv, TypeOK, Run
  <1>2. phase' = "loop" /\ busy' = busy /\ done' \in [Clients -> Nat] /\ BufferOK'
    BY BufferKept DEF IInv, TypeOK, Run
  <1>3. UNCHANGED <<restarted, poolVars, refused, conn, clientVars>>
    BY DEF Run
  <1> QED BY <1>1, <1>2, <1>3, KeepLemma

LEMMA StopLemma == ASSUME IInv, Stop PROVE IInv'
  <1>1. alive' \in BOOLEAN /\ eintr' \in BOOLEAN /\ get_out' \in BOOLEAN /\ (alive' => alive)
    BY Zenon DEF IInv, TypeOK, Stop
  <1>2. /\ phase' = phase /\ phase' \in {"idle", "loop"} /\ busy' = busy
        /\ done' \in [Clients -> Nat] /\ BufferOK'
    BY BufferKept DEF IInv, TypeOK, Stop
  <1>3. busy' # 0 => phase' = "loop"
    BY <1>2 DEF IInv, PoolAgrees
  <1>4. UNCHANGED <<restarted, poolVars, refused, conn, clientVars>>
    BY DEF Stop
  <1> QED BY <1>1, <1>2, <1>3, <1>4, KeepLemma

LEMMA RunReturnLemma == ASSUME IInv, Run_return PROVE IInv'
  <1>1. /\ alive' \in BOOLEAN /\ eintr' \in BOOLEAN /\ get_out' \in BOOLEAN /\ restarted' \in BOOLEAN /\ restarted'
        /\ (alive' => alive)
    BY Zenon DEF IInv, TypeOK, Run_return
  <1>2. /\ phase' = "idle" /\ events' = {} /\ busy' = 0
        /\ UNCHANGED <<busy, created, conns_unused, conns_in_use, client_fd, live, bufferVars, conn,
                       refused, clientVars, done>>
    BY DEF Run_return
  <1>3. TypeOK'
    BY <1>1, <1>2 DEF IInv, TypeOK, bufferVars, clientVars
  <1>4. Unused' = Unused
    BY <1>2 DEF Unused
  <1>5. PoolAgrees' /\ PoolSound'
    BY <1>2, <1>4 DEF IInv, PoolAgrees, PoolSound
  <1>6. OpenIsHeld' /\ Watched'
    BY <1>1, <1>2 DEF IInv, OpenIsHeld, Watched
  <1>7. SizeIsHonest'
    BY <1>2, BufferKept DEF BufferOK
  <1> QED BY <1>3, <1>5, <1>6, <1>7 DEF IInv

LEMMA CallFailsLemma == ASSUME IInv, call_fails PROVE IInv'
  <1>1. /\ alive' \in BOOLEAN /\ eintr' \in BOOLEAN /\ get_out' \in BOOLEAN /\ (alive' => alive)
    BY Zenon DEF IInv, TypeOK, call_fails
  <1>2. /\ phase' = "loop" /\ busy' = busy /\ done' \in [Clients -> Nat] /\ BufferOK'
    BY BufferKept DEF IInv, TypeOK, call_fails
  <1>3. UNCHANGED <<restarted, poolVars, refused, conn, clientVars>>
    BY DEF call_fails
  <1> QED BY <1>1, <1>2, <1>3, KeepLemma

\* The destructor closes every connection that an object in use held.
LEMMA DeleteLemma == ASSUME IInv, delete_server PROVE IInv'
  <1>1. alive' \in BOOLEAN /\ eintr' \in BOOLEAN /\ get_out' \in BOOLEAN /\ restarted' \in BOOLEAN /\ (alive' => alive)
    BY Zenon DEF IInv, TypeOK, delete_server
  <1>2. /\ phase = "idle" /\ phase' = "deleted" /\ events' = {} /\ live' = {}
        /\ conns_unused' = <<>> /\ conns_in_use' = {}
        /\ conn' = [c \in Clients |->
                       IF \E o \in live : client_fd[o] = c THEN "closed" ELSE conn[c]]
        /\ UNCHANGED <<busy, created, client_fd, bufferVars, refused, clientVars, done>>
    BY DEF delete_server
  <1>3. Unused' = {} /\ conns_unused' \in Seq(Object)
    BY <1>2 DEF Unused
  <1>4. busy' = 0
    BY <1>2 DEF IInv, PoolAgrees
  <1>5. conn' \in [Clients -> {"away", "backlog", "open", "closed"}]
    BY <1>2 DEF IInv, TypeOK
  <1>6. TypeOK'
    BY <1>1, <1>2, <1>3, <1>5 DEF IInv, TypeOK, bufferVars, clientVars
  <1>7. PoolAgrees' /\ PoolSound'
    BY <1>2, <1>3, <1>4 DEF PoolAgrees, PoolSound
  <1>8. OpenIsHeld' /\ Watched'
    BY <1>1, <1>2 DEF IInv, PoolAgrees, OpenIsHeld, Watched
  <1>9. SizeIsHonest'
    BY <1>2, BufferKept DEF BufferOK
  <1> QED BY <1>6, <1>7, <1>8, <1>9 DEF IInv

\* What a client does opens and closes nothing on the server's side.
LEMMA ClientLemma ==
    ASSUME IInv, NEW c \in Clients,
           \/ client_connect(c) \/ client_finish(c) \/ client_leave(c)
           \/ \E r \in Requests : client_begin(c, r)
    PROVE  IInv'
  <1>1. UNCHANGED <<poolVars, bufferVars, refused, done>>
    BY DEF client_connect, client_finish, client_leave, client_begin, serverVars
  <1>2. UNCHANGED <<alive, eintr, phase, get_out, restarted, busy>>
    BY DEF client_connect, client_finish, client_leave, client_begin, serverVars
  <1>3. /\ alive' \in BOOLEAN /\ eintr' \in BOOLEAN /\ get_out' \in BOOLEAN /\ restarted' \in BOOLEAN
        /\ (alive' => alive) /\ (restarted' <=> restarted)
    BY <1>2, Zenon DEF IInv, TypeOK
  <1>4. /\ conn' \in [Clients -> {"away", "backlog", "open", "closed"}]
        /\ \A d \in Clients : conn'[d] = "open" <=> conn[d] = "open"
    BY DEF client_connect, client_finish, client_leave, client_begin, IInv, TypeOK
  <1>5. /\ left' \in SUBSET Clients /\ flagged' \in SUBSET Clients /\ half' \in SUBSET Clients
        /\ sent' \in [Clients -> Seq(Requests)]
    <2>1. /\ left \in SUBSET Clients /\ flagged \in SUBSET Clients /\ half \in SUBSET Clients
          /\ sent \in [Clients -> Seq(Requests)]
      BY DEF IInv, TypeOK
    <2>2. CASE client_connect(c) \/ client_finish(c)
      BY <2>1, <2>2 DEF client_connect, client_finish, clientVars
    <2>3. CASE client_leave(c)
      BY <2>1, <2>3 DEF client_leave
    <2>4. ASSUME NEW r \in Requests, client_begin(c, r)
          PROVE  /\ left' \in SUBSET Clients /\ flagged' \in SUBSET Clients
                 /\ half' \in SUBSET Clients /\ sent' \in [Clients -> Seq(Requests)]
      <3>1. Append(sent[c], r) \in Seq(Requests)
        BY <2>1
      <3> QED BY <2>1, <2>4, <3>1 DEF client_begin
    <2> QED BY <2>2, <2>3, <2>4
  <1>6. TypeOK'
    BY <1>1, <1>2, <1>3, <1>4, <1>5 DEF IInv, TypeOK, poolVars, bufferVars
  <1>7. Unused' = Unused
    BY <1>1 DEF Unused, poolVars
  <1>8. PoolAgrees' /\ PoolSound'
    BY <1>1, <1>2, <1>4, <1>7 DEF IInv, PoolAgrees, PoolSound, poolVars
  <1>9. OpenIsHeld'
    BY <1>1, <1>3, <1>4 DEF IInv, OpenIsHeld, poolVars
  <1>10. Watched'
    BY <1>1, <1>3 DEF IInv, Watched, poolVars
  <1>11. SizeIsHonest'
    BY <1>1, BufferKept DEF BufferOK
  <1> QED BY <1>6, <1>8, <1>9, <1>10, <1>11 DEF IInv

LEMMA StutterLemma == ASSUME IInv, UNCHANGED vars PROVE IInv'
  <1>1. alive' \in BOOLEAN /\ eintr' \in BOOLEAN /\ get_out' \in BOOLEAN /\ (alive' => alive)
    BY Zenon DEF IInv, TypeOK, vars
  <1>2. UNCHANGED <<restarted, phase, busy, poolVars, refused, conn, clientVars, done>>
    BY DEF vars
  <1>3. TypeOK'
    BY DEF IInv, TypeOK, vars, poolVars, bufferVars, clientVars
  <1>4. Unused' = Unused
    BY <1>2 DEF Unused, poolVars
  <1>5. PoolAgrees' /\ PoolSound' /\ OpenIsHeld' /\ Watched'
    BY <1>1, <1>2, <1>4 DEF IInv, PoolAgrees, PoolSound, OpenIsHeld, Watched, poolVars
  <1>6. SizeIsHonest'
    BY BufferKept DEF BufferOK, vars
  <1> QED BY <1>3, <1>5, <1>6 DEF IInv

-----------------------------------------------------------------------------
(* The theorems.                                                           *)

LEMMA StepLemma == IInv /\ [Next]_vars => IInv'
  <1> SUFFICES ASSUME IInv, [Next]_vars PROVE IInv'
    OBVIOUS
  <1>1. ASSUME NEW c \in Clients,
               \/ client_connect(c) \/ client_finish(c) \/ client_leave(c)
               \/ \E r \in Requests : client_begin(c, r)
        PROVE  IInv'
    BY <1>1, ClientLemma
  <1>2. ASSUME NEW c \in Clients, NEW o \in Object,
               handle_listen_sock(c, o) \/ handle_listen_sock_refused(c, o)
        PROVE  IInv'
    BY <1>2, ListenLemma, RefusedLemma
  <1>3. ASSUME NEW c \in Clients, handle_listen_sock_oom(c) PROVE IInv'
    BY <1>3, ListenOomLemma
  <1>4. ASSUME NEW o \in Object, handle_client_enter(o) \/ handle_client(o) PROVE IInv'
    BY <1>4, EnterLemma, HandleClientLemma
  <1>5. CASE Run \/ Stop \/ Run_return \/ delete_server \/ call_fails
    BY <1>5, RunLemma, StopLemma, RunReturnLemma, DeleteLemma, CallFailsLemma
  <1>6. CASE UNCHANGED vars
    BY <1>6, StutterLemma
  <1> QED BY <1>1, <1>2, <1>3, <1>4, <1>5, <1>6 DEF Next

\* Every reachable state satisfies the inductive invariant.
THEOREM Invariance == Spec => []IInv
  BY InitLemma, StepLemma, PTL DEF Spec

\* Each variable of the reactor server keeps its type: the vector of unused
\* objects holds objects, never descriptors, and no size is negative.
THEOREM TypeCorrect == Spec => []TypeOK
  <1>1. IInv => TypeOK
    BY DEF IInv
  <1> QED BY <1>1, Invariance, PTL

\* The two containers of rpc_connections never share an object, no two clients
\* are served by one object, and the descriptor of an object in use is open.
THEOREM PoolIsSound == Spec => []PoolSound
  <1>1. IInv => PoolSound
    BY DEF IInv
  <1> QED BY <1>1, Invariance, PTL

\* Every descriptor handle_listen_sock opened is closed or still held by an
\* object of conns_in_use, but for those whose event could not be added.
THEOREM NoDescriptorForgotten == Spec => []OpenIsHeld
  <1>1. IInv => OpenIsHeld
    BY DEF IInv
  <1> QED BY <1>1, Invariance, PTL

\* Until Run returns for the first time no connection in use is left unwatched.
THEOREM AllWatched == Spec => []Watched
  <1>1. IInv => Watched
    BY DEF IInv
  <1> QED BY <1>1, Invariance, PTL

\* handle_client never answers a request out of a buffer that is too small for
\* the request or for its response, whatever sizes the connection's earlier
\* clients have left in it and whichever realloc has failed.
THEOREM CallsFit == Spec => CallFits
  <1> DEFINE Fits == \A c \in Clients, o \in Object :
                        done'[c] > done[c] /\ client_fd[o] = c /\ o \in live =>
                            block'[o] >= CallSize(NextRequest(c))
  <1>1. ASSUME IInv, [Next]_vars PROVE Fits \/ UNCHANGED vars
    <2>1. done' = done => Fits
      <3>1. \A c \in Clients : ~(done[c] > done[c])
        BY <1>1 DEF IInv, TypeOK
      <3> QED BY <3>1
    <2>2. ASSUME NEW o \in Object, NEW c \in Clients, handle_client_call(o, c) PROVE Fits
      <3> SUFFICES ASSUME NEW d \in Clients, done'[d] > done[d],
                          NEW q \in Object, client_fd[q] = d, q \in live
                   PROVE  block'[q] >= CallSize(NextRequest(d))
        OBVIOUS
      <3>1. /\ o \in conns_in_use /\ client_fd[o] = c
            /\ \A p \in conns_in_use \ {o} : client_fd[p] # c
        BY <1>1, <2>2, ReadingLemma DEF handle_client_call
      <3>2. done' = [done EXCEPT ![c] = @ + 1] /\ done \in [Clients -> Nat]
        BY <1>1, <2>2 DEF handle_client_call, IInv, TypeOK
      <3>3. d = c
        BY <3>2
      <3>4. q = o
        BY <1>1, <3>1, <3>3 DEF IInv, PoolAgrees
      <3>5. CallSize(NextRequest(c)) \in Nat
        BY <1>1, <2>2, CompleteLemma, RequestLemma DEF handle_client_call
      <3>6. block'[o] >= CallSize(NextRequest(c))
        BY <1>1, <2>2, <3>5, RoomLemma DEF handle_client_call
      <3> QED BY <3>3, <3>4, <3>6
    <2> HIDE DEF Fits
    <2>3. ASSUME NEW o \in Object, handle_client(o) PROVE Fits
      BY <2>1, <2>2, <2>3 DEF handle_client, handle_client_read_error, handle_client_oom,
         handle_client_garbled, handle_client_crash, handle_client_no_response
    <2>4. ASSUME NEW o \in Object, handle_client_enter(o) PROVE Fits
      BY <2>1, <2>4 DEF handle_client_enter
    <2>5. ASSUME NEW c \in Clients,
                 \/ client_connect(c) \/ client_finish(c) \/ client_leave(c)
                 \/ \E r \in Requests : client_begin(c, r)
          PROVE  Fits
      BY <2>1, <2>5 DEF client_connect, client_finish, client_leave, client_begin, serverVars
    <2>6. ASSUME NEW c \in Clients,
                 \/ \E o \in Object : handle_listen_sock(c, o) \/ handle_listen_sock_refused(c, o)
                 \/ handle_listen_sock_oom(c)
          PROVE  Fits
      BY <2>1, <2>6 DEF handle_listen_sock, handle_listen_sock_refused, handle_listen_sock_oom
    <2>7. CASE Run \/ Stop \/ Run_return \/ delete_server \/ call_fails
      BY <2>1, <2>7 DEF Run, Stop, Run_return, delete_server, call_fails
    <2> QED BY <1>1, <2>3, <2>4, <2>5, <2>6, <2>7 DEF Next
  <1> QED BY <1>1, Invariance, PTL DEF Spec, CallFits

=============================================================================
