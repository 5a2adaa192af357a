-------------------------- MODULE AsyncServerProofs --------------------------
(***************************************************************************)
(* The asynchronous server for any number of connections and requests, any *)
(* sizes and any faults: what it executes and answers, which connections   *)
(* it keeps, and when it stops accepting.                                  *)
(***************************************************************************)
EXTENDS AsyncServer, WellFoundedInduction, TLAPS

LEMMA InitLemma == Init => IInv
  <1> SUFFICES ASSUME Init PROVE IInv
    OBVIOUS
  <1>1. 1 \in Conn
    BY ServerAssumption DEF Conn
  <1>2. ControlTypes
    <2>1. created \in 0..MaxConns /\ conns_ \in SUBSET Conn
      BY <1>1 DEF Init, Conn
    <2>2. alive \in BOOLEAN /\ deleted \in BOOLEAN
      BY Zenon DEF Init
    <2> QED BY <2>1, <2>2 DEF Init, ControlTypes, Ops
  <1>3. Cycle /\ Tracked /\ ExecutedOnce /\ AnswersInOrder
    BY <1>1 DEF Init, Cycle, Tracked, ExecutedOnce, AnswersInOrder, Conn
  <1>4. AcceptLost
    BY <1>1 DEF Init, AcceptLost
  <1> QED BY <1>2, <1>3, <1>4 DEF IInv, Init

-----------------------------------------------------------------------------
(* Steps that neither execute nor answer anything.                         *)

\* Such a step keeps what is known of executions and answers, if connections
\* that begin to read have answered everything they have executed.
LEMMA HistoryLemma ==
    ASSUME ExecutedOnce, AnswersInOrder,
           UNCHANGED <<sent, executed, replies>>,
           \A c \in Conn : op'[c] \in {"header", "payload"} =>
                              Len(executed[c]) = Len(replies[c])
    PROVE  ExecutedOnce' /\ AnswersInOrder'
  BY DEF ExecutedOnce, AnswersInOrder

LEMMA ReadersAreEven ==
    ASSUME IInv, NEW c \in Conn, op[c] \in {"header", "payload"}
    PROVE  Len(executed[c]) = Len(replies[c])
  BY DEF IInv, ExecutedOnce

\* Whatever handler destroys its connection, the others do not notice.
LEMMA DestroyLemma ==
    ASSUME IInv, NEW c \in Conn, op[c] \in {"header", "payload", "write"},
           destroy(c),
           UNCHANGED <<alive, deleted, created, n_, block, sent, executed, filled, replies>>
    PROVE  IInv'
  <1> USE DEF destroy
  <1>1. ControlTypes'
    BY DEF IInv, ControlTypes, Ops
  <1>2. \A d \in Conn : /\ op'[d] = IF d = c THEN "none" ELSE op[d]
                        /\ socket_'[d] = IF d = c THEN "closed" ELSE socket_[d]
    BY DEF IInv, ControlTypes
  <1>3. Cycle'
    BY <1>2 DEF IInv, Cycle, CurrentId
  <1>4. Tracked'
    BY <1>2 DEF IInv, Tracked
  <1>5. AcceptLost'
    BY <1>2 DEF IInv, AcceptLost
  <1>6. \A d \in Conn : op'[d] \in {"header", "payload"} => Len(executed[d]) = Len(replies[d])
    BY <1>2, ReadersAreEven
  <1>7. ExecutedOnce' /\ AnswersInOrder'
    <2>1. ExecutedOnce /\ AnswersInOrder /\ UNCHANGED <<sent, executed, replies>>
      BY DEF IInv
    <2> QED BY <1>6, <2>1, HistoryLemma
  <1> QED BY <1>1, <1>3, <1>4, <1>5, <1>7 DEF IInv

-----------------------------------------------------------------------------
(* The acceptor.                                                           *)

\* Only block[c] is touched by expand_packet on connection c.
LEMMA ExpandLemma ==
    ASSUME NEW c \in Conn, NEW n, block = [d \in Conn |-> block[d]],
           expand_packet(c, n) \/ expand_packet_fails(c, n)
    PROVE  /\ block' = [d \in Conn |-> block'[d]]
           /\ \A d \in Conn \ {c} : block'[d] = block[d]
  BY DEF expand_packet, expand_packet_fails

\* start_accept makes the next connection, fresh, and it is not c.
LEMMA NextConnection ==
    ASSUME IInv, NEW c \in Conn, op[c] = "accept", created < MaxConns
    PROVE  /\ created + 1 \in Conn /\ created + 1 # c
           /\ socket_[created + 1] = "none" /\ op[created + 1] = "none"
           /\ c = created /\ socket_[c] = "none"
  <1>1. c = created /\ socket_[c] = "none"
    BY DEF IInv, Cycle
  <1>2. created + 1 \in Conn /\ created + 1 > created /\ created + 1 # created
    BY ServerAssumption DEF IInv, ControlTypes, Conn
  <1> QED BY <1>1, <1>2 DEF IInv, Cycle

\* start_accept: c, accepted or not, makes room for the next connection.
LEMMA StartAcceptLemma ==
    ASSUME IInv, NEW c \in Conn, op[c] = "accept", created < MaxConns,
           NEW o \in {"header", "none"},
           created' = created + 1,
           conns_' = conns_ \cup {created + 1},
           op' = [op EXCEPT ![c] = o, ![created + 1] = "accept"],
           socket_' = IF o = "header" THEN [socket_ EXCEPT ![c] = "open"] ELSE socket_,
           block' = [d \in Conn |-> block'[d]],
           UNCHANGED <<alive, deleted, n_, sent, executed, filled, replies>>
    PROVE  IInv'
  <1> DEFINE k == created + 1
  <1>1. /\ k \in Conn /\ k # c /\ c = created
        /\ socket_[k] = "none" /\ socket_[c] = "none"
    BY NextConnection
  <1>2. /\ ~(k > k) /\ ~(c > k)
        /\ \A d \in Conn : d > k => d > created
        /\ k \in 0..MaxConns
    BY <1>1, ServerAssumption DEF Conn
  <1>3. \A d \in Conn : /\ op'[d] = IF d = k THEN "accept" ELSE IF d = c THEN o ELSE op[d]
                        /\ socket_'[d] = IF d = c /\ o = "header" THEN "open" ELSE socket_[d]
    BY <1>1 DEF IInv, ControlTypes
  <1>4. ControlTypes'
    <2>1. op' \in [Conn -> Ops] /\ socket_' \in [Conn -> {"none", "open", "closed"}]
      BY <1>1 DEF IInv, ControlTypes, Ops
    <2> QED BY <1>1, <1>2, <2>1 DEF IInv, ControlTypes
  <1>5. \A d \in {c, k} : executed[d] = <<>> /\ replies[d] = <<>>
    BY <1>1 DEF IInv, Cycle
  <1>6. Cycle'
    <2> SUFFICES ASSUME NEW d \in Conn
                 PROVE  (/\ op[d] = "accept" => d = created /\ socket_[d] = "none"
                         /\ op[d] \in {"header", "payload", "write"} => socket_[d] = "open"
                         /\ op[d] \in {"payload", "write"} => CurrentId(d) <= Len(sent[d])
                         /\ op[d] = "write" => Len(executed[d]) = Len(replies[d]) + 1
                         /\ socket_[d] = "none" => executed[d] = <<>> /\ replies[d] = <<>>
                         /\ d > created => /\ op[d] = "none" /\ socket_[d] = "none"
                                           /\ d \notin conns_)'
      BY DEF Cycle
    <2>1. CASE d = k
      <3>1. op'[d] = "accept" /\ socket_'[d] = "none"
        BY <2>1, <1>1, <1>3
      <3> QED BY <3>1, <2>1, <1>2, <1>5
    <2>2. CASE d = c
      <3>1. op'[d] = o /\ (o = "header" => socket_'[d] = "open")
        BY <2>2, <1>1, <1>3
      <3> QED BY <3>1, <2>2, <1>2, <1>5
    <2>3. CASE d # k /\ d # c
      <3>1. op'[d] = op[d] /\ socket_'[d] = socket_[d] /\ op[d] # "accept"
        BY <2>3, <1>1, <1>3 DEF IInv, Cycle
      <3> QED BY <3>1, <2>3, <1>2 DEF IInv, Cycle, CurrentId
    <2> QED BY <2>1, <2>2, <2>3
  <1>7. Tracked'
    <2> SUFFICES ASSUME ~deleted, NEW d \in Conn
                 PROVE  (/\ op[d] # "none" => d \in conns_
                         /\ socket_[d] = "open" => d \in conns_
                         /\ socket_[d] = "closed" => d \notin conns_)'
      BY DEF Tracked
    <2>1. CASE d = k
      <3>1. socket_'[d] = "none" /\ d \in conns_'
        BY <2>1, <1>1, <1>3
      <3> QED BY <3>1
    <2>2. CASE d = c
      <3>1. d \in conns_ /\ d \in conns_' /\ socket_'[d] # "closed"
        BY <2>2, <1>1, <1>3 DEF IInv, Tracked
      <3> QED BY <3>1
    <2>3. CASE d # k /\ d # c
      <3>1. op'[d] = op[d] /\ socket_'[d] = socket_[d] /\ (d \in conns_' <=> d \in conns_)
        BY <2>3, <1>1, <1>3
      <3> QED BY <3>1 DEF IInv, Tracked
    <2> QED BY <2>1, <2>2, <2>3
  <1>8. AcceptLost'
    BY <1>1, <1>3 DEF AcceptLost
  <1>9. \A d \in Conn : op'[d] \in {"header", "payload"} => Len(executed[d]) = Len(replies[d])
    BY <1>3, <1>5, ReadersAreEven
  <1>10. ExecutedOnce' /\ AnswersInOrder'
    <2>1. ExecutedOnce /\ AnswersInOrder
      BY DEF IInv
    <2> QED BY <1>9, <2>1, HistoryLemma
  <1> QED BY <1>4, <1>6, <1>7, <1>8, <1>10 DEF IInv

LEMMA AcceptLemma ==
    ASSUME IInv, NEW c \in Conn, handle_accept(c)
    PROVE  IInv'
  <1>1. CASE handle_accept_ok(c)
    <2>1. block' = [d \in Conn |-> block'[d]]
      BY <1>1, ExpandLemma DEF handle_accept_ok, IInv
    <2> QED BY <1>1, <2>1, StartAcceptLemma DEF handle_accept_ok
  <1>2. CASE handle_accept_error(c)
    <2>1. block' = [d \in Conn |-> block'[d]]
      BY <1>2 DEF handle_accept_error, IInv
    <2> QED BY <1>2, <2>1, StartAcceptLemma DEF handle_accept_error
  <1>3. CASE handle_accept_oom(c)
    <2>1. \A d \in Conn : /\ op'[d] = IF d = c THEN "none" ELSE op[d]
                          /\ socket_'[d] = IF d = c THEN "open" ELSE socket_[d]
      BY <1>3 DEF handle_accept_oom, IInv, ControlTypes
    <2>2. ControlTypes'
      BY <1>3 DEF handle_accept_oom, IInv, ControlTypes, Ops
    <2>3. block' = [d \in Conn |-> block'[d]] /\ block'[c] = 0
      BY <1>3, ExpandLemma DEF handle_accept_oom, expand_packet_fails, IInv
    <2>4. Cycle'
      BY <1>3, <2>1 DEF handle_accept_oom, IInv, Cycle, CurrentId, Conn
    <2>5. Tracked'
      BY <1>3, <2>1 DEF handle_accept_oom, IInv, Tracked
    <2>6. AcceptLost'
      BY <2>1, <2>3 DEF AcceptLost
    <2>7. ExecutedOnce' /\ AnswersInOrder'
      <3>1. \A d \in Conn : op'[d] \in {"header", "payload"} => Len(executed[d]) = Len(replies[d])
        BY <2>1, ReadersAreEven
      <3>2. ExecutedOnce /\ AnswersInOrder /\ UNCHANGED <<sent, executed, replies>>
        BY <1>3 DEF IInv, handle_accept_oom
      <3> QED BY <3>1, <3>2, HistoryLemma
    <2> QED BY <2>2, <2>3, <2>4, <2>5, <2>6, <2>7 DEF IInv
  <1> QED BY <1>1, <1>2, <1>3 DEF handle_accept

-----------------------------------------------------------------------------
(* The other steps.                                                        *)

\* The server is deleted, or its aborted accept runs.
LEMMA DeleteLemma ==
    ASSUME IInv,
           delete_server \/ \E c \in Conn : handle_accept_deleted(c)
    PROVE  IInv'
  <1>1. CASE delete_server
    <2>1. \A d \in Conn : /\ op'[d] = op[d]
                          /\ socket_'[d] = IF Abandoned(d) /\ socket_[d] = "open"
                                           THEN "closed" ELSE socket_[d]
      BY <1>1 DEF delete_server
    <2>2. deleted' \in BOOLEAN /\ deleted'
      BY <1>1, Zenon DEF delete_server
    <2>3. socket_' \in [Conn -> {"none", "open", "closed"}]
      BY <1>1 DEF delete_server, IInv, ControlTypes
    <2>4. ControlTypes'
      BY <1>1, <2>2, <2>3 DEF delete_server, IInv, ControlTypes
    <2>5. Cycle'
      BY <1>1, <2>1 DEF delete_server, Abandoned, IInv, Cycle, CurrentId
    <2>6. Tracked' /\ AcceptLost'
      BY <2>2 DEF Tracked, AcceptLost
    <2>7. \A d \in Conn : op'[d] \in {"header", "payload"} => Len(executed[d]) = Len(replies[d])
      BY <2>1, ReadersAreEven
    <2>8. ExecutedOnce' /\ AnswersInOrder'
      <3>1. ExecutedOnce /\ AnswersInOrder /\ UNCHANGED <<sent, executed, replies>>
        BY <1>1 DEF IInv, delete_server
      <3> QED BY <2>7, <3>1, HistoryLemma
    <2> QED BY <1>1, <2>4, <2>5, <2>6, <2>8 DEF IInv, delete_server
  <1>2. ASSUME NEW c \in Conn, handle_accept_deleted(c) PROVE IInv'
    <2>1. \A d \in Conn : op'[d] = IF d = c THEN "none" ELSE op[d]
      BY <1>2 DEF handle_accept_deleted, IInv, ControlTypes
    <2>2. ControlTypes'
      BY <1>2 DEF handle_accept_deleted, IInv, ControlTypes, Ops
    <2>3. Cycle'
      BY <1>2, <2>1 DEF handle_accept_deleted, IInv, Cycle, CurrentId
    <2>4. Tracked' /\ AcceptLost'
      BY <1>2 DEF handle_accept_deleted, Tracked, AcceptLost
    <2>5. \A d \in Conn : op'[d] \in {"header", "payload"} => Len(executed[d]) = Len(replies[d])
      BY <2>1, ReadersAreEven
    <2>6. ExecutedOnce' /\ AnswersInOrder'
      <3>1. ExecutedOnce /\ AnswersInOrder /\ UNCHANGED <<sent, executed, replies>>
        BY <1>2 DEF IInv, handle_accept_deleted
      <3> QED BY <2>5, <3>1, HistoryLemma
    <2> QED BY <1>2, <2>2, <2>3, <2>4, <2>6 DEF IInv, handle_accept_deleted
  <1> QED BY <1>1, <1>2

\* The request being served, while there is one.
LEMMA CurrentLemma ==
    ASSUME IInv, NEW c \in Conn, CurrentId(c) <= Len(sent[c])
    PROVE  /\ CurrentId(c) \in 1..Len(sent[c])
           /\ Current(c) \in Requests
           /\ Current(c).req \in Nat /\ Current(c).resp \in Nat
  <1>1. sent[c] \in Seq(Requests) /\ Len(replies[c]) \in Nat
    BY DEF IInv, ControlTypes
  <1>2. CurrentId(c) \in 1..Len(sent[c])
    BY <1>1 DEF CurrentId
  <1>3. Current(c) \in Requests
    BY <1>1, <1>2 DEF Current
  <1> QED BY <1>2, <1>3, ServerAssumption

LEMMA HeaderLemma ==
    ASSUME IInv, NEW c \in Conn, handle_read_header_ok(c)
    PROVE  IInv'
  <1>1. PICK o \in {"payload", "none"} : op' = [op EXCEPT ![c] = o]
    BY DEF handle_read_header_ok, Abandon
  <1>2. /\ op[c] = "header" /\ CurrentId(c) <= Len(sent[c])
        /\ UNCHANGED <<alive, deleted, created, conns_, socket_, sent, executed, filled, replies>>
    BY DEF handle_read_header_ok, Abandon
  <1>3. \A d \in Conn : op'[d] = IF d = c THEN o ELSE op[d]
    BY <1>1 DEF IInv, ControlTypes
  <1>4. /\ block' = [d \in Conn |-> block'[d]]
        /\ \A d \in Conn \ {c} : block'[d] = block[d]
    BY ExpandLemma DEF handle_read_header_ok, IInv
  <1>5. ControlTypes'
    <2>1. n_' \in [Conn -> Nat]
      <3>1. Current(c).req \in Nat
        BY <1>2, CurrentLemma
      <3>2. PacketSize + MetaSize + Current(c).req \in Nat
        BY <3>1, ServerAssumption
      <3>3. /\ n_' = [n_ EXCEPT ![c] = PacketSize + MetaSize + Current(c).req]
            /\ n_ \in [Conn -> Nat]
        BY DEF handle_read_header_ok, IInv, ControlTypes
      <3> QED BY <3>2, <3>3
    <2>2. op' \in [Conn -> Ops]
      BY <1>1 DEF IInv, ControlTypes, Ops
    <2> QED BY <1>2, <2>1, <2>2 DEF IInv, ControlTypes
  <1>6. Cycle'
    BY <1>2, <1>3 DEF IInv, Cycle, CurrentId
  <1>7. Tracked'
    BY <1>2, <1>3 DEF IInv, Tracked
  <1>8. AcceptLost'
    BY <1>2, <1>3, <1>4 DEF IInv, AcceptLost
  <1>9. \A d \in Conn : op'[d] \in {"header", "payload"} => Len(executed[d]) = Len(replies[d])
    BY <1>2, <1>3, ReadersAreEven
  <1>10. ExecutedOnce' /\ AnswersInOrder'
    <2>1. ExecutedOnce /\ AnswersInOrder
      BY DEF IInv
    <2> QED BY <1>2, <1>9, <2>1, HistoryLemma
  <1> QED BY <1>4, <1>5, <1>6, <1>7, <1>8, <1>10 DEF IInv

LEMMA PayloadLemma ==
    ASSUME IInv, NEW c \in Conn, handle_read_payload(c)
    PROVE  IInv'
  <1>1. CASE handle_read_payload_garbled(c)
    BY <1>1, DestroyLemma DEF handle_read_payload_garbled
  <1>2. CASE handle_read_payload_crash(c)
    <2>1. alive' \in BOOLEAN
      BY <1>2, Zenon DEF handle_read_payload_crash
    <2>2. ControlTypes'
      BY <1>2, <2>1 DEF handle_read_payload_crash, IInv, ControlTypes
    <2>3. Cycle' /\ Tracked' /\ AcceptLost' /\ ExecutedOnce' /\ AnswersInOrder'
      BY <1>2 DEF handle_read_payload_crash, IInv, Cycle, CurrentId, Tracked, AcceptLost,
                  ExecutedOnce, AnswersInOrder
    <2> QED BY <1>2, <2>2, <2>3 DEF handle_read_payload_crash, IInv
  <1>3. CASE handle_read_payload_call(c)
    <2>1. /\ op[c] = "payload" /\ CurrentId(c) <= Len(sent[c])
          /\ executed' = [executed EXCEPT ![c] = Append(@, CurrentId(c))]
          /\ UNCHANGED <<deleted, created, n_, block, sent, replies>>
      BY <1>3 DEF handle_read_payload_call, IInv, Cycle
    <2>2. Len(executed[c]) = Len(replies[c])
      BY <2>1, ReadersAreEven
    <2>3. /\ executed[c] \in Seq(Nat) /\ replies[c] \in Seq(Nat \X Status)
          /\ sent[c] \in Seq(Requests)
          /\ CurrentId(c) = Len(replies[c]) + 1 /\ CurrentId(c) \in Nat
      BY DEF IInv, ControlTypes, CurrentId
    <2>4. /\ executed' \in [Conn -> Seq(Nat)]
          /\ \A d \in Conn \ {c} : executed'[d] = executed[d]
          /\ executed'[c] = Append(executed[c], CurrentId(c))
      BY <2>1, <2>3 DEF IInv, ControlTypes
    <2>5. PICK o \in {"write", "none"} :
             /\ op' = [op EXCEPT ![c] = o]
             /\ o = "write" => UNCHANGED <<conns_, socket_>>
             /\ o = "none" => /\ conns_' = conns_ \ {c}
                              /\ socket_' = [socket_ EXCEPT ![c] = "closed"]
             /\ alive' \in BOOLEAN
             /\ filled' \in [Conn -> Nat]
      <3>1. PacketSize + MetaSize + Current(c).resp \in Nat
        BY <2>1, CurrentLemma, ServerAssumption
      <3>2. alive \in BOOLEAN /\ filled \in [Conn -> Nat]
        BY DEF IInv, ControlTypes
      <3>3. CASE destroy(c) /\ UNCHANGED <<alive, filled>>
        BY <3>2, <3>3 DEF destroy
      <3>4. CASE /\ filled' = [filled EXCEPT ![c] = PacketSize + MetaSize + Current(c).resp]
                 /\ alive' \in BOOLEAN
                 /\ op' = [op EXCEPT ![c] = "write"]
                 /\ UNCHANGED <<conns_, socket_>>
        BY <3>1, <3>2, <3>4
      <3> QED BY <1>3, <3>3, <3>4, Zenon DEF handle_read_payload_call, respond_to_client
    <2>6. \A d \in Conn : op'[d] = IF d = c THEN o ELSE op[d]
      BY <2>5 DEF IInv, ControlTypes
    <2>7. \A d \in Conn : socket_'[d] = IF d = c /\ o = "none" THEN "closed" ELSE socket_[d]
      BY <2>5 DEF IInv, ControlTypes
    <2>8. ControlTypes'
      <3>1. op' \in [Conn -> Ops] /\ socket_' \in [Conn -> {"none", "open", "closed"}]
        BY <2>5 DEF IInv, ControlTypes, Ops
      <3>2. conns_' \in SUBSET Conn
        BY <2>5 DEF IInv, ControlTypes
      <3> QED BY <2>1, <2>4, <2>5, <3>1, <3>2 DEF IInv, ControlTypes
    <2>9. Len(executed'[c]) = Len(replies[c]) + 1
      BY <2>2, <2>3, <2>4
    <2>10. Cycle'
      BY <2>1, <2>4, <2>5, <2>6, <2>7, <2>9 DEF IInv, Cycle, CurrentId
    <2>11. Tracked'
      BY <2>1, <2>5, <2>6, <2>7 DEF IInv, Tracked, Cycle
    <2>12. AcceptLost'
      BY <2>1, <2>5, <2>6, <2>7 DEF IInv, AcceptLost
    <2>13. ExecutedOnce'
      <3> SUFFICES ASSUME NEW d \in Conn
                   PROVE  (/\ \A i \in 1..Len(executed[d]) : executed[d][i] = i
                           /\ Len(executed[d]) <= Len(replies[d]) + 1
                           /\ op[d] \in {"header", "payload"}
                                 => Len(executed[d]) = Len(replies[d]))'
        BY DEF ExecutedOnce
      <3>1. CASE d = c
        <4>1. \A i \in 1..Len(executed[c]) : executed[c][i] = i
          BY DEF IInv, ExecutedOnce
        <4>2. \A i \in 1..Len(executed'[c]) : executed'[c][i] = i
          <5> SUFFICES ASSUME NEW i \in 1..Len(executed'[c]) PROVE executed'[c][i] = i
            OBVIOUS
          <5>1. i \in 1..(Len(executed[c]) + 1)
            BY <2>2, <2>9
          <5>2. CASE i = Len(executed[c]) + 1
            <6>1. executed'[c][i] = CurrentId(c)
              BY <5>2, <2>3, <2>4
            <6> QED BY <6>1, <5>2, <2>2, <2>3
          <5>3. CASE i \in 1..Len(executed[c])
            <6>1. executed'[c][i] = executed[c][i]
              BY <5>3, <2>3, <2>4
            <6> QED BY <6>1, <5>3, <4>1
          <5>4. Len(executed[c]) \in Nat
            BY <2>3
          <5> QED BY <5>1, <5>2, <5>3, <5>4
        <4> QED BY <3>1, <4>2, <2>1, <2>3, <2>6, <2>9
      <3>2. CASE d # c
        BY <3>2, <2>1, <2>4, <2>6 DEF IInv, ExecutedOnce
      <3> QED BY <3>1, <3>2
    <2>14. AnswersInOrder'
      <3> SUFFICES ASSUME NEW d \in Conn
                   PROVE  (/\ Len(replies[d]) <= Len(sent[d])
                           /\ \A i \in 1..Len(replies[d]) :
                                 /\ replies[d][i] = <<i, StatusOf(sent[d][i])>>
                                 /\ i \in 1..Len(executed[d]))'
        BY DEF AnswersInOrder
      <3>1. CASE d = c
        BY <3>1, <2>1, <2>2, <2>3, <2>9 DEF IInv, AnswersInOrder
      <3>2. CASE d # c
        BY <3>2, <2>1, <2>4 DEF IInv, AnswersInOrder
      <3> QED BY <3>1, <3>2
    <2> QED BY <2>1, <2>8, <2>10, <2>11, <2>12, <2>13, <2>14 DEF IInv
  <1> QED BY <1>1, <1>2, <1>3 DEF handle_read_payload

\* Only here a response is added: it is the one to the request executed last.
LEMMA ResponseLemma ==
    ASSUME IInv, NEW c \in Conn, handle_write_response_ok(c)
    PROVE  IInv'
  <1> DEFINE r == <<CurrentId(c), StatusOf(Current(c))>>
  <1>1. /\ op[c] = "write" /\ socket_[c] = "open" /\ CurrentId(c) <= Len(sent[c])
        /\ Len(executed[c]) = Len(replies[c]) + 1
        /\ replies' = [replies EXCEPT ![c] = Append(@, r)]
        /\ op' = [op EXCEPT ![c] = "header"]
        /\ UNCHANGED <<alive, deleted, created, conns_, socket_, n_, block, sent, executed, filled>>
    BY DEF handle_write_response_ok, IInv, Cycle
  <1>2. /\ replies[c] \in Seq(Nat \X Status) /\ sent[c] \in Seq(Requests)
        /\ executed[c] \in Seq(Nat)
        /\ CurrentId(c) = Len(replies[c]) + 1 /\ CurrentId(c) \in Nat
    BY DEF IInv, ControlTypes, CurrentId
  <1>3. r \in Nat \X Status
    BY <1>2 DEF StatusOf, Status
  <1>4. /\ replies' \in [Conn -> Seq(Nat \X Status)]
        /\ \A d \in Conn \ {c} : replies'[d] = replies[d]
        /\ replies'[c] = Append(replies[c], r)
    BY <1>1, <1>2, <1>3 DEF IInv, ControlTypes
  <1>5. \A d \in Conn : op'[d] = IF d = c THEN "header" ELSE op[d]
    BY <1>1 DEF IInv, ControlTypes
  <1>6. ControlTypes'
    <2>1. op' \in [Conn -> Ops]
      BY <1>1 DEF IInv, ControlTypes, Ops
    <2> QED BY <1>1, <1>4, <2>1 DEF IInv, ControlTypes
  <1>7. Len(replies'[c]) = Len(replies[c]) + 1
    BY <1>2, <1>3, <1>4
  <1>8. Cycle'
    BY <1>1, <1>4, <1>5 DEF IInv, Cycle, CurrentId
  <1>9. Tracked' /\ AcceptLost'
    BY <1>1, <1>5 DEF IInv, Tracked, AcceptLost
  <1>10. ExecutedOnce'
    <2> SUFFICES ASSUME NEW d \in Conn
                 PROVE  (/\ \A i \in 1..Len(executed[d]) : executed[d][i] = i
                         /\ Len(executed[d]) <= Len(replies[d]) + 1
                         /\ op[d] \in {"header", "payload"}
                               => Len(executed[d]) = Len(replies[d]))'
      BY DEF ExecutedOnce
    <2>1. CASE d = c
      BY <2>1, <1>1, <1>2, <1>7 DEF IInv, ExecutedOnce
    <2>2. CASE d # c
      BY <2>2, <1>1, <1>4, <1>5 DEF IInv, ExecutedOnce
    <2> QED BY <2>1, <2>2
  <1>11. AnswersInOrder'
    <2> SUFFICES ASSUME NEW d \in Conn
                 PROVE  (/\ Len(replies[d]) <= Len(sent[d])
                         /\ \A i \in 1..Len(replies[d]) :
                               /\ replies[d][i] = <<i, StatusOf(sent[d][i])>>
                               /\ i \in 1..Len(executed[d]))'
      BY DEF AnswersInOrder
    <2>1. CASE d = c
      <3>1. Len(replies'[c]) <= Len(sent[c])
        BY <1>1, <1>2, <1>7
      <3>2. ASSUME NEW i \in 1..Len(replies'[c])
            PROVE  replies'[c][i] = <<i, StatusOf(sent[c][i])>> /\ i \in 1..Len(executed[c])
        <4>1. CASE i = CurrentId(c)
          <5>1. replies'[c][i] = r
            BY <4>1, <1>2, <1>3, <1>4
          <5> QED BY <5>1, <4>1, <1>1, <1>2 DEF Current
        <4>2. CASE i # CurrentId(c)
          <5>1. i \in 1..Len(replies[c]) /\ replies'[c][i] = replies[c][i]
            BY <3>2, <4>2, <1>2, <1>3, <1>4, <1>7
          <5> QED BY <5>1 DEF IInv, AnswersInOrder
        <4> QED BY <4>1, <4>2
      <3> QED BY <2>1, <3>1, <3>2, <1>1
    <2>2. CASE d # c
      BY <2>2, <1>1, <1>4 DEF IInv, AnswersInOrder
    <2> QED BY <2>1, <2>2
  <1> QED BY <1>1, <1>6, <1>8, <1>9, <1>10, <1>11 DEF IInv

\* What is sent ahead changes nothing of the requests before it.
LEMMA SendLemma ==
    ASSUME IInv, NEW c \in Conn, NEW r \in Requests, client_send(c, r)
    PROVE  IInv'
  <1>1. /\ sent' = [sent EXCEPT ![c] = Append(@, r)]
        /\ UNCHANGED <<alive, deleted, created, conns_, socket_, op, n_, block, executed, filled,
                       replies>>
    BY DEF client_send
  <1>2. sent[c] \in Seq(Requests) /\ replies[c] \in Seq(Nat \X Status)
    BY DEF IInv, ControlTypes
  <1>3. /\ sent' \in [Conn -> Seq(Requests)]
        /\ \A d \in Conn \ {c} : sent'[d] = sent[d]
        /\ Len(sent'[c]) = Len(sent[c]) + 1
        /\ \A i \in 1..Len(sent[c]) : sent'[c][i] = sent[c][i]
    BY <1>1, <1>2 DEF IInv, ControlTypes
  <1>4. ControlTypes'
    BY <1>1, <1>3 DEF IInv, ControlTypes
  <1>5. Cycle'
    <2>1. \A d \in Conn : CurrentId(d) <= Len(sent[d]) => CurrentId(d)' <= Len(sent'[d])
      <3>1. CASE CurrentId(c) <= Len(sent[c])
        BY <1>1, <1>2, <1>3 DEF CurrentId
      <3>2. CASE ~(CurrentId(c) <= Len(sent[c]))
        BY <3>2, <1>1, <1>3 DEF CurrentId
      <3> QED BY <3>1, <3>2
    <2> QED BY <1>1, <2>1 DEF IInv, Cycle
  <1>6. Tracked' /\ AcceptLost' /\ ExecutedOnce'
    BY <1>1 DEF IInv, Tracked, AcceptLost, ExecutedOnce
  <1>7. AnswersInOrder'
    <2> SUFFICES ASSUME NEW d \in Conn
                 PROVE  (/\ Len(replies[d]) <= Len(sent[d])
                         /\ \A i \in 1..Len(replies[d]) :
                               /\ replies[d][i] = <<i, StatusOf(sent[d][i])>>
                               /\ i \in 1..Len(executed[d]))'
      BY DEF AnswersInOrder
    <2>1. CASE d = c
      <3>1. \A i \in 1..Len(replies[c]) : i \in 1..Len(sent[c])
        BY <1>2 DEF IInv, AnswersInOrder
      <3> QED BY <2>1, <3>1, <1>1, <1>2, <1>3 DEF IInv, AnswersInOrder
    <2>2. CASE d # c
      BY <2>2, <1>1, <1>3 DEF IInv, AnswersInOrder
    <2> QED BY <2>1, <2>2
  <1> QED BY <1>1, <1>4, <1>5, <1>6, <1>7 DEF IInv

LEMMA StepLemma == IInv /\ [Next]_vars => IInv'
  <1> SUFFICES ASSUME IInv, [Next]_vars PROVE IInv'
    OBVIOUS
  <1>1. CASE UNCHANGED vars
    BY <1>1 DEF vars, IInv, ControlTypes, Cycle, CurrentId, Tracked, AcceptLost, ExecutedOnce,
                AnswersInOrder
  <1>2. ASSUME NEW c \in Conn, handle_read_error(c) PROVE IInv'
    BY <1>2, DestroyLemma DEF handle_read_error
  <1>3. ASSUME NEW c \in Conn, handle_write_response_error(c) PROVE IInv'
    BY <1>3, DestroyLemma DEF handle_write_response_error
  <1> QED BY <1>1, <1>2, <1>3, AcceptLemma, DeleteLemma, HeaderLemma, PayloadLemma,
             ResponseLemma, SendLemma DEF Next

THEOREM Invariance == Spec => []IInv
  BY InitLemma, StepLemma, PTL DEF Spec

-----------------------------------------------------------------------------

\* Responses leave every connection in the order of its requests, with their ids
\* and statuses, and none without its method having run.
THEOREM AnswersAreInOrder == Spec => []AnswersInOrder
  <1>1. IInv => AnswersInOrder
    BY DEF IInv
  <1> QED BY Invariance, <1>1, PTL

\* No method is called twice for a request, or out of turn.
THEOREM MethodsRunOnce == Spec => []ExecutedOnce
  <1>1. IInv => ExecutedOnce
    BY DEF IInv
  <1> QED BY Invariance, <1>1, PTL

\* conns_ holds what is accepting or open, and nothing that was destroyed.
THEOREM ConnectionsAreTracked == Spec => []Tracked
  <1>1. IInv => Tracked
    BY DEF IInv
  <1> QED BY Invariance, <1>1, PTL

\* One accept is outstanding at any time, unless serve() ran out of memory.
THEOREM ServerKeepsAccepting == Spec => []KeepsAccepting
  <1>1. IInv => KeepsAccepting
    BY DEF IInv, Cycle, AcceptLost, KeepsAccepting
  <1> QED BY Invariance, <1>1, PTL

-----------------------------------------------------------------------------
(* The buffer of a connection.  The recursion of Grown is shown to have a  *)
(* solution, and to pass n before it ends.                                 *)

LEMMA Least ==
    ASSUME NEW s \in SUBSET Nat, s # {}
    PROVE  \E m \in s : \A k \in s : m <= k
  <1> DEFINE R == OpToRel(<, Nat)
  <1>1. IsWellFoundedOn(R, Nat)
    BY NatLessThanWellFounded
  <1>2. \A x, y \in Nat : <<y, x>> \in R <=> y < x
    BY DEF OpToRel
  <1> HIDE DEF R
  <1>3. PICK m \in s : \A k \in s : ~(<<k, m>> \in R)
    BY <1>1, WFMin
  <1>4. ASSUME NEW k \in s PROVE m <= k
    <2>1. k \in Nat /\ m \in Nat /\ ~(k < m)
      BY <1>2, <1>3
    <2> QED BY <2>1
  <1> QED BY <1>3, <1>4

LEMMA Induction ==
    ASSUME NEW T, 0 \in T, \A k \in Nat : k \in T => k + 1 \in T
    PROVE  \A k \in Nat : k \in T
  <1> DEFINE U == {k \in Nat : k \notin T}
  <1> SUFFICES ASSUME U # {} PROVE FALSE
    OBVIOUS
  <1>1. U \in SUBSET Nat
    OBVIOUS
  <1>2. PICK m \in U : \A k \in U : m <= k
    <2> HIDE DEF U
    <2> QED BY <1>1, Least
  <1>3. m \in Nat \ {0} /\ m - 1 \in Nat /\ ~(m <= m - 1) /\ (m - 1) + 1 = m
    OBVIOUS
  <1>4. m - 1 \in T
    BY <1>2, <1>3
  <1> QED BY <1>2, <1>3, <1>4

\* The recursion of Grown, up to n.
Doubles(size, n, f) ==
    f = [k \in 0..n |-> IF k > 0 THEN 2 * f[k - 1] ELSE IF size = 0 THEN 1 ELSE size]

LEMMA DoublesExists ==
    ASSUME NEW size \in Nat, NEW n \in Nat
    PROVE  \E f : Doubles(size, n, f)
  <1> DEFINE T == {m \in Nat : \E f : Doubles(size, m, f)}
  <1>1. 0 \in T
    <2> DEFINE f == [k \in 0..0 |-> IF size = 0 THEN 1 ELSE size]
    <2>1. Doubles(size, 0, f)
      BY DEF Doubles
    <2> QED BY <2>1
  <1>2. ASSUME NEW m \in Nat, m \in T PROVE m + 1 \in T
    <2>1. PICK f : Doubles(size, m, f)
      BY <1>2
    <2> DEFINE g == [k \in 0..(m + 1) |-> IF k = m + 1 THEN 2 * f[m] ELSE f[k]]
               h == [k \in 0..(m + 1) |-> IF k > 0 THEN 2 * g[k - 1]
                                                   ELSE IF size = 0 THEN 1 ELSE size]
    <2>2. \A k \in 0..m : f[k] = IF k > 0 THEN 2 * f[k - 1] ELSE IF size = 0 THEN 1 ELSE size
      BY <2>1 DEF Doubles
    <2>3. ASSUME NEW k \in 0..(m + 1) PROVE g[k] = h[k]
      <3>1. CASE k = m + 1
        <4>1. k > 0 /\ k - 1 = m /\ m \in 0..(m + 1) /\ m # m + 1
          BY <3>1
        <4> QED BY <3>1, <4>1
      <3>2. CASE k # m + 1 /\ k > 0
        <4>1. k \in 0..m /\ k - 1 \in 0..(m + 1) /\ k - 1 # m + 1
          BY <3>2
        <4> QED BY <3>2, <4>1, <2>2
      <3>3. CASE k = 0
        <4>1. k \in 0..m /\ k # m + 1 /\ ~(k > 0)
          BY <3>3
        <4> QED BY <3>3, <4>1, <2>2
      <3> QED BY <3>1, <3>2, <3>3
    <2>4. g = h
      BY <2>3
    <2>5. Doubles(size, m + 1, g)
      BY <2>4, Zenon DEF Doubles
    <2> QED BY <2>5
  <1> HIDE DEF T
  <1>3. n \in T
    BY <1>1, <1>2, Induction
  <1> QED BY <1>3 DEF T

\* expand_packet makes room for the n bytes asked for.
LEMMA GrownLemma ==
    ASSUME NEW size \in Nat, NEW n \in Nat
    PROVE  Grown(size, n) \in Nat /\ n <= Grown(size, n)
  <1> DEFINE d == CHOOSE f : Doubles(size, n, f)
             s == {k \in 0..n : d[k] >= n}
             j == CHOOSE k \in 0..n : d[k] >= n /\ \A l \in 0..n : d[l] >= n => k <= l
  <1>1. Doubles(size, n, d)
    BY DoublesExists, Zenon
  <1>2. Grown(size, n) = d[j]
    BY Zenon DEF Grown, Doubles
  <1> HIDE DEF d
  <1>3. \A k \in 0..n : d[k] = IF k > 0 THEN 2 * d[k - 1] ELSE IF size = 0 THEN 1 ELSE size
    BY <1>1 DEF Doubles
  <1>4. \A k \in 0..n : d[k] \in Nat /\ k + 1 <= d[k]
    <2> DEFINE T == {k \in Nat : k <= n => d[k] \in Nat /\ k + 1 <= d[k]}
    <2>1. 0 \in T
      <3>1. d[0] = IF size = 0 THEN 1 ELSE size
        BY <1>3
      <3> QED BY <3>1
    <2>2. ASSUME NEW k \in Nat, k \in T PROVE k + 1 \in T
      <3> SUFFICES ASSUME k + 1 <= n PROVE d[k + 1] \in Nat /\ (k + 1) + 1 <= d[k + 1]
        OBVIOUS
      <3>1. d[k + 1] = 2 * d[k]
        <4>1. k + 1 \in 0..n /\ k + 1 > 0 /\ (k + 1) - 1 = k
          OBVIOUS
        <4> QED BY <1>3, <4>1
      <3>2. d[k] \in Nat /\ k + 1 <= d[k]
        BY <2>2
      <3> QED BY <3>1, <3>2
    <2> HIDE DEF T
    <2>3. \A k \in Nat : k \in T
      BY <2>1, <2>2, Induction
    <2> QED BY <2>3 DEF T
  <1>5. s \in SUBSET Nat /\ s # {}
    <2>1. n \in 0..n /\ n <= d[n]
      BY <1>4
    <2>2. n \in s
      BY <1>4, <2>1
    <2> QED BY <2>2
  <1>6. \E m \in s : \A l \in s : m <= l
    <2> HIDE DEF s
    <2> QED BY <1>5, Least
  <1>7. \E k \in 0..n : d[k] >= n /\ \A l \in 0..n : d[l] >= n => k <= l
    BY <1>6
  <1>8. j \in 0..n /\ d[j] >= n
    BY <1>7, Zenon
  <1> HIDE DEF j
  <1>9. d[j] \in Nat /\ n <= d[j]
    BY <1>4, <1>8
  <1> QED BY <1>2, <1>9

LEMMA BufferInit == Init => BufferOK
  BY ServerAssumption DEF Init, BufferOK, BufferTypes, Conn

\* A connection for which expand_packet has made room, or given up.
\* A connection for which expand_packet has made room for n bytes.
LEMMA ExpandFits ==
    ASSUME BufferOK, NEW c \in Conn, NEW n \in Nat, expand_packet(c, n)
    PROVE  /\ BufferTypes'
           /\ \A d \in Conn \ {c} : size_'[d] = size_[d] /\ block'[d] = block[d]
           /\ block'[c] = size_'[c] /\ n <= block'[c]
  <1> DEFINE g == Grown(size_[c], n)
  <1>1. g \in Nat /\ n <= g
    BY GrownLemma DEF BufferOK, BufferTypes
  <1>2. CASE NeedsBlock(c, n)
    <2>1. size_' = [size_ EXCEPT ![c] = g] /\ block' = [block EXCEPT ![c] = g]
      BY <1>2 DEF expand_packet
    <2> HIDE DEF g
    <2> QED BY <1>1, <2>1 DEF BufferOK, BufferTypes
  <1>3. CASE ~NeedsBlock(c, n)
    <2>1. UNCHANGED <<size_, block>>
      BY <1>3 DEF expand_packet
    <2>2. n <= size_[c] /\ block[c] # 0
      BY <1>3 DEF NeedsBlock, BufferOK, BufferTypes
    <2> QED BY <2>1, <2>2 DEF BufferOK, BufferTypes
  <1> QED BY <1>2, <1>3

\* A connection for which it could not.
LEMMA ExpandFailsFits ==
    ASSUME BufferOK, NEW c \in Conn, NEW n \in Nat, expand_packet_fails(c, n)
    PROVE  /\ BufferTypes'
           /\ \A d \in Conn \ {c} : size_'[d] = size_[d] /\ block'[d] = block[d]
           /\ block'[c] = 0
  <1> DEFINE g == Grown(size_[c], n)
  <1>1. g \in Nat
    BY GrownLemma DEF BufferOK, BufferTypes
  <1>2. size_' = [size_ EXCEPT ![c] = g] /\ block' = [block EXCEPT ![c] = 0]
    BY DEF expand_packet_fails
  <1> HIDE DEF g
  <1> QED BY <1>1, <1>2 DEF BufferOK, BufferTypes

\* A step that leaves the buffers alone begins no read of a payload, and begins
\* one of a header only after a response.
LEMMA SameBuffers ==
    ASSUME BufferOK, UNCHANGED <<n_, size_, block>>,
           \A c \in Conn : \/ op'[c] = op[c]
                           \/ op'[c] \in {"none", "accept"}
                           \/ op[c] \in {"payload", "write"} /\ op'[c] \in {"header", "write"}
    PROVE  BufferOK'
  BY DEF BufferOK, BufferTypes

LEMMA AcceptBuffers ==
    ASSUME IInv, BufferOK, NEW c \in Conn, handle_accept(c)
    PROVE  BufferOK'
  <1> USE ServerAssumption
  <1>1. CASE handle_accept_ok(c)
    <2>1. /\ BufferTypes'
          /\ \A d \in Conn \ {c} : size_'[d] = size_[d] /\ block'[d] = block[d]
          /\ block'[c] = size_'[c] /\ PacketSize <= block'[c]
      <3>1. expand_packet(c, PacketSize) /\ PacketSize \in Nat
        BY <1>1 DEF handle_accept_ok
      <3> QED BY <3>1, ExpandFits
    <2>2. /\ op' = [op EXCEPT ![c] = "header", ![created + 1] = "accept"]
          /\ created + 1 # c
      BY <1>1, NextConnection DEF handle_accept_ok
    <2>3. \A d \in Conn : op'[d] = IF d = c THEN "header"
                                   ELSE IF d = created + 1 THEN "accept" ELSE op[d]
      BY <2>2 DEF IInv, ControlTypes
    <2>4. n_' = n_ /\ BufferTypes'
      BY <1>1, <2>1 DEF handle_accept_ok
    <2>5. ASSUME NEW d \in Conn
          PROVE  /\ block'[d] = 0 \/ block'[d] = size_'[d]
                 /\ op'[d] \in {"header", "payload", "write"} => PacketSize <= block'[d]
                 /\ op'[d] = "payload" => n_'[d] <= block'[d]
      <3>1. CASE d = c
        BY <2>1, <2>3, <3>1
      <3>2. CASE d # c
        BY <2>1, <2>3, <2>4, <3>2 DEF BufferOK
      <3> QED BY <3>1, <3>2
    <2> QED BY <2>4, <2>5 DEF BufferOK
  <1>2. CASE handle_accept_error(c)
    <2> USE <1>2 DEF handle_accept_error
    <2>1. \A d \in Conn : op'[d] \in {op[d], "none", "accept"}
      BY DEF IInv, ControlTypes
    <2>2. UNCHANGED <<n_, size_, block>>
      OBVIOUS
    <2> QED BY <2>1, <2>2, SameBuffers
  <1>3. CASE handle_accept_oom(c)
    <2> USE <1>3 DEF handle_accept_oom
    <2>1. /\ BufferTypes'
          /\ \A d \in Conn \ {c} : size_'[d] = size_[d] /\ block'[d] = block[d]
          /\ block'[c] = 0
      <3>1. expand_packet_fails(c, PacketSize) /\ PacketSize \in Nat
        OBVIOUS
      <3> QED BY <3>1, ExpandFailsFits
    <2>2. \A d \in Conn : op'[d] = IF d = c THEN "none" ELSE op[d]
      BY DEF IInv, ControlTypes
    <2> QED BY <2>1, <2>2 DEF BufferOK
  <1> QED BY <1>1, <1>2, <1>3 DEF handle_accept

LEMMA HeaderBuffers ==
    ASSUME IInv, BufferOK, NEW c \in Conn, handle_read_header_ok(c)
    PROVE  BufferOK'
  <1> DEFINE n == PacketSize + MetaSize + Current(c).req
  <1> USE DEF handle_read_header_ok
  <1>1. n \in Nat /\ PacketSize <= n
    <2>1. Current(c) \in Requests
      BY DEF IInv, ControlTypes, Current, CurrentId
    <2>2. Current(c).req \in Nat
      BY <2>1, ServerAssumption
    <2> QED BY <2>2, ServerAssumption
  <1>2. n_' = [n_ EXCEPT ![c] = n] /\ n_'[c] = n /\ \A d \in Conn \ {c} : n_'[d] = n_[d]
    BY DEF IInv, ControlTypes
  <1> HIDE DEF n
  <1>3. CASE expand_packet(c, n) /\ op' = [op EXCEPT ![c] = "payload"]
    <2>1. /\ BufferTypes'
          /\ \A d \in Conn \ {c} : size_'[d] = size_[d] /\ block'[d] = block[d]
          /\ block'[c] = size_'[c] /\ n <= block'[c]
      BY <1>1, <1>3, ExpandFits
    <2>2. PacketSize <= block'[c]
      <3>1. block'[c] \in Nat /\ PacketSize \in Nat
        BY <2>1, ServerAssumption DEF BufferTypes
      <3>2. \A k, l, m \in Nat : k <= l /\ l <= m => k <= m
        OBVIOUS
      <3> QED BY <1>1, <2>1, <3>1, <3>2
    <2>3. \A d \in Conn : op'[d] = IF d = c THEN "payload" ELSE op[d]
      BY <1>3 DEF IInv, ControlTypes
    <2> QED BY <1>2, <2>1, <2>2, <2>3 DEF BufferOK
  <1>4. CASE expand_packet_fails(c, n) /\ op' = [op EXCEPT ![c] = "none"]
    <2>1. /\ BufferTypes'
          /\ \A d \in Conn \ {c} : size_'[d] = size_[d] /\ block'[d] = block[d]
          /\ block'[c] = 0
      BY <1>1, <1>4, ExpandFailsFits
    <2>2. \A d \in Conn : op'[d] = IF d = c THEN "none" ELSE op[d]
      BY <1>4 DEF IInv, ControlTypes
    <2> QED BY <1>2, <2>1, <2>2 DEF BufferOK
  <1> QED BY <1>2, <1>3, <1>4 DEF Abandon, n

LEMMA BufferStep == IInv /\ BufferOK /\ [Next]_vars => BufferOK'
  <1> SUFFICES ASSUME IInv, BufferOK, [Next]_vars PROVE BufferOK'
    OBVIOUS
  <1>1. ASSUME NEW c \in Conn,
               \/ handle_accept_deleted(c)
               \/ handle_read_payload(c)
               \/ handle_write_response_ok(c)
               \/ handle_read_error(c)
               \/ handle_write_response_error(c)
        PROVE  BufferOK'
    <2>1. UNCHANGED <<n_, size_, block>>
      BY <1>1 DEF handle_accept_deleted, handle_read_payload, handle_read_payload_call,
                  handle_read_payload_garbled, handle_read_payload_crash,
                  handle_write_response_ok, handle_read_error, handle_write_response_error
    <2>2. \/ op' = op
          \/ op' = [op EXCEPT ![c] = "none"]
          \/ op[c] = "payload" /\ op' = [op EXCEPT ![c] = "write"]
          \/ op[c] = "write" /\ op' = [op EXCEPT ![c] = "header"]
      BY <1>1 DEF handle_accept_deleted, handle_read_payload, handle_read_payload_call,
                  handle_read_payload_garbled, handle_read_payload_crash, respond_to_client,
                  handle_write_response_ok, handle_read_error, handle_write_response_error,
                  destroy
    <2>3. \A d \in Conn : \/ op'[d] = op[d]
                          \/ op'[d] \in {"none", "accept"}
                          \/ op[d] \in {"payload", "write"} /\ op'[d] \in {"header", "write"}
      BY <2>2 DEF IInv, ControlTypes
    <2> QED BY <2>1, <2>3, SameBuffers
  <1>2. ASSUME NEW c \in Conn, NEW r \in Requests, client_send(c, r) PROVE BufferOK'
    BY <1>2, SameBuffers DEF client_send
  <1>3. CASE delete_server
    BY <1>3, SameBuffers DEF delete_server
  <1>4. CASE UNCHANGED vars
    BY <1>4, SameBuffers DEF vars
  <1> QED BY <1>1, <1>2, <1>3, <1>4, AcceptBuffers, HeaderBuffers DEF Next

\* The block of a connection holds what is being read into it, and is as large as
\* the code believes.
THEOREM BufferInvariance == Spec => []BufferOK
  BY BufferInit, BufferStep, Invariance, PTL DEF Spec

\* Every part of the state keeps its type, the sizes computed by expand_packet
\* included.
THEOREM TypeCorrect == Spec => []TypeOK
  <1>1. IInv /\ BufferOK => TypeOK
    BY DEF IInv, BufferOK, TypeOK
  <1> QED BY Invariance, BufferInvariance, <1>1, PTL

-----------------------------------------------------------------------------
(* When the defects of the server do not show.                             *)

\* No response is larger than the parameter of its request.
SmallResponses == \A r \in Requests : r.resp <= r.req

\* The packet being read is the current request, and the response being sent is
\* within the block.
PacketOK ==
    \A c \in Conn :
        /\ op[c] = "payload" => n_[c] = PacketSize + MetaSize + Current(c).req
        /\ op[c] = "write" => filled[c] <= block[c]

LEMMA PacketInit == Init => PacketOK
  BY DEF Init, PacketOK

\* A step that neither begins nor ends a payload nor writes a response.
LEMMA SamePackets ==
    ASSUME IInv, PacketOK, UNCHANGED <<n_, filled, block, replies>>,
           \A c \in Conn : op'[c] \in {"payload", "write"} =>
                               op'[c] = op[c] /\ Current(c)' = Current(c)
    PROVE  PacketOK'
  BY DEF PacketOK

LEMMA HeaderPackets ==
    ASSUME IInv, BufferOK, PacketOK, NEW c \in Conn, handle_read_header_ok(c)
    PROVE  PacketOK'
  <1> DEFINE n == PacketSize + MetaSize + Current(c).req
  <1>1. n_' = [n_ EXCEPT ![c] = n] /\ UNCHANGED <<filled, sent, replies>>
    BY DEF handle_read_header_ok
  <1>2. n_'[c] = n /\ \A d \in Conn \ {c} : n_'[d] = n_[d]
    BY <1>1 DEF IInv, ControlTypes
  <1>3. \A d \in Conn : Current(d)' = Current(d)
    BY <1>1 DEF Current, CurrentId
  <1>4. \A d \in Conn \ {c} : op'[d] = op[d] /\ block'[d] = block[d]
    <2>1. \A d \in Conn \ {c} : op'[d] = op[d]
      BY DEF handle_read_header_ok, Abandon, IInv, ControlTypes
    <2>2. \E k : expand_packet(c, k) \/ expand_packet_fails(c, k)
      BY DEF handle_read_header_ok
    <2>3. \A d \in Conn \ {c} : block'[d] = block[d]
      BY <2>2, ExpandLemma DEF IInv
    <2> QED BY <2>1, <2>3
  <1>5. op'[c] \in {"payload", "none"}
    BY DEF handle_read_header_ok, Abandon, IInv, ControlTypes
  <1> QED BY <1>1, <1>2, <1>3, <1>4, <1>5 DEF PacketOK

\* What is read while a payload arrives was read into a block that has room.
LEMMA RoomForResponse ==
    ASSUME SmallResponses, IInv, BufferOK, PacketOK, NEW c \in Conn, op[c] = "payload"
    PROVE  PacketSize + MetaSize + Current(c).resp <= block[c]
  <1>1. Current(c) \in Requests
    BY DEF IInv, ControlTypes, Cycle, Current, CurrentId
  <1>2. /\ Current(c).req \in Nat /\ Current(c).resp \in Nat
        /\ Current(c).resp <= Current(c).req
    BY <1>1, ServerAssumption DEF SmallResponses
  <1>3. /\ n_[c] = PacketSize + MetaSize + Current(c).req
        /\ n_[c] <= block[c] /\ block[c] \in Nat
    BY DEF PacketOK, BufferOK, BufferTypes
  <1>4. \A p, m, k, l, b \in Nat : l <= k /\ p + m + k <= b => p + m + l <= b
    OBVIOUS
  <1>5. PacketSize \in Nat /\ MetaSize \in Nat
    BY ServerAssumption
  <1> QED BY <1>2, <1>3, <1>4, <1>5

LEMMA CallPackets ==
    ASSUME SmallResponses, IInv, BufferOK, PacketOK, NEW c \in Conn,
           handle_read_payload_call(c)
    PROVE  PacketOK' /\ (alive => alive')
  <1> DEFINE n == PacketSize + MetaSize + Current(c).resp
  <1>1. n <= block[c]
    BY RoomForResponse DEF handle_read_payload_call
  <1>2. /\ UNCHANGED <<n_, block, sent, replies>>
        /\ \A d \in Conn : Current(d)' = Current(d)
    BY DEF handle_read_payload_call, Current, CurrentId
  <1>3. \/ /\ filled' = [filled EXCEPT ![c] = n]
           /\ op' = [op EXCEPT ![c] = "write"]
           /\ alive' \in (IF n <= block[c] THEN {TRUE} ELSE BOOLEAN)
        \/ op' = [op EXCEPT ![c] = "none"] /\ UNCHANGED <<alive, filled>>
    BY Zenon DEF handle_read_payload_call, respond_to_client, destroy
  <1> HIDE DEF n
  <1>4. alive => alive'
    BY <1>1, <1>3, Zenon
  <1>5. \A d \in Conn : \/ d = c /\ op'[d] = "write" /\ filled'[d] = n
                        \/ d = c /\ op'[d] = "none"
                        \/ op'[d] = op[d] /\ filled'[d] = filled[d]
    BY <1>3 DEF IInv, ControlTypes
  <1> QED BY <1>1, <1>2, <1>4, <1>5 DEF PacketOK

LEMMA PacketStep ==
    ASSUME SmallResponses
    PROVE  IInv /\ BufferOK /\ PacketOK /\ [Next]_vars => PacketOK'
  <1> SUFFICES ASSUME IInv, BufferOK, PacketOK, [Next]_vars PROVE PacketOK'
    OBVIOUS
  <1>1. ASSUME NEW c \in Conn, handle_accept(c) PROVE PacketOK'
    <2>1. UNCHANGED <<n_, filled, sent, replies>>
      BY <1>1 DEF handle_accept, handle_accept_ok, handle_accept_error, handle_accept_oom
    <2>2. \A d \in Conn \ {c} : block'[d] = block[d]
      <3>1. \/ UNCHANGED block
            \/ \E k : expand_packet(c, k) \/ expand_packet_fails(c, k)
        BY <1>1 DEF handle_accept, handle_accept_ok, handle_accept_error, handle_accept_oom
      <3> QED BY <3>1, ExpandLemma DEF IInv
    <2>3. \A d \in Conn : op'[d] \in {"payload", "write"} => op'[d] = op[d] /\ d # c
      <3>1. \/ op' = [op EXCEPT ![c] = "header", ![created + 1] = "accept"]
            \/ op' = [op EXCEPT ![c] = "none", ![created + 1] = "accept"]
            \/ op' = [op EXCEPT ![c] = "none"]
        BY <1>1 DEF handle_accept, handle_accept_ok, handle_accept_error, handle_accept_oom
      <3> QED BY <3>1 DEF IInv, ControlTypes
    <2>4. \A d \in Conn : Current(d)' = Current(d)
      BY <2>1 DEF Current, CurrentId
    <2> QED BY <2>1, <2>2, <2>3, <2>4 DEF PacketOK
  <1>2. ASSUME NEW c \in Conn,
               \/ handle_accept_deleted(c)
               \/ handle_read_payload_garbled(c)
               \/ handle_read_payload_crash(c)
               \/ handle_read_error(c)
               \/ handle_write_response_error(c)
        PROVE  PacketOK'
    <2>1. UNCHANGED <<n_, filled, block, sent, replies>>
      BY <1>2 DEF handle_accept_deleted, handle_read_payload_garbled,
                  handle_read_payload_crash, handle_read_error, handle_write_response_error
    <2>2. op' = op \/ op' = [op EXCEPT ![c] = "none"]
      BY <1>2 DEF handle_accept_deleted, handle_read_payload_garbled,
                  handle_read_payload_crash, handle_read_error, handle_write_response_error,
                  destroy
    <2>3. \A d \in Conn : op'[d] \in {op[d], "none"}
      BY <2>2 DEF IInv, ControlTypes
    <2>4. \A d \in Conn : Current(d)' = Current(d)
      BY <2>1 DEF Current, CurrentId
    <2> QED BY <2>1, <2>3, <2>4, SamePackets
  <1>3. ASSUME NEW c \in Conn, handle_write_response_ok(c) PROVE PacketOK'
    <2>1. UNCHANGED <<n_, filled, block, sent>>
      BY <1>3 DEF handle_write_response_ok
    <2>2. \A d \in Conn : IF d = c THEN op'[d] = "header"
                                   ELSE op'[d] = op[d] /\ replies'[d] = replies[d]
      BY <1>3 DEF handle_write_response_ok, IInv, ControlTypes
    <2>3. \A d \in Conn \ {c} : Current(d)' = Current(d)
      BY <2>1, <2>2 DEF Current, CurrentId
    <2> QED BY <2>1, <2>2, <2>3 DEF PacketOK
  <1>4. ASSUME NEW c \in Conn, NEW r \in Requests, client_send(c, r) PROVE PacketOK'
    <2>1. UNCHANGED <<op, n_, filled, block, replies>>
      BY <1>4 DEF client_send
    <2>2. ASSUME NEW d \in Conn, op[d] \in {"payload", "write"} PROVE Current(d)' = Current(d)
      <3>1. CurrentId(d) \in 1..Len(sent[d]) /\ sent[d] \in Seq(Requests)
        BY <2>2 DEF IInv, ControlTypes, Cycle, CurrentId
      <3>2. sent'[d] = IF d = c THEN Append(sent[d], r) ELSE sent[d]
        BY <1>4 DEF client_send, IInv, ControlTypes
      <3>3. CurrentId(d)' = CurrentId(d)
        BY <2>1 DEF CurrentId
      <3> HIDE DEF CurrentId
      <3>4. sent'[d][CurrentId(d)] = sent[d][CurrentId(d)]
        BY <3>1, <3>2
      <3> QED BY <3>3, <3>4 DEF Current
    <2> QED BY <2>1, <2>2, SamePackets
  <1>5. CASE delete_server
    <2>1. UNCHANGED <<op, n_, filled, block, sent, replies>>
      BY <1>5 DEF delete_server
    <2> QED BY <2>1 DEF PacketOK, Current, CurrentId
  <1>6. CASE UNCHANGED vars
    BY <1>6 DEF vars, PacketOK, Current, CurrentId
  <1> QED BY <1>1, <1>2, <1>3, <1>4, <1>5, <1>6, HeaderPackets, CallPackets
          DEF Next, handle_read_payload

\* If no response is larger than its parameter, every response that is sent fits
\* into the block its request was read into.
THEOREM SmallResponsesFit ==
    ASSUME SmallResponses
    PROVE  Spec => []ResponseFits
  <1>1. PacketOK => ResponseFits
    BY DEF PacketOK, ResponseFits
  <1> QED BY PacketInit, PacketStep, Invariance, BufferInvariance, <1>1, PTL DEF Spec

\* Nothing but a method that is not found, a response that is too large and the
\* deletion of the server ends the process.
THEOREM ServerSurvives ==
    ASSUME SmallResponses,
           \A r \in Requests : r.outcome # "unknown",
           "shutdown" \notin Faults
    PROVE  Spec => []UnknownMethodsSurvived
  <1> DEFINE Up == deleted = FALSE /\ alive = TRUE
  <1>1. Init => Up
    BY Zenon DEF Init
  <1>2. IInv /\ BufferOK /\ PacketOK /\ Up /\ [Next]_vars => Up'
    <2> SUFFICES ASSUME IInv, BufferOK, PacketOK, deleted = FALSE, alive = TRUE, [Next]_vars
                 PROVE  deleted' = FALSE /\ alive' = TRUE
      OBVIOUS
    <2>1. ASSUME NEW c \in Conn, handle_read_payload(c) PROVE deleted' = FALSE /\ alive' = TRUE
      <3>1. CASE handle_read_payload_call(c)
        <4>1. alive' \in BOOLEAN
          BY <2>1, StepLemma, Zenon DEF IInv, ControlTypes, Next
        <4>2. alive => alive'
          BY <3>1, CallPackets
        <4>3. deleted' = FALSE
          BY <3>1, Zenon DEF handle_read_payload_call
        <4> QED BY <4>1, <4>2, <4>3, Zenon
      <3>2. CASE handle_read_payload_garbled(c)
        BY <3>2, Zenon DEF handle_read_payload_garbled
      <3>3. CASE handle_read_payload_crash(c)
        <4>1. Current(c) \in Requests
          BY <3>3 DEF handle_read_payload_crash, IInv, ControlTypes, Cycle, Current, CurrentId
        <4>2. FALSE
          BY <3>3, <4>1, Zenon DEF handle_read_payload_crash
        <4> QED BY <4>2
      <3> QED BY <2>1, <3>1, <3>2, <3>3, Zenon DEF handle_read_payload
    <2>2. ASSUME NEW c \in Conn,
                 \/ handle_accept(c)
                 \/ handle_read_header_ok(c)
                 \/ handle_write_response_ok(c)
                 \/ handle_read_error(c)
                 \/ handle_write_response_error(c)
                 \/ \E r \in Requests : client_send(c, r)
          PROVE  deleted' = FALSE /\ alive' = TRUE
      BY <2>2, Zenon DEF handle_accept, handle_accept_ok, handle_accept_error,
            handle_accept_oom, handle_read_header_ok, handle_write_response_ok,
            handle_read_error, handle_write_response_error, client_send
    <2>3. CASE UNCHANGED vars
      BY <2>3, Zenon DEF vars
    <2>4. \A c \in Conn : ~handle_accept_deleted(c)
      BY Zenon DEF handle_accept_deleted
    <2>5. ~delete_server
      BY Zenon DEF delete_server
    <2> QED BY <2>1, <2>2, <2>3, <2>4, <2>5, Zenon DEF Next
  <1>3. Up => UnknownMethodsSurvived
    BY Zenon DEF UnknownMethodsSurvived
  <1> QED BY PacketInit, PacketStep, Invariance, BufferInvariance, <1>1, <1>2, <1>3, PTL
          DEF Spec

=============================================================================
