-------------------------- MODULE AsyncChannelProofs --------------------------
(***************************************************************************)
(* Proofs about AsyncChannel, for any number of calls, any choice of timed *)
(* calls, any verdicts and any faults.  The argument rests on two lemmas:  *)
(* what running closures does to the bookkeeping of calls (RunDoneLemma),  *)
(* and that destroy() re-establishes the whole invariant from whatever     *)
(* state the handler that calls it leaves (DestroyLemma).                  *)
(***************************************************************************)
EXTENDS AsyncChannel, TLAPS

\* What one step may do to the results: calls only become finished, those that
\* do get a result the caller can trust, and all other results stay.
Progress ==
    /\ called \subseteq called'
    /\ \A t \in CallId :
          IF t \in called' \ called
          THEN code'[t] \in LocalFailure \cup {CodeOf(Verdict[t])}
          ELSE code'[t] = code[t]

\* The status of a response becomes a code.
LEMMA CodeOfType == \A s \in Status : CodeOf(s) \in Code
  BY DEF Status, CodeOf, Code

LEMMA ResultsAreCodes ==
    \A t \in CallId : LocalFailure \cup {CodeOf(Verdict[t])} \subseteq Code
  BY ChannelAssumption, CodeOfType DEF LocalFailure

\* A step that only makes progress keeps the results truthful.
LEMMA ProgressKeepsVerdicts ==
    ASSUME TypeOK, ResultIsVerdict, Progress, called' \subseteq CallId
    PROVE  ResultIsVerdict'
  BY DEF TypeOK, ResultIsVerdict, Progress, LocalFailure

\* Running closures as the handlers do: each at most once, and called says so.
LEMMA RunDoneLemma ==
    ASSUME TypeOK, RunsOnce,
           NEW own \in SUBSET CallId, NEW others \in SUBSET CallId, NEW e \in Code,
           \A t \in own \ called : e \in LocalFailure \cup {CodeOf(Verdict[t])},
           RunDone(own, e, others)
    PROVE  /\ called' = called \cup own \cup others
           /\ called' \in SUBSET CallId
           /\ runs' \in [CallId -> Nat]
           /\ code' \in [CallId -> Code]
           /\ RunsOnce'
           /\ Progress
  <1> DEFINE new == (own \cup others) \ called
  <1>1. called' = called \cup own \cup others
    BY DEF RunDone
  <1>2. called' \in SUBSET CallId
    BY <1>1 DEF TypeOK
  <1>3. runs' = [t \in CallId |-> IF t \in new THEN runs[t] + 1 ELSE runs[t]]
    BY DEF RunDone
  <1>4. code' = [t \in CallId |-> IF t \notin new THEN code[t]
                                  ELSE IF t \in own THEN e ELSE "EC_FAILED"]
    BY DEF RunDone
  <1>5. runs' \in [CallId -> Nat]
    BY <1>3 DEF TypeOK
  <1>6. code' \in [CallId -> Code]
    BY <1>4 DEF TypeOK, Code
  <1>7. RunsOnce'
    BY <1>1, <1>3 DEF TypeOK, RunsOnce
  <1>8. Progress
    <2>1. ASSUME NEW t \in CallId, t \in called' \ called
          PROVE  code'[t] \in LocalFailure \cup {CodeOf(Verdict[t])}
      BY <1>1, <1>4, <2>1 DEF LocalFailure, Code
    <2>2. ASSUME NEW t \in CallId, t \notin called' \ called
          PROVE  code'[t] = code[t]
      BY <1>1, <1>4, <2>2
    <2> QED BY <1>1, <2>1, <2>2 DEF Progress
  <1> QED BY <1>1, <1>2, <1>5, <1>6, <1>7, <1>8

\* Closing the socket leaves no connect and no write; a call that connects
\* still has an operation that will report.
LEMMA CloseLemma ==
    ASSUME NEW o \in [CallId -> Ops], NEW done
    PROVE  LET p == CancelResolves(AbortSocketOps(o, done))
           IN  /\ p \in [CallId -> Ops]
               /\ \A t \in CallId : /\ p[t] # "connect"
                                    /\ p[t] # "write"
                                    /\ o[t] = "none" => p[t] = "none"
                                    /\ o[t] \in {"resolve", "resolve_cancelled", "connect",
                                                 "connect_failed", "connect_queued"}
                                        => p[t] \in {"resolve_cancelled", "connect_failed",
                                                     "connect_queued"}
  BY DEF CancelResolves, AbortSocketOps, Ops

\* Closing a socket loses no read: each of the n outstanding ones becomes a queued
\* handler, and what was queued stays queued.
LEMMA AbortReadsLemma ==
    ASSUME TypeOK, NEW n \in Nat, NEW q \in ReadQueues, AbortReads(n, q)
    PROVE  /\ reader' = "none" /\ torn' = 0 /\ received' = {}
           /\ queued' \in ReadQueues
           /\ queued'.failed >= q.failed /\ queued'.partial >= q.partial
           /\ q.whole \subseteq queued'.whole
           /\ queued'.whole \subseteq q.whole \cup received
           /\ n > 0 => \/ queued'.failed > 0
                       \/ queued'.partial > 0
                       \/ queued'.whole # {}
  <1>0. q.failed \in Nat /\ q.partial \in Nat /\ q.whole \in SUBSET CallId
    BY DEF ReadQueues
  <1>1. reader' = "none" /\ torn' = 0 /\ received' = {}
    BY DEF AbortReads
  <1>2. CASE \E i \in 0..n :
                queued' = [failed |-> q.failed + (n - i), partial |-> q.partial + i,
                           whole |-> q.whole]
    <2>1. PICK i \in 0..n :
                queued' = [failed |-> q.failed + (n - i), partial |-> q.partial + i,
                           whole |-> q.whole]
      BY <1>2
    <2>2. /\ queued'.failed = q.failed + (n - i) /\ queued'.partial = q.partial + i
          /\ queued'.whole = q.whole
      BY <2>1
    <2>3. n - i \in Nat /\ i \in Nat /\ (n > 0 => n - i > 0 \/ i > 0)
      OBVIOUS
    <2>4. queued' \in ReadQueues
      BY <1>0, <2>1, <2>3 DEF ReadQueues
    <2> QED BY <1>0, <1>1, <2>2, <2>3, <2>4
  <1>3. CASE \E m \in received :
                queued' = [failed |-> q.failed, partial |-> q.partial,
                           whole |-> q.whole \cup {m}]
    <2>1. PICK m \in received :
                queued' = [failed |-> q.failed, partial |-> q.partial,
                           whole |-> q.whole \cup {m}]
      BY <1>3
    <2>2. /\ queued'.failed = q.failed /\ queued'.partial = q.partial
          /\ queued'.whole = q.whole \cup {m}
      BY <2>1
    <2>3. m \in CallId
      BY DEF TypeOK
    <2>4. queued' \in ReadQueues
      BY <1>0, <2>1, <2>3 DEF ReadQueues
    <2> QED BY <1>0, <1>1, <2>2, <2>4
  <1> QED BY <1>2, <1>3 DEF AbortReads

\* destroy() restores the invariant, whatever handler calls it: it needs only
\* that the handler has failed, or leaves in the map, each call it stops
\* waiting for.
LEMMA DestroyLemma ==
    ASSUME IInv,
           NEW own \in SUBSET Issued, NEW e \in LocalFailure,
           NEW o \in [CallId -> Ops], NEW n \in Nat, NEW q \in ReadQueues,
           q.whole \subseteq queued.whole,
           NEW out \in SUBSET Issued,
           outgoing_tasks \subseteq own \cup out,
           \A t \in CallId \ (own \cup out) : o[t] = op[t],
           destroy(own, e, o, n, q, out),
           id_' = id_,
           connecting_' \in BOOLEAN,
           fired' \subseteq fired, fired \ own \subseteq fired'
    PROVE  IInv' /\ Progress /\ outgoing_tasks \subseteq called'
  <1> USE DEF Issued
  <1>0. /\ TypeOK /\ Unissued /\ RunsOnce /\ NoLostCall /\ TimerGuard /\ ResultIsVerdict
        /\ Issued \subseteq CallId
    BY ChannelAssumption DEF IInv, TypeOK, CallId
  <1>1. /\ RunDone(own, e, out)
        /\ socket_' = "closed"
        /\ \E done : op' = CancelResolves(AbortSocketOps(o, done))
        /\ AbortReads(n, q)
        /\ armed' = armed \ out /\ outgoing_tasks' = {}
    BY DEF destroy, CloseSocket
  <1>2. /\ called' = called \cup own \cup out
        /\ called' \in SUBSET CallId
        /\ runs' \in [CallId -> Nat]
        /\ code' \in [CallId -> Code]
        /\ RunsOnce'
        /\ Progress
    <2>1. e \in Code
      BY DEF LocalFailure
    <2> QED BY <1>0, <1>1, <2>1, RunDoneLemma
  <1>3. /\ op' \in [CallId -> Ops]
        /\ \A t \in CallId : /\ op'[t] # "connect"
                             /\ op'[t] # "write"
                             /\ o[t] = "none" => op'[t] = "none"
                             /\ o[t] \in {"resolve", "resolve_cancelled", "connect",
                                          "connect_failed", "connect_queued"}
                                 => op'[t] \in {"resolve_cancelled", "connect_failed",
                                                "connect_queued"}
    BY <1>1, CloseLemma
  <1>4. /\ reader' = "none" /\ torn' = 0 /\ received' = {}
        /\ queued' \in ReadQueues
        /\ queued'.whole \subseteq q.whole \cup received
    BY <1>0, <1>1, AbortReadsLemma
  <1>5. TypeOK'
    BY <1>0, <1>1, <1>2, <1>3, <1>4 DEF TypeOK
  <1>6. Unissued'
    BY <1>0, <1>1, <1>2, <1>3, <1>4 DEF Unissued
  <1>7. SocketState'
    BY <1>1, <1>3, <1>4 DEF SocketState, Reads
  <1>8. NoLostCall'
    <2> SUFFICES ASSUME NEW t \in Issued \ called' PROVE Connecting(t)'
      BY DEF NoLostCall
    <2>1. t \notin own \cup out /\ t \in Issued \ called /\ t \in CallId
      BY <1>0, <1>2
    <2>2. Connecting(t)
      BY <1>0, <2>1 DEF NoLostCall, Awaited
    <2> QED BY <1>3, <2>1, <2>2 DEF Connecting
  <1>9. TimerGuard'
    BY <1>0, <1>1, <1>2 DEF TimerGuard
  <1>10. ConnectingFlag'
    BY <1>1 DEF ConnectingFlag
  <1>11. ResultIsVerdict'
    BY <1>0, <1>2, ProgressKeepsVerdicts
  <1> QED BY <1>2, <1>5, <1>6, <1>7, <1>8, <1>9, <1>10, <1>11 DEF IInv

\* A read started on an open socket is the header of its one loop, or puts the
\* socket's loops out of step; on a closed socket it is a queued failure.
LEMMA StartReadLemma ==
    ASSUME TypeOK, SocketState, NEW q \in ReadQueues, start_read(q)
    PROVE  /\ reader' \in {"none", "header", "payload"} /\ torn' \in Nat
           /\ queued' \in ReadQueues
           /\ queued'.failed >= q.failed
           /\ queued'.partial = q.partial /\ queued'.whole = q.whole
           /\ socket_ = "closed" => UNCHANGED <<reader, torn>>
           /\ socket_ # "closed" => /\ reader' = "header" \/ (reader' = "none" /\ torn' > 0)
                                    /\ Reads > 0 => torn' > 0
           /\ reader' # "none" => torn' = 0
  <1>0. /\ q.failed \in Nat /\ q.partial \in Nat /\ q.whole \in SUBSET CallId
        /\ Reads \in Nat
    BY DEF ReadQueues, TypeOK, Reads
  <1>1. CASE socket_ = "closed" /\ read_closed(q)
    <2>1. /\ queued'.failed = q.failed + 1 /\ queued'.partial = q.partial
          /\ queued'.whole = q.whole
          /\ UNCHANGED <<reader, torn>>
      BY <1>1 DEF read_closed
    <2>2. queued' \in ReadQueues
      BY <1>0, <1>1 DEF read_closed, ReadQueues
    <2> QED BY <1>0, <1>1, <2>1, <2>2 DEF TypeOK, SocketState
  <1>2. CASE socket_ # "closed" /\ Reads > 0 /\ read_out_of_step(q)
    BY <1>0, <1>2 DEF read_out_of_step
  <1>3. CASE /\ socket_ # "closed" /\ Reads = 0
             /\ reader' = "header"
             /\ queued' = q
             /\ UNCHANGED torn
    <2>1. torn = 0
      BY <1>3 DEF Reads, TypeOK
    <2> QED BY <1>0, <1>3, <2>1 DEF TypeOK
  <1> QED BY <1>1, <1>2, <1>3 DEF start_read

-----------------------------------------------------------------------------
(* One lemma per action.                                                   *)

\* What start_call leaves of the invariant, on whatever socket: the call is
\* outgoing, with its timer armed and its write outstanding, or it is over.
LEMMA StartCallLemma ==
    ASSUME TypeOK, RunsOnce,
           NEW t \in CallId, start_call(t)
    PROVE  /\ outgoing_tasks \subseteq outgoing_tasks'
           /\ outgoing_tasks' \in SUBSET (outgoing_tasks \cup {t})
           /\ called' \in SUBSET CallId /\ called' \subseteq called \cup {t}
           /\ runs' \in [CallId -> Nat] /\ code' \in [CallId -> Code]
           /\ armed' \in SUBSET Timed
           /\ armed \ {t} \subseteq armed' /\ armed' \subseteq armed \cup {t}
           /\ op' \in [CallId -> Ops]
           /\ \A u \in CallId \ {t} : op'[u] = op[u]
           /\ \/ op'[t] = "write" /\ t \in outgoing_tasks' /\ ({t} \cap Timed) \subseteq armed'
              \/ op'[t] = "none" /\ t \in called'
           /\ RunsOnce'
           /\ Progress
  <1>1. CASE /\ outgoing_tasks' = outgoing_tasks \cup {t}
             /\ armed' = setup_task_timer(t)
             /\ op' = [op EXCEPT ![t] = "write"]
             /\ UNCHANGED <<called, runs, code>>
    BY <1>1, ChannelAssumption DEF TypeOK, RunsOnce, Progress, setup_task_timer, Ops
  <1>2. ASSUME NEW e \in PacketErrors,
               RunDone({t}, e, {}),
               armed' = armed \ {t},
               op' = [op EXCEPT ![t] = "none"],
               UNCHANGED outgoing_tasks
        PROVE  /\ called' = called \cup {t} \cup {}
               /\ called' \in SUBSET CallId
               /\ runs' \in [CallId -> Nat]
               /\ code' \in [CallId -> Code]
               /\ RunsOnce'
               /\ Progress
    <2>1. e \in Code /\ e \in LocalFailure
      BY DEF PacketErrors, Code, LocalFailure
    <2> QED BY <1>2, <2>1, RunDoneLemma
  <1>3. CASE \E e \in PacketErrors :
               /\ RunDone({t}, e, {})
               /\ armed' = armed \ {t}
               /\ op' = [op EXCEPT ![t] = "none"]
               /\ UNCHANGED outgoing_tasks
    BY <1>2, <1>3 DEF TypeOK, Ops
  <1> QED BY <1>1, <1>3 DEF start_call

LEMMA CallMethodStep ==
    ASSUME IInv, CallMethod
    PROVE  IInv' /\ Progress
  <1> DEFINE t == id_ + 1
  <1> USE DEF Issued
  <1>0. /\ TypeOK /\ Unissued /\ RunsOnce /\ SocketState /\ NoLostCall /\ TimerGuard
        /\ ConnectingFlag /\ ResultIsVerdict
        /\ t \in CallId /\ t \notin Issued /\ id_' = t /\ Issued' = Issued \cup {t}
        /\ Issued' \subseteq CallId
        /\ UNCHANGED <<socket_, fired, reader, torn, queued, received>>
    BY ChannelAssumption DEF IInv, TypeOK, CallId, CallMethod, issue
  <1>3. op[t] = "none" /\ Reads' = Reads
    BY <1>0 DEF Unissued, Reads
  <1>4. ASSUME \A u \in CallId \ {t} : op'[u] = op[u]
        PROVE  MixedUp => MixedUp'
    BY <1>0, <1>3, <1>4 DEF MixedUp
  <1> HIDE DEF t
  <1>1. CASE /\ socket_ = "closed"
             /\ op' = [op EXCEPT ![t] = "resolve"]
             /\ connecting_' = TRUE
             /\ armed' = setup_task_timer(t)
             /\ UNCHANGED <<outgoing_tasks, called, runs, code>>
    <2>1. TypeOK'
      BY <1>0, <1>1, ChannelAssumption DEF TypeOK, setup_task_timer, Ops, CallId
    <2>2. Progress
      BY <1>1 DEF Progress
    <2>3. Unissued'
      BY <1>0, <1>1 DEF Unissued, TypeOK, setup_task_timer
    <2>4. RunsOnce' /\ ResultIsVerdict'
      BY <1>0, <1>1 DEF RunsOnce, ResultIsVerdict
    <2>9. /\ \A u \in CallId \ {t} : op'[u] = op[u]
          /\ op'[t] = "resolve"
      BY <1>0, <1>1 DEF TypeOK
    <2>5. SocketState'
      BY <1>0, <1>1, <1>3, <2>9 DEF SocketState
    <2>6. NoLostCall'
      <3> SUFFICES ASSUME NEW u \in Issued' \ called'
                   PROVE  Connecting(u)' \/ Awaited(u)' \/ (u \in outgoing_tasks' /\ MixedUp')
        BY DEF NoLostCall
      <3>1. CASE u = t
        BY <2>9, <3>1 DEF Connecting
      <3>2. CASE u # t
        BY <1>0, <1>1, <1>4, <2>9, <3>2 DEF NoLostCall, Connecting, Awaited
      <3> QED BY <3>1, <3>2
    <2>7. TimerGuard'
      BY <1>0, <1>1 DEF TimerGuard, setup_task_timer
    <2>8. ConnectingFlag'
      BY <1>0, <1>1 DEF ConnectingFlag
    <2> QED BY <2>1, <2>2, <2>3, <2>4, <2>5, <2>6, <2>7, <2>8 DEF IInv
  <1>2. CASE socket_ # "closed" /\ start_call(t) /\ UNCHANGED connecting_
    <2>1. /\ outgoing_tasks \subseteq outgoing_tasks'
          /\ outgoing_tasks' \in SUBSET (outgoing_tasks \cup {t})
          /\ called' \in SUBSET CallId /\ called' \subseteq called \cup {t}
          /\ runs' \in [CallId -> Nat] /\ code' \in [CallId -> Code]
          /\ armed' \in SUBSET Timed
          /\ armed \ {t} \subseteq armed' /\ armed' \subseteq armed \cup {t}
          /\ op' \in [CallId -> Ops]
          /\ \A u \in CallId \ {t} : op'[u] = op[u]
          /\ \/ op'[t] = "write" /\ t \in outgoing_tasks' /\ ({t} \cap Timed) \subseteq armed'
             \/ op'[t] = "none" /\ t \in called'
          /\ RunsOnce'
          /\ Progress
      BY <1>0, <1>2, StartCallLemma
    <2>2. TypeOK'
      BY <1>0, <1>2, <2>1 DEF TypeOK, CallId
    <2>3. Unissued'
      BY <1>0, <2>1 DEF Unissued, TypeOK
    <2>4. ResultIsVerdict'
      BY <1>0, <2>1, ProgressKeepsVerdicts
    <2>5. SocketState'
      BY <1>0, <1>2, <1>3, <2>1 DEF SocketState, Unissued
    <2>6. NoLostCall'
      <3> SUFFICES ASSUME NEW u \in Issued' \ called'
                   PROVE  Connecting(u)' \/ Awaited(u)' \/ (u \in outgoing_tasks' /\ MixedUp')
        BY DEF NoLostCall
      <3>1. CASE u = t
        BY <2>1, <3>1 DEF Awaited
      <3>2. CASE u # t
        BY <1>0, <1>4, <2>1, <3>2 DEF NoLostCall, Connecting, Awaited, Progress
      <3> QED BY <3>1, <3>2
    <2>7. TimerGuard'
      BY <1>0, <2>1 DEF TimerGuard, Progress
    <2>8. ConnectingFlag'
      BY <1>0, <1>2 DEF ConnectingFlag
    <2> QED BY <2>1, <2>2, <2>3, <2>4, <2>5, <2>6, <2>7, <2>8 DEF IInv
  <1> QED BY <1>1, <1>2 DEF CallMethod, issue, t

\* async_connect on the shared socket: the calls whose write it aborts, and
\* those the server had, are still awaited, or the handlers it leaves queued are
\* those of an earlier socket.
LEMMA AsyncConnectStep ==
    ASSUME IInv, NEW t \in CallId, async_connect(t),
           op[t] \in {"resolve", "resolve_cancelled", "connect", "connect_failed"},
           op[t] \in {"connect", "connect_failed"} => socket_ # "closed"
    PROVE  IInv' /\ Progress
  <1> USE DEF Issued
  <1>0. /\ TypeOK /\ Unissued /\ RunsOnce /\ SocketState /\ NoLostCall /\ TimerGuard
        /\ ConnectingFlag /\ ResultIsVerdict
        /\ Issued \subseteq CallId
    BY ChannelAssumption DEF IInv, TypeOK, CallId
  <1>1. PICK done \in Completed([op EXCEPT ![t] = "none"]) :
             op' = [AbortSocketOps(op, done) EXCEPT ![t] = "connect"]
    BY DEF async_connect
  <1>2. /\ socket_' = "opening" /\ AbortReads(Reads, queued)
        /\ UNCHANGED <<id_, connecting_, outgoing_tasks, called, runs, code, armed, fired>>
    BY DEF async_connect
  <1>3. /\ AbortSocketOps(op, done) \in [CallId -> Ops]
        /\ \A u \in CallId : LET p == AbortSocketOps(op, done) IN
              /\ p[u] # "connect" /\ p[u] # "write"
              /\ op[u] = "none" => p[u] = "none"
              /\ op[u] = "write" => p[u] = "write_aborted" \/ u \in done
              /\ op[u] = "write_aborted" => p[u] = "write_aborted"
              /\ op[u] = "connect" => p[u] \in {"connect_failed", "connect_queued"}
              /\ op[u] = "connect" /\ u \in done => p[u] = "connect_queued"
              /\ op[u] \in {"resolve", "resolve_cancelled", "connect_failed", "connect_queued"}
                    => p[u] = op[u]
    BY <1>0 DEF TypeOK, AbortSocketOps, Ops
  <1>4. /\ op' \in [CallId -> Ops]
        /\ op'[t] = "connect"
        /\ \A u \in CallId \ {t} :
              /\ op'[u] # "connect" /\ op'[u] # "write"
              /\ op[u] = "none" => op'[u] = "none"
              /\ op[u] = "write" => op'[u] = "write_aborted" \/ u \in done
              /\ op[u] = "write_aborted" => op'[u] = "write_aborted"
              /\ op[u] = "connect" /\ u \in done => op'[u] = "connect_queued"
              /\ op[u] = "connect_queued" => op'[u] = "connect_queued"
              /\ Connecting(u) => Connecting(u)'
    BY <1>1, <1>3 DEF Connecting, Ops
  <1>5. /\ queued \in ReadQueues /\ queued.failed \in Nat /\ queued.partial \in Nat
        /\ Reads \in Nat
    BY <1>0 DEF TypeOK, ReadQueues, Reads
  <1>6. /\ reader' = "none" /\ torn' = 0 /\ received' = {}
        /\ queued' \in ReadQueues
        /\ queued'.failed >= queued.failed /\ queued'.partial >= queued.partial
        /\ queued.whole \subseteq queued'.whole
        /\ queued'.whole \subseteq queued.whole \cup received
        /\ Reads > 0 => queued'.failed > 0 \/ queued'.partial > 0 \/ queued'.whole # {}
    BY <1>0, <1>2, <1>5, AbortReadsLemma
  <1>7. /\ queued'.failed \in Nat /\ queued'.partial \in Nat
        /\ queued.failed > 0 => queued'.failed > 0
        /\ queued.partial > 0 => queued'.partial > 0
    BY <1>5, <1>6 DEF ReadQueues
  <1>8. TypeOK'
    BY <1>0, <1>2, <1>4, <1>6 DEF TypeOK
  <1>9. Unissued'
    BY <1>0, <1>2, <1>4, <1>6 DEF Unissued
  <1>10. RunsOnce' /\ ResultIsVerdict' /\ TimerGuard' /\ ConnectingFlag' /\ Progress
    BY <1>0, <1>2 DEF RunsOnce, ResultIsVerdict, TimerGuard, ConnectingFlag, Progress
  <1>11. SocketState'
    BY <1>2, <1>4, <1>6 DEF SocketState
  <1>12. NoLostCall'
    <2> SUFFICES ASSUME NEW u \in Issued \ called
                 PROVE  Connecting(u)' \/ Awaited(u)' \/ (u \in outgoing_tasks' /\ MixedUp')
      BY <1>2 DEF NoLostCall
    <2>1. CASE u = t
      BY <1>4, <2>1 DEF Connecting
    <2>2. CASE u # t /\ Connecting(u)
      BY <1>0, <1>4, <2>2
    <2>3. CASE u # t /\ u \in outgoing_tasks /\ Reads > 0
      BY <1>2, <1>6, <2>3 DEF Awaited, MixedUp
    <2>4. CASE u # t /\ u \in outgoing_tasks /\ queued.failed > 0
      BY <1>2, <1>7, <2>4 DEF Awaited
    <2>5. CASE u # t /\ u \in outgoing_tasks /\ op[u] \in {"write", "write_aborted"} /\ Reads = 0
      <3>1. CASE op'[u] = "write_aborted"
        BY <1>2, <2>5, <3>1 DEF Awaited
      <3>2. CASE u \in done
        <4>1. socket_ # "connected"
          BY <1>0, <2>5 DEF SocketState
        <4>2. PICK v \in done : [op EXCEPT ![t] = "none"][v] = "connect"
          BY <3>2, <4>1 DEF Completed
        <4>3. v \in CallId
          BY <4>2 DEF Completed
        <4>4. v # t /\ op[v] = "connect"
          BY <1>0, <4>2, <4>3 DEF TypeOK
        <4>5. op'[v] = "connect_queued"
          BY <1>4, <4>2, <4>3, <4>4
        <4> QED BY <1>2, <2>5, <4>3, <4>5 DEF MixedUp
      <3> QED BY <1>0, <1>4, <2>5, <3>1, <3>2
    <2>6. CASE u # t /\ u \in outgoing_tasks /\ MixedUp /\ Reads = 0
      <3>1. ~(socket_ = "opening" /\ reader # "none") /\ ~(torn > 0)
        BY <1>0, <2>6 DEF Reads, TypeOK
      <3>2. CASE queued.partial > 0 \/ queued.whole # {}
        BY <1>2, <1>6, <1>7, <2>6, <3>2 DEF MixedUp
      <3>3. CASE \E v \in CallId : op[v] = "connect_queued"
        BY <1>2, <1>4, <2>6, <3>3 DEF MixedUp
      <3> QED BY <2>6, <3>1, <3>2, <3>3 DEF MixedUp
    <2>7. Reads = 0 \/ Reads > 0
      BY <1>5
    <2>8. reader # "none" => Reads > 0
      BY DEF Reads
    <2> QED BY <1>0, <2>1, <2>2, <2>3, <2>4, <2>5, <2>6, <2>7, <2>8 DEF NoLostCall, Awaited
  <1> QED BY <1>8, <1>9, <1>10, <1>11, <1>12 DEF IInv

\* A resolution succeeds, or a refused connect goes on with the next endpoint.
LEMMA ReopenStep ==
    ASSUME IInv, NEW t \in CallId, handle_resolve_ok(t) \/ connect_next(t)
    PROVE  IInv' /\ Progress /\ socket_' = "opening"
  <1>1. op[t] = "connect" => socket_ # "closed"
    BY DEF IInv, SocketState
  <1> QED BY <1>1, AsyncConnectStep DEF handle_resolve_ok, connect_next, async_connect

\* A connect succeeds, on the socket it opened or on a later one: the new call is
\* written, and a second loop on the socket puts both out of step.
LEMMA ConnectOkStep ==
    ASSUME IInv, NEW t \in CallId, handle_connect_ok(t)
    PROVE  IInv' /\ Progress /\ socket_' # "closed"
  <1> USE DEF Issued
  <1>0. /\ TypeOK /\ Unissued /\ RunsOnce /\ SocketState /\ NoLostCall /\ TimerGuard
        /\ ResultIsVerdict /\ ConnectingFlag
        /\ Issued \subseteq CallId
        /\ queued \in ReadQueues /\ Reads \in Nat /\ torn \in Nat
    BY ChannelAssumption DEF IInv, TypeOK, CallId, Reads
  <1>1. /\ Connected(t) /\ connecting_' = FALSE /\ start_call(t) /\ start_read(queued)
        /\ socket_' = IF op[t] = "connect" THEN "connected" ELSE socket_
        /\ UNCHANGED <<id_, fired, received>>
    BY DEF handle_connect_ok
  <1>2. /\ t \in Issued /\ socket_ # "closed" /\ op[t] \in {"connect", "connect_queued"}
        /\ op[t] = "connect" => socket_ = "opening"
    BY <1>0, <1>1 DEF Unissued, SocketState, Connected
  <1>3. /\ outgoing_tasks \subseteq outgoing_tasks'
        /\ outgoing_tasks' \in SUBSET (outgoing_tasks \cup {t})
        /\ called' \in SUBSET CallId /\ called' \subseteq called \cup {t}
        /\ runs' \in [CallId -> Nat] /\ code' \in [CallId -> Code]
        /\ armed' \in SUBSET Timed
        /\ armed \ {t} \subseteq armed' /\ armed' \subseteq armed \cup {t}
        /\ op' \in [CallId -> Ops]
        /\ \A u \in CallId \ {t} : op'[u] = op[u]
        /\ \/ op'[t] = "write" /\ t \in outgoing_tasks' /\ ({t} \cap Timed) \subseteq armed'
           \/ op'[t] = "none" /\ t \in called'
        /\ RunsOnce'
        /\ Progress
    BY <1>0, <1>1, StartCallLemma
  <1>4. /\ reader' = "header" \/ (reader' = "none" /\ torn' > 0)
        /\ torn' \in Nat
        /\ Reads > 0 => torn' > 0
        /\ reader' # "none" => torn' = 0
        /\ queued' \in ReadQueues
        /\ queued'.failed >= queued.failed
        /\ queued'.partial = queued.partial /\ queued'.whole = queued.whole
    BY <1>0, <1>1, <1>2, StartReadLemma
  <1>5. queued.failed > 0 => queued'.failed > 0
    BY <1>0, <1>4 DEF ReadQueues
  <1>6. TypeOK'
    BY <1>0, <1>1, <1>2, <1>3, <1>4 DEF TypeOK
  <1>7. Unissued'
    BY <1>0, <1>1, <1>2, <1>3, <1>4 DEF Unissued
  <1>8. ResultIsVerdict'
    BY <1>0, <1>3, ProgressKeepsVerdicts
  <1>9. SocketState'
    <2>1. Reads' > 0
      BY <1>4 DEF Reads
    <2>2. CASE op[t] = "connect"
      BY <1>0, <1>1, <1>2, <1>3, <1>4, <2>1, <2>2 DEF SocketState
    <2>3. CASE op[t] = "connect_queued"
      BY <1>0, <1>1, <1>2, <1>3, <1>4, <2>1, <2>3 DEF SocketState
    <2> QED BY <1>2, <2>2, <2>3
  <1>10. NoLostCall'
    <2> SUFFICES ASSUME NEW u \in Issued \ called'
                 PROVE  Connecting(u)' \/ Awaited(u)' \/ (u \in outgoing_tasks' /\ MixedUp')
      BY <1>1 DEF NoLostCall
    <2>1. CASE u = t
      BY <1>3, <2>1 DEF Awaited
    <2>2. CASE u # t
      <3>1. u \in CallId /\ op'[u] = op[u] /\ u \notin called
        BY <1>0, <1>3, <2>2 DEF Progress
      <3>2. CASE Connecting(u)
        BY <3>1, <3>2 DEF Connecting
      <3>3. CASE u \in outgoing_tasks /\ Reads > 0
        BY <1>3, <1>4, <3>3 DEF MixedUp
      <3>4. CASE /\ u \in outgoing_tasks
                 /\ op[u] \in {"write", "write_aborted"} \/ queued.failed > 0
        BY <1>3, <1>5, <3>1, <3>4 DEF Awaited
      <3>5. CASE u \in outgoing_tasks /\ MixedUp /\ ~(Reads > 0)
        <4>1. reader = "none" /\ ~(torn > 0)
          BY <1>0, <3>5 DEF Reads
        <4>2. CASE queued.partial > 0 \/ queued.whole # {}
          BY <1>3, <1>4, <3>5, <4>2 DEF MixedUp
        <4>3. CASE \E v \in CallId : op[v] = "connect_queued"
          <5>1. PICK v \in CallId : op[v] = "connect_queued"
            BY <4>3
          <5>2. CASE v # t
            BY <1>3, <3>5, <5>1, <5>2 DEF MixedUp
          <5>3. CASE v = t
            <6>1. socket_ = "opening" /\ socket_' = "opening"
              BY <1>0, <1>1, <1>2, <3>5, <5>1, <5>3 DEF SocketState, TypeOK
            <6> QED BY <1>3, <1>4, <3>5, <6>1 DEF MixedUp
          <5> QED BY <5>2, <5>3
        <4> QED BY <3>5, <4>1, <4>2, <4>3 DEF MixedUp
      <3>6. reader # "none" => Reads > 0
        BY DEF Reads
      <3> QED BY <1>0, <3>1, <3>2, <3>3, <3>4, <3>5, <3>6 DEF NoLostCall, Awaited
    <2> QED BY <2>1, <2>2
  <1>11. TimerGuard'
    BY <1>0, <1>1, <1>3 DEF TimerGuard, Progress
  <1>12. ConnectingFlag'
    BY <1>1 DEF ConnectingFlag
  <1>13. socket_' # "closed"
    BY <1>1, <1>2
  <1> QED BY <1>3, <1>6, <1>7, <1>8, <1>9, <1>10, <1>11, <1>12, <1>13 DEF IInv

\* The error paths, which all end in destroy().
LEMMA ErrorStep ==
    ASSUME IInv, NEW t \in CallId,
           \/ handle_resolve_error(t) \/ handle_connect_error(t) \/ handle_write_error(t)
    PROVE  IInv' /\ Progress /\ outgoing_tasks \subseteq called'
  <1> DEFINE o == [op EXCEPT ![t] = "none"]
  <1>1. PICK e \in LocalFailure : destroy({t}, e, o, Reads, queued, outgoing_tasks)
    BY DEF handle_resolve_error, handle_connect_error, handle_write_error, LocalFailure, Code
  <1>2. op[t] # "none" /\ UNCHANGED <<id_, connecting_, fired>>
    BY DEF handle_resolve_error, handle_connect_error, handle_write_error, ConnectFailed
  <1>3. /\ t \in Issued /\ outgoing_tasks \in SUBSET Issued
        /\ o \in [CallId -> Ops] /\ Reads \in Nat /\ connecting_' \in BOOLEAN
        /\ queued \in ReadQueues
        /\ \A u \in CallId \ ({t} \cup outgoing_tasks) : o[u] = op[u]
    BY <1>2 DEF IInv, TypeOK, Unissued, Reads, Ops
  <1> HIDE DEF o
  <1> QED BY <1>1, <1>2, <1>3, DestroyLemma

LEMMA ConnectNoReadStep ==
    ASSUME IInv, NEW t \in CallId, handle_connect_no_read(t)
    PROVE  IInv' /\ Progress /\ outgoing_tasks \subseteq called'
  <1> DEFINE out == outgoing_tasks \cup {t}
             o(w) == [op EXCEPT ![t] = w]
  <1>1. op[t] # "none" /\ connecting_' = FALSE /\ UNCHANGED <<id_, fired>>
    BY DEF handle_connect_no_read, Connected
  <1>2. /\ out \in SUBSET Issued /\ {t} \in SUBSET Issued /\ Reads \in Nat
        /\ queued \in ReadQueues
        /\ \A w \in Ops : /\ o(w) \in [CallId -> Ops]
                          /\ \A u \in CallId \ out : o(w)[u] = op[u]
    BY <1>1 DEF IInv, TypeOK, Unissued, Reads
  <1>3. "write" \in Ops /\ "none" \in Ops /\ "EC_FAILED" \in LocalFailure
    BY DEF Ops, LocalFailure, Code
  <1>4. PacketErrors \subseteq LocalFailure
    BY DEF PacketErrors, LocalFailure, Code
  <1>5. CASE destroy({}, "EC_FAILED", o("write"), Reads, queued, out)
    <2> HIDE DEF o, out
    <2>1. outgoing_tasks \subseteq {} \cup out
      BY DEF out
    <2>2. /\ o("write") \in [CallId -> Ops]
          /\ \A u \in CallId \ ({} \cup out) : o("write")[u] = op[u]
      BY <1>2, <1>3
    <2>3. /\ connecting_' \in BOOLEAN /\ {} \in SUBSET Issued
          /\ id_' = id_ /\ fired' \subseteq fired /\ fired \ {} \subseteq fired'
          /\ queued.whole \subseteq queued.whole
      BY <1>1
    <2>4. out \in SUBSET Issued /\ Reads \in Nat /\ queued \in ReadQueues
      BY <1>2
    <2>5. "EC_FAILED" \in LocalFailure
      BY <1>3
    <2> QED BY <1>5, <2>1, <2>2, <2>3, <2>4, <2>5, DestroyLemma
  <1>6. ASSUME NEW e \in PacketErrors, destroy({t}, e, o("none"), Reads, queued, out)
        PROVE  IInv' /\ Progress /\ outgoing_tasks \subseteq called'
    <2> HIDE DEF o, out
    <2>1. outgoing_tasks \subseteq {t} \cup out
      BY DEF out
    <2> QED BY <1>1, <1>2, <1>3, <1>4, <1>6, <2>1, DestroyLemma
  <1> QED BY <1>5, <1>6 DEF handle_connect_no_read

\* The reads that fail, on this socket or on an earlier one.
LEMMA ReadErrorStep ==
    ASSUME IInv,
           \/ handle_read_header_error \/ handle_read_payload_error
           \/ handle_read_torn_error
           \/ handle_read_failed \/ handle_read_partial_error
           \/ \E m \in CallId : handle_read_whole_error(m)
    PROVE  IInv' /\ Progress /\ outgoing_tasks \subseteq called'
  <1>0. /\ queued \in ReadQueues /\ Reads \in Nat /\ torn \in Nat
        /\ queued.failed \in Nat /\ queued.partial \in Nat
        /\ outgoing_tasks \in SUBSET Issued /\ connecting_ \in BOOLEAN
        /\ op \in [CallId -> Ops] /\ "EC_FAILED" \in LocalFailure
    BY DEF IInv, TypeOK, Unissued, LocalFailure, Code, ReadQueues, Reads
  <1>1. UNCHANGED <<id_, connecting_, fired>>
    BY DEF handle_read_header_error, handle_read_payload_error, handle_read_torn_error,
           handle_read_failed, handle_read_partial_error, handle_read_whole_error
  <1>2. ASSUME NEW n \in Nat, NEW q \in ReadQueues, q.whole \subseteq queued.whole,
               destroy({}, "EC_FAILED", op, n, q, outgoing_tasks)
        PROVE  IInv' /\ Progress /\ outgoing_tasks \subseteq called'
    <2>1. {} \in SUBSET Issued /\ outgoing_tasks \subseteq {} \cup outgoing_tasks
      OBVIOUS
    <2>2. \A t \in CallId \ ({} \cup outgoing_tasks) : op[t] = op[t]
      OBVIOUS
    <2>3. /\ id_' = id_ /\ connecting_' \in BOOLEAN
          /\ fired' \subseteq fired /\ fired \ {} \subseteq fired'
      BY <1>0, <1>1
    <2> QED BY <1>0, <1>2, <2>1, <2>2, <2>3, DestroyLemma
  <1>3. CASE handle_read_header_error \/ handle_read_payload_error
    <2>1. destroy({}, "EC_FAILED", op, 0, queued, outgoing_tasks)
      BY <1>3 DEF handle_read_header_error, handle_read_payload_error
    <2> QED BY <1>0, <1>2, <2>1
  <1>4. CASE handle_read_torn_error
    <2>1. destroy({}, "EC_FAILED", op, torn - 1, queued, outgoing_tasks) /\ torn - 1 \in Nat
      BY <1>0, <1>4 DEF handle_read_torn_error
    <2> QED BY <1>0, <1>2, <2>1
  <1>5. CASE handle_read_failed
    <2> DEFINE q == [queued EXCEPT !.failed = @ - 1]
    <2>1. destroy({}, "EC_FAILED", op, Reads, q, outgoing_tasks)
      BY <1>5 DEF handle_read_failed
    <2>2. q \in ReadQueues /\ q.whole \subseteq queued.whole
      BY <1>0, <1>5 DEF handle_read_failed, ReadQueues
    <2> HIDE DEF q
    <2> QED BY <1>0, <1>2, <2>1, <2>2
  <1>6. CASE handle_read_partial_error
    <2> DEFINE q == [queued EXCEPT !.partial = @ - 1]
    <2>1. destroy({}, "EC_FAILED", op, Reads, q, outgoing_tasks)
      BY <1>6 DEF handle_read_partial_error
    <2>2. q \in ReadQueues /\ q.whole \subseteq queued.whole
      BY <1>0, <1>6 DEF handle_read_partial_error, ReadQueues
    <2> HIDE DEF q
    <2> QED BY <1>0, <1>2, <2>1, <2>2
  <1>7. ASSUME NEW m \in CallId, handle_read_whole_error(m)
        PROVE  IInv' /\ Progress /\ outgoing_tasks \subseteq called'
    <2> DEFINE q == [queued EXCEPT !.whole = @ \ {m}]
    <2>1. destroy({}, "EC_FAILED", op, Reads, q, outgoing_tasks)
      BY <1>7 DEF handle_read_whole_error
    <2>2. q \in ReadQueues /\ q.whole \subseteq queued.whole
      BY <1>0 DEF ReadQueues
    <2> HIDE DEF q
    <2> QED BY <1>0, <1>2, <2>1, <2>2
  <1> QED BY <1>3, <1>4, <1>5, <1>6, <1>7

\* A request is written: the read loop that will see its response runs.
LEMMA WriteOkStep ==
    ASSUME IInv, NEW t \in CallId, handle_write_ok(t)
    PROVE  IInv' /\ Progress
  <1> USE DEF Issued
  <1>1. /\ op[t] = "write" /\ socket_ = "connected" /\ (reader # "none" \/ torn > 0)
        /\ op' = [op EXCEPT ![t] = "none"]
        /\ received' = received \cup {t}
        /\ UNCHANGED <<id_, socket_, connecting_, outgoing_tasks, called, runs, code,
                       armed, fired, reader, torn, queued>>
    BY DEF handle_write_ok, IInv, SocketState, Reads
  <1>2. /\ TypeOK /\ Unissued /\ SocketState /\ NoLostCall
        /\ Issued \subseteq CallId
    BY ChannelAssumption DEF IInv, TypeOK, CallId
  <1>3. TypeOK'
    BY <1>1, <1>2 DEF TypeOK, Ops
  <1>4. Unissued'
    BY <1>1, <1>2 DEF Unissued, TypeOK
  <1>5. SocketState'
    BY <1>1, <1>2 DEF SocketState, TypeOK, Reads
  <1>6. NoLostCall'
    <2>0. MixedUp => MixedUp'
      BY <1>1, <1>2 DEF MixedUp, TypeOK
    <2> SUFFICES ASSUME NEW u \in Issued \ called
                 PROVE  Connecting(u)' \/ Awaited(u)' \/ (u \in outgoing_tasks' /\ MixedUp')
      BY <1>1 DEF NoLostCall
    <2>1. CASE u = t
      <3>1. t \in outgoing_tasks
        BY <1>1, <1>2, <2>1 DEF NoLostCall, Connecting, Awaited
      <3>2. CASE reader # "none"
        BY <1>1, <2>1, <3>1, <3>2 DEF Awaited
      <3>3. CASE torn > 0
        BY <1>1, <2>1, <3>1, <3>3 DEF MixedUp
      <3> QED BY <1>1, <3>2, <3>3
    <2>2. CASE u # t
      BY <1>1, <1>2, <2>0, <2>2 DEF NoLostCall, Connecting, Awaited, TypeOK
    <2> QED BY <2>1, <2>2
  <1>7. RunsOnce' /\ TimerGuard' /\ ConnectingFlag' /\ ResultIsVerdict' /\ Progress
    BY <1>1 DEF IInv, RunsOnce, TimerGuard, ConnectingFlag, ResultIsVerdict, Progress
  <1> QED BY <1>3, <1>4, <1>5, <1>6, <1>7 DEF IInv

LEMMA ReadHeaderOkStep ==
    ASSUME IInv, handle_read_header_ok
    PROVE  IInv' /\ Progress
  <1> USE DEF Issued
  <1>1. /\ reader = "header" /\ reader' = "payload" /\ socket_ = "connected"
        /\ UNCHANGED <<id_, socket_, connecting_, outgoing_tasks, called, runs, code, op,
                       armed, fired, torn, queued, received>>
    BY DEF handle_read_header_ok, IInv, SocketState
  <1>2. TypeOK' /\ Unissued'
    BY <1>1 DEF IInv, TypeOK, Unissued
  <1>5. SocketState'
    BY <1>1 DEF IInv, SocketState, Reads
  <1>3. NoLostCall'
    BY <1>1 DEF IInv, NoLostCall, Connecting, Awaited, MixedUp
  <1>4. RunsOnce' /\ TimerGuard' /\ ConnectingFlag' /\ ResultIsVerdict' /\ Progress
    BY <1>1 DEF IInv, RunsOnce, TimerGuard, ConnectingFlag, ResultIsVerdict, Progress
  <1> QED BY <1>2, <1>3, <1>4, <1>5 DEF IInv

\* A response finishes the call it names, or is discarded; no other call changes.
LEMMA FinishCallLemma ==
    ASSUME TypeOK, RunsOnce, NEW m \in CallId, finish_call(m)
    PROVE  /\ called' \in SUBSET CallId /\ called' \subseteq called \cup {m}
           /\ runs' \in [CallId -> Nat] /\ code' \in [CallId -> Code]
           /\ RunsOnce' /\ Progress
           /\ outgoing_tasks' = outgoing_tasks \ {m}
           /\ armed \ {m} \subseteq armed' /\ armed' \subseteq armed
           /\ m \in called' \/ (m \notin outgoing_tasks /\ armed' = armed)
  <1>1. CASE /\ m \notin outgoing_tasks
             /\ UNCHANGED <<outgoing_tasks, armed, called, runs, code>>
    BY <1>1 DEF TypeOK, RunsOnce, Progress
  <1>2. ASSUME m \in outgoing_tasks,
               outgoing_tasks' = outgoing_tasks \ {m}, armed' = armed \ {m},
               NEW e \in ResponseCodes(m), RunDone({m}, e, {})
        PROVE  /\ called' = called \cup {m} \cup {}
               /\ called' \in SUBSET CallId
               /\ runs' \in [CallId -> Nat]
               /\ code' \in [CallId -> Code]
               /\ RunsOnce'
               /\ Progress
    <2>1. e \in LocalFailure \cup {CodeOf(Verdict[m])}
      BY <1>2 DEF ResponseCodes, LocalFailure, Code
    <2>2. e \in Code
      BY <2>1, ResultsAreCodes
    <2> QED BY <1>2, <2>1, <2>2, RunDoneLemma
  <1> QED BY <1>1, <1>2 DEF finish_call

\* Every call other than the finished one keeps what it waits for.
LEMMA ReadPayloadOkStep ==
    ASSUME IInv, NEW m \in CallId, handle_read_payload_ok(m)
    PROVE  IInv' /\ Progress
  <1> USE DEF Issued
  <1>0. /\ TypeOK /\ Unissued /\ RunsOnce /\ SocketState /\ NoLostCall /\ TimerGuard
        /\ ConnectingFlag /\ ResultIsVerdict
        /\ Issued \subseteq CallId
    BY ChannelAssumption DEF IInv, TypeOK, CallId
  <1>1. /\ m \in received /\ finish_call(m)
        /\ received' = received \ {m}
        /\ \/ reader = "payload" /\ reader' = "header"
           \/ torn > 0 /\ reader' = reader
        /\ UNCHANGED <<id_, socket_, connecting_, op, fired, torn, queued>>
    BY DEF handle_read_payload_ok
  <1>2. /\ called' \in SUBSET CallId /\ called' \subseteq called \cup {m}
        /\ runs' \in [CallId -> Nat] /\ code' \in [CallId -> Code]
        /\ RunsOnce' /\ Progress
        /\ outgoing_tasks' = outgoing_tasks \ {m}
        /\ armed \ {m} \subseteq armed' /\ armed' \subseteq armed
        /\ m \in called' \/ (m \notin outgoing_tasks /\ armed' = armed)
    BY <1>0, <1>1, FinishCallLemma
  <1>3. TypeOK'
    BY <1>0, <1>1, <1>2 DEF TypeOK
  <1>4. Unissued'
    BY <1>0, <1>1, <1>2 DEF Unissued
  <1>5. ResultIsVerdict'
    BY <1>0, <1>2, ProgressKeepsVerdicts
  <1>6. SocketState'
    BY <1>0, <1>1, <1>2 DEF SocketState, Reads
  <1>7. NoLostCall'
    <2>0. MixedUp => MixedUp'
      BY <1>0, <1>1 DEF MixedUp, SocketState
    <2> SUFFICES ASSUME NEW u \in Issued \ called'
                 PROVE  Connecting(u)' \/ Awaited(u)' \/ (u \in outgoing_tasks' /\ MixedUp')
      BY <1>1 DEF NoLostCall
    <2>1. u \notin called
      BY <1>2 DEF Progress
    <2>2. u = m => u \notin outgoing_tasks
      BY <1>2
    <2> QED BY <1>0, <1>1, <1>2, <2>0, <2>1, <2>2 DEF NoLostCall, Connecting, Awaited
  <1>8. TimerGuard'
    BY <1>0, <1>1, <1>2 DEF TimerGuard, Progress
  <1>9. ConnectingFlag'
    BY <1>0, <1>1 DEF ConnectingFlag
  <1> QED BY <1>2, <1>3, <1>4, <1>5, <1>6, <1>7, <1>8, <1>9 DEF IInv

\* What a queued read does to the reads when its handler reads on: one more loop
\* on an open socket, one more queued failure on a closed one.
ReadsOn ==
    /\ reader' \in {"none", "header", "payload"} /\ torn' \in Nat
    /\ queued' \in ReadQueues
    /\ queued'.failed >= queued.failed
    /\ queued'.whole \subseteq queued.whole
    /\ socket_ = "closed" => UNCHANGED <<reader, torn>>
    /\ socket_ = "opening" => reader' = "header" \/ torn' > 0
    /\ socket_ = "connected" => torn' > 0
    /\ socket_ # "closed" => reader' # "payload"
    /\ reader' # "none" => torn' = 0

\* What it does to the calls: at most, it finishes one that was outgoing.
FinishesOne ==
    /\ called' \in SUBSET CallId /\ called \subseteq called'
    /\ runs' \in [CallId -> Nat] /\ code' \in [CallId -> Code]
    /\ RunsOnce' /\ Progress
    /\ outgoing_tasks' \subseteq outgoing_tasks
    /\ outgoing_tasks \ called' \subseteq outgoing_tasks'
    /\ armed' \subseteq armed /\ armed \ called' \subseteq armed'
    /\ called' \subseteq called \cup outgoing_tasks

\* Reads started on the present socket by a handler of an earlier one: from then
\* on the outgoing calls are mixed up, and none of them was on a closed socket.
LEMMA QueuedReadStep ==
    ASSUME IInv,
           \/ handle_read_partial
           \/ \E m \in CallId : handle_read_whole(m)
    PROVE  IInv' /\ Progress /\ socket_' = socket_
  <1> USE DEF Issued
  <1>0. /\ TypeOK /\ Unissued /\ RunsOnce /\ SocketState /\ NoLostCall /\ TimerGuard
        /\ ConnectingFlag /\ ResultIsVerdict
        /\ Issued \subseteq CallId
        /\ queued \in ReadQueues /\ Reads \in Nat /\ torn \in Nat
        /\ queued.failed \in Nat /\ queued.partial \in Nat
        /\ queued.whole \in SUBSET CallId
    <2>1. TypeOK /\ Issued \subseteq CallId
      BY ChannelAssumption DEF IInv, TypeOK, CallId
    <2>2. queued \in ReadQueues /\ Reads \in Nat /\ torn \in Nat
      BY <2>1 DEF TypeOK, Reads
    <2>3. /\ queued.failed \in Nat /\ queued.partial \in Nat
          /\ queued.whole \in SUBSET CallId
      BY <2>2 DEF ReadQueues
    <2> QED BY <2>1, <2>2, <2>3 DEF IInv
  <1>1. UNCHANGED <<id_, socket_, connecting_, op, fired, received>>
    BY DEF handle_read_partial, handle_read_whole
  <1>2. ReadsOn
    <2>1. CASE handle_read_partial
      <3> DEFINE q == [queued EXCEPT !.partial = @ - 1]
      <3>1. \/ socket_ = "closed" /\ read_closed(q)
            \/ socket_ # "closed" /\ read_out_of_step(q)
        BY <2>1 DEF handle_read_partial
      <3>2. /\ q \in ReadQueues /\ q.whole = queued.whole /\ q.failed = queued.failed
            /\ q.failed \in Nat /\ q.partial \in Nat
        BY <1>0, <2>1 DEF handle_read_partial, ReadQueues
      <3> HIDE DEF q
      <3>3. CASE socket_ = "closed" /\ read_closed(q)
        <4>1. /\ queued'.failed = q.failed + 1 /\ queued'.whole = q.whole
              /\ UNCHANGED <<reader, torn>>
          BY <3>3 DEF read_closed
        <4>2. queued' \in ReadQueues
          BY <1>0, <3>2, <3>3 DEF read_closed, ReadQueues
        <4> QED BY <1>0, <3>2, <3>3, <4>1, <4>2 DEF TypeOK, SocketState, ReadsOn
      <3>4. CASE socket_ # "closed" /\ read_out_of_step(q)
        BY <1>0, <3>2, <3>4 DEF read_out_of_step, ReadsOn
      <3> QED BY <3>1, <3>3, <3>4
    <2>2. ASSUME NEW m \in CallId, handle_read_whole(m)
          PROVE  ReadsOn
      <3> DEFINE q == [queued EXCEPT !.whole = @ \ {m}]
      <3>1. start_read(q)
        BY <2>2 DEF handle_read_whole
      <3>2. q \in ReadQueues /\ q.whole \subseteq queued.whole /\ q.failed = queued.failed
        BY <1>0 DEF ReadQueues
      <3> HIDE DEF q
      <3>3. /\ reader' \in {"none", "header", "payload"} /\ torn' \in Nat
            /\ queued' \in ReadQueues
            /\ queued'.failed >= q.failed
            /\ queued'.whole = q.whole
            /\ socket_ = "closed" => UNCHANGED <<reader, torn>>
            /\ socket_ # "closed" => /\ reader' = "header" \/ (reader' = "none" /\ torn' > 0)
                                     /\ Reads > 0 => torn' > 0
            /\ reader' # "none" => torn' = 0
        BY <1>0, <3>1, <3>2, StartReadLemma
      <3>4. socket_ = "connected" => Reads > 0
        BY <1>0 DEF SocketState
      <3>5. queued.failed <= queued'.failed
        BY <3>2, <3>3
      <3> QED BY <3>2, <3>3, <3>4, <3>5 DEF ReadsOn
    <2> QED BY <2>1, <2>2
  <1>3. queued.failed > 0 => queued'.failed > 0
    BY <1>0, <1>2 DEF ReadQueues, ReadsOn
  <1>4. FinishesOne
    <2>1. CASE UNCHANGED <<outgoing_tasks, armed, called, runs, code>>
      BY <1>0, <2>1 DEF TypeOK, RunsOnce, Progress, FinishesOne
    <2>2. ASSUME NEW m \in CallId, finish_call(m)
          PROVE  FinishesOne
      <3>1. /\ called' \in SUBSET CallId /\ called' \subseteq called \cup {m}
            /\ runs' \in [CallId -> Nat] /\ code' \in [CallId -> Code]
            /\ RunsOnce' /\ Progress
            /\ outgoing_tasks' = outgoing_tasks \ {m}
            /\ armed \ {m} \subseteq armed' /\ armed' \subseteq armed
            /\ m \in called' \/ (m \notin outgoing_tasks /\ armed' = armed)
        BY <1>0, <2>2, FinishCallLemma
      <3>2. m \notin outgoing_tasks => called' = called
        BY <2>2 DEF finish_call
      <3> QED BY <3>1, <3>2 DEF Progress, FinishesOne
    <2> QED BY <2>1, <2>2 DEF handle_read_partial, handle_read_whole
  <1>5. TypeOK'
    BY <1>0, <1>1, <1>2, <1>4 DEF TypeOK, ReadsOn, FinishesOne
  <1>6. Unissued'
    BY <1>0, <1>1, <1>2, <1>4 DEF Unissued, ReadsOn, FinishesOne
  <1>7. ResultIsVerdict'
    BY <1>0, <1>4, ProgressKeepsVerdicts DEF FinishesOne
  <1>8. SocketState'
    <2>1. /\ socket_ = "connected" => Reads' > 0
          /\ socket_ = "closed" => Reads' = Reads
      BY <1>0, <1>2 DEF Reads, ReadsOn
    <2> QED BY <1>0, <1>1, <1>2, <1>4, <2>1 DEF SocketState, ReadsOn, FinishesOne
  <1>9. NoLostCall'
    <2> SUFFICES ASSUME NEW u \in Issued \ called'
                 PROVE  Connecting(u)' \/ Awaited(u)' \/ (u \in outgoing_tasks' /\ MixedUp')
      BY <1>1 DEF NoLostCall
    <2>1. u \in Issued \ called
      BY <1>4 DEF FinishesOne
    <2>2. CASE Connecting(u)
      BY <1>1, <2>2 DEF Connecting
    <2>3. CASE u \in outgoing_tasks
      <3>1. socket_ \in {"opening", "connected"}
        BY <1>0, <2>3 DEF SocketState, TypeOK
      <3>2. u \in outgoing_tasks'
        BY <1>4, <2>3, <2>1 DEF FinishesOne
      <3>3. MixedUp'
        BY <1>1, <1>2, <3>1 DEF MixedUp, ReadsOn
      <3> QED BY <3>2, <3>3
    <2> QED BY <1>0, <2>1, <2>2, <2>3 DEF NoLostCall, Awaited
  <1>10. TimerGuard'
    BY <1>0, <1>1, <1>4 DEF TimerGuard, FinishesOne
  <1>11. ConnectingFlag'
    BY <1>0, <1>1 DEF ConnectingFlag
  <1> QED BY <1>1, <1>4, <1>5, <1>6, <1>7, <1>8, <1>9, <1>10, <1>11 DEF IInv, FinishesOne

LEMMA ExpireStep ==
    ASSUME IInv, NEW t \in CallId, expire(t)
    PROVE  IInv' /\ Progress
  <1> USE DEF Issued
  <1>1. /\ t \in armed /\ armed' = armed \ {t} /\ fired' = fired \cup {t}
        /\ UNCHANGED <<id_, socket_, connecting_, outgoing_tasks, called, runs, code, op,
                       reader, torn, queued, received>>
    BY DEF expire
  <1>2. TypeOK' /\ Unissued' /\ SocketState'
    BY <1>1 DEF IInv, TypeOK, Unissued, SocketState, Reads
  <1>3. NoLostCall'
    BY <1>1 DEF IInv, NoLostCall, Connecting, Awaited, MixedUp
  <1>4. RunsOnce' /\ TimerGuard' /\ ConnectingFlag' /\ ResultIsVerdict' /\ Progress
    BY <1>1 DEF IInv, RunsOnce, TimerGuard, ConnectingFlag, ResultIsVerdict, Progress
  <1> QED BY <1>2, <1>3, <1>4 DEF IInv

\* A timeout finishes its call.  Only while a connection is being made does it
\* take the connection down, and then the other outgoing calls are finished too.
LEMMA TimeoutStep ==
    ASSUME IInv, NEW t \in CallId, handle_timeout(t)
    PROVE  IInv' /\ Progress /\ (socket_' # socket_ => outgoing_tasks \subseteq called')
  <1> USE DEF Issued
  <1>0. /\ TypeOK /\ Unissued /\ RunsOnce /\ SocketState /\ NoLostCall /\ TimerGuard
        /\ ConnectingFlag /\ ResultIsVerdict
        /\ Issued \subseteq CallId
        /\ t \in fired /\ fired' = fired \ {t} /\ UNCHANGED <<id_, connecting_>>
    BY ChannelAssumption DEF IInv, TypeOK, CallId, handle_timeout
  <1>1. /\ t \in Issued /\ outgoing_tasks \in SUBSET Issued /\ Reads \in Nat
        /\ queued \in ReadQueues
        /\ "EC_RPC_TIMEOUT" \in LocalFailure /\ "EC_RPC_TIMEOUT" \in Code
    BY <1>0 DEF Unissued, TypeOK, Reads, LocalFailure, Code
  <1>2. CASE destroy({t}, "EC_RPC_TIMEOUT", op, Reads, queued, outgoing_tasks \ {t})
    <2>1. /\ op \in [CallId -> Ops] /\ connecting_' \in BOOLEAN
          /\ outgoing_tasks \subseteq {t} \cup (outgoing_tasks \ {t})
      BY <1>0 DEF TypeOK
    <2> QED BY <1>0, <1>1, <1>2, <2>1, DestroyLemma
  <1>3. CASE /\ RunDone({t}, "EC_RPC_TIMEOUT", {})
             /\ outgoing_tasks' = outgoing_tasks \ {t}
             /\ UNCHANGED <<socket_, op, armed, reader, torn, queued, received>>
    <2>1. /\ called' = called \cup {t} \cup {} /\ called' \in SUBSET CallId
          /\ runs' \in [CallId -> Nat] /\ code' \in [CallId -> Code]
          /\ RunsOnce' /\ Progress
      BY <1>0, <1>1, <1>3, RunDoneLemma
    <2>2. TypeOK' /\ Unissued' /\ SocketState' /\ ConnectingFlag'
      BY <1>0, <1>1, <1>3, <2>1 DEF TypeOK, Unissued, SocketState, ConnectingFlag, Reads
    <2>3. NoLostCall'
      BY <1>0, <1>3, <2>1 DEF NoLostCall, Connecting, Awaited, MixedUp
    <2>4. TimerGuard'
      BY <1>0, <1>3, <2>1 DEF TimerGuard
    <2>5. ResultIsVerdict'
      BY <1>0, <2>1, ProgressKeepsVerdicts
    <2> QED BY <1>3, <2>1, <2>2, <2>3, <2>4, <2>5 DEF IInv
  <1> QED BY <1>2, <1>3 DEF handle_timeout

-----------------------------------------------------------------------------
(* The theorems.                                                           *)

LEMMA InitLemma == Init => IInv
  <1> SUFFICES ASSUME Init PROVE IInv
    OBVIOUS
  <1> USE DEF Init, Issued
  <1>1. TypeOK
    <2>1. /\ id_ \in 0..MaxCalls /\ torn \in Nat /\ runs \in [CallId -> Nat]
          /\ queued \in ReadQueues
      BY ChannelAssumption DEF ReadQueues
    <2>2. code \in [CallId -> Code] /\ op \in [CallId -> Ops]
      BY DEF Ops, Code
    <2> QED BY <2>1, <2>2 DEF TypeOK
  <1>2. Unissued /\ RunsOnce /\ SocketState /\ TimerGuard /\ ConnectingFlag /\ ResultIsVerdict
    BY DEF Unissued, RunsOnce, SocketState, TimerGuard, ConnectingFlag, ResultIsVerdict, Reads
  <1>3. NoLostCall
    BY DEF NoLostCall
  <1> QED BY <1>1, <1>2, <1>3 DEF IInv

\* Every step keeps the invariant and makes progress, and if it takes the
\* connection down it finishes the outgoing calls.
LEMMA StepLemma ==
    ASSUME IInv, [Next]_vars
    PROVE  /\ IInv'
           /\ Progress
           /\ socket_' = "closed" /\ socket_ # "closed" => outgoing_tasks \subseteq called'
  <1>1. CASE CallMethod
    BY <1>1, CallMethodStep DEF CallMethod, issue
  <1>2. ASSUME NEW t \in CallId, handle_resolve(t) \/ connect_next(t)
        PROVE  IInv' /\ Progress /\ (socket_' = "closed" => outgoing_tasks \subseteq called')
    BY <1>2, ReopenStep, ErrorStep DEF handle_resolve
  <1>3. ASSUME NEW t \in CallId, handle_connect(t)
        PROVE  IInv' /\ Progress /\ (socket_' = "closed" => outgoing_tasks \subseteq called')
    BY <1>3, ConnectOkStep, ConnectNoReadStep, ErrorStep DEF handle_connect
  <1>4. ASSUME NEW t \in CallId, handle_write(t)
        PROVE  IInv' /\ Progress /\ (socket_' # socket_ => outgoing_tasks \subseteq called')
    BY <1>4, WriteOkStep, ErrorStep DEF handle_write, handle_write_ok
  <1>5. ASSUME NEW t \in CallId, expire(t)
        PROVE  IInv' /\ Progress /\ socket_' = socket_
    BY <1>5, ExpireStep DEF expire
  <1>6. CASE handle_read \/ handle_read_torn_error
    BY <1>6, ReadHeaderOkStep, ReadErrorStep, ReadPayloadOkStep
       DEF handle_read, handle_read_header_ok, handle_read_payload_ok
  <1>8. CASE handle_queued_read
    BY <1>8, QueuedReadStep, ReadErrorStep DEF handle_queued_read
  <1>7. CASE UNCHANGED vars
    <2> USE <1>7 DEF vars, Issued
    <2>1. TypeOK' /\ Unissued' /\ SocketState'
      BY DEF IInv, TypeOK, Unissued, SocketState, Reads
    <2>2. NoLostCall'
      BY DEF IInv, NoLostCall, Connecting, Awaited, MixedUp
    <2>3. RunsOnce' /\ TimerGuard' /\ ConnectingFlag' /\ ResultIsVerdict' /\ Progress
      BY DEF IInv, RunsOnce, TimerGuard, ConnectingFlag, ResultIsVerdict, Progress
    <2> QED BY <2>1, <2>2, <2>3 DEF IInv
  <1> QED BY <1>1, <1>2, <1>3, <1>4, <1>5, <1>6, <1>7, <1>8, TimeoutStep DEF Next

\* The inductive invariant holds in every reachable state of the channel.
THEOREM Invariance == Spec => []IInv
  <1>1. IInv /\ [Next]_vars => IInv'
    BY StepLemma
  <1> QED BY InitLemma, <1>1, PTL DEF Spec

\* Type correctness of the channel's state.
THEOREM TypeCorrect == Spec => []TypeOK
  <1>1. IInv => TypeOK
    BY DEF IInv
  <1> QED BY Invariance, <1>1, PTL

\* The closure of a call is run at most once (the `called' flag of call_task).
THEOREM ClosuresRunOnce == Spec => []RunsOnce
  <1>1. IInv => RunsOnce
    BY DEF IInv
  <1> QED BY Invariance, <1>1, PTL

\* However connections are closed, reopened and torn down under it, an issued
\* call whose closure has not run is waited for by some outstanding handler, or is
\* outgoing on a connection to which a completion of an earlier socket was applied
\* (the next reads of handle_read_header and handle_read_payload), or will be.
THEOREM NoCallIsLost == Spec => []NoLostCall
  <1>1. IInv => NoLostCall
    BY DEF IInv
  <1> QED BY Invariance, <1>1, PTL

\* A call with a timeout has its timer armed, or its expiry queued, until its
\* closure runs.
THEOREM TimersGuardCalls == Spec => []TimerGuard
  <1>1. IInv => TimerGuard
    BY DEF IInv
  <1> QED BY Invariance, <1>1, PTL

\* The state of the socket, its operations, the outgoing calls and connecting_
\* agree, whichever calls and sockets the handlers that ran belonged to.
THEOREM ConnectionIsConsistent == Spec => []ConnectionState
  <1>1. IInv => ConnectionState
    BY DEF IInv, ConnectionState
  <1> QED BY Invariance, <1>1, PTL

\* A response never ends a call other than the one it answers.
THEOREM ResultsAreVerdicts == Spec => []ResultIsVerdict
  <1>1. IInv => ResultIsVerdict
    BY DEF IInv
  <1> QED BY Invariance, <1>1, PTL

\* destroy() runs the closure of every outgoing call of the connection it closes.
THEOREM TeardownIsComplete == Spec => TeardownCompletes
  <1>1. IInv /\ [Next]_vars
        => [socket_' = "closed" /\ socket_ # "closed" => outgoing_tasks \subseteq called']_vars
    BY StepLemma
  <1> QED BY Invariance, <1>1, PTL DEF Spec, TeardownCompletes

-----------------------------------------------------------------------------
(* The channel implements RpcCall.                                         *)

\* The abstract specification reads the codes as the channel does.
LEMMA SameCodes ==
    /\ Calls!CallId = CallId
    /\ Calls!LocalFailure = LocalFailure
    /\ Calls!Code = Code
    /\ \A t \in CallId : Calls!Results(t) = LocalFailure \cup {CodeOf(Verdict[t])}
  <1>1. Calls!CallId = CallId /\ Calls!Code = Code
    BY DEF Calls!CallId, CallId, Calls!Code, Code
  <1>2. Calls!LocalFailure = LocalFailure
    BY <1>1 DEF Calls!LocalFailure, LocalFailure
  <1>3. \A t \in CallId : Calls!CodeOf(Verdict[t]) = CodeOf(Verdict[t])
    BY DEF Calls!CodeOf, CodeOf
  <1> QED BY <1>1, <1>2, <1>3 DEF Calls!Results

\* A step that issues nothing finishes the calls that become called.
LEMMA FinishLemma ==
    ASSUME IInv, IInv', Progress, id_' = id_
    PROVE  \E S \in SUBSET CallId : Calls!Finish(S)
  <1> DEFINE S == called' \ called
  <1>0. /\ called' \subseteq Issued /\ code' \in [CallId -> Code]
        /\ Issued' = Issued
    BY DEF IInv, TypeOK, Unissued, Issued
  <1>1. \A t \in S : CallPhase[t] = "pending"
    BY <1>0 DEF CallPhase, IInv, TypeOK
  <1>2. CallPhase' = [t \in CallId |-> IF t \in S THEN "done" ELSE CallPhase[t]]
    BY <1>0 DEF CallPhase, Progress
  <1>3. \A t \in CallId : IF t \in S THEN code'[t] \in LocalFailure \cup {CodeOf(Verdict[t])}
                                     ELSE code'[t] = code[t]
    BY DEF Progress
  <1>4. S \in SUBSET CallId
    BY DEF IInv, TypeOK
  <1> HIDE DEF S
  <1>5. Calls!Finish(S)
    BY <1>0, <1>1, <1>2, <1>3, SameCodes DEF Calls!Finish
  <1> QED BY <1>4, <1>5

\* CallMethod issues the next call, or rejects it when it has no packet for it.
LEMMA IssueLemma ==
    ASSUME IInv, CallMethod
    PROVE  \E t \in CallId : Calls!Issue(t) \/ Calls!Reject(t)
  <1> DEFINE t == id_ + 1
  <1>0. /\ t \in CallId /\ id_' = t /\ Issued' = Issued \cup {t} /\ t \notin Issued
        /\ \A u \in CallId : u < t => u \in Issued
    BY ChannelAssumption DEF IInv, TypeOK, CallId, CallMethod, issue, Issued
  <1>1. t \notin called /\ code \in [CallId -> Code]
    BY <1>0 DEF IInv, Unissued, TypeOK
  <1> HIDE DEF t
  <1>2. Calls!IsNext(t)
    BY <1>0, SameCodes DEF Calls!IsNext, CallPhase
  <1>3. CASE UNCHANGED <<called, code>>
    <2>1. CallPhase' = [CallPhase EXCEPT ![t] = "pending"]
      BY <1>0, <1>1, <1>3 DEF CallPhase
    <2> QED BY <1>0, <1>2, <1>3, <2>1 DEF Calls!Issue
  <1>4. ASSUME NEW e \in PacketErrors, RunDone({t}, e, {})
        PROVE  Calls!Reject(t)
    <2>1. /\ e \in LocalFailure
          /\ called' = called \cup {t}
          /\ code' = [code EXCEPT ![t] = e]
      BY <1>0, <1>1, <1>4 DEF PacketErrors, LocalFailure, Code, RunDone
    <2>2. CallPhase' = [CallPhase EXCEPT ![t] = "done"]
      BY <1>0, <2>1 DEF CallPhase
    <2> QED BY <1>2, <2>1, <2>2, SameCodes DEF Calls!Reject
  <1> QED BY <1>0, <1>3, <1>4 DEF CallMethod, issue, start_call, t

\* The asynchronous channel keeps the promises of RpcCall: ids in order, each
\* call finished at most once, results final and the server's own or a failure.
THEOREM ChannelImplementsCalls == Spec => CallsSpec
  <1>1. Init => Calls!Init
    BY SameCodes DEF Init, Calls!Init, CallPhase, Issued
  <1>2. ASSUME IInv, IInv', [Next]_vars
        PROVE  [Calls!Next]_Calls!vars
    <2>1. Progress
      BY <1>2, StepLemma
    <2>2. CASE CallMethod
      BY <1>2, <2>2, IssueLemma, SameCodes DEF Calls!Next
    <2>3. CASE id_' = id_
      BY <1>2, <2>1, <2>3, FinishLemma, SameCodes DEF Calls!Next
    <2>4. CallMethod \/ id_' = id_
      BY <1>2 DEF Next, vars, handle_resolve, handle_resolve_ok, handle_resolve_error,
                  connect_next, async_connect, handle_connect, handle_connect_ok,
                  handle_connect_no_read, handle_connect_error, handle_write,
                  handle_write_ok, handle_write_error, handle_read, handle_read_header_ok,
                  handle_read_header_error, handle_read_payload_error,
                  handle_read_payload_ok, handle_read_torn_error, handle_queued_read,
                  handle_read_failed, handle_read_partial, handle_read_partial_error,
                  handle_read_whole, handle_read_whole_error, expire, handle_timeout
    <2> QED BY <2>2, <2>3, <2>4
  <1> QED BY <1>1, <1>2, Invariance, PTL DEF Spec, CallsSpec, Calls!Spec

=============================================================================
