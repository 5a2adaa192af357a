------------------------------- MODULE RpcCall -------------------------------
(***************************************************************************)
(* What an asynchronous channel promises to its callers, whatever happens  *)
(* to the sockets, the resolver and the timers: calls are numbered in the  *)
(* order in which they are issued, every issued call is finished at most   *)
(* once, its result never changes afterwards, and the result is either the *)
(* server's verdict on exactly this call or the report of a local failure. *)
(***************************************************************************)
EXTENDS Naturals, RpcCodes

CONSTANTS MaxCalls,   \* calls issued over the life of the channel
          Verdict     \* the status the server computes for each call

VARIABLES phase,      \* [CallId -> {"idle", "pending", "done"}]
          result      \* [CallId -> Code], what the caller finds in its controller

vars == <<phase, result>>

CallId == 1..MaxCalls

\* What the controller may hold once the closure of call t has run.
Results(t) == LocalFailure \cup {CodeOf(Verdict[t])}

Init == /\ phase  = [t \in CallId |-> "idle"]
        /\ result = [t \in CallId |-> "EC_SUCCESS"]

\* Calls are issued in the order of their ids.
IsNext(t) == /\ phase[t] = "idle"
             /\ \A u \in CallId : u < t => phase[u] # "idle"

Issue(t) == /\ IsNext(t)
            /\ phase' = [phase EXCEPT ![t] = "pending"]
            /\ UNCHANGED result

\* The call fails before CallMethod returns: its closure runs inside CallMethod.
Reject(t) == /\ IsNext(t)
             /\ phase' = [phase EXCEPT ![t] = "done"]
             /\ \E e \in LocalFailure : result' = [result EXCEPT ![t] = e]

\* The closures of the calls of S run; tearing a connection down finishes many.
Finish(S) == /\ \A t \in S : phase[t] = "pending"
             /\ phase' = [t \in CallId |-> IF t \in S THEN "done" ELSE phase[t]]
             /\ result' \in [CallId -> Code]
             /\ \A t \in CallId : IF t \in S THEN result'[t] \in Results(t)
                                             ELSE result'[t] = result[t]

Next == \/ \E t \in CallId : Issue(t) \/ Reject(t)
        \/ \E S \in SUBSET CallId : Finish(S)

Spec == Init /\ [][Next]_vars

=============================================================================
