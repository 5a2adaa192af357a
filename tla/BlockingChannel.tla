--------------------------- MODULE BlockingChannel ---------------------------
(***************************************************************************)
(* CarrotBlockingChannel: the constructor tries the addresses of a host,   *)
(* and CallMethod writes a request and reads the response, one call after  *)
(* the other, on one socket.  The caller may use one CarrotController for  *)
(* all its calls, and may or may not reset it in between.                  *)
(*                                                                         *)
(* The peer is external.  A "carrot" peer is one of the servers of this    *)
(* repository, which close the connection when the Request does not parse; *)
(* a "lenient" one answers whatever comes, with any of Responses.  A       *)
(* response is two units in the stream: its header, and its body, which is *)
(* the wire of a Response and a parameter.                                 *)
(*                                                                         *)
(* A response that the channel has no memory for stays in the stream, and  *)
(* the next call takes its bytes for a header.  What it makes of them      *)
(* depends on them: from there on the outcome is left open.                *)
(***************************************************************************)
EXTENDS RpcMessages

CONSTANTS MaxCalls,      \* bound on the calls
          MaxAddresses,  \* how many addresses the host name has
          Peers,         \* the peers there may be
          Responses,     \* what a lenient peer may answer
          Faults         \* what may go wrong, a subset of FaultKinds

CallId == 1..MaxCalls

\* "resolve", "connect": of the constructor; "oom", "serialize": malloc, realloc
\* or SerializeToArray fails; "close": the peer closes the connection;
\* "interrupt": a signal interrupts a system call; "sigpipe": SIGPIPE is not
\* ignored, so that writing to a closed connection may end the process.
FaultKinds == {"resolve", "connect", "oom", "serialize", "close", "interrupt", "sigpipe"}

\* fits: the response is no longer than its request was; good: its parameter
\* can be parsed.
ASSUME BlockingAssumption ==
    /\ MaxCalls \in Nat
    /\ MaxAddresses \in Nat \ {0}
    /\ Peers \subseteq {"carrot", "lenient"}
    /\ Responses \subseteq [wire : Seq(Element), good : BOOLEAN, fits : BOOLEAN]
    /\ Faults \subseteq FaultKinds

VARIABLES
    alive,      \* the process runs
    phase,      \* of the channel: "connecting", "up", "failed", "deleted"
    address,    \* addresses connect_to has tried in vain
    open,       \* descriptors it has open
    peer,       \* the peer
    conn,       \* "none", "up", "closed" (by the peer)
    pc,         \* where CallMethod is: "idle" when it is not running
    current,    \* number of the call in progress, or of the last one
    arriving,   \* requests on their way to the peer
    incoming,   \* units that have come back and have not been read
    astray,     \* a body was left in the stream
    errno,      \* EINTR, or anything else
    ctl,        \* failed_ and code_ of the controller
    result,     \* what the controller said when the closure of each call ran
    got,        \* the call whose response was parsed for each call, 0 for none
    answers,    \* what the peer answered to each call
    called      \* calls whose method the peer has called

netVars == <<peer, conn, arriving, incoming, answers, called>>
constructVars == <<phase, address, open>>
vars == <<alive, constructVars, netVars, pc, current, astray, errno, ctl, result, got>>

TypeOK ==
    /\ alive \in BOOLEAN
    /\ phase \in {"connecting", "up", "failed", "deleted"}
    /\ address \in 0..MaxAddresses
    /\ open \in Nat
    /\ peer \in Peers
    /\ conn \in {"none", "up", "closed"}
    /\ pc \in {"idle", "write", "header", "payload", "garbage"}
    /\ current \in 0..MaxCalls
    /\ arriving \in Seq(CallId)
    /\ incoming \in Seq({"header", "body"} \X CallId)
    /\ astray \in BOOLEAN
    /\ errno \in {"EINTR", "other"}
    /\ ctl \in [failed : BOOLEAN, code : Code]
    /\ result \in [CallId -> Code \cup {"none"}]
    /\ got \in [CallId -> 0..MaxCalls]
    /\ DOMAIN answers \subseteq CallId /\ Range(answers) \subseteq Responses
    /\ called \in SUBSET CallId

\* CarrotController's constructor and Reset.
Reset == [failed |-> FALSE, code |-> "EC_SUCCESS"]

SetFailed(code) == [failed |-> TRUE, code |-> code]

Init ==
    /\ alive = TRUE
    /\ phase = "connecting"
    /\ address = 0
    /\ open = 0
    /\ peer \in Peers
    /\ conn = "none"
    /\ pc = "idle"
    /\ current = 0
    /\ arriving = <<>>
    /\ incoming = <<>>
    /\ astray = FALSE
    /\ errno = "other"
    /\ ctl = Reset
    /\ result = [c \in CallId |-> "none"]
    /\ got = [c \in CallId |-> 0]
    /\ answers = <<>>
    /\ called = {}

-----------------------------------------------------------------------------
(* The constructor, that is connect_to, and the destructor.                *)

connect_to_unresolved ==
    /\ phase = "connecting" /\ address = 0
    /\ "resolve" \in Faults
    /\ phase' = "failed"
    /\ UNCHANGED <<alive, address, open, netVars, pc, current, astray, errno, ctl, result, got>>

\* Mutant: the socket that could not be connected is left open.
connect_to_next_leaks ==
    /\ phase = "connecting"
    /\ "connect" \in Faults
    /\ address' = address + 1
    /\ open' = open + 1
    /\ phase' = IF address' = MaxAddresses THEN "failed" ELSE phase
    /\ UNCHANGED <<alive, netVars, pc, current, astray, errno, ctl, result, got>>

\* There is no socket for this address, or it cannot be connected and is closed:
\* try the next one; after the last the constructor throws.
connect_to_next ==
    /\ phase = "connecting"
    /\ "connect" \in Faults
    /\ address' = address + 1
    /\ phase' = IF address' = MaxAddresses THEN "failed" ELSE phase
    /\ UNCHANGED <<alive, open, netVars, pc, current, astray, errno, ctl, result, got>>

connect_to_ok ==
    /\ phase = "connecting"
    /\ phase' = "up"
    /\ open' = open + 1
    /\ conn' = "up"
    /\ UNCHANGED <<alive, address, peer, arriving, incoming, answers, called, pc, current,
                   astray, errno, ctl, result, got>>

delete_channel ==
    /\ alive /\ phase = "up" /\ pc = "idle"
    /\ phase' = "deleted"
    /\ open' = open - 1
    /\ UNCHANGED <<alive, address, netVars, pc, current, astray, errno, ctl, result, got>>

-----------------------------------------------------------------------------
(* The peer (external).                                                    *)

\* The metadata of every request: id is not set.
RequestWire == Request_Serialize(SetField(Request_SharedCtor, "method_identity", "m"))

Rejected == peer = "carrot" /\ ~Request_ParseFromArray(Request_SharedCtor, RequestWire).ok

\* The method of request c is called and answered; the connection may end
\* between header and body.
peer_answer(r) ==
    /\ conn = "up" /\ arriving # <<>> /\ ~Rejected
    /\ LET c == Head(arriving) IN
       /\ answers' = [d \in DOMAIN answers \cup {c} |-> IF d = c THEN r ELSE answers[d]]
       /\ called' = called \cup {c}
       /\ \/ incoming' = incoming \o << <<"header", c>>, <<"body", c>> >> /\ UNCHANGED conn
          \/ /\ "close" \in Faults
             /\ incoming' = Append(incoming, <<"header", c>>)
             /\ conn' = "closed"
    /\ arriving' = Tail(arriving)
    /\ UNCHANGED <<alive, constructVars, peer, pc, current, astray, errno, ctl, result, got>>

\* The peer closes the connection, because it cannot parse a request or for
\* reasons of its own.
peer_close ==
    /\ conn = "up"
    /\ "close" \in Faults \/ (arriving # <<>> /\ Rejected)
    /\ conn' = "closed"
    /\ arriving' = <<>>
    /\ UNCHANGED <<alive, constructVars, peer, incoming, answers, called, pc, current, astray,
                   errno, ctl, result, got>>

-----------------------------------------------------------------------------
(* CallMethod.                                                             *)

\* run_callback: the closure is run with what is in the controller.
Finish(controller) ==
    /\ ctl' = controller
    /\ result' = [result EXCEPT ![current'] = controller.code]
    /\ pc' = "idle"

\* A next call, with the controller as it is or reset.
Enter ==
    /\ alive /\ phase = "up" /\ pc = "idle" /\ current < MaxCalls
    /\ current' = current + 1

CallMethod ==
    /\ Enter
    /\ pc' = "write"
    /\ ctl' \in {ctl, Reset}
    /\ UNCHANGED <<alive, constructVars, netVars, astray, errno, result, got>>

\* malloc or SerializeToArray fails: nothing is sent.
CallMethod_error ==
    /\ Enter
    /\ \/ "oom" \in Faults /\ Finish(SetFailed("EC_OOM"))
       \/ "serialize" \in Faults /\ Finish(SetFailed("EC_SERIALIZATION_ERROR"))
    /\ errno' \in {errno, "other"}
    /\ UNCHANGED <<alive, constructVars, netVars, astray, got>>

In(label) == alive /\ pc = label /\ UNCHANGED current

\* Mutant: an interrupted call is an error.
interrupted_fails ==
    /\ alive /\ pc # "idle" /\ UNCHANGED current
    /\ "interrupt" \in Faults
    /\ errno' = "EINTR"
    /\ Finish(SetFailed("EC_TRANSPORT_ERROR"))
    /\ UNCHANGED <<alive, constructVars, netVars, astray, got>>

\* A signal: write_n and read_n try again.
interrupted ==
    /\ alive /\ pc # "idle"
    /\ "interrupt" \in Faults
    /\ errno' = "EINTR"
    /\ UNCHANGED <<alive, constructVars, netVars, pc, current, astray, ctl, result, got>>

\* What is written after the peer has closed may still be taken by the kernel.
write_n_ok ==
    /\ In("write")
    /\ pc' = "header"
    /\ arriving' = IF conn = "up" THEN Append(arriving, current) ELSE arriving
    /\ UNCHANGED <<alive, constructVars, peer, conn, incoming, answers, called, astray, errno,
                   ctl, result, got>>

write_n_error ==
    /\ In("write")
    /\ conn = "closed"
    /\ Finish(SetFailed("EC_TRANSPORT_ERROR"))
    /\ errno' = "other"
    /\ UNCHANGED <<alive, constructVars, netVars, astray, got>>

write_n_sigpipe ==
    /\ In("write")
    /\ conn = "closed" /\ "sigpipe" \in Faults
    /\ alive' = FALSE
    /\ UNCHANGED <<constructVars, netVars, pc, astray, errno, ctl, result, got>>

\* Mutant: read_n only stops at a negative result.
read_n_eof_loops ==
    /\ alive /\ pc \in {"header", "payload", "garbage"}
    /\ conn = "closed" /\ incoming = <<>>
    /\ UNCHANGED vars

\* End of file: read returns 0 and does not set errno.  If errno is EINTR from
\* a call that was interrupted before, read_n goes on reading for ever.
read_n_eof ==
    /\ alive /\ pc \in {"header", "payload", "garbage"} /\ UNCHANGED current
    /\ conn = "closed" /\ incoming = <<>>
    /\ errno # "EINTR"
    /\ Finish(SetFailed("EC_TRANSPORT_ERROR"))
    /\ UNCHANGED <<alive, constructVars, netVars, astray, errno, got>>

\* The connection is reset, and what had not been read is lost.
read_n_error ==
    /\ alive /\ pc \in {"header", "payload", "garbage"} /\ UNCHANGED current
    /\ conn = "closed"
    /\ incoming' = <<>>
    /\ Finish(SetFailed("EC_TRANSPORT_ERROR"))
    /\ errno' = "other"
    /\ UNCHANGED <<alive, constructVars, peer, conn, arriving, answers, called, astray, got>>

\* The unit that is read next.
NextUnit == Head(incoming)

\* The header is read and there is room for the response, or realloc makes room.
read_header ==
    /\ In("header")
    /\ ~astray /\ incoming # <<>>
    /\ incoming' = Tail(incoming)
    /\ pc' = "payload"
    /\ UNCHANGED <<alive, constructVars, peer, conn, arriving, answers, called, astray, errno,
                   ctl, result, got>>

\* realloc fails: the body stays in the stream.
read_header_oom ==
    /\ In("header")
    /\ ~astray /\ incoming # <<>>
    /\ "oom" \in Faults /\ ~answers[NextUnit[2]].fits
    /\ incoming' = Tail(incoming)
    /\ astray' = TRUE
    /\ Finish(SetFailed("EC_OOM"))
    /\ errno' = "other"
    /\ UNCHANGED <<alive, constructVars, peer, conn, arriving, answers, called, got>>

\* Bytes of a body are taken for a header.  The lengths may be too much for
\* realloc, or more than will ever come, or just what is there: then something
\* is parsed, or not.
read_garbage ==
    /\ In("header")
    /\ astray /\ incoming # <<>>
    /\ \/ /\ incoming' = <<>>
          /\ pc' = "garbage"
          /\ UNCHANGED <<errno, ctl, result, got>>
       \/ /\ \E k \in 1..Len(incoming) : incoming' = SubSeq(incoming, k + 1, Len(incoming))
          /\ \/ Finish(SetFailed("EC_OOM")) /\ errno' = "other" /\ UNCHANGED got
             \/ Finish(SetFailed("EC_SERIALIZATION_ERROR")) /\ UNCHANGED <<errno, got>>
             \/ /\ \E c \in DOMAIN answers : got' = [got EXCEPT ![current] = c]
                /\ Finish(ctl)
                /\ UNCHANGED errno
    /\ UNCHANGED <<alive, constructVars, peer, conn, arriving, answers, called, astray>>

\* Mutant: metadata that does not parse is not an error; its status is used.
Verdict_lax(r) ==
    LET parsed == Response_ParseFromArray(Response_SharedCtor, r.wire) IN
    IF ~r.good THEN SetFailed("EC_SERIALIZATION_ERROR")
    ELSE IF parsed.msg.val.status = "SUCCESS" THEN ctl
    ELSE SetFailed(CodeOf(parsed.msg.val.status))

\* Mutant: the status is stored as the code.
Verdict_raw(r) ==
    LET parsed == Response_ParseFromArray(Response_SharedCtor, r.wire) IN
    IF ~parsed.ok \/ ~r.good THEN SetFailed("EC_SERIALIZATION_ERROR")
    ELSE IF parsed.msg.val.status = "SUCCESS" THEN ctl
    ELSE SetFailed(parsed.msg.val.status)

\* What the switch over status() and the parse of the parameter leave in the
\* controller: an unparsable parameter overrides the status.
Verdict(r) ==
    LET parsed == Response_ParseFromArray(Response_SharedCtor, r.wire) IN
    IF ~parsed.ok \/ ~r.good THEN SetFailed("EC_SERIALIZATION_ERROR")
    ELSE IF parsed.msg.val.status = "SUCCESS" THEN ctl
    ELSE SetFailed(CodeOf(parsed.msg.val.status))

\* The body is read and parsed.
read_payload ==
    /\ In("payload")
    /\ incoming # <<>>
    /\ incoming' = Tail(incoming)
    /\ got' = [got EXCEPT ![current] = NextUnit[2]]
    /\ Finish(Verdict(answers[NextUnit[2]]))
    /\ UNCHANGED <<alive, constructVars, peer, conn, arriving, answers, called, astray, errno>>

-----------------------------------------------------------------------------

Work ==
    \/ write_n_ok \/ write_n_error \/ write_n_sigpipe
    \/ read_n_eof \/ read_n_error
    \/ read_header \/ read_header_oom \/ read_garbage \/ read_payload

Next ==
    \/ connect_to_unresolved \/ connect_to_next \/ connect_to_ok \/ delete_channel
    \/ CallMethod \/ CallMethod_error \/ interrupted \/ Work
    \/ peer_close \/ \E r \in Responses : peer_answer(r)

\* System calls that can return do; a peer that has a request answers it or
\* closes the connection.
Fairness ==
    /\ WF_vars(write_n_ok \/ read_n_eof \/ read_header \/ read_garbage \/ read_payload)
    /\ WF_vars(peer_close \/ \E r \in Responses : peer_answer(r))

Spec == Init /\ [][Next]_vars /\ Fairness

-----------------------------------------------------------------------------
(* Properties.                                                             *)

\* The stream is one response behind for good once a body was left in it.  As
\* long as none was, a call gets the response to its own request or none, even
\* though earlier calls may have failed anywhere before and after sending.
OwnResponse == ~astray => \A c \in CallId : got[c] \in {0, c}

\* A call has not failed in the eyes of its caller only if the response to it
\* says so: it carries an id, its last valid status is SUCCESS, nothing in it
\* is cut off, and its parameter could be parsed.
SuccessIsEarned ==
    ~astray => \A c \in CallId : result[c] = "EC_SUCCESS" =>
        LET r == answers[c]
            last == {i \in DOMAIN r.wire : r.wire[i][1] = "status" /\ r.wire[i][2] \in Status}
        IN  /\ c \in DOMAIN answers /\ r.good
            /\ \E i \in DOMAIN r.wire : r.wire[i][1] = "id"
            /\ \A i \in DOMAIN r.wire : r.wire[i][1] \notin {"cut", "end"}
            /\ last # {} /\ r.wire[CHOOSE i \in last : \A j \in last : j <= i][2] = "SUCCESS"

\* Whichever addresses were tried, one socket is open while the channel exists
\* and none after a failed construction or the destructor.
NoSocketLeaked == open = IF phase = "up" THEN 1 ELSE 0

\* Every call returns if the peer answers or closes the connection, except: one
\* whose header is astray may wait for bytes nobody will send, and read_n never
\* returns from an end of file that finds EINTR in errno.
CallsReturn ==
    pc # "idle" ~> \/ pc = "idle" \/ ~alive
                   \/ astray
                   \/ errno = "EINTR" /\ conn = "closed"

\* `Call the method described by @method on the server side with @request'
\* (carrot_blocking_channel.h:31): with a server of this repository, and nothing
\* going wrong, a call that has returned has called its method.  It does not hold.
MethodsCalled == \A c \in CallId : result[c] # "none" => c \in called

-----------------------------------------------------------------------------
(* The inductive invariant.                                                *)

\* A channel exists between connect_to and its destructor, and is called only
\* while it does.
LifeOK ==
    /\ phase = "connecting" => address < MaxAddresses
    /\ phase = "up" => conn # "none"
    /\ pc # "idle" => phase = "up" /\ current \in CallId

\* Between two calls the stream is empty, and during one it holds what is left
\* of the exchange: the request, then the response or as much of it as came
\* before the connection closed.
Exchange ==
    LET header == <<"header", current>>
        body   == <<"body", current>>
    IN  /\ pc # "garbage"
        /\ pc \in {"idle", "write"} => arriving = <<>> /\ incoming = <<>>
        /\ pc = "header" =>
              \/ conn = "up" /\ arriving = <<current>> /\ incoming = <<>>
              \/ arriving = <<>> /\ current \in DOMAIN answers /\ incoming = <<header, body>>
              \/ /\ arriving = <<>> /\ conn = "closed"
                 /\ \/ current \in DOMAIN answers /\ incoming = <<header>>
                    \/ incoming = <<>>
        /\ pc = "payload" =>
              /\ arriving = <<>>
              /\ \/ current \in DOMAIN answers /\ incoming = <<body>>
                 \/ conn = "closed" /\ incoming = <<>>

\* The outcome of a call is not known before it has returned.
Unknown ==
    \A c \in CallId : c > current \/ (c = current /\ pc # "idle") => result[c] = "none"

IInv ==
    /\ TypeOK
    /\ LifeOK
    /\ astray \/ Exchange
    /\ pc = "payload" => ~astray
    /\ Unknown
    /\ NoSocketLeaked
    /\ OwnResponse
    /\ SuccessIsEarned

=============================================================================
