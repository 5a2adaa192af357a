------------------------- MODULE BlockingChannelProofs -------------------------
(***************************************************************************)
(* The blocking channel for any number of calls and addresses, any answers *)
(* and any faults: its socket, which response each call gets, and what a   *)
(* response must hold for its call to succeed.                             *)
(***************************************************************************)
EXTENDS BlockingChannel, RpcMessagesProofs

-----------------------------------------------------------------------------
(* What a Response that was parsed says of its wire.                       *)

IsStatus(e) == e[1] = "status" /\ e[2] \in Status

\* One element, as far as it matters to required fields.
LEMMA ReadResponse ==
    ASSUME NEW s \in State("Response"), NEW e \in Element, NEW t,
           t = Read("Response", s, e), t.at = "on"
    PROVE  /\ s.at = "on" /\ e[1] \notin {"cut", "end"}
           /\ "id" \in t.msg.has => "id" \in s.msg.has \/ e[1] = "id"
           /\ IsStatus(e) => t.msg.val["status"] = e[2]
           /\ "status" \in t.msg.has /\ ~IsStatus(e) =>
                 "status" \in s.msg.has /\ t.msg.val["status"] = s.msg.val["status"]
  <1> DEFINE m == s.msg
             n == [m EXCEPT !.unknown = Append(@, e)]
  <1>1. m \in Message(ResponseFields) /\ t = Response_Read(s, e)
    BY DEF State, WellFormed, FieldsOf, Read
  <1>2. s.at = "on"
    BY <1>1 DEF Response_Read
  <1>3. n.has = m.has /\ n.val = m.val
    BY <1>1 DEF Message
  <1>4. CASE e[1] \notin ResponseFields
    <2>1. t = Irregular(s, e)
      BY <1>1, <1>2, <1>4 DEF Response_Read, ResponseFields
    <2>2. e[1] \notin {"cut", "end"}
      BY <2>1 DEF Irregular, State
    <2>3. t.msg = n
      BY <2>1, <2>2 DEF Irregular, AddUnknown, State
    <2> HIDE DEF n
    <2> QED BY <1>2, <1>3, <1>4, <2>2, <2>3 DEF IsStatus, ResponseFields
  <1>5. CASE e[1] = "status" /\ ~Status_IsValid(e[2])
    <2>1. t = AddUnknown(s, e)
      BY <1>1, <1>2, <1>5 DEF Response_Read
    <2>2. t.msg = n
      BY <2>1 DEF AddUnknown, State
    <2> HIDE DEF n
    <2> QED BY <1>2, <1>3, <1>5, <2>2 DEF IsStatus, Status_IsValid
  <1>6. CASE e[1] \in ResponseFields /\ ~(e[1] = "status" /\ ~Status_IsValid(e[2]))
    <2> DEFINE f == e[1]
               v == e[2]
               x == SetField(m, f, v)
    <2>1. t = [s EXCEPT !.msg = x]
      BY <1>1, <1>2, <1>6 DEF Response_Read
    <2>2. t.msg = x
      BY <2>1 DEF State
    <2>3. f \in ResponseFields /\ f \notin {"cut", "end"} /\ v \in Value
      BY <1>6, ElementParts DEF ResponseFields
    <2>4. IsStatus(e) <=> f = "status"
      BY <1>6 DEF IsStatus, Status_IsValid
    <2>5. v = e[2]
      OBVIOUS
    <2> HIDE DEF f, v, n
    <2>6. x.has = m.has \cup {f} /\ \A g \in ResponseFields : x.val[g] = IF g = f THEN v ELSE m.val[g]
      BY <1>1, <2>3, SetFieldParts
    <2>7. "status" \in ResponseFields
      BY DEF ResponseFields
    <2> HIDE DEF x, m
    <2> QED BY <1>2, <2>2, <2>3, <2>4, <2>5, <2>6, <2>7 DEF f, m
  <1> QED BY <1>4, <1>5, <1>6

\* The states that a loop may be in after j elements of w: if it goes on, none of
\* them was a cut or an end, and the fields that are set come from them, the
\* status from the last element that is one.
Progress(w, j) ==
    {s \in State("Response") :
        s.at = "on" =>
            /\ \A i \in 1..j : w[i][1] \notin {"cut", "end"}
            /\ "id" \in s.msg.has => \E i \in 1..j : w[i][1] = "id"
            /\ "status" \in s.msg.has =>
                  \E i \in 1..j : /\ IsStatus(w[i]) /\ w[i][2] = s.msg.val["status"]
                                  /\ \A k \in 1..j : IsStatus(w[k]) => k <= i}

LEMMA ProgressStep ==
    ASSUME NEW w \in Seq(Element), NEW j \in 1..Len(w), NEW s \in Progress(w, j - 1)
    PROVE  Read("Response", s, w[j]) \in Progress(w, j)
  <1> DEFINE e == w[j]
             t == Read("Response", s, e)
             n == Len(w)
  <1>0. n \in Nat /\ j \in 1..n
    OBVIOUS
  <1>1. e \in Element /\ s \in State("Response")
    BY DEF Progress
  <1>2. t \in State("Response")
    BY <1>1, ReadLemma DEF Classes
  <1> HIDE DEF t, n
  <1>3. SUFFICES ASSUME t.at = "on"
                 PROVE  /\ \A i \in 1..j : w[i][1] \notin {"cut", "end"}
                        /\ "id" \in t.msg.has => \E i \in 1..j : w[i][1] = "id"
                        /\ "status" \in t.msg.has =>
                              \E i \in 1..j : /\ IsStatus(w[i]) /\ w[i][2] = t.msg.val["status"]
                                              /\ \A k \in 1..j : IsStatus(w[k]) => k <= i
    BY <1>2 DEF Progress, t
  <1>4. /\ s.at = "on" /\ e[1] \notin {"cut", "end"}
        /\ "id" \in t.msg.has => "id" \in s.msg.has \/ e[1] = "id"
        /\ IsStatus(e) => t.msg.val["status"] = e[2]
        /\ "status" \in t.msg.has /\ ~IsStatus(e) =>
              "status" \in s.msg.has /\ t.msg.val["status"] = s.msg.val["status"]
    BY <1>1, <1>3, ReadResponse DEF t
  <1>5. /\ \A i \in 1..(j - 1) : w[i][1] \notin {"cut", "end"}
        /\ "id" \in s.msg.has => \E i \in 1..(j - 1) : w[i][1] = "id"
        /\ "status" \in s.msg.has =>
              \E i \in 1..(j - 1) : /\ IsStatus(w[i]) /\ w[i][2] = s.msg.val["status"]
                                    /\ \A k \in 1..(j - 1) : IsStatus(w[k]) => k <= i
    BY <1>4 DEF Progress
  <1>6. /\ j \in 1..j /\ \A i \in 1..j : i = j \/ i \in 1..(j - 1)
        /\ \A i \in 1..(j - 1) : i \in 1..j
        /\ \A i \in 1..j : i <= j
    BY <1>0
  <1>7. \A i \in 1..j : w[i][1] \notin {"cut", "end"}
    BY <1>4, <1>5, <1>6
  <1>8. "id" \in t.msg.has => \E i \in 1..j : w[i][1] = "id"
    BY <1>4, <1>5, <1>6
  <1>9. ASSUME "status" \in t.msg.has
        PROVE  \E i \in 1..j : /\ IsStatus(w[i]) /\ w[i][2] = t.msg.val["status"]
                               /\ \A k \in 1..j : IsStatus(w[k]) => k <= i
    <2>1. CASE IsStatus(e)
      BY <1>4, <1>6, <2>1
    <2>2. CASE ~IsStatus(e)
      <3>1. PICK i \in 1..(j - 1) : /\ IsStatus(w[i]) /\ w[i][2] = s.msg.val["status"]
                                    /\ \A k \in 1..(j - 1) : IsStatus(w[k]) => k <= i
        BY <1>4, <1>5, <1>9, <2>2
      <3>2. i \in 1..j /\ w[i][2] = t.msg.val["status"]
        BY <1>4, <1>6, <1>9, <2>2, <3>1
      <3>3. \A k \in 1..j : IsStatus(w[k]) => k <= i
        BY <1>6, <2>2, <3>1
      <3> QED BY <3>1, <3>2, <3>3
    <2> QED BY <2>1, <2>2
  <1> QED BY <1>7, <1>8, <1>9

\* The wire of a response that lets its call succeed.
Earned(w) ==
    LET last == {i \in DOMAIN w : w[i][1] = "status" /\ w[i][2] \in Status}
    IN  /\ \E i \in DOMAIN w : w[i][1] = "id"
        /\ \A i \in DOMAIN w : w[i][1] \notin {"cut", "end"}
        /\ last # {} /\ w[CHOOSE i \in last : \A j \in last : j <= i][2] = "SUCCESS"

LEMMA ParsedResponse ==
    ASSUME NEW w \in Seq(Element)
    PROVE  LET parsed == Response_ParseFromArray(Response_SharedCtor, w)
           IN  /\ parsed.ok \in BOOLEAN
               /\ parsed.msg.val.status \in Status
               /\ parsed.ok /\ parsed.msg.val.status = "SUCCESS" => Earned(w)
  <1> DEFINE parsed == Response_ParseFromArray(Response_SharedCtor, w)
             s0 == [msg |-> New(ResponseFields), at |-> "on"]
             end == Merge("Response", s0, w)
             n == Len(w)
             S == [j \in 0..n |-> Progress(w, j)]
  <1>1. "Response" \in Classes /\ FieldsOf["Response"] = ResponseFields
    BY DEF Classes, FieldsOf
  <1>2. New(ResponseFields) \in WellFormed("Response")
    BY <1>1, NewWellFormed
  <1>3. Response_Clear(Response_SharedCtor) = New(ResponseFields)
    BY DEF Response_Clear, Response_SharedCtor, New
  <1>4. parsed = [ok |-> end.at = "on" /\ IsInitialized(end.msg, "Response"), msg |-> end.msg]
    BY <1>3 DEF Response_ParseFromArray, Merge
  <1>5. n \in Nat /\ DOMAIN w = 1..n
    OBVIOUS
  <1>6. end \in Progress(w, n)
    <2>1. s0 \in Progress(w, 0)
      <3>1. New(ResponseFields).has = {} /\ s0 \in State("Response")
        BY <1>2 DEF New, State
      <3>2. \A i \in 1..0 : FALSE
        OBVIOUS
      <3> QED BY <3>1, <3>2 DEF Progress
    <2> HIDE DEF s0
    <2>2. \A j \in 0..n : S[j] = Progress(w, j)
      OBVIOUS
    <2> HIDE DEF S
    <2>3. s0 \in S[0] /\ S[Len(w)] = Progress(w, n)
      BY <1>5, <2>1, <2>2
    <2>4. \A j \in 1..Len(w) : \A s \in S[j - 1] : Read("Response", s, w[j]) \in S[j]
      <3>1. \A j \in 1..n : j - 1 \in 0..n /\ j \in 0..n
        BY <1>5
      <3> QED BY <2>2, <3>1, ProgressStep
    <2>5. end \in S[Len(w)]
      BY <1>1, <2>3, <2>4, MergeInvariant
    <2> QED BY <2>3, <2>5
  <1> HIDE DEF end, n, S
  <1>7. end \in State("Response")
    BY <1>6 DEF Progress
  <1>8. parsed.msg = end.msg /\ parsed.ok = (end.at = "on" /\ IsInitialized(end.msg, "Response"))
    BY <1>4
  <1> HIDE DEF parsed
  <1>9. parsed.ok \in BOOLEAN
    BY <1>8, Zenon
  <1>10. parsed.msg.val.status \in Status
    BY <1>7, <1>8 DEF State, WellFormed
  <1>11. ASSUME parsed.ok, parsed.msg.val.status = "SUCCESS"
         PROVE  Earned(w)
    <2> DEFINE last == {i \in DOMAIN w : w[i][1] = "status" /\ w[i][2] \in Status}
               top == CHOOSE i \in last : \A j \in last : j <= i
    <2>1. end.at = "on" /\ "id" \in end.msg.has /\ "status" \in end.msg.has
      BY <1>8, <1>11 DEF IsInitialized, Required
    <2>2. /\ \A i \in 1..n : w[i][1] \notin {"cut", "end"}
          /\ \E i \in 1..n : w[i][1] = "id"
      BY <1>6, <2>1 DEF Progress
    <2>3. PICK i \in 1..n : /\ IsStatus(w[i]) /\ w[i][2] = end.msg.val["status"]
                            /\ \A k \in 1..n : IsStatus(w[k]) => k <= i
      BY <1>6, <2>1 DEF Progress
    <2>4. i \in last /\ \A j \in last : j <= i
      BY <1>5, <2>3 DEF IsStatus
    <2>5. last \subseteq Nat
      BY <1>5
    <2> HIDE DEF last
    <2>6. top \in last /\ \A j \in last : j <= top
      BY <2>4, Zenon
    <2> HIDE DEF top
    <2>7. top = i
      BY <2>4, <2>5, <2>6
    <2>8. w[top][2] = "SUCCESS"
      BY <1>8, <1>11, <2>3, <2>7
    <2>9. last # {}
      BY <2>4
    <2> QED BY <1>5, <2>2, <2>8, <2>9 DEF Earned, last, top
  <1> QED BY <1>9, <1>10, <1>11 DEF parsed

-----------------------------------------------------------------------------
(* What CallMethod makes of a response.                                    *)

Controller == [failed : BOOLEAN, code : Code]

LEMMA SetFailedType ==
    /\ Reset \in Controller
    /\ \A code \in Code : SetFailed(code) \in Controller /\ SetFailed(code).code = code
    /\ {"EC_OOM", "EC_SERIALIZATION_ERROR", "EC_TRANSPORT_ERROR"} \subseteq Code
  BY DEF Controller, Reset, SetFailed, Code

LEMMA CodeOfStatus ==
    ASSUME NEW s \in Status
    PROVE  CodeOf(s) \in Code /\ (CodeOf(s) = "EC_SUCCESS" => s = "SUCCESS")
  BY DEF CodeOf, Code, Status

\* A call succeeds only if its response earns it.
LEMMA VerdictLemma ==
    ASSUME NEW r \in Responses, ctl \in Controller
    PROVE  /\ Verdict(r) \in Controller
           /\ Verdict(r).code = "EC_SUCCESS" => r.good /\ Earned(r.wire)
  <1> DEFINE parsed == Response_ParseFromArray(Response_SharedCtor, r.wire)
             status == parsed.msg.val.status
  <1>1. r.wire \in Seq(Element)
    BY BlockingAssumption
  <1>2. status \in Status /\ (parsed.ok /\ status = "SUCCESS" => Earned(r.wire))
    BY <1>1, ParsedResponse
  <1>3. Verdict(r) = IF ~parsed.ok \/ ~r.good THEN SetFailed("EC_SERIALIZATION_ERROR")
                     ELSE IF status = "SUCCESS" THEN ctl ELSE SetFailed(CodeOf(status))
    BY DEF Verdict
  <1> HIDE DEF parsed, status
  <1>4. CASE ~parsed.ok \/ ~r.good
    <2>1. Verdict(r) = SetFailed("EC_SERIALIZATION_ERROR")
      BY <1>3, <1>4
    <2> QED BY <2>1, SetFailedType
  <1>5. CASE parsed.ok /\ r.good /\ status = "SUCCESS"
    <2>1. Verdict(r) = ctl
      BY <1>3, <1>5
    <2> QED BY <1>2, <1>5, <2>1
  <1>6. CASE parsed.ok /\ r.good /\ status # "SUCCESS"
    <2>1. Verdict(r) = SetFailed(CodeOf(status))
      BY <1>3, <1>6
    <2> QED BY <1>2, <1>6, <2>1, CodeOfStatus, SetFailedType
  <1> QED BY <1>4, <1>5, <1>6

\* SuccessIsEarned, for one call.
EarnedBy(c) ==
    result[c] = "EC_SUCCESS" => c \in DOMAIN answers /\ answers[c].good /\ Earned(answers[c].wire)

LEMMA SuccessIs == SuccessIsEarned <=> (~astray => \A c \in CallId : EarnedBy(c))
  BY DEF SuccessIsEarned, EarnedBy, Earned

LEMMA InitLemma == Init => IInv
  <1> SUFFICES ASSUME Init PROVE IInv
    OBVIOUS
  <1>1. TypeOK
    <2>1. alive \in BOOLEAN /\ astray \in BOOLEAN
      BY Zenon DEF Init
    <2>2. MaxAddresses \in Nat \ {0} /\ MaxCalls \in Nat
      BY BlockingAssumption
    <2>3. DOMAIN answers = {} /\ Range(answers) = {}
      BY DEF Init, Range
    <2>4. ctl \in [failed : BOOLEAN, code : Code]
      BY SetFailedType DEF Init, Controller
    <2>5. arriving \in Seq(CallId) /\ incoming \in Seq({"header", "body"} \X CallId)
      BY DEF Init
    <2> QED BY <2>1, <2>2, <2>3, <2>4, <2>5 DEF Init, TypeOK
  <1>2. LifeOK /\ Exchange
    BY BlockingAssumption DEF Init, LifeOK, Exchange
  <1>3. Unknown /\ NoSocketLeaked /\ OwnResponse
    BY DEF Init, Unknown, NoSocketLeaked, OwnResponse
  <1>4. SuccessIsEarned
    <2>1. \A c \in CallId : EarnedBy(c)
      BY DEF Init, EarnedBy
    <2> QED BY <2>1, SuccessIs
  <1> QED BY <1>1, <1>2, <1>3, <1>4 DEF Init, IInv

-----------------------------------------------------------------------------
(* The steps that end no call, and those that end one.                     *)

LEMMA Silent ==
    ASSUME IInv, TypeOK', LifeOK', NoSocketLeaked', astray \/ Exchange',
           pc' = "payload" => ~astray,
           UNCHANGED <<astray, result, got>>,
           ~astray => \A c \in CallId : EarnedBy(c) => EarnedBy(c)',
           \/ UNCHANGED <<pc, current>>
           \/ UNCHANGED current /\ pc # "idle" /\ pc' # "idle"
           \/ current' = current + 1
    PROVE  IInv'
  <1>1. current \in Nat /\ current' \in Nat /\ CallId \subseteq Nat
    BY BlockingAssumption DEF IInv, TypeOK, CallId
  <1>2. Unknown'
    <2>1. ASSUME NEW c \in CallId, c > current' \/ (c = current' /\ pc' # "idle")
          PROVE  c > current \/ (c = current /\ pc # "idle")
      BY <1>1, <2>1
    <2> QED BY <2>1 DEF IInv, Unknown
  <1>3. OwnResponse'
    BY DEF IInv, OwnResponse
  <1>4. SuccessIsEarned'
    <2>1. ASSUME ~astray' PROVE \A c \in CallId : EarnedBy(c)'
      BY <2>1, SuccessIs DEF IInv
    <2>2. SuccessIsEarned' <=> (~astray' => \A c \in CallId : EarnedBy(c)')
      BY DEF SuccessIsEarned, EarnedBy, Earned
    <2> QED BY <2>1, <2>2
  <1> QED BY <1>2, <1>3, <1>4 DEF IInv

LEMMA Returned ==
    ASSUME IInv, NEW k \in Controller, Finish(k),
           \/ pc = "idle" /\ current' = current + 1 /\ current' \in CallId /\ phase = "up"
           \/ pc # "idle" /\ UNCHANGED current,
           UNCHANGED <<alive, constructVars, peer, conn, answers, called>>,
           errno' \in {"EINTR", "other"},
           arriving' \in Seq(CallId), incoming' \in Seq({"header", "body"} \X CallId),
           got' \in [CallId -> 0..MaxCalls],
           astray' \in {astray, TRUE},
           astray' \/ (arriving' = <<>> /\ incoming' = <<>>),
           ~astray' => \A c \in CallId : got'[c] = got[c] \/ got'[c] = c,
           astray' \/ k.code # "EC_SUCCESS"
                   \/ (current' \in DOMAIN answers /\ answers[current'].good
                          /\ Earned(answers[current'].wire))
    PROVE  IInv'
  <1>1. /\ pc' = "idle" /\ ctl' = k /\ current' \in CallId /\ k.code \in Code
        /\ result \in [CallId -> Code \cup {"none"}]
        /\ phase = "up" /\ CallId \subseteq Nat /\ current \in Nat
    <2>1. pc' = "idle" /\ ctl' = k /\ k.code \in Code
      BY DEF Finish, Controller
    <2>2. phase = "up" /\ current' \in CallId
      BY DEF IInv, LifeOK
    <2>3. CallId \subseteq Nat /\ current \in Nat
      BY BlockingAssumption DEF IInv, TypeOK, CallId
    <2>4. result \in [CallId -> Code \cup {"none"}]
      BY DEF IInv, TypeOK
    <2> QED BY <2>1, <2>2, <2>3, <2>4
  <1>2. /\ result' \in [CallId -> Code \cup {"none"}]
        /\ \A c \in CallId : result'[c] = IF c = current' THEN k.code ELSE result[c]
    BY <1>1 DEF Finish
  <1>3. TypeOK'
    <2>1. alive' \in BOOLEAN /\ astray' \in BOOLEAN
      BY Zenon DEF IInv, TypeOK
    <2>2. current' \in 0..MaxCalls
      BY <1>1, BlockingAssumption DEF CallId
    <2>3. DOMAIN answers' \subseteq CallId /\ Range(answers') \subseteq Responses
      BY DEF IInv, TypeOK
    <2>4. /\ phase' \in {"connecting", "up", "failed", "deleted"} /\ address' \in 0..MaxAddresses
          /\ open' \in Nat /\ peer' \in Peers /\ conn' \in {"none", "up", "closed"}
          /\ called' \in SUBSET CallId
      BY DEF IInv, TypeOK, constructVars
    <2>5. ctl' \in [failed : BOOLEAN, code : Code]
      BY <1>1 DEF Controller
    <2> QED BY <1>1, <1>2, <2>1, <2>2, <2>3, <2>4, <2>5 DEF TypeOK
  <1>4. LifeOK' /\ NoSocketLeaked'
    BY <1>1 DEF IInv, LifeOK, NoSocketLeaked, constructVars
  <1>5. astray' \/ Exchange'
    BY <1>1 DEF Exchange
  <1>6. Unknown'
    <2>1. ASSUME NEW c \in CallId, c > current'
          PROVE  c # current' /\ c > current
      BY <1>1, <2>1
    <2> QED BY <1>1, <1>2, <2>1 DEF IInv, Unknown
  <1>7. ~astray' => ~astray
    OBVIOUS
  <1>8. OwnResponse'
    BY <1>7 DEF IInv, OwnResponse
  <1>9. SuccessIsEarned'
    <2>1. ASSUME ~astray', NEW c \in CallId PROVE EarnedBy(c)'
      <3>1. EarnedBy(c)
        BY <1>7, <2>1, SuccessIs DEF IInv
      <3> QED BY <1>2, <2>1, <3>1 DEF EarnedBy
    <2>2. SuccessIsEarned' <=> (~astray' => \A c \in CallId : EarnedBy(c)')
      BY DEF SuccessIsEarned, EarnedBy, Earned
    <2> QED BY <2>1, <2>2
  <1> QED BY <1>1, <1>3, <1>4, <1>5, <1>6, <1>8, <1>9 DEF IInv

-----------------------------------------------------------------------------
(* The constructor and the destructor.                                     *)

\* Before the constructor has succeeded nothing is called.
LEMMA Constructing ==
    ASSUME IInv, phase # "up"
    PROVE  pc = "idle"
  BY DEF IInv, LifeOK

LEMMA ChannelSteps ==
    ASSUME IInv, \/ connect_to_unresolved \/ connect_to_next \/ connect_to_ok \/ delete_channel
    PROVE  IInv'
  <1>1. /\ UNCHANGED <<alive, peer, arriving, incoming, answers, called, pc, current, astray,
                       errno, ctl, result, got>>
        /\ pc = "idle"
    BY Constructing DEF connect_to_unresolved, connect_to_next, connect_to_ok, delete_channel, netVars
  <1>2. /\ phase' \in {"connecting", "up", "failed", "deleted"}
        /\ address' \in 0..MaxAddresses /\ open' \in Nat
        /\ conn' \in {"none", "up", "closed"}
        /\ NoSocketLeaked' /\ LifeOK'
    <2>0. /\ address \in 0..MaxAddresses /\ MaxAddresses \in Nat \ {0}
          /\ phase = "connecting" => address < MaxAddresses
          /\ phase = "up" => conn # "none"
          /\ conn \in {"none", "up", "closed"}
          /\ open = IF phase = "up" THEN 1 ELSE 0
      BY BlockingAssumption DEF IInv, TypeOK, LifeOK, NoSocketLeaked
    <2>1. CASE connect_to_unresolved
      BY <1>1, <2>0, <2>1 DEF connect_to_unresolved, netVars, NoSocketLeaked, LifeOK
    <2>2. CASE connect_to_next
      <3>1. /\ phase = "connecting" /\ address' = address + 1 /\ open' = open /\ conn' = conn
            /\ phase' = IF address' = MaxAddresses THEN "failed" ELSE phase
        BY <2>2 DEF connect_to_next, netVars
      <3>2. address' \in 0..MaxAddresses /\ (address' # MaxAddresses => address' < MaxAddresses)
        BY <2>0, <3>1
      <3> QED BY <1>1, <2>0, <3>1, <3>2 DEF NoSocketLeaked, LifeOK
    <2>3. CASE connect_to_ok
      BY <1>1, <2>0, <2>3 DEF connect_to_ok, NoSocketLeaked, LifeOK
    <2>4. CASE delete_channel
      BY <1>1, <2>0, <2>4 DEF delete_channel, netVars, NoSocketLeaked, LifeOK
    <2> QED BY <2>1, <2>2, <2>3, <2>4
  <1>3. TypeOK'
    <2>1. alive' \in BOOLEAN /\ astray' \in BOOLEAN
      BY <1>1, Zenon DEF IInv, TypeOK
    <2> QED BY <1>1, <1>2, <2>1 DEF IInv, TypeOK
  <1>4. astray \/ Exchange'
    BY <1>1 DEF IInv, Exchange
  <1>5. \A c \in CallId : EarnedBy(c) => EarnedBy(c)'
    BY <1>1 DEF EarnedBy
  <1> QED BY <1>1, <1>2, <1>3, <1>4, <1>5, Silent

-----------------------------------------------------------------------------
(* The peer.                                                               *)

LEMMA peer_closeLemma == ASSUME IInv, peer_close PROVE IInv'
  <1>1. /\ UNCHANGED <<alive, phase, address, open, peer, incoming, answers, called, pc, current,
                       astray, errno, ctl, result, got>>
        /\ conn = "up" /\ conn' = "closed" /\ arriving' = <<>>
    BY DEF peer_close, constructVars
  <1>2. TypeOK'
    <2>1. alive' \in BOOLEAN /\ astray' \in BOOLEAN
      BY <1>1, Zenon DEF IInv, TypeOK
    <2> QED BY <1>1, <2>1 DEF IInv, TypeOK
  <1>3. LifeOK' /\ NoSocketLeaked'
    BY <1>1 DEF IInv, LifeOK, NoSocketLeaked
  <1>4. astray \/ Exchange'
    BY <1>1 DEF IInv, Exchange
  <1>5. \A c \in CallId : EarnedBy(c) => EarnedBy(c)'
    BY <1>1 DEF EarnedBy
  <1>6. pc' = "payload" => ~astray
    BY <1>1 DEF IInv
  <1> QED BY <1>1, <1>2, <1>3, <1>4, <1>5, <1>6, Silent

LEMMA peer_answerLemma == ASSUME IInv, NEW r \in Responses, peer_answer(r) PROVE IInv'
  <1> DEFINE c == Head(arriving)
  <1>1. /\ UNCHANGED <<alive, phase, address, open, peer, pc, current, astray, errno, ctl, result, got>>
        /\ conn = "up" /\ conn' \in {"up", "closed"} /\ arriving # <<>> /\ arriving' = Tail(arriving)
        /\ answers' = [d \in DOMAIN answers \cup {c} |-> IF d = c THEN r ELSE answers[d]]
        /\ called' = called \cup {c}
        /\ \/ incoming' = incoming \o << <<"header", c>>, <<"body", c>> >>
           \/ incoming' = Append(incoming, <<"header", c>>) /\ conn' = "closed"
    BY DEF peer_answer, constructVars
  <1>2. arriving \in Seq(CallId) /\ c \in CallId /\ Tail(arriving) \in Seq(CallId)
    BY <1>1 DEF IInv, TypeOK
  <1> HIDE DEF c
  <1>3. TypeOK'
    <2>1. alive' \in BOOLEAN /\ astray' \in BOOLEAN
      BY <1>1, Zenon DEF IInv, TypeOK
    <2>2. incoming' \in Seq({"header", "body"} \X CallId)
      <3> DEFINE h == <<"header", c>>
                 b == <<"body", c>>
                 Unit == {"header", "body"} \X CallId
      <3>1. h \in Unit /\ b \in Unit /\ incoming \in Seq(Unit)
        BY <1>2 DEF IInv, TypeOK
      <3>2. incoming' = incoming \o <<h, b>> \/ incoming' = Append(incoming, h)
        BY <1>1
      <3> HIDE DEF h, b, Unit
      <3>3. <<h, b>> \in Seq(Unit)
        BY <3>1
      <3>4. incoming \o <<h, b>> \in Seq(Unit) /\ Append(incoming, h) \in Seq(Unit)
        BY <3>1, <3>3, ConcatProperties
      <3> QED BY <3>2, <3>4 DEF Unit
    <2>3. DOMAIN answers' \subseteq CallId /\ Range(answers') \subseteq Responses
      <3>1. DOMAIN answers \subseteq CallId /\ \A d \in DOMAIN answers : answers[d] \in Responses
        BY DEF IInv, TypeOK, Range
      <3>2. DOMAIN answers' = DOMAIN answers \cup {c} /\ \A d \in DOMAIN answers' : answers'[d] \in Responses
        BY <1>1, <3>1
      <3> QED BY <1>2, <3>1, <3>2 DEF Range
    <2>4. called' \in SUBSET CallId /\ conn' \in {"none", "up", "closed"} /\ arriving' \in Seq(CallId)
      BY <1>1, <1>2 DEF IInv, TypeOK
    <2> QED BY <1>1, <2>1, <2>2, <2>3, <2>4 DEF IInv, TypeOK
  <1>4. LifeOK' /\ NoSocketLeaked'
    BY <1>1 DEF IInv, LifeOK, NoSocketLeaked
  <1>5. ASSUME ~astray
        PROVE  /\ pc = "header" /\ arriving = <<current>> /\ incoming = <<>>
               /\ c = current /\ arriving' = <<>>
    <2>1. Exchange
      BY <1>5 DEF IInv
    <2>2. pc = "header"
      BY <1>1, <2>1 DEF Exchange, IInv, TypeOK
    <2>3. arriving = <<current>> /\ incoming = <<>>
      BY <1>1, <2>1, <2>2 DEF Exchange
    <2> QED BY <1>1, <2>2, <2>3 DEF c
  <1>6. astray \/ Exchange'
    <2> DEFINE h == <<"header", c>>
               b == <<"body", c>>
    <2>1. <<>> \o <<h, b>> = <<h, b>> /\ Append(<<>>, h) = <<h>>
      <3> HIDE DEF h, b
      <3> QED OBVIOUS
    <2>2. current \in DOMAIN answers' \/ astray
      BY <1>1, <1>5
    <2> QED BY <1>1, <1>5, <2>1, <2>2 DEF Exchange
  <1>7. ~astray => \A d \in CallId : EarnedBy(d) => EarnedBy(d)'
    <2>1. ASSUME ~astray, NEW d \in CallId, EarnedBy(d), d = c PROVE EarnedBy(d)'
      <3>1. result[d] = "none"
        BY <1>2, <1>5, <2>1 DEF IInv, Unknown
      <3> QED BY <1>1, <3>1 DEF EarnedBy
    <2>2. ASSUME NEW d \in CallId, EarnedBy(d), d # c PROVE EarnedBy(d)'
      BY <1>1, <2>2 DEF EarnedBy
    <2> QED BY <2>1, <2>2
  <1>8. pc' = "payload" => ~astray
    BY <1>1 DEF IInv
  <1> QED BY <1>1, <1>3, <1>4, <1>6, <1>7, <1>8, Silent

-----------------------------------------------------------------------------
(* CallMethod.                                                             *)

LEMMA CallMethodLemma == ASSUME IInv, CallMethod PROVE IInv'
  <1>1. /\ UNCHANGED <<alive, phase, address, open, peer, conn, arriving, incoming, answers, called,
                       astray, errno, result, got>>
        /\ phase = "up" /\ pc = "idle" /\ pc' = "write" /\ current' = current + 1
        /\ current < MaxCalls /\ ctl' \in {ctl, Reset}
    BY DEF CallMethod, Enter, constructVars, netVars
  <1>2. current' \in 0..MaxCalls /\ current' \in CallId
    BY <1>1, BlockingAssumption DEF IInv, TypeOK, CallId
  <1>3. TypeOK'
    <2>1. alive' \in BOOLEAN /\ astray' \in BOOLEAN
      BY <1>1, Zenon DEF IInv, TypeOK
    <2>2. ctl' \in [failed : BOOLEAN, code : Code]
      BY <1>1, SetFailedType DEF IInv, TypeOK, Controller
    <2> QED BY <1>1, <1>2, <2>1, <2>2 DEF IInv, TypeOK
  <1>4. LifeOK' /\ NoSocketLeaked'
    BY <1>1, <1>2 DEF IInv, LifeOK, NoSocketLeaked
  <1>5. astray \/ Exchange'
    BY <1>1 DEF IInv, Exchange
  <1>6. \A c \in CallId : EarnedBy(c) => EarnedBy(c)'
    BY <1>1 DEF EarnedBy
  <1> QED BY <1>1, <1>3, <1>4, <1>5, <1>6, Silent

LEMMA interruptedLemma == ASSUME IInv, interrupted PROVE IInv'
  <1>1. /\ UNCHANGED <<alive, phase, address, open, peer, conn, arriving, incoming, answers, called,
                       pc, current, astray, ctl, result, got>>
        /\ errno' = "EINTR"
    BY DEF interrupted, constructVars, netVars
  <1>2. TypeOK'
    <2>1. alive' \in BOOLEAN /\ astray' \in BOOLEAN
      BY <1>1, Zenon DEF IInv, TypeOK
    <2> QED BY <1>1, <2>1 DEF IInv, TypeOK
  <1>3. LifeOK' /\ NoSocketLeaked' /\ (pc' = "payload" => ~astray)
    BY <1>1 DEF IInv, LifeOK, NoSocketLeaked
  <1>4. astray \/ Exchange'
    BY <1>1 DEF IInv, Exchange
  <1>5. \A c \in CallId : EarnedBy(c) => EarnedBy(c)'
    BY <1>1 DEF EarnedBy
  <1> QED BY <1>1, <1>2, <1>3, <1>4, <1>5, Silent

LEMMA write_n_okLemma == ASSUME IInv, write_n_ok PROVE IInv'
  <1>1. /\ UNCHANGED <<alive, phase, address, open, peer, conn, incoming, answers, called, current,
                       astray, errno, ctl, result, got>>
        /\ pc = "write" /\ pc' = "header"
        /\ arriving' = IF conn = "up" THEN Append(arriving, current) ELSE arriving
    BY DEF write_n_ok, In, constructVars
  <1>2. current \in CallId /\ phase = "up" /\ conn \in {"up", "closed"}
    BY <1>1 DEF IInv, TypeOK, LifeOK
  <1>3. TypeOK'
    <2>1. alive' \in BOOLEAN /\ astray' \in BOOLEAN
      BY <1>1, Zenon DEF IInv, TypeOK
    <2>2. arriving' \in Seq(CallId)
      BY <1>1, <1>2 DEF IInv, TypeOK
    <2> QED BY <1>1, <2>1, <2>2 DEF IInv, TypeOK
  <1>4. LifeOK' /\ NoSocketLeaked'
    BY <1>1, <1>2 DEF IInv, LifeOK, NoSocketLeaked
  <1>5. astray \/ Exchange'
    <2>1. ASSUME ~astray PROVE arriving = <<>> /\ incoming = <<>>
      BY <1>1, <2>1 DEF IInv, Exchange
    <2>2. Append(<<>>, current) = <<current>>
      OBVIOUS
    <2> QED BY <1>1, <1>2, <2>1, <2>2 DEF Exchange
  <1>6. \A c \in CallId : EarnedBy(c) => EarnedBy(c)'
    BY <1>1 DEF EarnedBy
  <1> QED BY <1>1, <1>3, <1>4, <1>5, <1>6, Silent

LEMMA write_n_sigpipeLemma == ASSUME IInv, write_n_sigpipe PROVE IInv'
  <1>1. /\ UNCHANGED <<phase, address, open, peer, conn, arriving, incoming, answers, called, pc,
                       current, astray, errno, ctl, result, got>>
        /\ alive' = FALSE
    BY DEF write_n_sigpipe, In, constructVars, netVars
  <1>2. TypeOK'
    <2>1. alive' \in BOOLEAN /\ astray' \in BOOLEAN
      BY <1>1, Zenon DEF IInv, TypeOK
    <2> QED BY <1>1, <2>1 DEF IInv, TypeOK
  <1>3. LifeOK' /\ NoSocketLeaked' /\ (pc' = "payload" => ~astray)
    BY <1>1 DEF IInv, LifeOK, NoSocketLeaked
  <1>4. astray \/ Exchange'
    BY <1>1 DEF IInv, Exchange
  <1>5. \A c \in CallId : EarnedBy(c) => EarnedBy(c)'
    BY <1>1 DEF EarnedBy
  <1> QED BY <1>1, <1>2, <1>3, <1>4, <1>5, Silent

\* What is read from the stream, and what stays in it.
LEMMA StreamType ==
    ASSUME IInv, incoming # <<>>
    PROVE  /\ Tail(incoming) \in Seq({"header", "body"} \X CallId)
           /\ Head(incoming) \in {"header", "body"} \X CallId
  BY DEF IInv, TypeOK

LEMMA read_headerLemma == ASSUME IInv, read_header PROVE IInv'
  <1>1. /\ UNCHANGED <<alive, phase, address, open, peer, conn, arriving, answers, called, current,
                       astray, errno, ctl, result, got>>
        /\ pc = "header" /\ pc' = "payload" /\ ~astray
        /\ incoming # <<>> /\ incoming' = Tail(incoming)
    BY DEF read_header, In, constructVars
  <1>2. TypeOK'
    <2>1. alive' \in BOOLEAN /\ astray' \in BOOLEAN
      BY <1>1, Zenon DEF IInv, TypeOK
    <2>2. incoming' \in Seq({"header", "body"} \X CallId)
      BY <1>1, StreamType
    <2> QED BY <1>1, <2>1, <2>2 DEF IInv, TypeOK
  <1>3. LifeOK' /\ NoSocketLeaked'
    BY <1>1 DEF IInv, LifeOK, NoSocketLeaked
  <1>4. Exchange'
    <2> DEFINE h == <<"header", current>>
               b == <<"body", current>>
    <2>1. arriving = <<>> /\ \/ current \in DOMAIN answers /\ incoming = <<h, b>>
                             \/ conn = "closed" /\ incoming = <<h>>
      BY <1>1 DEF IInv, Exchange
    <2>2. Tail(<<h, b>>) = <<b>> /\ Tail(<<h>>) = <<>>
      <3> HIDE DEF h, b
      <3> QED OBVIOUS
    <2> QED BY <1>1, <2>1, <2>2 DEF Exchange
  <1>5. \A c \in CallId : EarnedBy(c) => EarnedBy(c)'
    BY <1>1 DEF EarnedBy
  <1> QED BY <1>1, <1>2, <1>3, <1>4, <1>5, Silent

\* The half of read_garbage that reads on.
LEMMA read_garbageOn ==
    ASSUME IInv, astray, incoming' = <<>>, pc = "header", pc' = "garbage",
           UNCHANGED <<alive, phase, address, open, peer, conn, arriving, answers, called, current,
                       astray, errno, ctl, result, got>>
    PROVE  IInv'
  <1>1. TypeOK'
    <2>1. alive' \in BOOLEAN /\ astray' \in BOOLEAN
      BY Zenon DEF IInv, TypeOK
    <2> QED BY <2>1 DEF IInv, TypeOK
  <1>2. LifeOK' /\ NoSocketLeaked'
    BY DEF IInv, LifeOK, NoSocketLeaked
  <1> QED BY <1>1, <1>2, Silent

\* The types that Returned asks of what a step leaves alone.
LEMMA Kept ==
    ASSUME IInv
    PROVE  /\ errno \in {"EINTR", "other"} /\ arriving \in Seq(CallId)
           /\ incoming \in Seq({"header", "body"} \X CallId)
           /\ <<>> \in Seq({"header", "body"} \X CallId)
           /\ got \in [CallId -> 0..MaxCalls] /\ ctl \in Controller
           /\ CallId \subseteq 0..MaxCalls
           /\ DOMAIN answers \subseteq CallId /\ \A c \in DOMAIN answers : answers[c] \in Responses
  <1>1. CallId \subseteq 0..MaxCalls
    BY BlockingAssumption DEF CallId
  <1> QED BY <1>1 DEF IInv, TypeOK, Controller, Range

LEMMA CallMethod_errorLemma == ASSUME IInv, CallMethod_error PROVE IInv'
  <1>1. /\ UNCHANGED <<alive, constructVars, peer, conn, arriving, incoming, answers, called, astray, got>>
        /\ phase = "up" /\ pc = "idle" /\ current' = current + 1
        /\ current < MaxCalls /\ errno' \in {errno, "other"}
    BY DEF CallMethod_error, Enter, netVars
  <1>2. PICK k \in Controller : Finish(k) /\ k.code # "EC_SUCCESS"
    BY SetFailedType DEF CallMethod_error
  <1>3. current' \in CallId
    BY <1>1, BlockingAssumption DEF IInv, TypeOK, CallId
  <1>4. astray' \/ (arriving' = <<>> /\ incoming' = <<>>)
    BY <1>1 DEF IInv, Exchange
  <1>5. astray' \in {astray, TRUE}
    BY <1>1
  <1>6. /\ errno' \in {"EINTR", "other"} /\ arriving' \in Seq(CallId)
        /\ incoming' \in Seq({"header", "body"} \X CallId) /\ got' \in [CallId -> 0..MaxCalls]
        /\ \A c \in CallId : got'[c] = got[c]
    BY <1>1, Kept
  <1>7. UNCHANGED <<alive, constructVars, peer, conn, answers, called>>
    BY <1>1
  <1> QED BY <1>1, <1>2, <1>3, <1>4, <1>5, <1>6, <1>7, Returned

\* The transport fails under a call.
LEMMA TransportErrors ==
    ASSUME IInv, \/ write_n_error \/ read_n_eof \/ read_n_error
    PROVE  IInv'
  <1> DEFINE k == SetFailed("EC_TRANSPORT_ERROR")
  <1>1. /\ UNCHANGED <<alive, constructVars, peer, conn, arriving, answers, called, astray, got, current>>
        /\ pc # "idle" /\ Finish(k) /\ conn = "closed"
        /\ errno' \in {errno, "other"} /\ incoming' \in {incoming, <<>>}
        /\ pc # "write" => incoming' = <<>>
    BY DEF write_n_error, read_n_eof, read_n_error, In, netVars
  <1>2. k \in Controller /\ k.code # "EC_SUCCESS"
    BY SetFailedType
  <1> HIDE DEF k
  <1>3. astray' \/ (arriving' = <<>> /\ incoming' = <<>>)
    <2>1. pc \in {"write", "header", "payload", "garbage"}
      BY <1>1 DEF IInv, TypeOK
    <2>2. ASSUME ~astray PROVE arriving = <<>> /\ (pc = "write" => incoming = <<>>)
      BY <1>1, <2>1, <2>2 DEF IInv, Exchange
    <2> QED BY <1>1, <2>2
  <1>4. astray' \in {astray, TRUE}
    BY <1>1
  <1>5. /\ errno' \in {"EINTR", "other"} /\ arriving' \in Seq(CallId)
        /\ incoming' \in Seq({"header", "body"} \X CallId) /\ got' \in [CallId -> 0..MaxCalls]
        /\ \A c \in CallId : got'[c] = got[c]
    BY <1>1, Kept
  <1>6. UNCHANGED <<alive, constructVars, peer, conn, answers, called>>
    BY <1>1
  <1> QED BY <1>1, <1>2, <1>3, <1>4, <1>5, <1>6, Returned

LEMMA read_header_oomLemma == ASSUME IInv, read_header_oom PROVE IInv'
  <1> DEFINE k == SetFailed("EC_OOM")
  <1>1. /\ UNCHANGED <<alive, constructVars, peer, conn, arriving, answers, called, got, current>>
        /\ pc # "idle" /\ Finish(k) /\ errno' = "other" /\ astray'
        /\ incoming # <<>> /\ incoming' = Tail(incoming)
    BY DEF read_header_oom, In
  <1>2. k \in Controller
    BY SetFailedType
  <1> HIDE DEF k
  <1>3. astray' \in {astray, TRUE}
    BY DEF read_header_oom
  <1>4. /\ errno' \in {"EINTR", "other"} /\ arriving' \in Seq(CallId)
        /\ incoming' \in Seq({"header", "body"} \X CallId) /\ got' \in [CallId -> 0..MaxCalls]
    BY <1>1, Kept, StreamType
  <1>5. UNCHANGED <<alive, constructVars, peer, conn, answers, called>>
    BY <1>1
  <1> QED BY <1>1, <1>2, <1>3, <1>4, <1>5, Returned

LEMMA read_garbageLemma == ASSUME IInv, read_garbage PROVE IInv'
  <1>1. /\ UNCHANGED <<alive, constructVars, peer, conn, arriving, answers, called, astray, current>>
        /\ pc = "header" /\ astray
    BY DEF read_garbage, In
  <1>2. CASE incoming' = <<>> /\ pc' = "garbage" /\ UNCHANGED <<errno, ctl, result, got>>
    <2>1. UNCHANGED <<alive, phase, address, open, peer, conn, arriving, answers, called, current,
                      astray, errno, ctl, result, got>>
      BY <1>1, <1>2 DEF constructVars
    <2> QED BY <1>1, <1>2, <2>1, read_garbageOn
  <1>3. ASSUME NEW j \in 1..Len(incoming), incoming' = SubSeq(incoming, j + 1, Len(incoming)),
               NEW k \in Controller, Finish(k), errno' \in {errno, "other"},
               got' \in [CallId -> 0..MaxCalls]
        PROVE  IInv'
    <2>1. incoming' \in Seq({"header", "body"} \X CallId)
      <3> DEFINE Unit == {"header", "body"} \X CallId
                 n == Len(incoming)
      <3>1. incoming \in Seq(Unit)
        BY Kept
      <3> HIDE DEF Unit
      <3>2. n \in Nat /\ \A i \in 1..n : incoming[i] \in Unit
        BY <3>1
      <3>3. n = Len(incoming)
        OBVIOUS
      <3> HIDE DEF n
      <3>4. j \in Int /\ j + 1 \in Int /\ n \in Int /\ \A i \in (j + 1)..n : incoming[i] \in Unit
        BY <1>3, <3>2, <3>3
      <3> DEFINE l == j + 1
      <3>5. l \in Int /\ \A i \in l..n : incoming[i] \in Unit
        BY <3>4
      <3> HIDE DEF l
      <3>6. SubSeq(incoming, l, n) \in Seq(Unit)
        BY <3>4, <3>5, SubSeqProperties
      <3> QED BY <1>3, <3>3, <3>6 DEF l, Unit
    <2>2. /\ errno' \in {"EINTR", "other"} /\ arriving' \in Seq(CallId)
      BY <1>1, <1>3, Kept
    <2>3. astray' \in {astray, TRUE} /\ astray' /\ pc # "idle"
      BY <1>1
    <2>4. UNCHANGED <<alive, constructVars, peer, conn, answers, called>>
      BY <1>1
    <2> QED BY <1>1, <1>3, <2>1, <2>2, <2>3, <2>4, Returned
  <1>4. CASE \E j \in 1..Len(incoming) : incoming' = SubSeq(incoming, j + 1, Len(incoming))
    <2>1. PICK j \in 1..Len(incoming) : incoming' = SubSeq(incoming, j + 1, Len(incoming))
      BY <1>4
    <2>2. CASE Finish(SetFailed("EC_OOM")) /\ errno' = "other" /\ UNCHANGED got
      BY <1>3, <2>1, <2>2, Kept, SetFailedType
    <2>3. CASE Finish(SetFailed("EC_SERIALIZATION_ERROR")) /\ UNCHANGED <<errno, got>>
      BY <1>3, <2>1, <2>3, Kept, SetFailedType
    <2>4. CASE /\ \E c \in DOMAIN answers : got' = [got EXCEPT ![current] = c]
               /\ Finish(ctl) /\ UNCHANGED errno
      <3>1. PICK c \in DOMAIN answers : got' = [got EXCEPT ![current] = c]
        BY <2>4
      <3>2. c \in 0..MaxCalls
        BY Kept
      <3>3. got' \in [CallId -> 0..MaxCalls]
        BY <3>1, <3>2, Kept
      <3> QED BY <1>3, <2>1, <2>4, <3>3, Kept
    <2> QED BY <1>2, <2>2, <2>3, <2>4 DEF read_garbage
  <1> QED BY <1>2, <1>4 DEF read_garbage

LEMMA read_payloadLemma == ASSUME IInv, read_payload PROVE IInv'
  <1> DEFINE r == answers[NextUnit[2]]
             k == Verdict(r)
  <1>1. /\ UNCHANGED <<alive, constructVars, peer, conn, arriving, answers, called, astray, errno, current>>
        /\ pc = "payload" /\ incoming # <<>> /\ incoming' = Tail(incoming)
        /\ got' = [got EXCEPT ![current] = NextUnit[2]] /\ Finish(k)
    BY DEF read_payload, In
  <1>2. ~astray /\ Exchange
    BY <1>1 DEF IInv
  <1>3. /\ arriving = <<>> /\ current \in DOMAIN answers
        /\ incoming = << <<"body", current>> >>
    BY <1>1, <1>2 DEF Exchange
  <1>4. NextUnit[2] = current /\ incoming' = <<>>
    BY <1>1, <1>3 DEF NextUnit
  <1>5. r = answers[current] /\ r \in Responses /\ current \in CallId
    BY <1>3, <1>4, Kept
  <1> HIDE DEF r
  <1>6. k \in Controller /\ (k.code = "EC_SUCCESS" => r.good /\ Earned(r.wire))
    BY <1>5, Kept, VerdictLemma
  <1> HIDE DEF k
  <1>7. k.code # "EC_SUCCESS" \/ (current' \in DOMAIN answers /\ answers[current'].good
                                   /\ Earned(answers[current'].wire))
    BY <1>1, <1>3, <1>5, <1>6
  <1>8. /\ got' \in [CallId -> 0..MaxCalls]
        /\ \A c \in CallId : got'[c] = got[c] \/ got'[c] = c
    BY <1>1, <1>4, <1>5, Kept
  <1>9. /\ errno' \in {"EINTR", "other"} /\ arriving' \in Seq(CallId)
        /\ incoming' \in Seq({"header", "body"} \X CallId)
        /\ arriving' = <<>>
    BY <1>1, <1>3, <1>4, Kept
  <1>10. astray' \in {astray, TRUE} /\ pc # "idle"
    BY <1>1
  <1>11. UNCHANGED <<alive, constructVars, peer, conn, answers, called>>
    BY <1>1
  <1> QED BY <1>1, <1>4, <1>6, <1>7, <1>8, <1>9, <1>10, <1>11, Returned

-----------------------------------------------------------------------------

LEMMA StepLemma == IInv /\ [Next]_vars => IInv'
  <1> SUFFICES ASSUME IInv, [Next]_vars PROVE IInv'
    OBVIOUS
  <1>1. CASE connect_to_unresolved \/ connect_to_next \/ connect_to_ok \/ delete_channel
    BY <1>1, ChannelSteps
  <1>2. CASE CallMethod \/ CallMethod_error \/ interrupted
    BY <1>2, CallMethodLemma, CallMethod_errorLemma, interruptedLemma
  <1>3. CASE Work
    BY <1>3, write_n_okLemma, write_n_sigpipeLemma, TransportErrors, read_headerLemma,
       read_header_oomLemma, read_garbageLemma, read_payloadLemma DEF Work
  <1>4. CASE peer_close \/ \E r \in Responses : peer_answer(r)
    BY <1>4, peer_closeLemma, peer_answerLemma
  <1>5. CASE UNCHANGED vars
    <2>1. TypeOK'
      <3>1. alive' \in BOOLEAN /\ astray' \in BOOLEAN
        BY <1>5, Zenon DEF vars, IInv, TypeOK
      <3> QED BY <1>5, <3>1 DEF vars, constructVars, netVars, IInv, TypeOK
    <2>2. LifeOK' /\ NoSocketLeaked' /\ (astray \/ Exchange') /\ (pc' = "payload" => ~astray)
      BY <1>5 DEF vars, constructVars, netVars, IInv, LifeOK, Exchange, NoSocketLeaked
    <2>3. \A c \in CallId : EarnedBy(c) => EarnedBy(c)'
      BY <1>5 DEF vars, netVars, EarnedBy
    <2>4. UNCHANGED <<astray, result, got, pc, current>>
      BY <1>5 DEF vars
    <2> QED BY <2>1, <2>2, <2>3, <2>4, Silent
  <1> QED BY <1>1, <1>2, <1>3, <1>4, <1>5 DEF Next

\* Before each step of CallMethod the stream holds the rest of this exchange and
\* nothing else, unless a body was left in it before.
THEOREM Invariance == Spec => []IInv
  BY InitLemma, StepLemma, PTL DEF Spec

\* The state of channel, stream and controller has its types.
THEOREM TypeCorrect == Spec => []TypeOK
  <1>1. IInv => TypeOK
    BY DEF IInv
  <1> QED BY <1>1, Invariance, PTL

\* CallMethod never takes the response to an earlier call for that to its own,
\* wherever earlier calls failed, unless realloc left a body unread.
THEOREM CallsGetTheirOwn == Spec => []OwnResponse
  <1>1. IInv => OwnResponse
    BY DEF IInv
  <1> QED BY <1>1, Invariance, PTL

\* The controller shows success only when ParseFromArray took the whole of a
\* Response whose last valid status is SUCCESS.
THEOREM NoUnearnedSuccess == Spec => []SuccessIsEarned
  <1>1. IInv => SuccessIsEarned
    BY DEF IInv
  <1> QED BY <1>1, Invariance, PTL

\* connect_to and the destructor leave no descriptor behind.
THEOREM SocketsClosed == Spec => []NoSocketLeaked
  <1>1. IInv => NoSocketLeaked
    BY DEF IInv
  <1> QED BY <1>1, Invariance, PTL

=============================================================================
