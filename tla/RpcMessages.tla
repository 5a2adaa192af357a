----------------------------- MODULE RpcMessages -----------------------------
(***************************************************************************)
(* The messages of rpc.proto as the generated classes Request and Response *)
(* implement them: an object with has-bits, values and unknown fields, and *)
(* its translation to and from the wire.                                   *)
(*                                                                         *)
(* A wire is a sequence of elements <<field, value>>.  Besides the fields  *)
(* of rpc.proto an element may be "other" (a field number or wire type the *)
(* class does not know), "end" (a zero tag or the end of a group) or       *)
(* "cut" (the wire ends within the field named by its value).  All values  *)
(* are strings; cached sizes, which only nested messages need, are left    *)
(* out.  The base classes of the protobuf library are external.            *)
(***************************************************************************)
EXTENDS Naturals, Sequences, FiniteSetsExt, SequencesExt, RpcCodes

CONSTANT Width  \* the bytes each value takes on the wire, without its tag

RequestFields == {"id", "method_identity"}
ResponseFields == {"id", "status", "message"}
FieldsOf == [Request |-> RequestFields, Response |-> ResponseFields]

\* Both classes require the fields of the mask 0x00000003.
Required == [Request |-> {"id", "method_identity"}, Response |-> {"id", "status"}]

\* What the getters return for a field that is not set.
Default == [id |-> "0", method_identity |-> "", status |-> "SUCCESS", message |-> ""]

\* What is left in a string whose bytes end early.
Partial == "..."

\* The values of fields, and the elements of a wire.
Value == DOMAIN Width
Tag == RequestFields \cup ResponseFields \cup {"other"}
Element == ((Tag \cup {"end"}) \X Value) \cup ({"cut"} \X Tag)

ASSUME WidthAssumption ==
    /\ Width \in [Value -> Nat]
    /\ Partial \in Value
    /\ \A f \in DOMAIN Default : Default[f] \in Value

\* The objects of a class that has these fields.
Message(fields) ==
    [has : SUBSET fields, val : [fields -> Value], unknown : Seq(Element)]

-----------------------------------------------------------------------------
(* Constructors and accessors.                                             *)

New(fields) ==
    [has |-> {}, val |-> [f \in fields |-> Default[f]], unknown |-> <<>>]

Request_SharedCtor == New(RequestFields)

Response_SharedCtor == New(ResponseFields)

\* set_..., and a mutable_... that is written through.
SetField(m, f, v) == [m EXCEPT !.has = @ \cup {f}, !.val[f] = v]

\* clear_..., release_... and set_allocated_...(NULL).
ClearField(m, f) == [m EXCEPT !.has = @ \ {f}, !.val[f] = Default[f]]

\* What the accessors make of a Request: a field is set, or unset, or a string is
\* marked as set by a mutable_... through which nothing is written.
Request_Accessed(m, values) ==
    {SetField(m, "id", v) : v \in values.id}
    \cup {SetField(m, "method_identity", v) : v \in values.method_identity}
    \cup {ClearField(m, f) : f \in RequestFields}
    \cup {SetField(m, "method_identity", m.val.method_identity)}

Response_Accessed(m, values) ==
    {SetField(m, "id", v) : v \in values.id}
    \cup {SetField(m, "status", v) : v \in values.status}
    \cup {SetField(m, "message", v) : v \in values.message}
    \cup {ClearField(m, f) : f \in ResponseFields}
    \cup {SetField(m, "message", m.val.message)}

\* Clear does not touch a string whose bit is not set, nor anything when no bit
\* is: it relies on such a field having its default.
Request_Clear(m) ==
    [has |-> {}, unknown |-> <<>>,
     val |-> [f \in DOMAIN m.val |->
                IF m.has # {} /\ f \in m.has \cup {"id"} THEN Default[f] ELSE m.val[f]]]

\* Mutant: only what a response always carries is reset.
Response_Clear_required(m) ==
    [has |-> {}, unknown |-> <<>>,
     val |-> [f \in DOMAIN m.val |->
                IF m.has # {} /\ f \in {"id", "status"} THEN Default[f] ELSE m.val[f]]]

Response_Clear(m) ==
    [has |-> {}, unknown |-> <<>>,
     val |-> [f \in DOMAIN m.val |->
                IF m.has # {} /\ f \in m.has \cup {"id", "status"} THEN Default[f]
                                                                   ELSE m.val[f]]]

IsInitialized(m, class) == Required[class] \subseteq m.has

-----------------------------------------------------------------------------
(* From message to message.                                                *)

\* m with the set fields of from, among fields, laid over its own.
Overlaid(m, from, fields) ==
    [has |-> m.has \cup (from.has \cap fields),
     val |-> [f \in DOMAIN m.val |->
                IF f \in from.has \cap fields THEN from.val[f] ELSE m.val[f]],
     unknown |-> m.unknown \o from.unknown]

Request_MergeFrom(m, from) == Overlaid(m, from, RequestFields)

\* Mutant: a field added to the message later is not merged.
Response_MergeFrom_required(m, from) == Overlaid(m, from, {"id", "status"})

Response_MergeFrom(m, from) == Overlaid(m, from, ResponseFields)

-----------------------------------------------------------------------------
(* To the wire.                                                            *)

\* The element of a field, if the field is set.
Written(m, f) == IF f \in m.has THEN << <<f, m.val[f]>> >> ELSE <<>>

\* The fields in the order of their numbers, then the unknown ones.
Request_Serialize(m) == Written(m, "id") \o Written(m, "method_identity") \o m.unknown

\* Mutant: what this version of the class does not know is not passed on.
Response_Serialize_known(m) == Written(m, "id") \o Written(m, "status") \o Written(m, "message")

Response_Serialize(m) ==
    Written(m, "id") \o Written(m, "status") \o Written(m, "message") \o m.unknown

\* A tag of one byte and the value.
ElementSize(e) == 1 + Width[e[2]]

UnknownSize(m) == MapThenSumSet(LAMBDA i : ElementSize(m.unknown[i]), DOMAIN m.unknown)

Request_ByteSize(m) == MapThenSumSet(LAMBDA f : 1 + Width[m.val[f]], m.has) + UnknownSize(m)

\* Mutant: only known fields count.
Response_ByteSize_known(m) == MapThenSumSet(LAMBDA f : 1 + Width[m.val[f]], m.has)

Response_ByteSize(m) == MapThenSumSet(LAMBDA f : 1 + Width[m.val[f]], m.has) + UnknownSize(m)

-----------------------------------------------------------------------------
(* From the wire.  A parse in progress is [msg, at]: the message and whether  *)
(* it goes on ("on"), has met an end ("end") or has failed ("failed").        *)

\* Mutant: a status is taken as it comes.
Status_IsAny(v) == TRUE

Status_IsValid(v) == v \in Status

AddUnknown(s, e) == [s EXCEPT !.msg.unknown = Append(@, e)]

\* An end is a success of the merge.  A field cut off is a failure; a string has
\* been marked as set by then, and filled as far as it goes.
Irregular(s, e) ==
    CASE e[1] = "end" -> [s EXCEPT !.at = "end"]
      [] e[1] = "cut" -> [msg |-> IF e[2] \in {"method_identity", "message"} \cap DOMAIN s.msg.val
                                  THEN SetField(s.msg, e[2], Partial) ELSE s.msg,
                          at |-> "failed"]
      [] OTHER        -> AddUnknown(s, e)

\* One turn of the loop of Request's MergePartialFromCodedStream.
Request_Read(s, e) ==
    IF s.at # "on" THEN s
    ELSE IF e[1] \in RequestFields THEN [s EXCEPT !.msg = SetField(@, e[1], e[2])]
    ELSE Irregular(s, e)

\* One turn of Response's loop: a status that Status does not have is kept as an
\* unknown field.
Response_Read(s, e) ==
    IF s.at # "on" THEN s
    ELSE IF e[1] = "status" /\ ~Status_IsValid(e[2]) THEN AddUnknown(s, e)
    ELSE IF e[1] \in ResponseFields THEN [s EXCEPT !.msg = SetField(@, e[1], e[2])]
    ELSE Irregular(s, e)

\* The loops over a whole wire.
Request_MergePartial(s, wire) == FoldLeft(Request_Read, s, wire)

Response_MergePartial(s, wire) == FoldLeft(Response_Read, s, wire)

\* ParseFromArray of the library: clear, merge, and insist on every byte having
\* been read and every required field being there.  What was read stays.
Request_ParseFromArray(m, wire) ==
    LET end == Request_MergePartial([msg |-> Request_Clear(m), at |-> "on"], wire)
    IN  [ok |-> end.at = "on" /\ IsInitialized(end.msg, "Request"), msg |-> end.msg]

Response_ParseFromArray(m, wire) ==
    LET end == Response_MergePartial([msg |-> Response_Clear(m), at |-> "on"], wire)
    IN  [ok |-> end.at = "on" /\ IsInitialized(end.msg, "Response"), msg |-> end.msg]

-----------------------------------------------------------------------------
(* What the functions of a class rely on, and leave, in its objects.       *)

\* An element that a class does not know, or a status that is none.
Alien(class, e) ==
    /\ e[1] \notin {"cut", "end"}
    /\ \/ e[1] \notin FieldsOf[class]
       \/ class = "Response" /\ e[1] = "status" /\ ~Status_IsValid(e[2])

\* A field that is not set has its default, a status is one of Status, and what
\* was unknown when it was read will be unknown when it is read again.
WellFormed(class) ==
    {m \in Message(FieldsOf[class]) :
        /\ \A f \in FieldsOf[class] \ m.has : m.val[f] = Default[f]
        /\ class = "Response" => m.val["status"] \in Status
        /\ \A i \in DOMAIN m.unknown : Alien(class, m.unknown[i])}

=============================================================================
