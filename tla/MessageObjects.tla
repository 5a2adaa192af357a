---------------------------- MODULE MessageObjects ----------------------------
(***************************************************************************)
(* Two objects of one of the generated message classes, and everything     *)
(* that the generated interface lets a program do to them.  The library    *)
(* itself parses every Request and Response into a fresh object; programs  *)
(* that keep theirs may parse into one again, after a failure as well as   *)
(* after a success, and what is parsed must not depend on it.              *)
(***************************************************************************)
EXTENDS RpcMessages

CONSTANTS Values,      \* [field |-> the values it is given]
          Wires,       \* [class |-> the wires it is parsed from]
          MaxUnknown   \* bound on the unknown fields of an object

Class == {"Request", "Response"}

Object == {1, 2}

ASSUME MessageAssumption ==
    /\ MaxUnknown \in Nat
    /\ Values \in [RequestFields \cup ResponseFields -> SUBSET Value]
    /\ Values.status \subseteq Status
    /\ Wires \in [Class -> SUBSET Seq(Element)]

VARIABLES class,    \* the class of the objects
          obj       \* the objects

vars == <<class, obj>>

\* The virtual functions of Message.
Fresh       == IF class = "Request" THEN Request_SharedCtor ELSE Response_SharedCtor
Cleared(m)  == IF class = "Request" THEN Request_Clear(m) ELSE Response_Clear(m)
Bytes(m)    == IF class = "Request" THEN Request_Serialize(m) ELSE Response_Serialize(m)
Size(m)     == IF class = "Request" THEN Request_ByteSize(m) ELSE Response_ByteSize(m)
Merged(m, n) ==
    IF class = "Request" THEN Request_MergeFrom(m, n) ELSE Response_MergeFrom(m, n)
Accessed(m) ==
    IF class = "Request" THEN Request_Accessed(m, Values) ELSE Response_Accessed(m, Values)
Parsed(m, w) ==
    IF class = "Request" THEN Request_ParseFromArray(m, w) ELSE Response_ParseFromArray(m, w)

Fields == FieldsOf[class]

TypeOK ==
    /\ class \in Class
    /\ obj \in [Object -> Message(Fields)]
    /\ \A o \in Object : Len(obj[o].unknown) <= MaxUnknown
    /\ class = "Response" => \A o \in Object : obj[o].val["status"] \in Status

Init ==
    /\ class \in Class
    /\ obj = [o \in Object |-> Fresh]

Put(o, m) ==
    /\ Len(m.unknown) <= MaxUnknown
    /\ obj' = [obj EXCEPT ![o] = m]
    /\ UNCHANGED class

Access(o) == \E m \in Accessed(obj[o]) : Put(o, m)

Clear(o) == Put(o, Cleared(obj[o]))

MergeFrom(o, p) == o # p /\ Put(o, Merged(obj[o], obj[p]))

CopyFrom(o, p) == o # p /\ Put(o, Merged(Cleared(obj[o]), obj[p]))

Swap == obj' = [o \in Object |-> obj[3 - o]] /\ UNCHANGED class

\* Well or not, the object keeps what was read.
ParseFromArray(o, w) == Put(o, Parsed(obj[o], w).msg)

Next ==
    \/ Swap
    \/ \E o \in Object :
          \/ Clear(o)
          \/ Access(o)
          \/ \E p \in Object : MergeFrom(o, p) \/ CopyFrom(o, p)
          \/ \E w \in Wires[class] : ParseFromArray(o, w)

Spec == Init /\ [][Next]_vars

-----------------------------------------------------------------------------
(* Properties.                                                             *)

\* What a parse yields depends on the bytes alone, not on what the object held:
\* Clear skips fields by their bits, and a failed parse leaves them half-filled.
ParseForgets == \A o \in Object, w \in Wires[class] : Parsed(obj[o], w) = Parsed(Fresh, w)

\* Any object survives the wire, whatever it is parsed into: parsing succeeds if
\* and only if it has its required fields, and restores it entirely, with the
\* fields this version does not know and the difference between unset and set
\* to the default.
RoundTrip ==
    \A o, p \in Object :
        LET r == Parsed(obj[p], Bytes(obj[o]))
        IN  r.msg = obj[o] /\ r.ok = IsInitialized(obj[o], class)

\* Reading one message after another is merging them (the wire format's promise
\* that lets a field be sent twice).
ConcatIsMerge ==
    \A o, p \in Object :
        Parsed(Fresh, Bytes(obj[o]) \o Bytes(obj[p])).msg = Merged(obj[o], obj[p])

\* ByteSize, by which the channels and the servers allocate packets and fill in
\* their headers, is the number of bytes that will be written.
SizeIsWritten ==
    \A o \in Object :
        LET w == Bytes(obj[o])
        IN  Size(obj[o]) = MapThenSumSet(LAMBDA i : ElementSize(w[i]), DOMAIN w)

-----------------------------------------------------------------------------

\* The inductive invariant: Clear relies on what every function leaves.
IInv == TypeOK /\ \A o \in Object : obj[o] \in WellFormed(class)

=============================================================================
