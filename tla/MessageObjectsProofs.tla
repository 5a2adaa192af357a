------------------------- MODULE MessageObjectsProofs -------------------------
(***************************************************************************)
(* The generated classes for any values, any wires and any sequence of     *)
(* uses of their objects: what a parse yields depends on the wire alone,   *)
(* what is written is read back, and reading is merging.                   *)
(***************************************************************************)
EXTENDS MessageObjects, RpcMessagesProofs, FiniteSetTheorems

-----------------------------------------------------------------------------
(* The functions of class c.                                               *)

ClearOf(c, m) == IF c = "Request" THEN Request_Clear(m) ELSE Response_Clear(m)

BytesOf(c, m) == IF c = "Request" THEN Request_Serialize(m) ELSE Response_Serialize(m)

Parse(c, m, w) ==
    IF c = "Request" THEN Request_ParseFromArray(m, w) ELSE Response_ParseFromArray(m, w)

LEMMA WellFormedParts ==
    ASSUME NEW c \in Classes, NEW m \in WellFormed(c)
    PROVE  /\ m = [has |-> m.has, val |-> m.val, unknown |-> m.unknown]
           /\ m.has \subseteq FieldsOf[c] /\ m.val \in [FieldsOf[c] -> Value]
           /\ m.unknown \in Seq(Element)
           /\ \A f \in FieldsOf[c] \ m.has : m.val[f] = Default[f]
           /\ \A i \in DOMAIN m.unknown : Alien(c, m.unknown[i])
           /\ c = "Response" => m.val["status"] \in Status
  BY DEF WellFormed, Message

\* Clear may skip a field only because it has its default already.
LEMMA ClearLemma ==
    ASSUME NEW c \in Classes, NEW m \in WellFormed(c)
    PROVE  ClearOf(c, m) = New(FieldsOf[c])
  <1>1. /\ m.has \subseteq FieldsOf[c] /\ DOMAIN m.val = FieldsOf[c]
        /\ \A f \in FieldsOf[c] \ m.has : m.val[f] = Default[f]
    BY WellFormedParts
  <1>2. \A R : [f \in DOMAIN m.val |-> IF m.has # {} /\ f \in m.has \cup R THEN Default[f] ELSE m.val[f]]
               = [f \in FieldsOf[c] |-> Default[f]]
    BY <1>1
  <1>3. CASE c = "Request"
    BY <1>2, <1>3 DEF ClearOf, Request_Clear, New
  <1>4. CASE c = "Response"
    BY <1>2, <1>4 DEF ClearOf, Response_Clear, New
  <1> QED BY <1>3, <1>4 DEF Classes

LEMMA ParseLemma ==
    ASSUME NEW c \in Classes, NEW m \in WellFormed(c), NEW w \in Seq(Element)
    PROVE  /\ Parse(c, m, w) = Parse(c, New(FieldsOf[c]), w)
           /\ Parse(c, m, w).msg = Merge(c, [msg |-> New(FieldsOf[c]), at |-> "on"], w).msg
           /\ Parse(c, m, w).msg \in WellFormed(c)
           /\ Merge(c, [msg |-> New(FieldsOf[c]), at |-> "on"], w).at = "on" =>
                 Parse(c, m, w).ok = IsInitialized(Parse(c, m, w).msg, c)
  <1> DEFINE s0 == [msg |-> New(FieldsOf[c]), at |-> "on"]
             end == Merge(c, s0, w)
  <1>1. New(FieldsOf[c]) \in WellFormed(c)
    BY NewWellFormed
  <1>2. ClearOf(c, m) = New(FieldsOf[c]) /\ ClearOf(c, New(FieldsOf[c])) = New(FieldsOf[c])
    BY <1>1, ClearLemma
  <1>3. \A n : ClearOf(c, n) = New(FieldsOf[c]) =>
            Parse(c, n, w) = [ok |-> end.at = "on" /\ IsInitialized(end.msg, c), msg |-> end.msg]
    BY DEF Classes, ClearOf, Parse, Merge, Request_ParseFromArray, Response_ParseFromArray
  <1>4. s0 \in State(c)
    BY <1>1 DEF State
  <1>5. end \in State(c)
    BY <1>4, MergeLemma
  <1> HIDE DEF end
  <1>6. end.msg \in WellFormed(c)
    BY <1>5 DEF State
  <1>7. Parse(c, m, w) = [ok |-> end.at = "on" /\ IsInitialized(end.msg, c), msg |-> end.msg]
    BY <1>2, <1>3
  <1>8. end.at = "on" => (end.at = "on" /\ IsInitialized(end.msg, c)) = IsInitialized(end.msg, c)
    BY DEF IsInitialized
  <1> QED BY <1>2, <1>3, <1>6, <1>7, <1>8 DEF end

-----------------------------------------------------------------------------
(* Merging.                                                                *)

LEMMA ConcatElements ==
    ASSUME NEW S, NEW s \in Seq(S), NEW t \in Seq(S)
    PROVE  /\ s \o t \in Seq(S)
           /\ \A i \in DOMAIN (s \o t) : \/ \E j \in DOMAIN s : (s \o t)[i] = s[j]
                                         \/ \E j \in DOMAIN t : (s \o t)[i] = t[j]
  <1> DEFINE m == Len(s)
             n == Len(t)
             u == s \o t
  <1>1. m \in Nat /\ DOMAIN s = 1..m /\ n \in Nat /\ DOMAIN t = 1..n
    OBVIOUS
  <1>2. /\ u \in Seq(S) /\ Len(u) = m + n
        /\ \A i \in 1..(m + n) : u[i] = IF i <= m THEN s[i] ELSE t[i - m]
    BY ConcatProperties
  <1>3. DOMAIN u = 1..(m + n)
    BY <1>2
  <1> HIDE DEF m, n, u
  <1>4. ASSUME NEW i \in DOMAIN u
        PROVE  (\E j \in DOMAIN s : u[i] = s[j]) \/ (\E j \in DOMAIN t : u[i] = t[j])
    <2>1. CASE i <= m
      <3>1. i \in 1..m /\ u[i] = s[i]
        BY <1>1, <1>2, <1>3, <2>1
      <3> QED BY <1>1, <3>1
    <2>2. CASE ~(i <= m)
      <3>1. i - m \in 1..n /\ u[i] = t[i - m]
        BY <1>1, <1>2, <1>3, <2>2
      <3> QED BY <1>1, <3>1
    <2> QED BY <2>1, <2>2
  <1> QED BY <1>2, <1>4 DEF u

LEMMA OverlaidWellFormed ==
    ASSUME NEW c \in Classes, NEW m \in WellFormed(c), NEW n \in WellFormed(c)
    PROVE  Overlaid(m, n, FieldsOf[c]) \in WellFormed(c)
  <1> DEFINE o == Overlaid(m, n, FieldsOf[c])
  <1>1. /\ m.has \subseteq FieldsOf[c] /\ m.val \in [FieldsOf[c] -> Value]
        /\ m.unknown \in Seq(Element)
        /\ \A f \in FieldsOf[c] \ m.has : m.val[f] = Default[f]
        /\ \A i \in DOMAIN m.unknown : Alien(c, m.unknown[i])
        /\ c = "Response" => m.val["status"] \in Status
    BY WellFormedParts
  <1>2. /\ n.has \subseteq FieldsOf[c] /\ n.val \in [FieldsOf[c] -> Value]
        /\ n.unknown \in Seq(Element)
        /\ \A f \in FieldsOf[c] \ n.has : n.val[f] = Default[f]
        /\ \A i \in DOMAIN n.unknown : Alien(c, n.unknown[i])
        /\ c = "Response" => n.val["status"] \in Status
    BY WellFormedParts
  <1>3. /\ o.has = m.has \cup n.has /\ o.unknown = m.unknown \o n.unknown
        /\ o.val = [f \in FieldsOf[c] |-> IF f \in n.has THEN n.val[f] ELSE m.val[f]]
        /\ o = [has |-> o.has, val |-> o.val, unknown |-> o.unknown]
    BY <1>1, <1>2 DEF Overlaid
  <1> HIDE DEF o
  <1>4. o.unknown \in Seq(Element)
    BY <1>1, <1>2, <1>3, ConcatElements
  <1>5. ASSUME NEW i \in DOMAIN o.unknown PROVE Alien(c, o.unknown[i])
    <2>1. \/ \E j \in DOMAIN m.unknown : o.unknown[i] = m.unknown[j]
          \/ \E j \in DOMAIN n.unknown : o.unknown[i] = n.unknown[j]
      <3> DEFINE x == m.unknown
                 y == n.unknown
      <3>1. x \in Seq(Element) /\ y \in Seq(Element) /\ o.unknown = x \o y
        BY <1>1, <1>2, <1>3
      <3> HIDE DEF x, y
      <3>2. \A k \in DOMAIN (x \o y) : \/ \E j \in DOMAIN x : (x \o y)[k] = x[j]
                                       \/ \E j \in DOMAIN y : (x \o y)[k] = y[j]
        BY <3>1, ConcatElements
      <3> QED BY <3>1, <3>2 DEF x, y
    <2> QED BY <1>1, <1>2, <2>1
  <1>6. o.val \in [FieldsOf[c] -> Value] /\ o.has \subseteq FieldsOf[c]
    BY <1>1, <1>2, <1>3
  <1>7. o \in Message(FieldsOf[c])
    BY <1>3, <1>4, <1>6 DEF Message
  <1>8. \A f \in FieldsOf[c] \ o.has : o.val[f] = Default[f]
    BY <1>1, <1>3
  <1>9. c = "Response" => o.val["status"] \in Status
    <2>1. c = "Response" => "status" \in FieldsOf[c]
      BY DEF FieldsOf, ResponseFields
    <2> QED BY <1>1, <1>2, <1>3, <2>1
  <1> QED BY <1>5, <1>7, <1>8, <1>9 DEF WellFormed, o

\* Merging into an object that is as good as new is copying.
LEMMA OverlaidNew ==
    ASSUME NEW c \in Classes, NEW n \in WellFormed(c)
    PROVE  Overlaid(New(FieldsOf[c]), n, FieldsOf[c]) = n
  <1>1. /\ n = [has |-> n.has, val |-> n.val, unknown |-> n.unknown]
        /\ n.has \subseteq FieldsOf[c] /\ n.val \in [FieldsOf[c] -> Value]
        /\ n.unknown \in Seq(Element)
        /\ \A f \in FieldsOf[c] \ n.has : n.val[f] = Default[f]
    BY WellFormedParts
  <1>2. <<>> \o n.unknown = n.unknown
    BY <1>1, ConcatEmptySeq
  <1>3. [f \in FieldsOf[c] |-> IF f \in n.has \cap FieldsOf[c] THEN n.val[f] ELSE Default[f]] = n.val
    BY <1>1
  <1>4. {} \cup (n.has \cap FieldsOf[c]) = n.has
    BY <1>1
  <1>5. Overlaid(New(FieldsOf[c]), n, FieldsOf[c])
        = [has |-> {} \cup (n.has \cap FieldsOf[c]),
           val |-> [f \in FieldsOf[c] |->
                      IF f \in n.has \cap FieldsOf[c] THEN n.val[f] ELSE Default[f]],
           unknown |-> <<>> \o n.unknown]
    BY DEF Overlaid, New
  <1> QED BY <1>1, <1>2, <1>3, <1>4, <1>5

-----------------------------------------------------------------------------
(* Reading what was written.                                               *)

On(m) == [msg |-> m, at |-> "on"]

WithUnknown(m, u) == [has |-> m.has, val |-> m.val, unknown |-> u]

LEMMA AddUnknownIs ==
    ASSUME NEW m, NEW u, NEW e
    PROVE  AddUnknown(On(WithUnknown(m, u)), e) = On(WithUnknown(m, Append(u, e)))
  <1> DEFINE s == On(WithUnknown(m, u))
             t == AddUnknown(s, e)
             n == t.msg
  <1>1. t \in [msg : {n}, at : {"on"}]
    BY DEF AddUnknown, On, WithUnknown
  <1>2. n \in [has : {m.has}, val : {m.val}, unknown : {Append(u, e)}]
    BY DEF AddUnknown, On, WithUnknown
  <1> HIDE DEF n
  <1>3. n = WithUnknown(m, Append(u, e))
    BY <1>2 DEF WithUnknown
  <1> HIDE DEF t
  <1>4. t = On(n)
    BY <1>1 DEF On
  <1> QED BY <1>3, <1>4 DEF t

LEMMA ConcatAppend ==
    ASSUME NEW a \in Seq(Element), NEW b \in Seq(Element), NEW e \in Element
    PROVE  a \o (b \o <<e>>) = Append(a \o b, e)
  <1>1. <<e>> \in Seq(Element) /\ a \o b \in Seq(Element)
    BY ConcatProperties
  <1>2. (a \o b) \o <<e>> = a \o (b \o <<e>>)
    BY <1>1, ConcatAssociative
  <1>3. Append(a \o b, e) = (a \o b) \o <<e>>
    BY <1>1, AppendIsConcat
  <1> QED BY <1>2, <1>3

\* Elements that the class does not know are collected in their order.
LEMMA ReadUnknown ==
    ASSUME NEW c \in Classes, NEW m \in WellFormed(c), NEW u \in Seq(Element),
           \A i \in DOMAIN u : Alien(c, u[i])
    PROVE  Merge(c, On(m), u) = On(WithUnknown(m, m.unknown \o u))
  <1> DEFINE n == Len(u)
             P(j) == SubSeq(u, 1, j)
             S == [j \in 0..n |-> {On(WithUnknown(m, m.unknown \o P(j)))}]
  <1>1. n \in Nat /\ DOMAIN u = 1..n
    OBVIOUS
  <1>2. P(0) = <<>> /\ P(n) = u
    BY SubSeqEmpty, SubSeqFull
  <1> HIDE DEF P
  <1>3. m.unknown \in Seq(Element) /\ m = [has |-> m.has, val |-> m.val, unknown |-> m.unknown]
    BY WellFormedParts
  <1>4. On(m) \in S[0]
    <2>1. m.unknown \o <<>> = m.unknown
      BY <1>3, ConcatEmptySeq
    <2>2. WithUnknown(m, m.unknown \o <<>>) = m
      BY <1>3, <2>1 DEF WithUnknown
    <2>3. S[0] = {On(WithUnknown(m, m.unknown \o P(0)))}
      BY <1>1
    <2> QED BY <1>2, <2>2, <2>3
  <1>5. ASSUME NEW j \in 1..n, NEW s \in S[j - 1] PROVE Read(c, s, u[j]) \in S[j]
    <2>1. j - 1 \in 0..n /\ j \in 0..n /\ u[j] \in Element /\ Alien(c, u[j])
      BY <1>1
    <2>2. P(j) = P(j - 1) \o <<u[j]>>
      <3>1. 1 \in 1..Len(u) /\ j \in 1..Len(u)
        BY <1>1
      <3> QED BY <3>1, SubSeqRecursiveSecond DEF P
    <2>3. P(j - 1) \in Seq(Element)
      <3>1. \A i \in 1..(j - 1) : u[i] \in Element
        BY <1>1
      <3>2. 1 \in Int /\ j - 1 \in Int
        BY <1>1
      <3> QED BY <3>1, <3>2, SubSeqProperties DEF P
    <2> DEFINE x == m.unknown \o P(j - 1)
    <2>4. m.unknown \o P(j) = Append(x, u[j])
      <3>1. m.unknown \o (P(j - 1) \o <<u[j]>>) = Append(m.unknown \o P(j - 1), u[j])
        BY <1>3, <2>1, <2>3, ConcatAppend
      <3> QED BY <2>2, <3>1
    <2>5. s = On(WithUnknown(m, x))
      BY <2>1
    <2>6. Read(c, s, u[j]) = On(WithUnknown(m, Append(x, u[j])))
      <3> HIDE DEF x
      <3>1. s.at = "on"
        BY <2>5 DEF On
      <3>2. Read(c, s, u[j]) = AddUnknown(s, u[j])
        BY <2>1, <3>1 DEF Alien, Classes, FieldsOf, Read, Request_Read, Response_Read, Irregular
      <3> QED BY <2>5, <3>2, AddUnknownIs
    <2>7. S[j] = {On(WithUnknown(m, m.unknown \o P(j)))}
      BY <2>1
    <2> QED BY <2>4, <2>6, <2>7
  <1>6. S[n] = {On(WithUnknown(m, m.unknown \o u))}
    BY <1>1, <1>2
  <1> HIDE DEF S
  <1>7. Merge(c, On(m), u) \in S[Len(u)]
    BY <1>4, <1>5, MergeInvariant
  <1> QED BY <1>6, <1>7

\* m with the field f of n, if that is set.
With(m, n, f) == IF f \in n.has THEN SetField(m, f, n.val[f]) ELSE m

LEMMA ReadWritten ==
    ASSUME NEW c \in Classes, NEW m \in WellFormed(c), NEW n \in WellFormed(c),
           NEW f \in FieldsOf[c]
    PROVE  /\ Written(n, f) \in Seq(Element)
           /\ With(m, n, f) \in WellFormed(c)
           /\ Merge(c, On(m), Written(n, f)) = On(With(m, n, f))
  <1> DEFINE v == n.val[f]
             e == <<f, v>>
  <1>1. /\ v \in Value /\ (f = "status" => v \in Status)
        /\ f \in Tag /\ f \notin {"cut", "end"}
    <2>1. f \in {"id", "method_identity", "status", "message"} /\ (f = "status" => c = "Response")
      BY DEF Classes, FieldsOf, RequestFields, ResponseFields
    <2>2. f \in Tag
      BY <2>1 DEF Tag, RequestFields, ResponseFields
    <2>3. n.val \in [FieldsOf[c] -> Value] /\ (c = "Response" => n.val["status"] \in Status)
      BY WellFormedParts
    <2> QED BY <2>1, <2>2, <2>3
  <1>2. e \in Element /\ e[1] = f /\ e[2] = v
    BY <1>1 DEF Element
  <1> HIDE DEF v, e
  <1>3. CASE f \in n.has
    <2>1. Written(n, f) = <<e>> /\ With(m, n, f) = SetField(m, f, v)
      BY <1>3 DEF Written, With, v, e
    <2>2. Read(c, On(m), e) = On(SetField(m, f, v))
      BY <1>1, <1>2 DEF Classes, FieldsOf, RequestFields, ResponseFields, Read, Request_Read,
         Response_Read, Status_IsValid, On
    <2>3. SetField(m, f, v) \in WellFormed(c)
      BY <1>1, SetFieldWellFormed
    <2>4. Merge(c, On(m), <<e>>) = Read(c, On(m), e)
      BY <1>2, MergeOne
    <2> QED BY <1>2, <2>1, <2>2, <2>3, <2>4
  <1>4. CASE f \notin n.has
    <2>1. Written(n, f) = <<>> /\ With(m, n, f) = m
      BY <1>4 DEF Written, With
    <2>2. Merge(c, On(m), <<>>) = On(m)
      BY MergeEmpty
    <2> QED BY <2>1, <2>2
  <1> QED BY <1>3, <1>4

LEMMA WithParts ==
    ASSUME NEW c \in Classes, NEW m \in WellFormed(c), NEW n \in WellFormed(c),
           NEW f \in FieldsOf[c]
    PROVE  /\ With(m, n, f).has = m.has \cup (n.has \cap {f})
           /\ With(m, n, f).unknown = m.unknown
           /\ \A g \in FieldsOf[c] :
                 With(m, n, f).val[g] = IF g = f /\ g \in n.has THEN n.val[g] ELSE m.val[g]
  <1>1. m \in Message(FieldsOf[c]) /\ n.val[f] \in Value
    BY WellFormedParts DEF WellFormed
  <1>2. CASE f \in n.has
    <2> DEFINE v == n.val[f]
               x == SetField(m, f, v)
    <2>1. With(m, n, f) = x /\ v \in Value
      BY <1>1, <1>2 DEF With
    <2> HIDE DEF v
    <2>2. /\ x.has = m.has \cup {f} /\ x.unknown = m.unknown
          /\ \A g \in FieldsOf[c] : x.val[g] = IF g = f THEN v ELSE m.val[g]
      BY <1>1, <2>1, SetFieldParts
    <2> HIDE DEF x
    <2> QED BY <1>2, <2>1, <2>2 DEF v
  <1>3. CASE f \notin n.has
    BY <1>3 DEF With
  <1> QED BY <1>2, <1>3

\* Reading the bytes of n into m is merging n into m.
LEMMA ReadBytes ==
    ASSUME NEW c \in Classes, NEW m \in WellFormed(c), NEW n \in WellFormed(c)
    PROVE  /\ BytesOf(c, n) \in Seq(Element)
           /\ Merge(c, On(m), BytesOf(c, n)) = On(Overlaid(m, n, FieldsOf[c]))
  <1> DEFINE u == n.unknown
  <1>1. u \in Seq(Element) /\ \A i \in DOMAIN u : Alien(c, u[i])
    BY WellFormedParts
  <1>2. ASSUME NEW x \in WellFormed(c), x.unknown = m.unknown, x.has = m.has \cup n.has,
               \A g \in FieldsOf[c] : x.val[g] = IF g \in n.has THEN n.val[g] ELSE m.val[g]
        PROVE  Merge(c, On(x), u) = On(Overlaid(m, n, FieldsOf[c]))
    <2>1. Merge(c, On(x), u) = On(WithUnknown(x, x.unknown \o u))
      BY <1>1, ReadUnknown
    <2>2. /\ x.val \in [FieldsOf[c] -> Value] /\ DOMAIN m.val = FieldsOf[c]
          /\ n.has \cap FieldsOf[c] = n.has
      BY WellFormedParts
    <2>3. x.val = [f \in DOMAIN m.val |->
                     IF f \in n.has \cap FieldsOf[c] THEN n.val[f] ELSE m.val[f]]
      BY <1>2, <2>2
    <2>4. WithUnknown(x, x.unknown \o u) = Overlaid(m, n, FieldsOf[c])
      BY <1>2, <2>2, <2>3 DEF WithUnknown, Overlaid
    <2> QED BY <2>1, <2>4
  <1> HIDE DEF u
  <1>3. CASE c = "Request"
    <2> DEFINE p == Written(n, "id")
               q == Written(n, "method_identity")
               x == With(m, n, "id")
               y == With(x, n, "method_identity")
    <2>1. "id" \in FieldsOf[c] /\ "method_identity" \in FieldsOf[c] /\ FieldsOf[c] = {"id", "method_identity"}
      BY <1>3 DEF FieldsOf, RequestFields
    <2>2. p \in Seq(Element) /\ x \in WellFormed(c) /\ Merge(c, On(m), p) = On(x)
      BY <2>1, ReadWritten
    <2>3. q \in Seq(Element) /\ y \in WellFormed(c) /\ Merge(c, On(x), q) = On(y)
      BY <2>1, <2>2, ReadWritten
    <2>4. /\ x.has = m.has \cup (n.has \cap {"id"}) /\ x.unknown = m.unknown
          /\ \A g \in FieldsOf[c] : x.val[g] = IF g = "id" /\ g \in n.has THEN n.val[g] ELSE m.val[g]
      BY <2>1, WithParts
    <2>5. /\ y.has = x.has \cup (n.has \cap {"method_identity"}) /\ y.unknown = x.unknown
          /\ \A g \in FieldsOf[c] :
                y.val[g] = IF g = "method_identity" /\ g \in n.has THEN n.val[g] ELSE x.val[g]
      BY <2>1, <2>2, WithParts
    <2>6. BytesOf(c, n) = (p \o q) \o u
      BY <1>3 DEF BytesOf, Request_Serialize, u
    <2> DEFINE pq == p \o q
    <2> HIDE DEF p, q, x, y
    <2>7. y.has = m.has \cup n.has
      <3>1. n.has \subseteq FieldsOf[c]
        BY WellFormedParts
      <3> QED BY <2>1, <2>4, <2>5, <3>1
    <2>8. \A g \in FieldsOf[c] : y.val[g] = IF g \in n.has THEN n.val[g] ELSE m.val[g]
      BY <2>1, <2>4, <2>5
    <2>9. Merge(c, On(y), u) = On(Overlaid(m, n, FieldsOf[c]))
      BY <1>2, <2>3, <2>4, <2>5, <2>7, <2>8
    <2>10. pq \in Seq(Element)
      BY <2>2, <2>3, ConcatProperties
    <2>11. Merge(c, On(m), pq) = On(y)
      BY <2>2, <2>3, MergeConcat
    <2>12. BytesOf(c, n) = pq \o u
      BY <2>6
    <2> HIDE DEF pq
    <2>13. pq \o u \in Seq(Element)
      BY <1>1, <2>10, ConcatProperties
    <2>14. Merge(c, On(m), pq \o u) = Merge(c, On(y), u)
      BY <1>1, <2>10, <2>11, MergeConcat
    <2> QED BY <2>9, <2>12, <2>13, <2>14
  <1>4. CASE c = "Response"
    <2> DEFINE p == Written(n, "id")
               q == Written(n, "status")
               r == Written(n, "message")
               x == With(m, n, "id")
               y == With(x, n, "status")
               z == With(y, n, "message")
    <2>1. /\ "id" \in FieldsOf[c] /\ "status" \in FieldsOf[c] /\ "message" \in FieldsOf[c]
          /\ FieldsOf[c] = {"id", "status", "message"}
      BY <1>4 DEF FieldsOf, ResponseFields
    <2>2. p \in Seq(Element) /\ x \in WellFormed(c) /\ Merge(c, On(m), p) = On(x)
      BY <2>1, ReadWritten
    <2>3. q \in Seq(Element) /\ y \in WellFormed(c) /\ Merge(c, On(x), q) = On(y)
      BY <2>1, <2>2, ReadWritten
    <2>4. r \in Seq(Element) /\ z \in WellFormed(c) /\ Merge(c, On(y), r) = On(z)
      BY <2>1, <2>3, ReadWritten
    <2>5. /\ x.has = m.has \cup (n.has \cap {"id"}) /\ x.unknown = m.unknown
          /\ \A g \in FieldsOf[c] : x.val[g] = IF g = "id" /\ g \in n.has THEN n.val[g] ELSE m.val[g]
      BY <2>1, WithParts
    <2>6. /\ y.has = x.has \cup (n.has \cap {"status"}) /\ y.unknown = x.unknown
          /\ \A g \in FieldsOf[c] :
                y.val[g] = IF g = "status" /\ g \in n.has THEN n.val[g] ELSE x.val[g]
      BY <2>1, <2>2, WithParts
    <2>7. /\ z.has = y.has \cup (n.has \cap {"message"}) /\ z.unknown = y.unknown
          /\ \A g \in FieldsOf[c] :
                z.val[g] = IF g = "message" /\ g \in n.has THEN n.val[g] ELSE y.val[g]
      BY <2>1, <2>3, WithParts
    <2>8. BytesOf(c, n) = ((p \o q) \o r) \o u
      BY <1>4 DEF BytesOf, Response_Serialize, u
    <2> DEFINE pq == p \o q
               pqr == pq \o r
    <2> HIDE DEF p, q, r, x, y, z
    <2>9. z.has = m.has \cup n.has
      <3>1. n.has \subseteq FieldsOf[c]
        BY WellFormedParts
      <3> QED BY <2>1, <2>5, <2>6, <2>7, <3>1
    <2>10. \A g \in FieldsOf[c] : z.val[g] = IF g \in n.has THEN n.val[g] ELSE m.val[g]
      BY <2>1, <2>5, <2>6, <2>7
    <2>11. Merge(c, On(z), u) = On(Overlaid(m, n, FieldsOf[c]))
      BY <1>2, <2>4, <2>5, <2>6, <2>7, <2>9, <2>10
    <2>12. pq \in Seq(Element) /\ Merge(c, On(m), pq) = On(y)
      BY <2>2, <2>3, MergeConcat, ConcatProperties
    <2>13. BytesOf(c, n) = pqr \o u
      BY <2>8
    <2> HIDE DEF pq
    <2>14. pqr \in Seq(Element) /\ Merge(c, On(m), pqr) = On(z)
      BY <2>4, <2>12, MergeConcat, ConcatProperties
    <2> HIDE DEF pqr
    <2>15. pqr \o u \in Seq(Element)
      BY <1>1, <2>14, ConcatProperties
    <2>16. Merge(c, On(m), pqr \o u) = Merge(c, On(z), u)
      BY <1>1, <2>14, MergeConcat
    <2> QED BY <2>11, <2>13, <2>15, <2>16
  <1> QED BY <1>3, <1>4 DEF Classes

-----------------------------------------------------------------------------
(* The invariant.                                                          *)

\* The virtual functions are those of the class of the objects.
LEMMA Virtual ==
    ASSUME class \in Class
    PROVE  /\ class \in Classes /\ Fields = FieldsOf[class] /\ Fresh = New(FieldsOf[class])
           /\ \A m : Cleared(m) = ClearOf(class, m) /\ Bytes(m) = BytesOf(class, m)
           /\ \A m, n : Merged(m, n) = Overlaid(m, n, FieldsOf[class])
           /\ \A m, w : Parsed(m, w) = Parse(class, m, w)
  BY DEF Class, Classes, Fields, Fresh, FieldsOf, Request_SharedCtor, Response_SharedCtor,
     Cleared, ClearOf, Bytes, BytesOf, Merged, Request_MergeFrom, Response_MergeFrom, Parsed, Parse

LEMMA WellFormedType ==
    ASSUME NEW c \in Class, NEW m \in WellFormed(c)
    PROVE  m \in Message(FieldsOf[c]) /\ (c = "Response" => m.val["status"] \in Status)
  BY DEF WellFormed

LEMMA InitLemma == Init => IInv
  <1> SUFFICES ASSUME Init PROVE IInv
    OBVIOUS
  <1>1. class \in Class /\ \A o \in Object : obj[o] = Fresh
    BY DEF Init
  <1>2. class \in Classes /\ Fields = FieldsOf[class] /\ Fresh = New(FieldsOf[class])
    BY <1>1, Virtual
  <1>3. New(FieldsOf[class]) \in WellFormed(class)
    BY <1>2, NewWellFormed
  <1>4. \A o \in Object : obj[o] \in WellFormed(class)
    BY <1>1, <1>2, <1>3
  <1>5. \A o \in Object : obj[o] \in Message(Fields) /\ (class = "Response" => obj[o].val["status"] \in Status)
    BY <1>1, <1>2, <1>4, WellFormedType
  <1>6. obj \in [Object -> Message(Fields)]
    BY <1>5 DEF Init
  <1>7. \A o \in Object : Len(obj[o].unknown) <= MaxUnknown
    <2>1. New(FieldsOf[class]).unknown = <<>>
      BY DEF New
    <2>2. Len(<<>>) = 0 /\ 0 <= MaxUnknown
      BY MessageAssumption
    <2> QED BY <1>1, <1>2, <2>1, <2>2
  <1> QED BY <1>1, <1>4, <1>5, <1>6, <1>7 DEF IInv, TypeOK

\* Every action but Swap puts one well-formed object in place.
LEMMA PutLemma ==
    ASSUME IInv, NEW o \in Object, NEW m \in WellFormed(class), Put(o, m)
    PROVE  IInv'
  <1>1. class \in Class /\ class' = class /\ Len(m.unknown) <= MaxUnknown
    BY DEF IInv, TypeOK, Put
  <1>2. m \in Message(Fields) /\ (class = "Response" => m.val["status"] \in Status)
    BY <1>1, WellFormedType DEF Fields
  <1>3. obj \in [Object -> Message(Fields)]
    BY DEF IInv, TypeOK
  <1>4. obj' \in [Object -> Message(Fields)] /\ \A p \in Object : obj'[p] = IF p = o THEN m ELSE obj[p]
    BY <1>2, <1>3 DEF Put
  <1>5. \A p \in Object : Len(obj[p].unknown) <= MaxUnknown
                          /\ (class = "Response" => obj[p].val["status"] \in Status)
                          /\ obj[p] \in WellFormed(class)
    BY DEF IInv, TypeOK
  <1>6. \A p \in Object : Len(obj'[p].unknown) <= MaxUnknown
                          /\ (class = "Response" => obj'[p].val["status"] \in Status)
                          /\ obj'[p] \in WellFormed(class)
    BY <1>1, <1>2, <1>4, <1>5
  <1>7. Fields' = Fields
    BY <1>1 DEF Fields
  <1> QED BY <1>1, <1>4, <1>6, <1>7 DEF IInv, TypeOK

LEMMA ClearFieldWellFormed ==
    ASSUME NEW c \in Classes, NEW m \in WellFormed(c), NEW f \in FieldsOf[c]
    PROVE  ClearField(m, f) \in WellFormed(c)
  <1> DEFINE n == ClearField(m, f)
             d == Default[f]
  <1>1. /\ m = [has |-> m.has, val |-> m.val, unknown |-> m.unknown]
        /\ m.has \subseteq FieldsOf[c] /\ m.val \in [FieldsOf[c] -> Value]
        /\ m.unknown \in Seq(Element)
        /\ \A g \in FieldsOf[c] \ m.has : m.val[g] = Default[g]
        /\ \A i \in DOMAIN m.unknown : Alien(c, m.unknown[i])
        /\ c = "Response" => m.val["status"] \in Status
    BY WellFormedParts
  <1>2. d \in Value
    <2>1. New(FieldsOf[c]) \in WellFormed(c) /\ New(FieldsOf[c]).val[f] = d
      BY NewWellFormed DEF New
    <2> QED BY <2>1, WellFormedParts
  <1>3. f = "status" => d \in Status
    BY DEF Default, Status
  <1> HIDE DEF d
  <1>4. n.has = m.has \ {f} /\ n.val = [m.val EXCEPT ![f] = d] /\ n.unknown = m.unknown
    BY <1>1 DEF ClearField, d
  <1>5. n \in [{"has", "val", "unknown"} -> {m.has \ {f}, n.val, m.unknown}]
    BY <1>1, <1>4 DEF ClearField
  <1> HIDE DEF n
  <1>6. n = [has |-> n.has, val |-> n.val, unknown |-> n.unknown]
    BY <1>5
  <1>7. n.val \in [FieldsOf[c] -> Value] /\ \A g \in FieldsOf[c] : n.val[g] = IF g = f THEN d ELSE m.val[g]
    BY <1>1, <1>2, <1>4
  <1>8. n \in Message(FieldsOf[c])
    BY <1>1, <1>4, <1>6, <1>7 DEF Message
  <1>9. c = "Response" => n.val["status"] \in Status
    BY <1>1, <1>3, <1>7 DEF FieldsOf, ResponseFields
  <1>10. \A g \in FieldsOf[c] \ n.has : n.val[g] = Default[g]
    BY <1>1, <1>4, <1>7 DEF d
  <1>11. \A i \in DOMAIN n.unknown : Alien(c, n.unknown[i])
    BY <1>1, <1>4
  <1> QED BY <1>8, <1>9, <1>10, <1>11 DEF WellFormed, n

LEMMA AccessedLemma ==
    ASSUME class \in Class, NEW m \in WellFormed(class), NEW n \in Accessed(m)
    PROVE  n \in WellFormed(class)
  <1>1. /\ class \in Classes /\ m.val \in [FieldsOf[class] -> Value]
        /\ class = "Response" => m.val["status"] \in Status
    BY WellFormedParts DEF Class, Classes
  <1>2. /\ Values.id \subseteq Value /\ Values.method_identity \subseteq Value
        /\ Values.status \subseteq Value /\ Values.message \subseteq Value
        /\ Values.status \subseteq Status
    BY MessageAssumption DEF RequestFields, ResponseFields
  <1>3. \A f \in FieldsOf[class] : ClearField(m, f) \in WellFormed(class)
    BY <1>1, ClearFieldWellFormed
  <1>4. \A f \in FieldsOf[class], v \in Value :
            (f = "status" => v \in Status) => SetField(m, f, v) \in WellFormed(class)
    BY <1>1, SetFieldWellFormed
  <1>5. CASE class = "Request"
    <2>1. FieldsOf[class] = RequestFields /\ "id" \in RequestFields /\ "method_identity" \in RequestFields
      BY <1>5 DEF FieldsOf, RequestFields
    <2>2. m.val.method_identity \in Value
      BY <1>1, <2>1
    <2>3. n \in Request_Accessed(m, Values)
      BY <1>5 DEF Accessed
    <2> QED BY <1>2, <1>3, <1>4, <2>1, <2>2, <2>3 DEF Request_Accessed
  <1>6. CASE class = "Response"
    <2>1. /\ FieldsOf[class] = ResponseFields
          /\ "id" \in ResponseFields /\ "status" \in ResponseFields /\ "message" \in ResponseFields
      BY <1>6 DEF FieldsOf, ResponseFields
    <2>2. m.val.message \in Value
      BY <1>1, <2>1
    <2>3. n \in Response_Accessed(m, Values)
      BY <1>6 DEF Accessed
    <2> QED BY <1>2, <1>3, <1>4, <2>1, <2>2, <2>3 DEF Response_Accessed
  <1> QED BY <1>5, <1>6 DEF Class

LEMMA StepLemma == IInv /\ [Next]_vars => IInv'
  <1> SUFFICES ASSUME IInv, [Next]_vars PROVE IInv'
    OBVIOUS
  <1>1. /\ class \in Class /\ class \in Classes
        /\ \A o \in Object : obj[o] \in WellFormed(class)
        /\ \A m : Cleared(m) = ClearOf(class, m)
        /\ \A m, n : Merged(m, n) = Overlaid(m, n, FieldsOf[class])
        /\ \A m, w : Parsed(m, w) = Parse(class, m, w)
    BY Virtual DEF IInv, TypeOK
  <1>2. ASSUME NEW o \in Object PROVE Cleared(obj[o]) \in WellFormed(class)
    BY <1>1, ClearLemma, NewWellFormed
  <1>3. ASSUME NEW o \in Object, Clear(o) PROVE IInv'
    BY <1>2, <1>3, PutLemma DEF Clear
  <1>4. ASSUME NEW o \in Object, Access(o) PROVE IInv'
    <2>1. PICK m \in Accessed(obj[o]) : Put(o, m)
      BY <1>4 DEF Access
    <2>2. m \in WellFormed(class)
      BY <1>1, <2>1, AccessedLemma
    <2> QED BY <2>1, <2>2, PutLemma
  <1>5. ASSUME NEW o \in Object, NEW p \in Object, MergeFrom(o, p) PROVE IInv'
    <2>1. Merged(obj[o], obj[p]) \in WellFormed(class)
      BY <1>1, OverlaidWellFormed
    <2> QED BY <1>5, <2>1, PutLemma DEF MergeFrom
  <1>6. ASSUME NEW o \in Object, NEW p \in Object, CopyFrom(o, p) PROVE IInv'
    <2>1. Merged(Cleared(obj[o]), obj[p]) \in WellFormed(class)
      BY <1>1, <1>2, OverlaidWellFormed
    <2> QED BY <1>6, <2>1, PutLemma DEF CopyFrom
  <1>7. ASSUME NEW o \in Object, NEW w \in Wires[class], ParseFromArray(o, w) PROVE IInv'
    <2>1. w \in Seq(Element)
      BY <1>1, MessageAssumption
    <2>2. Parsed(obj[o], w).msg \in WellFormed(class)
      BY <1>1, <2>1, ParseLemma
    <2> QED BY <1>7, <2>2, PutLemma DEF ParseFromArray
  <1>8. CASE Swap
    <2>1. class' = class /\ Fields' = Fields /\ \A o \in Object : 3 - o \in Object /\ obj'[o] = obj[3 - o]
      BY <1>8 DEF Swap, Fields, Object
    <2>2. obj \in [Object -> Message(Fields)]
      BY DEF IInv, TypeOK
    <2>3. obj' \in [Object -> Message(Fields)]
      BY <1>8, <2>1, <2>2 DEF Swap
    <2> QED BY <2>1, <2>3 DEF IInv, TypeOK
  <1>9. CASE UNCHANGED vars
    BY <1>9 DEF vars, IInv, TypeOK, Fields
  <1> QED BY <1>3, <1>4, <1>5, <1>6, <1>7, <1>8, <1>9 DEF Next

\* Whatever is done to the objects, each of them has the defaults in the fields
\* that are not set, which the Clear of the generated classes relies on.
THEOREM Invariance == Spec => []IInv
  BY InitLemma, StepLemma, PTL DEF Spec

\* Objects stay objects of their class.
THEOREM TypeCorrect == Spec => []TypeOK
  <1>1. IInv => TypeOK
    BY DEF IInv
  <1> QED BY <1>1, Invariance, PTL

-----------------------------------------------------------------------------
(* The properties.                                                         *)

LEMMA Parts ==
    ASSUME IInv
    PROVE  /\ class \in Class /\ class \in Classes /\ Fresh = New(FieldsOf[class])
           /\ Fresh \in WellFormed(class)
           /\ \A o \in Object : obj[o] \in WellFormed(class)
           /\ \A m : Bytes(m) = BytesOf(class, m)
           /\ \A m, n : Merged(m, n) = Overlaid(m, n, FieldsOf[class])
           /\ \A m, w : Parsed(m, w) = Parse(class, m, w)
  BY Virtual, NewWellFormed DEF IInv, TypeOK

\* ParseFromArray yields what it would yield in a new object, for every wire: a
\* failed parse leaves nothing that Clear would overlook.
THEOREM ParseDependsOnWire == Spec => []ParseForgets
  <1>1. ASSUME IInv PROVE ParseForgets
    <2>1. SUFFICES ASSUME NEW o \in Object, NEW w \in Wires[class]
                   PROVE  Parsed(obj[o], w) = Parsed(Fresh, w)
      BY DEF ParseForgets
    <2>2. w \in Seq(Element)
      BY <1>1, Parts, MessageAssumption
    <2>3. Parse(class, obj[o], w) = Parse(class, New(FieldsOf[class]), w)
      BY <1>1, <2>2, Parts, ParseLemma
    <2> QED BY <1>1, <2>3, Parts
  <1> QED BY <1>1, Invariance, PTL

\* SerializeWithCachedSizes and MergePartialFromCodedStream are inverse to each
\* other on every object that can arise.
THEOREM WireKeepsAll == Spec => []RoundTrip
  <1>1. ASSUME IInv PROVE RoundTrip
    <2>1. ASSUME NEW o \in Object, NEW p \in Object
          PROVE  /\ Parsed(obj[p], Bytes(obj[o])).msg = obj[o]
                 /\ Parsed(obj[p], Bytes(obj[o])).ok = IsInitialized(obj[o], class)
      <3> DEFINE w == BytesOf(class, obj[o])
                 s0 == [msg |-> New(FieldsOf[class]), at |-> "on"]
      <3>1. w \in Seq(Element) /\ Merge(class, On(New(FieldsOf[class])), w)
                                  = On(Overlaid(New(FieldsOf[class]), obj[o], FieldsOf[class]))
        BY <1>1, Parts, ReadBytes
      <3>2. Overlaid(New(FieldsOf[class]), obj[o], FieldsOf[class]) = obj[o]
        BY <1>1, Parts, OverlaidNew
      <3> HIDE DEF w
      <3>3. Merge(class, s0, w).msg = obj[o] /\ Merge(class, s0, w).at = "on"
        BY <3>1, <3>2 DEF On
      <3>4. /\ Parse(class, obj[p], w).msg = Merge(class, s0, w).msg
            /\ Merge(class, s0, w).at = "on" =>
                  Parse(class, obj[p], w).ok = IsInitialized(Parse(class, obj[p], w).msg, class)
        BY <1>1, <3>1, Parts, ParseLemma
      <3>5. Parsed(obj[p], Bytes(obj[o])) = Parse(class, obj[p], w)
        BY <1>1, Parts DEF w
      <3> QED BY <3>3, <3>4, <3>5
    <2> QED BY <2>1 DEF RoundTrip
  <1> QED BY <1>1, Invariance, PTL

\* Concatenated messages are read as if they had been merged.
THEOREM ReadingMerges == Spec => []ConcatIsMerge
  <1>1. ASSUME IInv PROVE ConcatIsMerge
    <2>1. ASSUME NEW o \in Object, NEW p \in Object
          PROVE  Parsed(Fresh, Bytes(obj[o]) \o Bytes(obj[p])).msg = Merged(obj[o], obj[p])
      <3> DEFINE u == BytesOf(class, obj[o])
                 v == BytesOf(class, obj[p])
                 w == u \o v
                 n == New(FieldsOf[class])
                 s0 == [msg |-> n, at |-> "on"]
      <3>1. n \in WellFormed(class)
        BY <1>1, Parts
      <3>2. u \in Seq(Element) /\ Merge(class, On(n), u) = On(Overlaid(n, obj[o], FieldsOf[class]))
        BY <1>1, <3>1, Parts, ReadBytes
      <3>3. Overlaid(n, obj[o], FieldsOf[class]) = obj[o]
        BY <1>1, Parts, OverlaidNew
      <3>4. v \in Seq(Element) /\ Merge(class, On(obj[o]), v)
                                  = On(Overlaid(obj[o], obj[p], FieldsOf[class]))
        BY <1>1, Parts, ReadBytes
      <3>5. Parsed(Fresh, Bytes(obj[o]) \o Bytes(obj[p])) = Parse(class, n, w)
        BY <1>1, Parts
      <3> HIDE DEF u, v, n
      <3>6. w \in Seq(Element)
        BY <3>2, <3>4, ConcatProperties
      <3>7. Merge(class, On(n), w) = Merge(class, Merge(class, On(n), u), v)
        BY <1>1, <3>2, <3>4, Parts, MergeConcat
      <3> HIDE DEF w
      <3>8. Merge(class, s0, w).msg = Overlaid(obj[o], obj[p], FieldsOf[class])
        BY <3>2, <3>3, <3>4, <3>7 DEF On
      <3>9. Parse(class, n, w).msg = Merge(class, s0, w).msg
        BY <1>1, <3>1, <3>6, Parts, ParseLemma DEF n
      <3> QED BY <1>1, <3>5, <3>8, <3>9, Parts
    <2> QED BY <2>1 DEF ConcatIsMerge
  <1> QED BY <1>1, Invariance, PTL

-----------------------------------------------------------------------------
(* Sums.                                                                   *)

\* h[s] is the sum of g over s, in whatever order it is taken.
Sums(h, g, D) ==
    /\ h \in [SUBSET D -> Nat]
    /\ h[{}] = 0
    /\ \A s \in SUBSET D : \A x \in s : h[s] = g[x] + h[s \ {x}]

\* The recursion of MapThenSumSet.
Some(s) == CHOOSE x \in s : TRUE

Adds(i, g, D) ==
    \A s \in SUBSET D : i[s] = IF s = {} THEN 0 ELSE g[Some(s)] + i[s \ {Some(s)}]

LEMMA SomeLemma == \A s : s # {} => Some(s) \in s
  BY Zenon DEF Some

LEMMA SumUnique ==
    ASSUME NEW D, IsFiniteSet(D), NEW g, NEW h, Sums(h, g, D), NEW i, Adds(i, g, D)
    PROVE  i[D] = h[D]
  <1> DEFINE T == {k \in Nat : \A s \in SUBSET D : Cardinality(s) = k => i[s] = h[s]}
  <1>1. \A s \in SUBSET D : IsFiniteSet(s) /\ Cardinality(s) \in Nat
    BY FS_Subset, FS_CardinalityType
  <1>2. 0 \in T
    <2>1. \A s \in SUBSET D : Cardinality(s) = 0 => s = {}
      BY <1>1, FS_EmptySet
    <2>2. {} \in SUBSET D /\ i[{}] = 0 /\ h[{}] = 0
      BY DEF Adds, Sums
    <2> QED BY <2>1, <2>2
  <1>3. ASSUME NEW k \in Nat, k \in T PROVE k + 1 \in T
    <2>1. SUFFICES ASSUME NEW s \in SUBSET D, Cardinality(s) = k + 1 PROVE i[s] = h[s]
      BY <1>3
    <2>2. s # {}
      <3>1. Cardinality({}) = 0 /\ k + 1 # 0
        BY <1>3, FS_EmptySet
      <3> QED BY <2>1, <3>1
    <2> DEFINE x == Some(s)
    <2>3. x \in s
      BY <2>2, SomeLemma
    <2>4. i[s] = g[x] + i[s \ {x}]
      BY <2>2 DEF Adds
    <2> HIDE DEF x
    <2>5. s \ {x} \in SUBSET D /\ Cardinality(s \ {x}) = k
      <3>1. Cardinality(s \ {x}) = Cardinality(s) - 1
        BY <1>1, <2>3, FS_RemoveElement
      <3> QED BY <1>3, <2>1, <3>1
    <2>6. i[s \ {x}] = h[s \ {x}]
      BY <1>3, <2>5
    <2>7. h[s] = g[x] + h[s \ {x}]
      BY <2>3 DEF Sums
    <2> QED BY <2>4, <2>6, <2>7
  <1> HIDE DEF T
  <1>4. Cardinality(D) \in T
    BY <1>1, <1>2, <1>3, Induction
  <1> QED BY <1>4 DEF T

\* The bytes of the elements of a wire.
WireSize(w) == MapThenSumSet(LAMBDA i : ElementSize(w[i]), DOMAIN w)

FieldsSize(m) == MapThenSumSet(LAMBDA f : 1 + Width[m.val[f]], m.has)

LEMMA WireSizeIs ==
    ASSUME NEW w, IsFiniteSet(DOMAIN w), NEW g, \A j \in DOMAIN w : g[j] = ElementSize(w[j]),
           NEW h, Sums(h, g, DOMAIN w)
    PROVE  WireSize(w) = h[DOMAIN w]
  <1> DEFINE D == DOMAIN w
             i == CHOOSE it : it = [s \in SUBSET D |->
                     IF s = {} THEN 0
                     ELSE ElementSize(w[CHOOSE x \in s : TRUE]) + it[s \ {CHOOSE x \in s : TRUE}]]
  <1>1. WireSize(w) = i[D]
    BY DEF WireSize, MapThenSumSet, MapThenFoldSet
  <1>2. \E it : it = [s \in SUBSET D |->
                     IF s = {} THEN 0
                     ELSE ElementSize(w[CHOOSE x \in s : TRUE]) + it[s \ {CHOOSE x \in s : TRUE}]]
    <2>1. \A s \in SUBSET D : h[s] = IF s = {} THEN 0
                                     ELSE ElementSize(w[Some(s)]) + h[s \ {Some(s)}]
      BY SomeLemma DEF Sums
    <2>2. h = [s \in SUBSET D |-> IF s = {} THEN 0
                                  ELSE ElementSize(w[Some(s)]) + h[s \ {Some(s)}]]
      BY <2>1 DEF Sums
    <2> QED BY <2>2 DEF Some
  <1>3. i = [s \in SUBSET D |->
               IF s = {} THEN 0
               ELSE ElementSize(w[CHOOSE x \in s : TRUE]) + i[s \ {CHOOSE x \in s : TRUE}]]
    BY <1>2, Zenon
  <1> HIDE DEF i
  <1>4. \A s \in SUBSET D : i[s] = IF s = {} THEN 0
                                   ELSE ElementSize(w[Some(s)]) + i[s \ {Some(s)}]
    BY <1>3 DEF Some
  <1>5. Adds(i, g, D)
    BY <1>4, SomeLemma DEF Adds
  <1>6. i[D] = h[D]
    BY <1>5, SumUnique
  <1> QED BY <1>1, <1>6

LEMMA FieldsSizeIs ==
    ASSUME NEW m, IsFiniteSet(m.has), NEW g, \A f \in m.has : g[f] = 1 + Width[m.val[f]],
           NEW h, Sums(h, g, m.has)
    PROVE  FieldsSize(m) = h[m.has]
  <1> DEFINE D == m.has
             i == CHOOSE it : it = [s \in SUBSET D |->
                     IF s = {} THEN 0
                     ELSE 1 + Width[m.val[CHOOSE x \in s : TRUE]] + it[s \ {CHOOSE x \in s : TRUE}]]
  <1>1. FieldsSize(m) = i[D]
    BY DEF FieldsSize, MapThenSumSet, MapThenFoldSet
  <1>2. \E it : it = [s \in SUBSET D |->
                     IF s = {} THEN 0
                     ELSE 1 + Width[m.val[CHOOSE x \in s : TRUE]] + it[s \ {CHOOSE x \in s : TRUE}]]
    <2>1. \A s \in SUBSET D : h[s] = IF s = {} THEN 0
                                     ELSE 1 + Width[m.val[Some(s)]] + h[s \ {Some(s)}]
      <3>1. h[{}] = 0 /\ \A s \in SUBSET D : \A x \in s : h[s] = g[x] + h[s \ {x}]
        BY DEF Sums
      <3>2. ASSUME NEW s \in SUBSET D, s # {}
            PROVE  h[s] = 1 + Width[m.val[Some(s)]] + h[s \ {Some(s)}]
        <4>1. Some(s) \in s /\ Some(s) \in D
          BY <3>2, SomeLemma
        <4>2. h[s] = g[Some(s)] + h[s \ {Some(s)}] /\ g[Some(s)] = 1 + Width[m.val[Some(s)]]
          BY <3>1, <4>1
        <4> QED BY <4>2
      <3> QED BY <3>1, <3>2
    <2>2. h = [s \in SUBSET D |-> IF s = {} THEN 0
                                  ELSE 1 + Width[m.val[Some(s)]] + h[s \ {Some(s)}]]
      <3>1. h = [s \in SUBSET D |-> h[s]]
        BY DEF Sums
      <3> QED BY <2>1, <3>1, Zenon
    <2> QED BY <2>2 DEF Some
  <1>3. i = [s \in SUBSET D |->
               IF s = {} THEN 0
               ELSE 1 + Width[m.val[CHOOSE x \in s : TRUE]] + i[s \ {CHOOSE x \in s : TRUE}]]
    BY <1>2, Zenon
  <1> HIDE DEF i
  <1>4. \A s \in SUBSET D : i[s] = IF s = {} THEN 0
                                   ELSE 1 + Width[m.val[Some(s)]] + i[s \ {Some(s)}]
    BY <1>3 DEF Some
  <1>5. Adds(i, g, D)
    BY <1>4, SomeLemma DEF Adds
  <1>6. i[D] = h[D]
    BY <1>5, SumUnique
  <1> QED BY <1>1, <1>6

\* There are such sums of numbers.
LEMMA SumExists ==
    ASSUME NEW n \in Nat, NEW g, \A j \in 1..n : g[j] \in Nat
    PROVE  \E h : Sums(h, g, 1..n)
  <1> DEFINE T == {k \in Nat : k <= n => \E h : Sums(h, g, 1..k)}
  <1>1. 0 \in T
    <2> DEFINE h == [s \in SUBSET (1..0) |-> 0]
    <2>1. \A s \in SUBSET (1..0) : s = {}
      OBVIOUS
    <2>2. h \in [SUBSET (1..0) -> Nat] /\ h[{}] = 0
      OBVIOUS
    <2> HIDE DEF h
    <2>3. Sums(h, g, 1..0)
      BY <2>1, <2>2 DEF Sums
    <2> QED BY <2>3
  <1>2. ASSUME NEW k \in Nat, k \in T PROVE k + 1 \in T
    <2>1. SUFFICES ASSUME k + 1 <= n PROVE \E h : Sums(h, g, 1..(k + 1))
      BY <1>2
    <2> DEFINE l == k + 1
               D == 1..k
               E == 1..l
               v == g[l]
    <2>2. k <= n /\ v \in Nat /\ E = D \cup {l} /\ l \notin D
      BY <1>2, <2>1
    <2>3. PICK a : Sums(a, g, D)
      BY <1>2, <2>2
    <2> HIDE DEF D, E, v, l
    <2>4. a \in [SUBSET D -> Nat] /\ a[{}] = 0
      BY <2>3 DEF Sums
    <2> DEFINE h == [s \in SUBSET E |-> a[s \ {l}] + (IF l \in s THEN v ELSE 0)]
    <2>5. \A s \in SUBSET E : s \ {l} \in SUBSET D /\ a[s \ {l}] \in Nat
      BY <2>2, <2>4
    <2>6. h \in [SUBSET E -> Nat]
      <3>1. \A p, q \in Nat : p + q \in Nat
        OBVIOUS
      <3>2. \A s \in SUBSET E : (IF l \in s THEN v ELSE 0) \in Nat
        BY <2>2
      <3>3. \A s \in SUBSET E : a[s \ {l}] + (IF l \in s THEN v ELSE 0) \in Nat
        BY <2>5, <3>1, <3>2, Zenon
      <3> QED BY <3>3, Zenon
    <2>7. h[{}] = 0
      BY <2>4
    <2>8. ASSUME NEW s \in SUBSET E, NEW x \in s PROVE h[s] = g[x] + h[s \ {x}]
      <3>1. s \ {x} \in SUBSET E
        OBVIOUS
      <3>2. CASE x = l
        <4>1. (s \ {x}) \ {l} = s \ {l} /\ l \in s /\ l \notin s \ {x} /\ g[x] = v
          BY <3>2, <2>8 DEF v
        <4>2. h[s] = a[s \ {l}] + v /\ h[s \ {x}] = a[s \ {l}] + 0
          BY <3>1, <4>1
        <4>3. a[s \ {l}] \in Nat
          BY <2>5
        <4> HIDE DEF h
        <4> QED BY <2>2, <4>1, <4>2, <4>3
      <3>3. CASE x # l
        <4> DEFINE t == s \ {l}
                   c == IF l \in s THEN v ELSE 0
        <4>1. /\ (s \ {x}) \ {l} = t \ {x} /\ (l \in s <=> l \in s \ {x}) /\ x \in t
              /\ t \in SUBSET D /\ t \ {x} \in SUBSET D /\ c \in Nat
          BY <2>2, <2>5, <2>8, <3>3
        <4>2. h[s] = a[t] + c /\ h[s \ {x}] = a[t \ {x}] + c
          BY <3>1, <4>1
        <4>3. a[t] = g[x] + a[t \ {x}]
          BY <2>3, <4>1 DEF Sums
        <4>4. a[t \ {x}] \in Nat /\ g[x] \in Nat
          <5>1. \A j \in D : g[j] \in Nat
            BY <1>2, <2>2 DEF D
          <5> QED BY <2>4, <4>1, <5>1
        <4> HIDE DEF h, t, c
        <4> QED BY <4>1, <4>2, <4>3, <4>4
      <3> QED BY <3>2, <3>3
    <2> HIDE DEF h
    <2>9. Sums(h, g, E)
      BY <2>6, <2>7, <2>8 DEF Sums
    <2> QED BY <2>9 DEF E, l
  <1> HIDE DEF T
  <1>3. n \in T
    BY <1>1, <1>2, Induction
  <1> QED BY <1>3 DEF T

\* A size is counted element by element.
IsCount(F, w) == F[0] = 0 /\ \A j \in 1..Len(w) : F[j] = F[j - 1] + ElementSize(w[j])

\* A wire none of whose elements is cut off.
Whole(w) == w \in Seq(Element) /\ \A i \in 1..Len(w) : ElementSize(w[i]) \in Nat

LEMMA CountExists ==
    ASSUME NEW w, Whole(w)
    PROVE  \E F \in [0..Len(w) -> Nat] : IsCount(F, w) /\ WireSize(w) = F[Len(w)]
  <1> DEFINE n == Len(w)
             g == [j \in 1..n |-> ElementSize(w[j])]
  <1>1. n \in Nat /\ DOMAIN w = 1..n /\ \A j \in 1..n : g[j] = ElementSize(w[j]) /\ g[j] \in Nat
    BY DEF Whole
  <1> HIDE DEF n, g
  <1>2. PICK h : Sums(h, g, 1..n)
    BY <1>1, SumExists
  <1>3. WireSize(w) = h[1..n]
    <2>1. IsFiniteSet(1..n)
      BY <1>1, FS_Interval
    <2> QED BY <1>1, <1>2, <2>1, WireSizeIs
  <1> DEFINE F == [j \in 0..n |-> h[1..j]]
  <1>4. \A j \in 0..n : 1..j \in SUBSET (1..n)
    <2>1. ASSUME NEW j \in 0..n, NEW i \in 1..j PROVE i \in 1..n
      BY <1>1
    <2> QED BY <2>1
  <1>5. F \in [0..n -> Nat]
    BY <1>2, <1>4 DEF Sums
  <1>6. F[0] = 0
    <2>1. 1..0 = {} /\ 0 \in 0..n
      BY <1>1
    <2> QED BY <1>2, <2>1 DEF Sums
  <1>7. ASSUME NEW j \in 1..n PROVE F[j] = F[j - 1] + ElementSize(w[j])
    <2>1. j \in 0..n /\ j - 1 \in 0..n /\ j \in 1..j /\ (1..j) \ {j} = 1..(j - 1)
      BY <1>1
    <2>2. h[1..j] = g[j] + h[1..(j - 1)]
      <3>1. 1..j \in SUBSET (1..n) /\ j \in 1..j
        BY <1>4, <2>1
      <3>2. h[1..j] = g[j] + h[(1..j) \ {j}]
        BY <1>2, <3>1, Zenon DEF Sums
      <3> QED BY <2>1, <3>2
    <2>3. h[1..j] = F[j] /\ h[1..(j - 1)] = F[j - 1]
      BY <2>1
    <2> HIDE DEF F
    <2>4. F[j - 1] \in Nat /\ g[j] \in Nat /\ g[j] = ElementSize(w[j])
      BY <1>1, <1>5, <2>1
    <2> QED BY <2>2, <2>3, <2>4
  <1>8. F[n] = WireSize(w)
    BY <1>1, <1>3
  <1> HIDE DEF F
  <1> QED BY <1>5, <1>6, <1>7, <1>8 DEF IsCount, n

LEMMA CountUnique ==
    ASSUME NEW w, Whole(w), NEW F, IsCount(F, w)
    PROVE  WireSize(w) = F[Len(w)]
  <1> DEFINE n == Len(w)
  <1>1. n \in Nat
    BY DEF Whole
  <1>2. PICK G : IsCount(G, w) /\ WireSize(w) = G[n]
    BY CountExists
  <1>3. \A j \in 1..n : F[j] = F[j - 1] + ElementSize(w[j]) /\ G[j] = G[j - 1] + ElementSize(w[j])
    BY <1>2 DEF IsCount
  <1> DEFINE T == {k \in Nat : k <= n => F[k] = G[k]}
  <1> HIDE DEF n
  <1>4. 0 \in T
    BY <1>2 DEF IsCount
  <1>5. ASSUME NEW k \in Nat, k \in T PROVE k + 1 \in T
    <2>1. SUFFICES ASSUME k + 1 <= n PROVE F[k + 1] = G[k + 1]
      BY <1>5
    <2>2. k <= n /\ k + 1 \in 1..n /\ (k + 1) - 1 = k
      BY <1>1, <1>5, <2>1
    <2> QED BY <1>3, <1>5, <2>2
  <1>6. n \in T
    <2> HIDE DEF T
    <2> QED BY <1>1, <1>4, <1>5, Induction
  <1> QED BY <1>1, <1>2, <1>6 DEF n

\* Sizes add up.
LEMMA SizeConcat ==
    ASSUME NEW u, Whole(u), NEW v, Whole(v)
    PROVE  /\ Whole(u \o v)
           /\ WireSize(u) \in Nat /\ WireSize(v) \in Nat
           /\ WireSize(u \o v) = WireSize(u) + WireSize(v)
  <1> DEFINE w == u \o v
             m == Len(u)
             n == Len(v)
  <1>1. m \in Nat /\ n \in Nat /\ u \in Seq(Element) /\ v \in Seq(Element)
    BY DEF Whole
  <1>2. /\ w \in Seq(Element) /\ Len(w) = m + n
        /\ \A j \in 1..(m + n) : w[j] = IF j <= m THEN u[j] ELSE v[j - m]
    BY <1>1, ConcatProperties
  <1> HIDE DEF w
  <1>3. Whole(w)
    <2>1. ASSUME NEW j \in 1..(m + n) PROVE ElementSize(w[j]) \in Nat
      <3>1. CASE j <= m
        BY <1>1, <1>2, <2>1, <3>1 DEF Whole
      <3>2. CASE ~(j <= m)
        <4>1. j - m \in 1..n /\ w[j] = v[j - m]
          BY <1>1, <1>2, <2>1, <3>2
        <4> QED BY <4>1 DEF Whole
      <3> QED BY <3>1, <3>2
    <2> QED BY <1>2, <2>1 DEF Whole
  <1>4. PICK F \in [0..m -> Nat] : IsCount(F, u) /\ WireSize(u) = F[m]
    BY CountExists
  <1>5. PICK G \in [0..n -> Nat] : IsCount(G, v) /\ WireSize(v) = G[n]
    BY CountExists
  <1>6. F[m] \in Nat /\ G[n] \in Nat
    <2>1. m \in 0..m /\ n \in 0..n
      BY <1>1
    <2> HIDE DEF m, n
    <2> QED BY <2>1
  <1> DEFINE H == [j \in 0..(m + n) |-> IF j <= m THEN F[j] ELSE F[m] + G[j - m]]
  <1>7. \A j \in 1..m : F[j] = F[j - 1] + ElementSize(u[j])
    BY <1>4 DEF IsCount
  <1>8. G[0] = 0 /\ \A j \in 1..n : G[j] = G[j - 1] + ElementSize(v[j])
    BY <1>5 DEF IsCount
  <1> HIDE DEF m, n
  <1>9. ASSUME NEW j \in 1..(m + n) PROVE H[j] = H[j - 1] + ElementSize(w[j])
    <2>1. j \in 0..(m + n) /\ j - 1 \in 0..(m + n)
      BY <1>1
    <2>2. /\ H[j] = IF j <= m THEN F[j] ELSE F[m] + G[j - m]
          /\ H[j - 1] = IF j - 1 <= m THEN F[j - 1] ELSE F[m] + G[(j - 1) - m]
      BY <2>1
    <2> HIDE DEF H
    <2>3. CASE j <= m
      <3>1. j \in 1..m /\ j - 1 <= m /\ w[j] = u[j]
        BY <1>1, <1>2, <2>3
      <3> QED BY <1>7, <2>2, <2>3, <3>1
    <2>4. CASE ~(j <= m)
      <3> DEFINE k == j - m
      <3>1. k \in 1..n /\ (j - 1) - m = k - 1 /\ w[j] = v[k] /\ k - 1 \in 0..n
            /\ (j - 1 <= m <=> k = 1) /\ (k = 1 => j - 1 = m)
        BY <1>1, <1>2, <2>4
      <3>2. H[j] = F[m] + G[k] /\ H[j - 1] = IF k = 1 THEN F[m] ELSE F[m] + G[k - 1]
        BY <2>2, <2>4, <3>1
      <3> HIDE DEF k
      <3>3. H[j - 1] = F[m] + G[k - 1]
        <4>1. CASE k = 1
          BY <1>6, <1>8, <3>2, <4>1
        <4>2. CASE k # 1
          BY <3>2, <4>2
        <4> QED BY <4>1, <4>2
      <3>4. G[k] = G[k - 1] + ElementSize(v[k]) /\ G[k - 1] \in Nat /\ ElementSize(v[k]) \in Nat
        BY <1>5, <1>8, <3>1 DEF Whole, n
      <3> QED BY <1>6, <3>1, <3>2, <3>3, <3>4
    <2> QED BY <2>3, <2>4
  <1>10. H[0] = 0
    <2>1. 0 \in 0..(m + n) /\ 0 <= m /\ F[0] = 0
      BY <1>1, <1>4 DEF IsCount
    <2> QED BY <2>1
  <1>11. H[m + n] = F[m] + G[n]
    <2>1. m + n \in 0..(m + n) /\ (m + n) - m = n /\ (m + n <= m => n = 0 /\ m + n = m)
      BY <1>1
    <2> QED BY <1>6, <1>8, <2>1
  <1> HIDE DEF H
  <1>12. WireSize(w) = H[m + n]
    <2>1. IsCount(H, w)
      BY <1>2, <1>9, <1>10 DEF IsCount
    <2> QED BY <1>2, <1>3, <2>1, CountUnique
  <1> QED BY <1>3, <1>4, <1>5, <1>6, <1>11, <1>12 DEF w

LEMMA SizeEmpty == Whole(<<>>) /\ WireSize(<<>>) = 0
  <1> DEFINE w == <<>>
             F == [j \in {0} |-> 0]
  <1>1. w \in Seq(Element) /\ Len(w) = 0
    OBVIOUS
  <1> HIDE DEF w
  <1>2. Whole(w) /\ IsCount(F, w)
    BY <1>1 DEF Whole, IsCount
  <1> HIDE DEF F
  <1>3. WireSize(w) = F[0]
    BY <1>1, <1>2, CountUnique
  <1> QED BY <1>2, <1>3 DEF w, F

LEMMA SizeOne ==
    ASSUME NEW e \in Element, ElementSize(e) \in Nat
    PROVE  Whole(<<e>>) /\ WireSize(<<e>>) = ElementSize(e)
  <1> DEFINE w == <<e>>
             k == ElementSize(e)
             F == [j \in {0, 1} |-> IF j = 0 THEN 0 ELSE k]
  <1>1. w \in Seq(Element) /\ Len(w) = 1 /\ w[1] = e
    OBVIOUS
  <1>2. F[0] = 0 /\ F[1] = k
    OBVIOUS
  <1> HIDE DEF w, F
  <1>3. \A j \in 1..Len(w) : j = 1 /\ j - 1 = 0
    BY <1>1
  <1>4. F[1] = F[0] + k
    BY <1>2 DEF k
  <1>5. Whole(w) /\ IsCount(F, w)
    BY <1>1, <1>2, <1>3, <1>4 DEF Whole, IsCount, k
  <1>6. WireSize(w) = F[1]
    BY <1>1, <1>5, CountUnique
  <1> QED BY <1>2, <1>5, <1>6 DEF w

\* The bytes of one field.
Weight(m, f) == IF f \in m.has THEN 1 + Width[m.val[f]] ELSE 0

LEMMA WeightType ==
    ASSUME NEW c \in Classes, NEW m \in WellFormed(c), NEW f \in FieldsOf[c]
    PROVE  1 + Width[m.val[f]] \in Nat /\ Weight(m, f) \in Nat
  <1>1. m.val[f] \in Value
    BY WellFormedParts
  <1>2. Width[m.val[f]] \in Nat
    BY <1>1, WidthAssumption
  <1> QED BY <1>2 DEF Weight

LEMMA SizeWritten ==
    ASSUME NEW c \in Classes, NEW m \in WellFormed(c), NEW f \in FieldsOf[c]
    PROVE  Whole(Written(m, f)) /\ WireSize(Written(m, f)) = Weight(m, f)
  <1> DEFINE e == <<f, m.val[f]>>
  <1>1. e \in Element
    <2>1. f \in Tag
      BY DEF Classes, FieldsOf, Tag
    <2>2. m.val[f] \in Value
      BY WellFormedParts
    <2> QED BY <2>1, <2>2 DEF Element
  <1>2. ElementSize(e) = 1 + Width[m.val[f]]
    BY DEF ElementSize
  <1>3. ElementSize(e) \in Nat
    BY <1>2, WeightType
  <1>4. CASE f \in m.has
    <2>1. Written(m, f) = <<e>> /\ Weight(m, f) = ElementSize(e)
      BY <1>2, <1>4 DEF Written, Weight
    <2> HIDE DEF e
    <2> QED BY <1>1, <1>3, <2>1, SizeOne
  <1>5. CASE f \notin m.has
    BY <1>5, SizeEmpty DEF Written, Weight
  <1> QED BY <1>4, <1>5

LEMMA SizeUnknown ==
    ASSUME NEW c \in Classes, NEW m \in WellFormed(c)
    PROVE  Whole(m.unknown) /\ WireSize(m.unknown) \in Nat /\ UnknownSize(m) = WireSize(m.unknown)
  <1>1. m.unknown \in Seq(Element) /\ \A j \in DOMAIN m.unknown : Alien(c, m.unknown[j])
    BY WellFormedParts
  <1>2. ASSUME NEW j \in 1..Len(m.unknown) PROVE ElementSize(m.unknown[j]) \in Nat
    <2> DEFINE e == m.unknown[j]
    <2>1. e \in Element /\ e[1] # "cut"
      BY <1>1 DEF Alien
    <2>2. e[2] \in Value
      BY <2>1, ElementParts
    <2>3. Width[e[2]] \in Nat
      BY <2>2, WidthAssumption
    <2> QED BY <2>3 DEF ElementSize
  <1>3. Whole(m.unknown)
    BY <1>1, <1>2 DEF Whole
  <1>4. WireSize(m.unknown) \in Nat
    BY <1>3, SizeEmpty, SizeConcat
  <1> QED BY <1>3, <1>4 DEF UnknownSize, WireSize

\* The known fields, three at most, in any order.
LEMMA FieldsSum ==
    ASSUME NEW c \in Classes, NEW m \in WellFormed(c)
    PROVE  /\ c = "Request" => FieldsSize(m) = Weight(m, "id") + Weight(m, "method_identity")
           /\ c = "Response" => FieldsSize(m) = (Weight(m, "id") + Weight(m, "status")) + Weight(m, "message")
  <1> DEFINE D == m.has
             g == [f \in D |-> 1 + Width[m.val[f]]]
             Part(s, f) == IF f \in s THEN g[f] ELSE 0
  <1>1. D \subseteq FieldsOf[c]
    BY WellFormedParts
  <1>2. \A f \in D : g[f] \in Nat /\ g[f] = 1 + Width[m.val[f]]
    BY <1>1, WeightType
  <1>3. \A f : Part(D, f) = Weight(m, f)
    BY DEF Weight
  <1> HIDE DEF D, g
  <1>4. \A s \in SUBSET D : \A f : Part(s, f) \in Nat
    BY <1>2
  <1>5. \A s \in SUBSET D : \A x \in s :
            /\ Part(s, x) = g[x] /\ Part(s \ {x}, x) = 0
            /\ \A f : f # x => Part(s, f) = Part(s \ {x}, f)
    OBVIOUS
  <1>6. \A f : Part({}, f) = 0
    OBVIOUS
  <1>7. IsFiniteSet(FieldsOf[c])
    <2>1. FieldsOf[c] \subseteq ((({} \cup {"id"}) \cup {"status"}) \cup {"message"}) \cup {"method_identity"}
      BY DEF Classes, FieldsOf, RequestFields, ResponseFields
    <2>2. \A S, x : IsFiniteSet(S) => IsFiniteSet(S \cup {x})
      BY FS_AddElement
    <2>3. IsFiniteSet(((({} \cup {"id"}) \cup {"status"}) \cup {"message"}) \cup {"method_identity"})
      BY <2>2, FS_EmptySet
    <2> QED BY <2>1, <2>3, FS_Subset
  <1> HIDE DEF Part
  <1>8. CASE c = "Request"
    <2> DEFINE h == [s \in SUBSET D |-> Part(s, "id") + Part(s, "method_identity")]
    <2>1. \A s \in SUBSET D : h[s] \in Nat /\ s \ {} \in SUBSET D
      BY <1>4
    <2>2. h \in [SUBSET D -> Nat] /\ h[{}] = 0
      <3>1. h[{}] = Part({}, "id") + Part({}, "method_identity")
        OBVIOUS
      <3>2. h[{}] = 0
        BY <1>6, <3>1
      <3> QED BY <2>1, <3>2
    <2>3. ASSUME NEW s \in SUBSET D, NEW x \in s PROVE h[s] = g[x] + h[s \ {x}]
      <3>1. x \in {"id", "method_identity"}
        BY <1>1, <1>8, <2>3 DEF FieldsOf, RequestFields
      <3>2. g[x] \in Nat /\ Part(s \ {x}, "id") \in Nat /\ Part(s \ {x}, "method_identity") \in Nat
        BY <1>2, <1>4, <2>3
      <3>3. h[s] = Part(s, "id") + Part(s, "method_identity")
            /\ h[s \ {x}] = Part(s \ {x}, "id") + Part(s \ {x}, "method_identity")
        BY <2>3
      <3> HIDE DEF h
      <3>4. CASE x = "id"
        <4>1. /\ Part(s, "id") = g[x] /\ Part(s \ {x}, "id") = 0
              /\ Part(s, "method_identity") = Part(s \ {x}, "method_identity")
          BY <1>5, <2>3, <3>4
        <4> QED BY <3>2, <3>3, <4>1
      <3>5. CASE x = "method_identity"
        <4>1. /\ Part(s, "method_identity") = g[x] /\ Part(s \ {x}, "method_identity") = 0
              /\ Part(s, "id") = Part(s \ {x}, "id")
          BY <1>5, <2>3, <3>5
        <4> QED BY <3>2, <3>3, <4>1
      <3> QED BY <3>1, <3>4, <3>5
    <2>4. h[D] = Part(D, "id") + Part(D, "method_identity")
      OBVIOUS
    <2> HIDE DEF h
    <2>5. Sums(h, g, D)
      BY <2>2, <2>3 DEF Sums
    <2>6. IsFiniteSet(D)
      BY <1>1, <1>7, FS_Subset
    <2>7. FieldsSize(m) = h[D]
      BY <1>2, <2>5, <2>6, FieldsSizeIs DEF D
    <2> QED BY <1>3, <1>8, <2>4, <2>7
  <1>9. CASE c = "Response"
    <2> DEFINE h == [s \in SUBSET D |-> (Part(s, "id") + Part(s, "status")) + Part(s, "message")]
    <2>1. \A s \in SUBSET D : h[s] \in Nat
      BY <1>4
    <2>2. h \in [SUBSET D -> Nat] /\ h[{}] = 0
      <3>1. h[{}] = (Part({}, "id") + Part({}, "status")) + Part({}, "message")
        OBVIOUS
      <3>2. h[{}] = 0
        BY <1>6, <3>1
      <3> QED BY <2>1, <3>2
    <2>3. ASSUME NEW s \in SUBSET D, NEW x \in s PROVE h[s] = g[x] + h[s \ {x}]
      <3>1. x \in {"id", "status", "message"}
        BY <1>1, <1>9, <2>3 DEF FieldsOf, ResponseFields
      <3>2. /\ g[x] \in Nat /\ Part(s \ {x}, "id") \in Nat /\ Part(s \ {x}, "status") \in Nat
            /\ Part(s \ {x}, "message") \in Nat
        BY <1>2, <1>4, <2>3
      <3>3. h[s] = (Part(s, "id") + Part(s, "status")) + Part(s, "message")
            /\ h[s \ {x}] = (Part(s \ {x}, "id") + Part(s \ {x}, "status")) + Part(s \ {x}, "message")
        BY <2>3
      <3> HIDE DEF h
      <3>4. CASE x = "id"
        <4>1. /\ Part(s, "id") = g[x] /\ Part(s \ {x}, "id") = 0
              /\ Part(s, "status") = Part(s \ {x}, "status")
              /\ Part(s, "message") = Part(s \ {x}, "message")
          BY <1>5, <2>3, <3>4
        <4> QED BY <3>2, <3>3, <4>1
      <3>5. CASE x = "status"
        <4>1. /\ Part(s, "status") = g[x] /\ Part(s \ {x}, "status") = 0
              /\ Part(s, "id") = Part(s \ {x}, "id")
              /\ Part(s, "message") = Part(s \ {x}, "message")
          BY <1>5, <2>3, <3>5
        <4> QED BY <3>2, <3>3, <4>1
      <3>6. CASE x = "message"
        <4>1. /\ Part(s, "message") = g[x] /\ Part(s \ {x}, "message") = 0
              /\ Part(s, "id") = Part(s \ {x}, "id")
              /\ Part(s, "status") = Part(s \ {x}, "status")
          BY <1>5, <2>3, <3>6
        <4> QED BY <3>2, <3>3, <4>1
      <3> QED BY <3>1, <3>4, <3>5, <3>6
    <2>4. h[D] = (Part(D, "id") + Part(D, "status")) + Part(D, "message")
      OBVIOUS
    <2> HIDE DEF h
    <2>5. Sums(h, g, D)
      BY <2>2, <2>3 DEF Sums
    <2>6. IsFiniteSet(D)
      BY <1>1, <1>7, FS_Subset
    <2>7. FieldsSize(m) = h[D]
      BY <1>2, <2>5, <2>6, FieldsSizeIs DEF D
    <2> QED BY <1>3, <1>9, <2>4, <2>7
  <1> QED BY <1>8, <1>9 DEF Classes

\* ByteSize is the number of bytes that SerializeToArray will write, so the
\* packet that is allocated by it is neither too small nor left partly unwritten.
THEOREM SizesAreRight == Spec => []SizeIsWritten
  <1>1. ASSUME IInv PROVE SizeIsWritten
    <2>1. ASSUME NEW o \in Object PROVE Size(obj[o]) = WireSize(Bytes(obj[o]))
      <3> DEFINE c == class
                 m == obj[o]
                 u == m.unknown
      <3>1. c \in Classes /\ m \in WellFormed(c) /\ Bytes(m) = BytesOf(c, m)
        BY <1>1, Parts
      <3> HIDE DEF c, m
      <3>2. Whole(u) /\ WireSize(u) \in Nat /\ UnknownSize(m) = WireSize(u)
        BY <3>1, SizeUnknown
      <3>3. Size(m) = FieldsSize(m) + UnknownSize(m)
        BY DEF Size, Request_ByteSize, Response_ByteSize, FieldsSize
      <3>4. \A f \in FieldsOf[c] :
                Whole(Written(m, f)) /\ WireSize(Written(m, f)) = Weight(m, f) /\ Weight(m, f) \in Nat
        BY <3>1, SizeWritten, WeightType
      <3> HIDE DEF u
      <3>5. CASE c = "Request"
        <4> DEFINE p == Written(m, "id")
                   q == Written(m, "method_identity")
                   pq == p \o q
        <4>1. /\ Whole(p) /\ WireSize(p) = Weight(m, "id") /\ Whole(q)
              /\ WireSize(q) = Weight(m, "method_identity")
          BY <3>4, <3>5 DEF FieldsOf, RequestFields
        <4>2. BytesOf(c, m) = pq \o u
          BY <3>5 DEF BytesOf, Request_Serialize, u
        <4> HIDE DEF p, q
        <4>3. Whole(pq) /\ WireSize(pq) = Weight(m, "id") + Weight(m, "method_identity")
          BY <4>1, SizeConcat
        <4> HIDE DEF pq
        <4>4. WireSize(pq \o u) = WireSize(pq) + WireSize(u)
          BY <3>2, <4>3, SizeConcat
        <4>5. FieldsSize(m) = Weight(m, "id") + Weight(m, "method_identity")
          BY <3>1, <3>5, FieldsSum
        <4> QED BY <3>1, <3>2, <3>3, <4>2, <4>3, <4>4, <4>5 DEF m
      <3>6. CASE c = "Response"
        <4> DEFINE p == Written(m, "id")
                   q == Written(m, "status")
                   r == Written(m, "message")
                   pq == p \o q
                   pqr == pq \o r
        <4>1. /\ Whole(p) /\ WireSize(p) = Weight(m, "id")
              /\ Whole(q) /\ WireSize(q) = Weight(m, "status")
              /\ Whole(r) /\ WireSize(r) = Weight(m, "message")
          BY <3>4, <3>6 DEF FieldsOf, ResponseFields
        <4>2. BytesOf(c, m) = pqr \o u
          BY <3>6 DEF BytesOf, Response_Serialize, u
        <4> HIDE DEF p, q, r
        <4>3. Whole(pq) /\ WireSize(pq) = Weight(m, "id") + Weight(m, "status")
          BY <4>1, SizeConcat
        <4> HIDE DEF pq
        <4>4. /\ Whole(pqr)
              /\ WireSize(pqr) = (Weight(m, "id") + Weight(m, "status")) + Weight(m, "message")
          BY <4>1, <4>3, SizeConcat
        <4> HIDE DEF pqr
        <4>5. WireSize(pqr \o u) = WireSize(pqr) + WireSize(u)
          BY <3>2, <4>4, SizeConcat
        <4>6. FieldsSize(m) = (Weight(m, "id") + Weight(m, "status")) + Weight(m, "message")
          BY <3>1, <3>6, FieldsSum
        <4> QED BY <3>1, <3>2, <3>3, <4>2, <4>4, <4>5, <4>6 DEF m
      <3> QED BY <3>1, <3>5, <3>6 DEF Classes
    <2> QED BY <2>1 DEF SizeIsWritten, WireSize
  <1> QED BY <1>1, Invariance, PTL

=============================================================================
