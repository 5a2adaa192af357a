--------------------------- MODULE RpcMessagesProofs ---------------------------
(***************************************************************************)
(* What the generated parsers make of a wire of any length.  The loop of   *)
(* MergePartialFromCodedStream is a fold; it is shown to run element by    *)
(* element, and to read two wires one after the other as it reads both at  *)
(* once, and then what it reads is traced back to the wire.                *)
(***************************************************************************)
EXTENDS RpcMessages, SequenceTheorems, WellFoundedInduction, TLAPS

-----------------------------------------------------------------------------
(* Induction over the natural numbers, for a set instead of a predicate.   *)

LEMMA Induction ==
    ASSUME NEW T, 0 \in T, \A k \in Nat : k \in T => k + 1 \in T
    PROVE  \A k \in Nat : k \in T
  <1> DEFINE R == OpToRel(<, Nat)
             U == {k \in Nat : k \notin T}
  <1>1. IsWellFoundedOn(R, Nat)
    BY NatLessThanWellFounded
  <1>2. \A x, y \in Nat : <<y, x>> \in R <=> y < x
    BY DEF OpToRel
  <1> HIDE DEF R
  <1> SUFFICES ASSUME U # {} PROVE FALSE
    OBVIOUS
  <1>3. PICK m \in U : \A k \in U : ~(<<k, m>> \in R)
    <2>1. U \subseteq Nat
      OBVIOUS
    <2> HIDE DEF U
    <2> QED BY <1>1, <2>1, WFMin
  <1>4. m \in Nat \ {0}
    OBVIOUS
  <1>5. m - 1 \in Nat /\ m - 1 < m /\ (m - 1) + 1 = m
    BY <1>4
  <1>6. m - 1 \in T
    BY <1>2, <1>3, <1>4, <1>5
  <1> QED BY <1>3, <1>5, <1>6

\* A set of numbers up to k has a greatest member.
LEMMA MaxLemma ==
    ASSUME NEW k \in Nat, NEW s \in SUBSET (1..k), s # {}
    PROVE  Max(s) \in s /\ \A i \in s : i <= Max(s)
  <1> DEFINE T == {j \in Nat : \A t \in SUBSET (1..j) :
                                 t # {} => \E x \in t : \A i \in t : i <= x}
  <1>1. 0 \in T
    <2>1. \A t \in SUBSET (1..0) : t = {}
      OBVIOUS
    <2> QED BY <2>1
  <1>2. ASSUME NEW j \in Nat, j \in T PROVE j + 1 \in T
    <2>1. ASSUME NEW t \in SUBSET (1..(j + 1)), t # {}
          PROVE  \E x \in t : \A i \in t : i <= x
      <3>1. CASE j + 1 \in t
        BY <2>1, <3>1
      <3>2. CASE j + 1 \notin t
        <4>1. \A i \in 1..(j + 1) : i # j + 1 => i \in 1..j
          BY <1>2
        <4>2. t \in SUBSET (1..j)
          BY <2>1, <3>2, <4>1
        <4> QED BY <1>2, <2>1, <4>2
      <3> QED BY <3>1, <3>2
    <2> QED BY <2>1
  <1>3. k \in T
    <2> HIDE DEF T
    <2> QED BY <1>1, <1>2, Induction
  <1>4. PICK x \in s : \A i \in s : i <= x
    BY <1>3
  <1>5. \A i \in s : x >= i
    BY <1>4
  <1>6. Max(s) \in s /\ \A i \in s : Max(s) >= i
    BY <1>5, Zenon DEF Max
  <1> QED BY <1>6

LEMMA MaxOfRange == ASSUME NEW k \in Nat \ {0} PROVE Max(1..k) = k
  <1>1. k \in Nat /\ 1..k \in SUBSET (1..k) /\ 1..k # {} /\ k \in 1..k
    OBVIOUS
  <1>2. Max(1..k) \in 1..k /\ \A i \in 1..k : i <= Max(1..k)
    BY <1>1, MaxLemma
  <1>3. k <= Max(1..k)
    BY <1>1, <1>2
  <1> QED BY <1>2, <1>3

-----------------------------------------------------------------------------
(* The fold.                                                               *)

Classes == {"Request", "Response"}

\* One turn of the loop of class c, and the loop.
Read(c, s, e) == IF c = "Request" THEN Request_Read(s, e) ELSE Response_Read(s, e)

Merge(c, s, w) ==
    IF c = "Request" THEN Request_MergePartial(s, w) ELSE Response_MergePartial(s, w)

\* The recursion by which the fold is defined.
Step(c, s0, w, g, s) == IF s = {} THEN s0 ELSE Read(c, g[s \ {Max(s)}], w[Max(s)])

Solves(g, c, s0, w, n) == g = [s \in SUBSET (1..n) |-> Step(c, s0, w, g, s)]

\* The recursion has a solution.
LEMMA FoldExists ==
    ASSUME NEW c, NEW s0, NEW w, NEW n \in Nat
    PROVE  \E g : Solves(g, c, s0, w, n)
  <1> DEFINE T == {k \in Nat : \E g : Solves(g, c, s0, w, k)}
  <1>1. 0 \in T
    <2> DEFINE g == [s \in SUBSET (1..0) |-> s0]
    <2>1. \A s \in SUBSET (1..0) : s = {}
      OBVIOUS
    <2>2. g = [s \in SUBSET (1..0) |-> Step(c, s0, w, g, s)]
      BY <2>1 DEF Step
    <2> HIDE DEF g
    <2> QED BY <2>2 DEF Solves
  <1>2. ASSUME NEW k \in Nat, k \in T PROVE k + 1 \in T
    <2>1. PICK g : g = [s \in SUBSET (1..k) |-> Step(c, s0, w, g, s)]
      BY <1>2 DEF Solves
    <2> DEFINE h == [s \in SUBSET (1..(k + 1)) |-> Step(c, s0, w, g, s)]
    <2>2. 1..k \subseteq 1..(k + 1)
      BY <1>2
    <2>3. \A s \in SUBSET (1..k) : h[s] = g[s]
      BY <2>1, <2>2
    <2>4. ASSUME NEW s \in SUBSET (1..(k + 1)), s # {} PROVE s \ {Max(s)} \in SUBSET (1..k)
      <3>1. k + 1 \in Nat
        BY <1>2
      <3>2. Max(s) \in s /\ \A i \in s : i <= Max(s)
        BY <2>4, <3>1, MaxLemma
      <3>3. ASSUME NEW i \in s, i # Max(s) PROVE i \in 1..k
        <4>1. i \in 1..(k + 1) /\ Max(s) \in 1..(k + 1) /\ i <= Max(s)
          BY <2>4, <3>2
        <4> HIDE DEF h
        <4> QED BY <3>3, <4>1
      <3> QED BY <3>3
    <2>5. \A s \in SUBSET (1..(k + 1)) : Step(c, s0, w, g, s) = Step(c, s0, w, h, s)
      BY <2>3, <2>4 DEF Step
    <2>6. h = [s \in SUBSET (1..(k + 1)) |-> Step(c, s0, w, h, s)]
      BY <2>5
    <2> HIDE DEF h
    <2>7. Solves(h, c, s0, w, k + 1)
      BY <2>6 DEF Solves
    <2> QED BY <2>7
  <1> HIDE DEF T
  <1>3. n \in T
    BY <1>1, <1>2, Induction
  <1> QED BY <1>3 DEF T

\* The fold is the value of that solution for all positions of the wire.
LEMMA FoldIs ==
    ASSUME NEW c \in Classes, NEW s0, NEW w \in Seq(Element)
    PROVE  \E g : Solves(g, c, s0, w, Len(w)) /\ Merge(c, s0, w) = g[1..Len(w)]
  <1> DEFINE n == Len(w)
  <1>1. DOMAIN w = 1..n /\ n \in Nat
    OBVIOUS
  <1> HIDE DEF n
  <1>4. PICK g : Solves(g, c, s0, w, n)
    BY <1>1, FoldExists
  <1>2. CASE c = "Request"
    <2> DEFINE iter == CHOOSE h : h = [s \in SUBSET (DOMAIN w) |->
                          IF s = {} THEN s0 ELSE Request_Read(h[s \ {Max(s)}], w[Max(s)])]
    <2>1. Merge(c, s0, w) = iter[DOMAIN w]
      BY <1>2 DEF Merge, Request_MergePartial, FoldLeft, MapThenFoldSet
    <2>2. \E h : h = [s \in SUBSET (DOMAIN w) |->
                        IF s = {} THEN s0 ELSE Request_Read(h[s \ {Max(s)}], w[Max(s)])]
      <3>1. g = [s \in SUBSET (DOMAIN w) |->
                   IF s = {} THEN s0 ELSE Request_Read(g[s \ {Max(s)}], w[Max(s)])]
        BY <1>1, <1>2, <1>4 DEF Solves, Step, Read
      <3> QED BY <3>1
    <2>3. iter = [s \in SUBSET (DOMAIN w) |->
                    IF s = {} THEN s0 ELSE Request_Read(iter[s \ {Max(s)}], w[Max(s)])]
      BY <2>2, Zenon
    <2> HIDE DEF iter
    <2>4. iter = [s \in SUBSET (1..n) |-> Step(c, s0, w, iter, s)]
      BY <1>1, <1>2, <2>3 DEF Step, Read
    <2> QED BY <1>1, <2>1, <2>4 DEF n, Solves
  <1>3. CASE c = "Response"
    <2> DEFINE iter == CHOOSE h : h = [s \in SUBSET (DOMAIN w) |->
                          IF s = {} THEN s0 ELSE Response_Read(h[s \ {Max(s)}], w[Max(s)])]
    <2>1. Merge(c, s0, w) = iter[DOMAIN w]
      BY <1>3 DEF Merge, Response_MergePartial, FoldLeft, MapThenFoldSet
    <2>2. \E h : h = [s \in SUBSET (DOMAIN w) |->
                        IF s = {} THEN s0 ELSE Response_Read(h[s \ {Max(s)}], w[Max(s)])]
      <3>1. g = [s \in SUBSET (DOMAIN w) |->
                   IF s = {} THEN s0 ELSE Response_Read(g[s \ {Max(s)}], w[Max(s)])]
        BY <1>1, <1>3, <1>4 DEF Solves, Step, Read
      <3> QED BY <3>1
    <2>3. iter = [s \in SUBSET (DOMAIN w) |->
                    IF s = {} THEN s0 ELSE Response_Read(iter[s \ {Max(s)}], w[Max(s)])]
      BY <2>2, Zenon
    <2> HIDE DEF iter
    <2>4. iter = [s \in SUBSET (1..n) |-> Step(c, s0, w, iter, s)]
      BY <1>1, <1>3, <2>3 DEF Step, Read
    <2> QED BY <1>1, <2>1, <2>4 DEF n, Solves
  <1> QED BY <1>2, <1>3 DEF Classes

-----------------------------------------------------------------------------
(* The loop, element by element.                                           *)

IsRun(F, c, s0, w) == F[0] = s0 /\ \A j \in 1..Len(w) : F[j] = Read(c, F[j - 1], w[j])

LEMMA RunExists ==
    ASSUME NEW c \in Classes, NEW s0, NEW w \in Seq(Element)
    PROVE  \E F : IsRun(F, c, s0, w) /\ Merge(c, s0, w) = F[Len(w)]
  <1> DEFINE n == Len(w)
  <1>1. n \in Nat
    OBVIOUS
  <1>2. PICK g : Solves(g, c, s0, w, n) /\ Merge(c, s0, w) = g[1..n]
    BY FoldIs
  <1> DEFINE F == [j \in 0..n |-> g[1..j]]
  <1> HIDE DEF n
  <1>3. F[0] = s0
    <2>1. 1..0 = {} /\ 1..0 \in SUBSET (1..n) /\ 0 \in 0..n
      BY <1>1
    <2> QED BY <1>2, <2>1 DEF Solves, Step
  <1>4. ASSUME NEW j \in 1..n PROVE F[j] = Read(c, F[j - 1], w[j])
    <2>1. /\ 1..j \in SUBSET (1..n) /\ 1..j # {} /\ j \in Nat \ {0}
          /\ j \in 0..n /\ j - 1 \in 0..n
      <3>1. j \in Nat \ {0} /\ j \in 0..n /\ j - 1 \in 0..n /\ j \in 1..j
        BY <1>1
      <3>2. \A i \in 1..j : i \in 1..n
        BY <1>1
      <3> QED BY <3>1, <3>2
    <2>2. Max(1..j) = j
      BY <2>1, MaxOfRange
    <2>3. (1..j) \ {j} = 1..(j - 1)
      BY <2>1
    <2>4. g[1..j] = Read(c, g[1..(j - 1)], w[j])
      BY <1>2, <2>1, <2>2, <2>3 DEF Solves, Step
    <2> QED BY <2>1, <2>4
  <1>5. F[n] = Merge(c, s0, w)
    BY <1>1, <1>2
  <1> HIDE DEF F
  <1>6. IsRun(F, c, s0, w)
    BY <1>3, <1>4 DEF IsRun, n
  <1> QED BY <1>5, <1>6 DEF n

LEMMA RunUnique ==
    ASSUME NEW c \in Classes, NEW s0, NEW w \in Seq(Element), NEW F, IsRun(F, c, s0, w)
    PROVE  Merge(c, s0, w) = F[Len(w)]
  <1> DEFINE n == Len(w)
  <1>1. n \in Nat
    OBVIOUS
  <1>2. PICK G : IsRun(G, c, s0, w) /\ Merge(c, s0, w) = G[n]
    BY RunExists
  <1>3. \A j \in 1..n : F[j] = Read(c, F[j - 1], w[j]) /\ G[j] = Read(c, G[j - 1], w[j])
    BY <1>2 DEF IsRun
  <1> DEFINE T == {k \in Nat : k <= n => F[k] = G[k]}
  <1> HIDE DEF n
  <1>4. 0 \in T
    BY <1>2 DEF IsRun
  <1>5. ASSUME NEW k \in Nat, k \in T PROVE k + 1 \in T
    <2>1. SUFFICES ASSUME k + 1 <= n PROVE F[k + 1] = G[k + 1]
      BY <1>5
    <2>2. k <= n /\ k + 1 \in 1..n /\ (k + 1) - 1 = k
      BY <1>1, <1>5, <2>1
    <2> QED BY <1>3, <1>5, <2>2
  <1>6. n \in T
    <2> HIDE DEF T
    <2> QED BY <1>1, <1>4, <1>5, Induction
  <1> QED BY <1>1, <1>2, <1>6 DEF n

LEMMA MergeEmpty == ASSUME NEW c \in Classes, NEW s0 PROVE Merge(c, s0, <<>>) = s0
  <1> DEFINE F == [j \in {0} |-> s0]
             w == <<>>
  <1>1. w \in Seq(Element) /\ Len(w) = 0
    OBVIOUS
  <1>2. IsRun(F, c, s0, w)
    BY DEF IsRun
  <1> HIDE DEF w
  <1>3. Merge(c, s0, w) = F[0]
    BY <1>1, <1>2, RunUnique
  <1> QED BY <1>3 DEF w

LEMMA MergeOne ==
    ASSUME NEW c \in Classes, NEW s0, NEW e \in Element
    PROVE  Merge(c, s0, <<e>>) = Read(c, s0, e)
  <1> DEFINE F == [j \in {0, 1} |-> IF j = 0 THEN s0 ELSE Read(c, s0, e)]
             w == <<e>>
  <1>1. w \in Seq(Element) /\ Len(w) = 1 /\ w[1] = e
    OBVIOUS
  <1>2. F[0] = s0 /\ F[1] = Read(c, s0, e)
    OBVIOUS
  <1> HIDE DEF w, F
  <1>3. IsRun(F, c, s0, w)
    <2>1. \A j \in 1..Len(w) : j = 1 /\ j - 1 = 0
      BY <1>1
    <2> QED BY <1>1, <1>2, <2>1 DEF IsRun
  <1>4. Merge(c, s0, w) = F[1]
    BY <1>1, <1>3, RunUnique
  <1> QED BY <1>2, <1>4 DEF w

\* Reading two wires at once is reading one after the other.
LEMMA MergeConcat ==
    ASSUME NEW c \in Classes, NEW s0, NEW u \in Seq(Element), NEW v \in Seq(Element)
    PROVE  Merge(c, s0, u \o v) = Merge(c, Merge(c, s0, u), v)
  <1> DEFINE w == u \o v
             m == Len(u)
             n == Len(v)
  <1>1. m \in Nat /\ n \in Nat
    OBVIOUS
  <1>2. /\ w \in Seq(Element) /\ Len(w) = m + n
        /\ \A j \in 1..(m + n) : w[j] = IF j <= m THEN u[j] ELSE v[j - m]
    BY ConcatProperties
  <1> HIDE DEF w
  <1>3. PICK F : IsRun(F, c, s0, w) /\ Merge(c, s0, w) = F[m + n]
    <2>1. w \in Seq(Element) /\ Len(w) = m + n
      BY <1>2
    <2>2. \E F : IsRun(F, c, s0, w) /\ Merge(c, s0, w) = F[Len(w)]
      BY <2>1, RunExists
    <2> QED BY <2>1, <2>2
  <1> DEFINE G == [j \in 0..n |-> F[m + j]]
  <1>4. Merge(c, s0, u) = F[m]
    <2>1. \A j \in 1..m : j \in 1..(m + n) /\ j <= m
      BY <1>1
    <2>2. IsRun(F, c, s0, u)
      BY <1>2, <1>3, <2>1 DEF IsRun
    <2> QED BY <2>2, RunUnique
  <1>5. Merge(c, F[m], v) = F[m + n]
    <2>1. G[0] = F[m] /\ G[n] = F[m + n]
      BY <1>1
    <2>2. ASSUME NEW j \in 1..n PROVE G[j] = Read(c, G[j - 1], v[j])
      <3>1. /\ m + j \in 1..(m + n) /\ ~(m + j <= m) /\ (m + j) - m = j
            /\ (m + j) - 1 = m + (j - 1) /\ j \in 0..n /\ j - 1 \in 0..n
        BY <1>1
      <3>2. F[m + j] = Read(c, F[(m + j) - 1], w[m + j])
        BY <1>2, <1>3, <3>1 DEF IsRun
      <3>3. w[m + j] = v[j]
        BY <1>2, <3>1
      <3> QED BY <3>1, <3>2, <3>3
    <2> HIDE DEF G
    <2>3. IsRun(G, c, F[m], v)
      BY <2>1, <2>2 DEF IsRun
    <2> QED BY <2>1, <2>3, RunUnique
  <1> QED BY <1>3, <1>4, <1>5 DEF w

\* What holds of the state before the loop and is kept by each of its turns holds
\* of the state after it; S[j] are the states in which j turns may end.
LEMMA MergeInvariant ==
    ASSUME NEW c \in Classes, NEW s0, NEW w \in Seq(Element), NEW S,
           s0 \in S[0],
           \A j \in 1..Len(w) : \A s \in S[j - 1] : Read(c, s, w[j]) \in S[j]
    PROVE  Merge(c, s0, w) \in S[Len(w)]
  <1> DEFINE n == Len(w)
  <1>1. n \in Nat
    OBVIOUS
  <1>2. PICK F : IsRun(F, c, s0, w) /\ Merge(c, s0, w) = F[n]
    BY RunExists
  <1> DEFINE T == {k \in Nat : k <= n => F[k] \in S[k]}
  <1>3. 0 \in T
    BY <1>2 DEF IsRun
  <1>4. \A j \in 1..n : F[j] = Read(c, F[j - 1], w[j]) /\ \A s \in S[j - 1] : Read(c, s, w[j]) \in S[j]
    BY <1>2 DEF IsRun
  <1> HIDE DEF n
  <1>5. ASSUME NEW k \in Nat, k \in T PROVE k + 1 \in T
    <2>1. SUFFICES ASSUME k + 1 <= n PROVE F[k + 1] \in S[k + 1]
      BY <1>5
    <2>2. k <= n /\ k + 1 \in 1..n /\ (k + 1) - 1 = k
      BY <1>1, <1>5, <2>1
    <2>3. F[k] \in S[k]
      BY <1>5, <2>2
    <2> QED BY <1>4, <2>2, <2>3
  <1>6. n \in T
    <2> HIDE DEF T
    <2> QED BY <1>1, <1>3, <1>5, Induction
  <1> QED BY <1>1, <1>2, <1>6 DEF n

-----------------------------------------------------------------------------
(* The objects.                                                            *)

LEMMA ElementParts ==
    ASSUME NEW e \in Element
    PROVE  e[1] # "cut" => e[2] \in Value
  <1>2. \A S, T : e \in S \X T => e[1] \in S /\ e[2] \in T
    OBVIOUS
  <1>3. CASE e \in (Tag \cup {"end"}) \X Value
    BY <1>2, <1>3
  <1>4. CASE e \in {"cut"} \X Tag
    <2>1. e[1] \in {"cut"}
      BY <1>2, <1>4
    <2> QED BY <2>1
  <1> QED BY <1>3, <1>4 DEF Element

LEMMA NewWellFormed == ASSUME NEW c \in Classes PROVE New(FieldsOf[c]) \in WellFormed(c)
  <1>1. \A f \in FieldsOf[c] : Default[f] \in Value
    <2>1. FieldsOf[c] \subseteq {"id", "method_identity", "status", "message"}
      BY DEF Classes, FieldsOf, RequestFields, ResponseFields
    <2>2. DOMAIN Default = {"id", "method_identity", "status", "message"}
      BY DEF Default
    <2> QED BY <2>1, <2>2, WidthAssumption
  <1>2. New(FieldsOf[c]) \in Message(FieldsOf[c])
    BY <1>1 DEF New, Message
  <1>3. c = "Response" => New(FieldsOf[c]).val["status"] \in Status
    <2>1. Default["status"] \in Status
      BY DEF Default, Status
    <2>2. c = "Response" => "status" \in FieldsOf[c]
      BY DEF FieldsOf, ResponseFields
    <2> QED BY <2>1, <2>2 DEF New
  <1>4. DOMAIN New(FieldsOf[c]).unknown = {}
    BY DEF New
  <1>5. \A f \in FieldsOf[c] : New(FieldsOf[c]).val[f] = Default[f]
    BY DEF New
  <1> QED BY <1>2, <1>3, <1>4, <1>5 DEF WellFormed

LEMMA SetFieldParts ==
    ASSUME NEW F, NEW m \in Message(F), NEW f \in F, NEW v \in Value
    PROVE  /\ SetField(m, f, v).has = m.has \cup {f}
           /\ SetField(m, f, v).val \in [F -> Value]
           /\ \A g \in F : SetField(m, f, v).val[g] = IF g = f THEN v ELSE m.val[g]
           /\ SetField(m, f, v).unknown = m.unknown
           /\ SetField(m, f, v) = [has |-> SetField(m, f, v).has, val |-> SetField(m, f, v).val,
                                   unknown |-> SetField(m, f, v).unknown]
  <1> DEFINE n == SetField(m, f, v)
  <1>1. m = [has |-> m.has, val |-> m.val, unknown |-> m.unknown] /\ m.val \in [F -> Value]
    BY DEF Message
  <1>2. n.val = [m.val EXCEPT ![f] = v]
    BY <1>1 DEF SetField
  <1>3. n.has = m.has \cup {f} /\ n.unknown = m.unknown
    BY <1>1 DEF SetField
  <1>4. n \in [{"has", "val", "unknown"} -> {m.has \cup {f}, n.val, m.unknown}]
    BY <1>1, <1>3 DEF SetField
  <1> HIDE DEF n
  <1>5. n = [has |-> n.has, val |-> n.val, unknown |-> n.unknown]
    BY <1>4
  <1>6. n.val \in [F -> Value] /\ \A g \in F : n.val[g] = IF g = f THEN v ELSE m.val[g]
    BY <1>1, <1>2
  <1> QED BY <1>3, <1>5, <1>6 DEF n

LEMMA SetFieldWellFormed ==
    ASSUME NEW c \in Classes, NEW m \in WellFormed(c), NEW f \in FieldsOf[c], NEW v \in Value,
           f = "status" => v \in Status
    PROVE  SetField(m, f, v) \in WellFormed(c)
  <1> DEFINE n == SetField(m, f, v)
  <1>1. /\ m \in Message(FieldsOf[c])
        /\ \A g \in FieldsOf[c] \ m.has : m.val[g] = Default[g]
        /\ c = "Response" => m.val["status"] \in Status
        /\ \A i \in DOMAIN m.unknown : Alien(c, m.unknown[i])
    BY DEF WellFormed
  <1>2. /\ n.has = m.has \cup {f} /\ n.unknown = m.unknown
        /\ n.val \in [FieldsOf[c] -> Value]
        /\ \A g \in FieldsOf[c] : n.val[g] = IF g = f THEN v ELSE m.val[g]
        /\ n = [has |-> n.has, val |-> n.val, unknown |-> n.unknown]
    BY <1>1, SetFieldParts
  <1> HIDE DEF n
  <1>3. m.val \in [FieldsOf[c] -> Value] /\ m.has \subseteq FieldsOf[c] /\ m.unknown \in Seq(Element)
    BY <1>1 DEF Message
  <1>4. n \in Message(FieldsOf[c])
    BY <1>2, <1>3 DEF Message
  <1>5. c = "Response" => n.val["status"] \in Status
    BY <1>1, <1>2 DEF FieldsOf, ResponseFields
  <1>6. \A g \in FieldsOf[c] \ n.has : n.val[g] = Default[g]
    BY <1>1, <1>2
  <1>7. \A i \in DOMAIN n.unknown : Alien(c, n.unknown[i])
    BY <1>1, <1>2
  <1> QED BY <1>4, <1>5, <1>6, <1>7 DEF WellFormed, n

LEMMA AddUnknownWellFormed ==
    ASSUME NEW c \in Classes, NEW m \in WellFormed(c), NEW e \in Element, Alien(c, e)
    PROVE  [m EXCEPT !.unknown = Append(@, e)] \in WellFormed(c)
  <1> DEFINE n == [m EXCEPT !.unknown = Append(@, e)]
  <1>1. /\ m \in Message(FieldsOf[c])
        /\ \A g \in FieldsOf[c] \ m.has : m.val[g] = Default[g]
        /\ c = "Response" => m.val["status"] \in Status
        /\ \A i \in DOMAIN m.unknown : Alien(c, m.unknown[i])
    BY DEF WellFormed
  <1>2. /\ n.has = m.has /\ n.val = m.val /\ n.unknown = Append(m.unknown, e)
        /\ n = [has |-> n.has, val |-> n.val, unknown |-> n.unknown]
    BY <1>1 DEF Message
  <1> HIDE DEF n
  <1>3. m.val \in [FieldsOf[c] -> Value] /\ m.has \subseteq FieldsOf[c] /\ m.unknown \in Seq(Element)
    BY <1>1 DEF Message
  <1>4. n.unknown \in Seq(Element)
    BY <1>2, <1>3
  <1>5. n \in Message(FieldsOf[c])
    BY <1>2, <1>3, <1>4 DEF Message
  <1>6. ASSUME NEW i \in DOMAIN n.unknown PROVE Alien(c, n.unknown[i])
    <2> DEFINE k == Len(m.unknown)
    <2>1. k \in Nat /\ DOMAIN m.unknown = 1..k
      BY <1>3
    <2>2. /\ DOMAIN n.unknown = 1..(k + 1) /\ n.unknown[k + 1] = e
          /\ \A j \in 1..k : n.unknown[j] = m.unknown[j]
      BY <1>2, <1>3
    <2> HIDE DEF k
    <2>3. i = k + 1 \/ i \in 1..k
      BY <2>1, <2>2
    <2>4. CASE i = k + 1
      BY <2>2, <2>4
    <2>5. CASE i \in 1..k
      BY <1>1, <2>1, <2>2, <2>5
    <2> QED BY <2>3, <2>4, <2>5
  <1> QED BY <1>1, <1>2, <1>5, <1>6 DEF WellFormed, n

-----------------------------------------------------------------------------
(* One turn of the loop.                                                   *)

State(c) == [msg : WellFormed(c), at : {"on", "end", "failed"}]

LEMMA IrregularLemma ==
    ASSUME NEW c \in Classes, NEW s \in State(c), NEW e \in Element, e[1] \notin FieldsOf[c]
    PROVE  Irregular(s, e) \in State(c)
  <1>0. s.msg \in WellFormed(c) /\ s.msg \in Message(FieldsOf[c])
    BY DEF State, WellFormed
  <1>1. CASE e[1] = "end"
    BY <1>1 DEF Irregular, State
  <1>2. CASE e[1] = "cut"
    <2>1. CASE e[2] \in {"method_identity", "message"} \cap DOMAIN s.msg.val
      <3>1. e[2] \in FieldsOf[c] /\ e[2] # "status" /\ Partial \in Value
        BY <1>0, <2>1, WidthAssumption DEF Message
      <3>2. SetField(s.msg, e[2], Partial) \in WellFormed(c)
        BY <1>0, <3>1, SetFieldWellFormed
      <3> QED BY <1>2, <2>1, <3>2 DEF Irregular, State
    <2>2. CASE e[2] \notin {"method_identity", "message"} \cap DOMAIN s.msg.val
      BY <1>0, <1>2, <2>2 DEF Irregular, State
    <2> QED BY <2>1, <2>2
  <1>3. CASE e[1] \notin {"end", "cut"}
    <2>1. Alien(c, e)
      BY <1>3 DEF Alien
    <2>2. [s.msg EXCEPT !.unknown = Append(@, e)] \in WellFormed(c)
      BY <1>0, <2>1, AddUnknownWellFormed
    <2>3. Irregular(s, e) = [s EXCEPT !.msg = [s.msg EXCEPT !.unknown = Append(@, e)]]
      BY <1>3 DEF Irregular, AddUnknown
    <2> QED BY <2>2, <2>3 DEF State
  <1> QED BY <1>1, <1>2, <1>3

LEMMA ReadLemma ==
    ASSUME NEW c \in Classes, NEW s \in State(c), NEW e \in Element
    PROVE  Read(c, s, e) \in State(c)
  <1>0. s.msg \in WellFormed(c)
    BY DEF State
  <1>1. CASE s.at # "on"
    BY <1>1 DEF Read, Request_Read, Response_Read
  <1>2. CASE s.at = "on" /\ e[1] \notin FieldsOf[c]
    <2>1. Read(c, s, e) = Irregular(s, e)
      BY <1>2 DEF Read, Request_Read, Response_Read, FieldsOf, Classes, ResponseFields
    <2> QED BY <1>2, <2>1, IrregularLemma
  <1>3. CASE s.at = "on" /\ c = "Response" /\ e[1] = "status" /\ ~Status_IsValid(e[2])
    <2>1. Alien(c, e)
      BY <1>3 DEF Alien
    <2>2. [s.msg EXCEPT !.unknown = Append(@, e)] \in WellFormed(c)
      BY <1>0, <2>1, AddUnknownWellFormed
    <2>3. Read(c, s, e) = [s EXCEPT !.msg = [s.msg EXCEPT !.unknown = Append(@, e)]]
      BY <1>3 DEF Read, Response_Read, AddUnknown
    <2> QED BY <2>2, <2>3 DEF State
  <1>4. CASE /\ s.at = "on" /\ e[1] \in FieldsOf[c]
             /\ ~(c = "Response" /\ e[1] = "status" /\ ~Status_IsValid(e[2]))
    <2>1. e[1] # "cut" /\ (e[1] = "status" => c = "Response")
      BY <1>4 DEF FieldsOf, Classes, RequestFields, ResponseFields
    <2>2. e[2] \in Value /\ (e[1] = "status" => e[2] \in Status)
      BY <1>4, <2>1, ElementParts DEF Status_IsValid
    <2>3. SetField(s.msg, e[1], e[2]) \in WellFormed(c)
      BY <1>0, <1>4, <2>2, SetFieldWellFormed
    <2>4. Read(c, s, e) = [s EXCEPT !.msg = SetField(s.msg, e[1], e[2])]
      BY <1>4 DEF Read, Request_Read, Response_Read, FieldsOf, Classes
    <2> QED BY <2>3, <2>4 DEF State
  <1> QED BY <1>1, <1>2, <1>3, <1>4

\* The loop leaves a well-formed object, whatever the wire holds.
LEMMA MergeLemma ==
    ASSUME NEW c \in Classes, NEW s \in State(c), NEW w \in Seq(Element)
    PROVE  Merge(c, s, w) \in State(c)
  <1> DEFINE S == [j \in 0..Len(w) |-> State(c)]
  <1>1. Len(w) \in Nat /\ \A j \in 1..Len(w) : j \in 0..Len(w) /\ j - 1 \in 0..Len(w) /\ w[j] \in Element
    OBVIOUS
  <1>2. \A j \in 0..Len(w) : S[j] = State(c)
    OBVIOUS
  <1>3. S[0] = State(c) /\ S[Len(w)] = State(c)
    BY <1>1
  <1> HIDE DEF S
  <1>4. \A j \in 1..Len(w) : \A t \in S[j - 1] : Read(c, t, w[j]) \in S[j]
    BY <1>1, <1>2, ReadLemma
  <1>5. s \in S[0]
    BY <1>3
  <1>6. Merge(c, s, w) \in S[Len(w)]
    BY <1>4, <1>5, MergeInvariant
  <1> QED BY <1>3, <1>6

=============================================================================
