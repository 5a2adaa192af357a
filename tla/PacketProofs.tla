---------------------------- MODULE PacketProofs ----------------------------
(***************************************************************************)
(* What expand_packet leaves behind, for every width of the size, every    *)
(* sequence of lengths and every pattern of allocation failures.           *)
(***************************************************************************)
EXTENDS Packet, TLAPS

LEMMA InitLemma == Init => IInv
  BY PacketAssumption DEF Init, IInv, TypeOK, Contract, SizeIsHonest

\* Unsigned doubling stays within the type.
LEMMA DoubleType == \A s \in Nat : (s * 2) % Limit \in 0..(Limit - 1)
  BY PacketAssumption

LEMMA StepLemma == IInv /\ [Next]_vars => IInv'
  <1> SUFFICES ASSUME IInv, [Next]_vars PROVE IInv'
    OBVIOUS
  <1> USE PacketAssumption DEF IInv, TypeOK, Contract, SizeIsHonest
  <1>1. ASSUME NEW m \in Lengths, enter(m) PROVE IInv'
    BY <1>1 DEF enter, NeedsBlock
  <1>2. CASE double
    <2>1. size' \in 0..(Limit - 1)
      BY <1>2, DoubleType DEF double
    <2>2. size' > 0 \/ size' < n'
      BY <1>2, <2>1 DEF double
    <2> QED BY <1>2, <2>1, <2>2 DEF double
  <1>3. CASE realloc
    BY <1>3 DEF realloc
  <1>4. CASE UNCHANGED vars
    BY <1>4 DEF vars
  <1> QED BY <1>1, <1>2, <1>3, <1>4 DEF Next

\* A call of expand_packet that returns 0 leaves a block of at least n bytes, as
\* large as *size says.
THEOREM ExpandKeepsContract == Spec => []Contract
  <1>1. IInv => Contract
    BY DEF IInv
  <1> QED BY InitLemma, StepLemma, <1>1, PTL DEF Spec

\* *size never claims more than the block that is there.
THEOREM SizesAreHonest == Spec => []SizeIsHonest
  <1>1. IInv => SizeIsHonest
    BY DEF IInv
  <1> QED BY InitLemma, StepLemma, <1>1, PTL DEF Spec

\* The unsigned size keeps its width, whatever it wraps around to.
THEOREM TypeCorrect == Spec => []TypeOK
  <1>1. IInv => TypeOK
    BY DEF IInv
  <1> QED BY InitLemma, StepLemma, <1>1, PTL DEF Spec

=============================================================================
