------------------------------- MODULE Packet -------------------------------
(***************************************************************************)
(* expand_packet: the growing buffer every connection, task and channel    *)
(* keeps from one message to the next.  It is called again and again on    *)
(* the same pointer and size, also after an earlier call has failed.  The  *)
(* loop that doubles the size is a sequence of steps, in the arithmetic of *)
(* an unsigned type with Limit values (uint32_t: Limit = 2^32).            *)
(***************************************************************************)
EXTENDS Naturals

CONSTANTS Limit,    \* number of values of the unsigned type
          Lengths,  \* the values of n the callers pass
          Exhausts  \* whether realloc may fail

ASSUME PacketAssumption ==
    /\ Limit \in Nat /\ Limit > 1
    /\ Lengths \subseteq 0..(Limit - 1)
    /\ Exhausts \in BOOLEAN

VARIABLES block,  \* the bytes *p points to, 0 when *p is NULL
          size,   \* *size
          n,      \* the parameter of the call in progress, or of the last one
          pc,     \* "idle": no call in progress; "loop": in the while loop
          ret     \* what the last call returned: 0, or -1 as "failed"

vars == <<block, size, n, pc, ret>>

TypeOK ==
    /\ block \in 0..(Limit - 1)
    /\ size \in 0..(Limit - 1)
    /\ n \in 0..(Limit - 1)
    /\ pc \in {"idle", "loop"}
    /\ ret \in {"none", "ok", "failed"}

Init ==
    /\ block = 0
    /\ size = 0
    /\ n = 0
    /\ pc = "idle"
    /\ ret = "none"

\* Mutant: a block that was lost by a failed call is not noticed.
NeedsSize(m) == size < m

\* if (*size < n || *p == NULL)
NeedsBlock(m) == size < m \/ block = 0

\* expand_packet is called; without need for a block it returns at once.
enter(m) ==
    /\ pc = "idle"
    /\ n' = m
    /\ \/ /\ NeedsBlock(m)
          /\ size' = IF size = 0 THEN 1 ELSE size
          /\ pc' = "loop"
          /\ UNCHANGED ret
       \/ /\ ~NeedsBlock(m)
          /\ ret' = "ok"
          /\ UNCHANGED <<size, pc>>
    /\ UNCHANGED block

\* Mutant: doubled without the type's arithmetic.
double_wide ==
    /\ pc = "loop"
    /\ size < n
    /\ size' = size * 2
    /\ UNCHANGED <<block, n, pc, ret>>

\* Mutant: the loop stops a doubling early and the call waits for ever.
double_stops ==
    /\ pc = "loop"
    /\ size * 4 < n
    /\ size' = (size * 2) % Limit
    /\ UNCHANGED <<block, n, pc, ret>>

\* while (*size < n) *size *= 2;
double ==
    /\ pc = "loop"
    /\ size < n
    /\ size' = (size * 2) % Limit
    /\ UNCHANGED <<block, n, pc, ret>>

\* *p = realloc(*p, *size): when it fails *p is lost and *size stays grown.
realloc ==
    /\ pc = "loop"
    /\ size >= n
    /\ pc' = "idle"
    /\ \/ block' = size /\ ret' = "ok"
       \/ Exhausts /\ block' = 0 /\ ret' = "failed"
    /\ UNCHANGED <<size, n>>

Next == double \/ realloc \/ \E m \in Lengths : enter(m)

Spec == Init /\ [][Next]_vars

\* A call, once entered, runs.
RunSpec == Spec /\ WF_vars(double) /\ WF_vars(realloc)

-----------------------------------------------------------------------------

\* `expand the packet to be big enough to contain at least @n bytes of payload'
\* (utils.h:72), whatever calls and failures came before: after a call that
\* returned 0 the block has n bytes and is as large as size says.
Contract == pc = "idle" /\ ret = "ok" => block >= n /\ block = size /\ block > 0

\* Between calls *size is the size of the block unless there is none, so a later
\* call that finds *size large enough may rely on it.
SizeIsHonest == pc = "idle" /\ block > 0 => block = size

\* The inductive invariant: in the loop the size has left 0 for good until it
\* wraps, and it only reaches 0 below n.
IInv == /\ TypeOK
        /\ Contract
        /\ SizeIsHonest
        /\ pc = "loop" => size > 0 \/ size < n

\* Every call returns for which the type has a power of two that is large enough,
\* whatever size and block the calls before it have left.
ReturnsIfRepresentable == (pc = "loop" /\ n \in 0..(Limit \div 2)) ~> pc = "idle"

=============================================================================
