---------------------------- MODULE MCAsyncServer ----------------------------
(* Values of the constants of AsyncServer for TLC. *)
EXTENDS AsyncServer

Small(o) == [outcome |-> o, req |-> 1, resp |-> 1]

\* A response larger than its request that still fits into the doubled block,
\* with sizeof(packet) = 2 and metadata of 1.
Doubled == [outcome |-> "returns", req |-> 2, resp |-> 4]

MCRequests == {Small("throws"), Small("garbled"), Doubled}

\* A response that does not fit.
MCLarge == {[outcome |-> "returns", req |-> 1, resp |-> 4]}

MCUnknown == {Small("unknown")}

=============================================================================
