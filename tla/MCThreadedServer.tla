-------------------------- MODULE MCThreadedServer --------------------------
(* Values of the constants of ThreadedServer for TLC. *)
EXTENDS ThreadedServer

Request(s, o) == [service |-> s, outcome |-> o]

\* A request that is answered if the service is registered, one that cannot be
\* parsed, and one whose method throws.
MCRequests ==
    {Request("arith", "returns"), Request("arith", "garbled"), Request("arith", "throws")}

MCHealthy == {Request("arith", "returns")}

=============================================================================
