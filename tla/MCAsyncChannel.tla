--------------------------- MODULE MCAsyncChannel ---------------------------
(* Values of the constants of AsyncChannel for TLC. *)
EXTENDS AsyncChannel

\* Two calls with different verdicts: a response given to the wrong call shows.
MCVerdict == [t \in CallId |-> IF t = 1 THEN "NOT_FOUND" ELSE "SUCCESS"]

=============================================================================
