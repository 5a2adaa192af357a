--------------------------- MODULE MCMessageObjects ---------------------------
(* Values of the constants of MessageObjects for TLC. *)
EXTENDS MessageObjects

\* The default and another value of every field.
MCValues == [id |-> {"0", "1"}, method_identity |-> {"", "m"}, message |-> {"", "m"},
             status |-> {"SUCCESS", "NOT_FOUND"}]

\* "7" is no status, "x" the value of a field of a later version.
MCWidth == [v \in {"0", "1", "", "m", "...", "SUCCESS", "NOT_FOUND", "7", "x"} |->
              IF v = "" THEN 1 ELSE IF v \in {"m", "..."} THEN 2 ELSE 1]

\* Sequences of at most two elements.
UpToTwo(E) == {<<>>} \cup {<<e>> : e \in E} \cup {<<e, f>> : e, f \in E}

MCWires ==
    [Request  |-> UpToTwo({<<"id", "1">>, <<"method_identity", "m">>, <<"other", "x">>,
                           <<"cut", "id">>, <<"cut", "method_identity">>, <<"end", "">>}),
     Response |-> UpToTwo({<<"id", "1">>, <<"status", "NOT_FOUND">>, <<"status", "7">>,
                           <<"cut", "message">>, <<"end", "">>})]

=============================================================================
