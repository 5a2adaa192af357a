-------------------------- MODULE MCBlockingChannel --------------------------
(* Values of the constants of BlockingChannel for TLC. *)
EXTENDS BlockingChannel

MCWidth == [v \in {"0", "1", "", "m", "...", "7"} \cup Status |-> 1]

Response(w, good, fits) == [wire |-> w, good |-> good, fits |-> fits]

\* A status that is no status, sent before and after a valid one; a response
\* without id, as the threaded and the simple server send it; one cut off.
MCResponses == {
    Response(<< <<"id", "1">>, <<"status", "SUCCESS">> >>, TRUE, FALSE),
    Response(<< <<"id", "1">>, <<"status", "SUCCESS">>, <<"status", "7">> >>, TRUE, TRUE),
    Response(<< <<"id", "1">>, <<"status", "NOT_FOUND">>, <<"message", "m">> >>, FALSE, TRUE),
    Response(<< <<"id", "1">>, <<"status", "FAILED">>, <<"message", "m">> >>, TRUE, TRUE),
    Response(<< <<"status", "SUCCESS">> >>, TRUE, TRUE),
    Response(<< <<"id", "1">>, <<"status", "SUCCESS">>, <<"cut", "message">> >>, TRUE, TRUE) }

MCHealthy == {Response(<< <<"id", "1">>, <<"status", "SUCCESS">> >>, TRUE, TRUE)}

=============================================================================
