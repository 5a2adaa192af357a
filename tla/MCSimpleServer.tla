--------------------------- MODULE MCSimpleServer ---------------------------
(* Values of the constants of SimpleServer for TLC. *)
EXTENDS SimpleServer

Request(o, req, resp) == [outcome |-> o, req |-> req, resp |-> resp]

\* A response larger than its request, and a request larger than both.
MCRequests == {Request("returns", 1, 2), Request("garbled", 3, 1)}

\* One client sends two requests, the others one each.
MCMaxRequests == LET first == CHOOSE c \in Clients : TRUE
                 IN  [c \in Clients |-> IF c = first THEN 2 ELSE 1]

=============================================================================
