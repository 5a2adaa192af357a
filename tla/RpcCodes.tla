------------------------------ MODULE RpcCodes ------------------------------
(***************************************************************************)
(* The vocabulary the channels and the servers share: the status a server  *)
(* puts into a Response, the error code a channel leaves in the caller's   *)
(* CarrotController, and how the first becomes the second.                 *)
(***************************************************************************)

\* enum Status of rpc.proto.
Status == {"SUCCESS", "ERROR", "NOT_FOUND", "FAILED"}

\* enum error_code of carrot_controller.h, without EC_INVALID_INTERNAL_STATE,
\* which no line of the library uses.
Code == {"EC_SUCCESS", "EC_ERROR", "EC_FAILED", "EC_CONNECTION_FAILED", "EC_OOM",
         "EC_SERIALIZATION_ERROR", "EC_TRANSPORT_ERROR", "EC_METHOD_NOT_FOUND",
         "EC_RPC_TIMEOUT"}

\* The switch over rpc_resp.status() of handle_read_payload and of the blocking
\* channel's CallMethod.  On SUCCESS the controller is left as it was
\* constructed, that is with EC_SUCCESS.
CodeOf(s) ==
    CASE s = "SUCCESS"   -> "EC_SUCCESS"
      [] s = "ERROR"     -> "EC_ERROR"
      [] s = "NOT_FOUND" -> "EC_METHOD_NOT_FOUND"
      [] s = "FAILED"    -> "EC_FAILED"

\* The codes with which a channel reports that the call did not complete a
\* round trip, or that what came back could not be read.
LocalFailure == Code \ {"EC_SUCCESS", "EC_METHOD_NOT_FOUND"}

=============================================================================
