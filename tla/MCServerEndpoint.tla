-------------------------- MODULE MCServerEndpoint --------------------------
(***************************************************************************)
(* Operations for TLC: one of each result, with the status codes at which  *)
(* the handler's behaviour changes, each mapped by a host that supports    *)
(* dynamic code and by one that does not.                                  *)
(***************************************************************************)
EXTENDS ServerEndpoint

CONSTANTS MCMethods

Handler(json, reads, defects, kind, success, dynamic) ==
    [body |-> json, reads |-> reads, defects |-> defects, result |-> kind,
     success |-> success, dynamic |-> dynamic]

HandlerOf(m, d) ==
    CASE m = "delete"   -> Handler(FALSE, FALSE, {"malformed"}, "void", 0, d)
      [] m = "download" -> Handler(FALSE, FALSE, {"missing"}, "file", 0, d)
      [] m = "text"     -> Handler(FALSE, FALSE, {}, "text", 0, d)
      [] m = "export"   -> Handler(FALSE, TRUE, {"missing"}, "bytes", 201, d)
      [] m = "create"   -> Handler(TRUE, TRUE, {"missing", "malformed"}, "json", 201, d)
      [] m = "touch"    -> Handler(FALSE, FALSE, {}, "json", 204, d)
      [] m = "update"   -> Handler(TRUE, TRUE, {"malformed"}, "json", 0, d)
      [] m = "list"     -> Handler(FALSE, FALSE, {}, "json", 0, d)

MCOperations == MCMethods \X BOOLEAN
MCHandles == [o \in MCOperations |-> HandlerOf(o[1], o[2])]

\* The JSON metadata of the body of "update" and of the result of "list" is missing.
MCDescribedBodies == {o \in MCOperations : o[1] = "create"}
MCDescribedResults == {o \in MCOperations : o[1] \in {"create", "touch", "update"}}
=============================================================================
