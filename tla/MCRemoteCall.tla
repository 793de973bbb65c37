---------------------------- MODULE MCRemoteCall ----------------------------
(***************************************************************************)
(* A contract with one method of each result, for TLC.                     *)
(***************************************************************************)
EXTENDS RemoteCall

MCVerbs == {"GET", "POST"}
MCExposed ==
    [m \in Methods |-> IF m = "find" THEN MCVerbs
                       ELSE IF m = "store" THEN {"POST"} ELSE {"GET"}]
MCClientDefault == [m \in Methods |-> IF m = "store" THEN "POST" ELSE "GET"]

CONSTANT Dynamic \* the methods whose endpoints a host with dynamic code mapped

Handler(json, reads, defects, kind, success, dynamic) ==
    [body |-> json, reads |-> reads, defects |-> defects, result |-> kind,
     success |-> success, dynamic |-> dynamic]

MCHandles ==
    [o \in Methods \X MCVerbs |->
        LET json == o = <<"find", "POST">>
            D == o[1] \in Dynamic IN
        CASE o[1] = "find"     -> Handler(json, json, {"missing"}, "json", 0, D)
          [] o[1] = "download" -> Handler(FALSE, FALSE, {"missing"}, "file", 0, D)
          [] o[1] = "store"    -> Handler(FALSE, TRUE, {"missing"}, "void", 201, D)
          [] o[1] = "label"    -> Handler(FALSE, FALSE, {}, "text", 0, D)
          [] o[1] = "touch"    -> Handler(FALSE, FALSE, {}, "json", 204, D)]

Every == Methods \X MCVerbs
\* The result of the POST was left out of the registered metadata.
MCDescribedResults == Every \ {<<"find", "POST">>}

MCFiles == [o \in Every |-> IF o[1] = "store" THEN MaximumFiles ELSE 0]
MCHosts == {[resolver |-> "none", reflection |-> TRUE, maximum |-> 1]}
=============================================================================
