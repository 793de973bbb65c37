---------------------------- MODULE MCClientCall ----------------------------
(***************************************************************************)
(* Small instances of ClientCall. The contract has one method of each      *)
(* shape the emitter distinguishes: "find" has a GET and a POST with JSON  *)
(* in both directions, "download" returns a RemoteFile, "store" uploads    *)
(* two files, "label" returns text.                                        *)
(***************************************************************************)
EXTENDS ClientCall

CONSTANTS MCMethods

AllVerbs == {"GET", "POST"}
MCExposed == [m \in MCMethods |-> CASE m = "find" -> AllVerbs
                                    [] m = "store" -> {"POST"}
                                    [] OTHER -> {"GET"}]
MCClientDefault == [m \in MCMethods |-> IF m = "store" THEN "POST" ELSE "GET"]

Does(content, files, result) == [content |-> content, files |-> files, result |-> result]
MCOperation ==
    [m \in MCMethods |-> [v \in AllVerbs |->
        CASE m = "find" -> Does(IF v = "POST" THEN "json" ELSE "none", 0, "json")
          [] m = "download" -> Does("none", 0, "file")
          [] m = "store" -> Does("form", MaximumFiles, "void")
          [] m = "label" -> Does("none", 0, "raw")]]

Answer(status, media, payload, size) ==
    [status |-> status, media |-> media, payload |-> payload, size |-> size]

\* A success, one that is not JSON, a failure with Problem Details, with broken
\* ones, with a null document, and with a page longer than the excerpt.
MCAnswers ==
    {Answer(200, "other", "valid", 1), Answer(200, "other", "malformed", 1),
     Answer(404, "problem", "valid", 1), Answer(404, "problem", "malformed", 1),
     Answer(404, "problem", "null", 1), Answer(500, "other", "malformed", 3)}

\* A host that configured no metadata, and one that registered a context without the
\* contract's types and bounds the excerpt by a negative number.
Host(metadata, bound) ==
    [resolver |-> metadata, reflection |-> TRUE, maximum |-> bound]
FreshHost == {Host("none", 2)}
MCHosts == FreshHost \cup {Host("foreign", -1)}

GoodAnswers == {Answer(200, "other", "valid", 1)}
=============================================================================
