--------------------------- MODULE MCContractParse ---------------------------
(***************************************************************************)
(* Contracts for TLC: every hierarchy of a service and three interfaces    *)
(* with few declarations, and every declaration on few hierarchies.        *)
(***************************************************************************)
EXTENDS ContractParse

MCService == 4
MCInterfaces == 1..4

Closure(g) ==
    LET Further(r) == [i \in MCInterfaces |-> r[i] \cup UNION {r[b] : b \in r[i]}] IN
    Further(Further(g))

\* Every hierarchy without cycles whose interfaces the service inherits.
Hierarchies ==
    {g \in [MCInterfaces -> SUBSET (1..3)] :
        /\ \A i \in MCInterfaces : i \notin Closure(g)[i]
        /\ Closure(g)[4] = 1..3}

Chain == {<<{}, {}, {}, {3}>>}
\* Two interfaces that share a base, whose name comes before or after theirs.
Diamond == <<{}, {1}, {1}, {2, 3}>>
Diamonds == {Diamond, <<{3}, {3}, {}, {1, 2}>>}

Contract(public, g, attributes, declares) ==
    [public |-> public, bases |-> g, all |-> Closure(g), attributes |-> attributes,
     declares |-> declares]

Verb(verb, route, tokens, isDefault, valid) ==
    [verb |-> verb, written |-> route, route |-> route, tokens |-> tokens,
     isDefault |-> isDefault, valid |-> valid]
Get == Verb("GET", "r", {}, FALSE, TRUE)
Post == Verb("POST", "r", {}, FALSE, TRUE)
Default(v) == [v EXCEPT !.isDefault = TRUE]

Signature(types, supported) == [types |-> types, supported |-> supported]
Declaring(type, name, binding, verbs) ==
    [signature |-> Signature(<<type>>, TRUE), generic |-> FALSE, names |-> <<name>>,
     bindings |-> <<binding>>, verbs |-> verbs, endpointName |-> "none", attributes |-> <<>>]
Redeclared == Declaring("complex", "a", "none", <<>>)
Gets == Declaring("complex", "a", "none", <<Get>>)
Posts == Declaring("complex", "a", "none", <<Post>>)

\* m is declared as D says, n not at all, and no interface has an attribute.
Only(D) == [i \in MCInterfaces |-> [m |-> D[i], n |-> NoDeclaration]]
NoAttributes == [i \in MCInterfaces |-> <<>>]

VerbContracts ==
    LET Bases == {NoDeclaration, Gets, Posts} IN
    {Contract(TRUE, g, NoAttributes, Only(D)) :
        g \in Hierarchies, D \in Bases \X Bases \X Bases \X {NoDeclaration, Redeclared, Posts}}

BindingContracts ==
    {Contract(TRUE, g, NoAttributes, Only(D)) :
        g \in Diamonds,
        D \in [MCInterfaces ->
                 {NoDeclaration, Redeclared, Posts, Declaring("complex", "a", "Header", <<>>),
                  Declaring("complex", "a", "Query", <<Get>>)}]}

\* What a declaration may get wrong, on its own or against an inherited one.
Odd ==
    {NoDeclaration, Gets, Posts,
     Declaring("scalar", "id", "none", <<Verb("GET", "r/id", {"id"}, FALSE, TRUE)>>),
     Declaring("cancellation", "c", "none", <<Post>>),
     Declaring("scalar", "a", "Body", <<Get>>),
     Declaring("scalar", "a", "none", <<Get, Post>>),
     Declaring("scalar", "a", "none", <<Default(Get), Post>>),
     Declaring("scalar", "a", "none", <<Default(Get), Default(Post)>>),
     Declaring("scalar", "a", "none", <<Verb("GET", "r=", {}, FALSE, FALSE)>>),
     [Gets EXCEPT !.signature.supported = FALSE], [Gets EXCEPT !.generic = TRUE],
     [Gets EXCEPT !.endpointName = "e"], [Gets EXCEPT !.endpointName = "blank"],
     [Declaring("scalar", "a", "none", <<Default(Get), Post>>) EXCEPT !.endpointName = "e"],
     [Posts EXCEPT !.signature.types = <<"complex", "complex">>,
                   !.names = <<"a", "b">>, !.bindings = <<"none", "none">>]}
Second == {NoDeclaration, [Gets EXCEPT !.verbs[1].written = "/r/"], [Posts EXCEPT !.endpointName = "e"]}

OddContracts ==
    {Contract(public, g, NoAttributes,
              [i \in MCInterfaces |->
                 [m |-> IF i = 4 THEN own ELSE IF i = 3 THEN base ELSE NoDeclaration,
                  n |-> IF i = 4 THEN second ELSE NoDeclaration]]) :
        public \in BOOLEAN, g \in Chain, own \in Odd, base \in Odd, second \in Second}

Attribute(kind, name, selects) ==
    [kind |-> kind, name |-> name, roles |-> "blank", selects |-> selects]
\* The attribute of interface i: its names tell who declared it.
Names == [s |-> <<"s1", "s2", "s3", "s4">>, m |-> <<"m1", "m2", "m3", "m4">>]
Level(kind, name, i) ==
    CASE name = "none"  -> <<>>
      [] name = "blank" -> <<Attribute(kind, "blank", "any")>>
      [] name = "other" -> <<Attribute(kind, "other", "POST")>>
      [] OTHER          -> <<Attribute(kind, Names[name][i], "any")>>

PolicyContracts ==
    {Contract(TRUE, g,
              [i \in MCInterfaces |-> Level(kind, IF i \in S THEN "s" ELSE IF i = 4 THEN s4 ELSE "none", i)],
              Only([i \in MCInterfaces |->
                      [Gets EXCEPT !.attributes =
                         Level(kind, CASE i = 4 -> m4 [] i = 2 -> m2 [] i \in M -> "m"
                                       [] OTHER -> "none", i)]])) :
        g \in Diamonds, kind \in {"cors", "cache"},
        S \in SUBSET (1..4), s4 \in {"none", "blank"},
        M \in SUBSET {1, 3}, m2 \in {"none", "m"}, m4 \in {"none", "blank", "other", "m"}}

\* Attributes that add up, and those that undo each other, on one symbol too.
Authorize(name, roles) ==
    [kind |-> "authorize", name |-> name, roles |-> roles, selects |-> "any"]
Anonymous(selects) == Attribute("anonymous", "omitted", selects)
OfInterface ==
    {<<>>, <<Anonymous("any")>>, <<Authorize("p", "r")>>, <<Authorize("omitted", "blank")>>,
     <<Attribute("timeout", "s", "any"), Attribute("rateLimit", "s", "any"),
       Attribute("custom", "s", "any")>>}
OfMethod ==
    {<<>>, <<Anonymous("any")>>, <<Anonymous("POST")>>, <<Authorize("blank", "r")>>,
     <<Authorize("omitted", "r")>>, <<Anonymous("any"), Authorize("q", "blank")>>,
     <<Attribute("timeout", "t", "any"), Attribute("timeout", "blank", "any"),
       Attribute("rateLimit", "l", "any"), Attribute("rateLimit", "k", "GET")>>,
     <<Attribute("timeout", "t", "any"), Attribute("rateLimit", "blank", "GET"),
       Attribute("custom", "t", "any")>>}

AuthorizationContracts ==
    {Contract(TRUE, Diamond,
              [i \in MCInterfaces |-> IF i = 1 THEN s1 ELSE IF i = 4 THEN s4 ELSE <<>>],
              Only([i \in MCInterfaces |->
                      [Gets EXCEPT !.attributes = IF i = 2 THEN m2 ELSE IF i = 4 THEN m4 ELSE <<>>]])) :
        s1 \in OfInterface, s4 \in OfInterface, m2 \in OfMethod, m4 \in OfMethod}

MCContracts ==
    VerbContracts \cup BindingContracts \cup OddContracts
        \cup PolicyContracts \cup AuthorizationContracts
=============================================================================
