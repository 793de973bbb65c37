------------------------ MODULE MCEndpointConventions ------------------------
(***************************************************************************)
(* A contract of two services, one with a method of two verbs, for TLC.    *)
(***************************************************************************)
EXTENDS EndpointConventions

MCNames ==
    {"IFiles", "IStatus", "Find", "Store", "GET", "POST", "default", "Reader", "Admin",
     "Public", "Audited", "cache", "rate"}

None == [authorization |-> <<>>, roles |-> <<>>, anonymous |-> FALSE, single |-> <<>>,
         custom |-> <<>>, milliseconds |-> FALSE]

Operation(service, method, verb, policies) ==
    [service |-> service, method |-> method, verb |-> verb, policies |-> policies]

MCContract ==
    <<Operation("IFiles", "Find", "GET",
                [None EXCEPT !.authorization = <<"default", "Reader">>,
                             !.custom = <<"Public", "Audited">>, !.milliseconds = TRUE]),
      Operation("IFiles", "Find", "POST", None),
      Operation("IFiles", "Store", "POST",
                [None EXCEPT !.roles = <<"Admin">>, !.custom = <<"Audited">>]),
      Operation("IStatus", "Find", "GET",
                [None EXCEPT !.anonymous = TRUE, !.single = <<"cache", "rate">>])>>

\* Nothing, one policy, both, and one of them twice.
MCRegistrations ==
    {<<>>, <<"Public">>, <<"Audited", "Public">>, <<"Audited", "Public", "Audited">>}
=============================================================================
