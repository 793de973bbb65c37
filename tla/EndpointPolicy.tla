--------------------------- MODULE EndpointPolicy ---------------------------
(***************************************************************************)
(* The policies of an HTTP operation, from the attributes declared on the  *)
(* interfaces of its service and on the declarations of its method.        *)
(*                                                                         *)
(* A level (the interfaces, or the method's declarations) is a sequence of *)
(* symbols, base interfaces before derived ones, and a symbol the sequence *)
(* of its attributes. Names that are null or white space are "blank", an   *)
(* argument not given is "omitted", and a policy not set is "none". Lists  *)
(* whose order no property tells apart are sets.                           *)
(***************************************************************************)
EXTENDS Naturals, Sequences

\* The occurrences <<symbol, attribute>> of a kind that apply to the operations of a
\* verb: those that select it and those that select none.
Occurrences(level, kind, verb) ==
    {o \in UNION {{k} \X DOMAIN level[k] : k \in DOMAIN level} :
        /\ level[o[1]][o[2]].kind = kind
        /\ level[o[1]][o[2]].selects \in {"any", verb}}

After(o, p) == o[1] > p[1] \/ (o[1] = p[1] /\ o[2] > p[2])

\* A mistake: the first declaration wins.
Latest_First(O) == CHOOSE o \in O : \A p \in O \ {o} : After(p, o)

Latest(O) == CHOOSE o \in O : \A p \in O \ {o} : After(o, p)

NameOf(level, o) == level[o[1]][o[2]].name
NamesOf(level, O) == {NameOf(level, o) : o \in O} \ {"blank"}

\* GetRequiredPolicyName: a later attribute replaces an earlier one, by nothing when
\* its own name is invalid. A timeout's name stands for its milliseconds too, which
\* are invalid unless positive.
Replacing(level, kind, verb) ==
    LET O == Occurrences(level, kind, verb) IN
    IF O = {} \/ NameOf(level, Latest(O)) = "blank" THEN "none" ELSE NameOf(level, Latest(O))

\* TryGetOptionalPolicyName: an invalid name leaves what was enabled before.
Enabling(level, kind, verb) ==
    LET O == {o \in Occurrences(level, kind, verb) : NameOf(level, o) # "blank"} IN
    IF O = {} THEN "none" ELSE NameOf(level, Latest(O))

\* Roles alone do not ask for the default policy.
ParseDeclared(level, verb) ==
    LET authorize == {o \in Occurrences(level, "authorize", verb) : NameOf(level, o) # "blank"}
        RolesOf(o) == level[o[1]][o[2]].roles IN
    [authorization |-> NamesOf(level, {o \in authorize :
                         NameOf(level, o) # "omitted" \/ RolesOf(o) = "blank"}),
     roles         |-> {RolesOf(o) : o \in authorize} \ {"blank"},
     anonymous     |-> Occurrences(level, "anonymous", verb) # {},
     cors          |-> Replacing(level, "cors", verb),
     cache         |-> Enabling(level, "cache", verb),
     rateLimit     |-> Replacing(level, "rateLimit", verb),
     timeout       |-> Replacing(level, "timeout", verb),
     custom        |-> NamesOf(level, Occurrences(level, "custom", verb))]

HasAuthorization(policies) == policies.authorization # {} \/ policies.roles # {}

\* What a method declares stands before what its service does, except that
\* authorizations and custom policies add up.
Either(method, service) == IF method # "none" THEN method ELSE service

ParseEffective(services, methods, verb) ==
    LET S == ParseDeclared(services, verb)
        M == ParseDeclared(methods, verb) IN
    [authorization |-> S.authorization \cup M.authorization,
     roles         |-> S.roles \cup M.roles,
     anonymous     |-> M.anonymous \/ (S.anonymous /\ ~HasAuthorization(M)),
     cors          |-> Either(M.cors, S.cors),
     cache         |-> Either(M.cache, S.cache),
     rateLimit     |-> Either(M.rateLimit, S.rateLimit),
     timeout       |-> Either(M.timeout, S.timeout),
     custom        |-> S.custom \cup M.custom]
=============================================================================
