--------------------------- MODULE MCReconcileLists ---------------------------
(* Instances of ReconcileLists for TLC.  A behaviour is fed with client lists *)
(* or with route lists, or with a few states that have both: the two lists   *)
(* share nothing but the order in which they are applied.                    *)
EXTENDS ReconcileLists

CONSTANTS Emails, e1, Protos, Secrets, Tags, t1, b1, b2, MaxClients, MaxRoutes

AllClients == [email : Emails, proto : Protos, secret : Secrets]
AllRoutes  == [tag : Tags, rule : {b1}] \cup [tag : {t1}, rule : {b2}]

UpTo(S, n) == UNION {[1..k -> S] : k \in 0..n}

Sends(vs, cs, rs) == [version : vs, clients : cs, routes : rs]

AnyClientLists == UpTo(AllClients, MaxClients)
OnceEach       == {cs \in AnyClientLists : \A i, j \in DOMAIN cs : cs[i].email = cs[j].email => i = j}
RouteLists     == UpTo(AllRoutes, MaxRoutes)

\* Every client at most once.
UniqueAnswers == [f \in {"clients", "routes", "both"} |->
    CASE f = "clients" -> Sends({1}, OnceEach, {<<>>})
      [] f = "routes"  -> Sends({1}, {<<>>}, RouteLists)
      [] f = "both"    -> Sends({1, 2}, UpTo({c \in AllClients : c.email = e1}, 1),
                                        UpTo({r \in AllRoutes : r.tag = t1}, 1))]

\* A panel that lists a user under two protocols, or twice.
RepeatedAnswers == [f \in {"repeated"} |-> Sends({1}, AnyClientLists, {<<>>})]

Sym == Permutations(Protos) \cup Permutations(Secrets)
       \cup Permutations(Tags \ {t1})
=============================================================================
