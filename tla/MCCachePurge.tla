---------------------------- MODULE MCCachePurge ----------------------------
(* A zone and one under it, each with a wildcard; two edges. *)
EXTENDS CachePurge

CONSTANTS e1, e2
MCEdges == {e1, e2}
EdgeSymmetry == Permutations(MCEdges)

Plain == [enabled |-> TRUE, tls |-> FALSE, https |-> FALSE, ignore |-> FALSE]
Secure == [Plain EXCEPT !.tls = TRUE, !.https = TRUE]
Ignoring == [Secure EXCEPT !.ignore = TRUE]

MCPolicies == {Secure, Ignoring}

Entry(scheme, host, query) == [scheme |-> scheme, host |-> host, query |-> query]

\* Each zone is one site, listed by the zone's name, so that the shorter of the
\* nested wildcards comes first.
NestedHosts == {"a.sub.example", "b.example", "c.sub.example"}
NestedUnder == [h \in NestedHosts |->
    IF h = "b.example" THEN <<"example">> ELSE <<"sub.example", "example">>]
NestedSites == <<"example", "sub.example">>
NestedExact == <<{}, {"a.sub.example"}>>
NestedWild == <<{"example"}, {"sub.example"}>>
\* What is cached is under the two wildcards; everything is asked for at once.
NestedVisits == {Entry("https", h, "q") : h \in {"b.example", "c.sub.example"}}
NestedAsks == {{}, {Entry("https", h, "q") : h \in NestedHosts}}
=============================================================================
