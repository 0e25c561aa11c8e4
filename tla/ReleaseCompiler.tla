--------------------------- MODULE ReleaseCompiler ---------------------------
(***************************************************************************)
(* Compiling desired state to a release: what each feature contributes for *)
(* a site and for the fleet, what the features object to, what a site asks *)
(* for that the controller or an edge lacks, and the identity of the       *)
(* result.  The derivation of the sites is in Hosts; here `inputs' names   *)
(* the sites derived, the hosts refused, and the fleet settings.           *)
(***************************************************************************)
EXTENDS Roster, Tables

\* What the policy of a site asks of the features.
Requirements(p) ==
    IF ~p.enabled THEN {}
    ELSE {t \in {"cache", "compression", "http3", "security", "geoip", "certificates"} :
            CASE t = "cache" -> p.cache
              [] t = "compression" -> p.compression
              [] t = "http3" -> p.http3
              [] t = "security" -> p.attack \/ p.firewall # "none"
              [] t = "geoip" -> p.firewall = "countries" \/ p.country
              [] t = "certificates" -> \/ p.mode \in {"uploaded", "requested"}
                                       \/ p.mode # "disabled" /\ p.auto}

-----------------------------------------------------------------------------
MergeLastWins(contributions) ==
    LET Of(i) == contributions[i].variables
        keys == UNION {DOMAIN Of(i) : i \in DOMAIN contributions}
        writers(k) == {i \in DOMAIN contributions : k \in DOMAIN Of(i)}
    IN [k \in keys |-> Of(Max(writers(k)))[k]]

\* One document of all contributions.  A variable has one writer, or exactly
\* one contribution that overrides the others.
MergeVariables(contributions) ==
    LET Of(i) == contributions[i].variables
        keys == UNION {DOMAIN Of(i) : i \in DOMAIN contributions}
        writers(k) == {i \in DOMAIN contributions : k \in DOMAIN Of(i)}
        claims(k) == {i \in writers(k) : k \in contributions[i].overrides}
        wins(k) == IF claims(k) # {} THEN claims(k) ELSE writers(k)
    IN IF \E k \in keys : \E i, j \in wins(k) : i # j THEN Refused
       ELSE [k \in keys |-> Of(CHOOSE i \in wins(k) : TRUE)[k]]

Contribution(variables, overrides) == [variables |-> variables, overrides |-> overrides]
Nothing == Contribution(<<>>, {})

Managed(site) == site.policy.mode \in {"uploaded", "requested"}

\* A site's flat document, the verified material of a managed certificate, and
\* whatever else is declared.  There is no rendering without the material.
SiteContribution(f, site, material) ==
    CASE f.name = "dns" -> Contribution([policy |-> site.policy], {})
      [] f.name = "certificates" /\ Managed(site) ->
           Contribution([source |-> material[site.name]], {})
      [] OTHER -> Contribution(f.variables, f.overrides)

SiteVariables(roster, site, material) ==
    IF /\ Managed(site) /\ site.name \notin DOMAIN material
       /\ \E i \in DOMAIN roster : roster[i].name = "certificates"
    THEN Refused
    ELSE MergeVariables([i \in DOMAIN roster |-> SiteContribution(roster[i], site, material)])

\* The baseline has no QUIC listener; its provider chooses the one owner.
Quic(sites) == {s.name : s \in {x \in sites : x.policy.enabled /\ x.policy.http3}}
FleetContribution(f, sites) ==
    CASE f.name = "http" ->
           Contribution([quic |-> FALSE, owner |-> 0], {})
      [] f.name = "http3" ->
           Contribution([quic |-> Quic(sites) # {},
                         owner |-> IF Quic(sites) = {} THEN 0 ELSE Min(Quic(sites))],
                        {"quic", "owner"})
      [] OTHER -> Nothing

FleetVariables(roster, sites) ==
    MergeVariables([i \in DOMAIN roster |-> FleetContribution(roster[i], sites)])

\* A challenge nobody can sign, a name no authority issues for.
Objections(configs, sites) ==
    LET Unsigned(s) == /\ s.policy.enabled /\ s.policy.attack
                       /\ configs["security"]["UNDER_ATTACK_SECRET"] = Blank
        Unissuable(s) == s.policy.enabled /\ s.policy.mode = "requested" /\ s.reserved
        By(name, Objects(_)) ==
            IF name \in DOMAIN configs
            THEN {<<name, s.name>> : s \in {x \in sites : Objects(x)}} ELSE {}
    IN By("security", Unsigned) \cup By("certificates", Unissuable)

-----------------------------------------------------------------------------
\* A target has declared what its edge provides, or is taken to provide all:
\* targets[t] holds one set of capabilities or none.
Missing(sites, capabilities, targets) ==
    LET Lacks(s, provided) == ~(Requirements(s.policy) \subseteq provided)
        For(t, declared) == {<<t, s.name>> : s \in {x \in sites :
                                \E provided \in declared : Lacks(x, provided)}}
    IN For("controller", {capabilities}) \cup UNION {For(t, targets[t]) : t \in DOMAIN targets}

Compile(roster, configs, material, inputs, targets) ==
    LET sites == {s \in inputs.sites : s.serves}
        objections == Objections(configs, sites)
        rendered == [s \in sites |-> IF objections # {} THEN <<>>
                                     ELSE SiteVariables(roster, s, material)]
        fleet == IF objections # {} THEN <<>> ELSE FleetVariables(roster, sites)
        derived == Over([sites |-> rendered], fleet)
        conflicts == {<<"settings", k>> : k \in DOMAIN inputs.settings \cap DOMAIN derived}
    IN IF fleet = Refused \/ \E s \in sites : rendered[s] = Refused THEN Refused
       ELSE [inputs |-> inputs,
             capabilities |-> Capabilities(roster),
             targets |-> targets,
             artifacts |-> IF objections \cup conflicts # {} THEN {}
                           ELSE {Over(inputs.settings, derived)},
             findings |-> {<<"derivation", h>> : h \in inputs.refused}
                          \cup Missing(sites, Capabilities(roster), targets)
                          \cup objections \cup conflicts]

Servable(r) == r.findings = {}

IdentityUntargeted(r) ==
    [inputs |-> r.inputs, capabilities |-> r.capabilities, artifacts |-> r.artifacts]

\* What the release is known by: not the findings, which follow.
Identity(r) ==
    [inputs |-> r.inputs, capabilities |-> r.capabilities,
     targets |-> r.targets, artifacts |-> r.artifacts]
=============================================================================
