------------------------------- MODULE Hosts --------------------------------
(***************************************************************************)
(* A zone, its rules and its proxied records, the virtual hosts they       *)
(* derive to, and the transactions that edit them.  A policy is its TLS    *)
(* settings; the three certificate settings, cleared and set together, are *)
(* one.  An unproxied record is no record: nothing is derived from it.  A  *)
(* hostname has one record.                                                *)
(*                                                                         *)
(* The name of a host is the sequence of its tokens: the zone, the rule if *)
(* any, and the address of every origin after the first.                   *)
(***************************************************************************)
EXTENDS Naturals, FiniteSets, SequencesExt

CONSTANTS
    Hostnames,          \* the hostnames of the zone
    Rules,              \* the rules there may be, in the order they are tried
    Origins,            \* the origin addresses, in their order
    NoRule,             \* a rule that is not written
    MaxSsl,             \* full_strict; 0 is off
    Versions,           \* the certificates there may ever be
    Starts,             \* canonical states the system is taken up in
    Written,            \* the settings an operator's edits send
    MaxEdits            \* bound: what operators do

VARIABLES
    canonical,          \* the stored desired state
    edits               \* edits so far

hosts == <<canonical, edits>>

Zone == 0
NoOrigin == 0
Modes == {"disabled", "existing", "uploaded", "requested"}
IssuerOwned == {"uploaded", "requested"}

Base(r) == IF r = Zone THEN <<Zone>> ELSE <<Zone, r>>
Names == LET bases == {Base(r) : r \in Rules \cup {Zone}}
         IN bases \cup {Append(b, o) : b \in bases, o \in Origins}

\* Where an edge finds a certificate: nowhere, at a place of the operator's
\* own, or at an exact version under the directory of a host.
NoPath == [site |-> <<>>, version |-> 0]
OwnPath == [site |-> <<Zone, Zone>>, version |-> 0]
Paths == {NoPath, OwnPath} \cup [site : Names, version : Versions]

Certificate == [mode : Modes, path : Paths]
Policy == [cert : Certificate, ssl : 0..MaxSsl, auto : BOOLEAN]

\* Some of the settings of a policy.
IsSettings(s) ==
    /\ DOMAIN s \subseteq {"cert", "ssl", "auto"} /\ DOMAIN s # {}
    /\ "cert" \in DOMAIN s => s["cert"] \in Certificate
    /\ "ssl" \in DOMAIN s => s["ssl"] \in 0..MaxSsl
    /\ "auto" \in DOMAIN s => s["auto"] \in BOOLEAN

IsRule(rule) ==
    rule = NoRule \/ (/\ DOMAIN rule = {"match", "overrides"}
                      /\ rule.match \subseteq Hostnames /\ IsSettings(rule.overrides))
IsCanonical(c) ==
    /\ DOMAIN c = {"zone", "rules", "origin"}
    /\ c.zone \in Policy
    /\ DOMAIN c.rules = Rules /\ \A r \in Rules : IsRule(c.rules[r])
    /\ c.origin \in [Hostnames -> Origins \cup {NoOrigin}]

\* Operators are taken to name no file of the issuer's: its modes are refused,
\* but a path under its root would pass for a certificate of their own.
ByOperator(s) == "cert" \in DOMAIN s => s["cert"].path \in {NoPath, OwnPath}

ASSUME HostsAssumption ==
    /\ Rules \subseteq Nat \ {0} /\ Origins \subseteq Nat \ {0}
    /\ Rules \cap Origins = {}          \* no address spells a rule
    /\ Versions \subseteq Nat \ {0}
    /\ {MaxSsl, MaxEdits} \subseteq Nat
    /\ \A s \in Written : IsSettings(s) /\ ByOperator(s)
    /\ \A c \in Starts : /\ IsCanonical(c) /\ ByOperator(c.zone)
                         /\ \A r \in Rules : c.rules[r] = NoRule \/ ByOperator(c.rules[r].overrides)

-----------------------------------------------------------------------------
(* The derivation.                                                         *)

\* Settings written over a policy, or over other settings.
Applying(policy, changes) ==
    [f \in DOMAIN policy \cup DOMAIN changes |->
        IF f \in DOMAIN changes THEN changes[f] ELSE policy[f]]

\* What the model of a zone refuses.
Composes(policy) ==
    /\ (policy.cert.mode = "disabled") = (policy.cert.path = NoPath)
    /\ policy.ssl > 0 => policy.cert.mode # "disabled"

\* What the model of a host refuses besides: material of another host.
ComposesAs(name, policy) ==
    /\ Composes(policy)
    /\ policy.cert.mode \in IssuerOwned => policy.cert.path.site = name

\* The rule that decides a hostname: the first that covers it, or none.
Winner(c, h) ==
    LET covering == {r \in Rules : c.rules[r] # NoRule /\ h \in c.rules[r].match}
    IN IF covering = {} THEN Zone ELSE CHOOSE r \in covering : \A s \in covering : r <= s

PolicyOf(c, r) == IF r = Zone THEN c.zone ELSE Applying(c.zone, c.rules[r].overrides)

\* The groups, by rule and origin, never by policy.  A hostname whose merge is
\* invalid is in none.
Groups(c) ==
    {g \in {[rule |-> Winner(c, h), origin |-> c.origin[h]] : h \in Hostnames} :
        g.origin # NoOrigin /\ Composes(PolicyOf(c, g.rule))}

\* The hosts: the first origin of a rule keeps the plain name, and a host that
\* does not compose keeps its name and is dropped.
Sites(c) ==
    LET groups == Groups(c)
        first(g) == \A f \in groups : f.rule = g.rule => g.origin <= f.origin
        site(g) == [rule |-> g.rule, origin |-> g.origin, policy |-> PolicyOf(c, g.rule),
                    name |-> IF first(g) THEN Base(g.rule) ELSE Append(Base(g.rule), g.origin)]
    IN {s \in {site(g) : g \in groups} : ComposesAs(s.name, s.policy)}

HasSite(c, n) == \E s \in Sites(c) : s.name = n
Site(c, n) == CHOOSE s \in Sites(c) : s.name = n
Answers(c, s, h) == Winner(c, h) = s.rule /\ c.origin[h] = s.origin

\* Where a host's name came from: the zone or rule with the longest base.
Bases(c, n) == {r \in Rules \cup {Zone} : /\ r # Zone => c.rules[r] # NoRule
                                          /\ IsPrefix(Base(r), n)}
HostSourceShortest(c, n) == Zone                                          \* mutant
HostSource(c, n) ==
    CHOOSE r \in Bases(c, n) : \A s \in Bases(c, n) : Len(Base(s)) <= Len(Base(r))

\* Settings written to a zone or to the overrides of a rule.
ApplyToSource(c, r, changes) ==
    IF r = Zone THEN [c EXCEPT !.zone = Applying(@, changes)]
    ELSE [c EXCEPT !.rules[r].overrides = Applying(@, changes)]

-----------------------------------------------------------------------------
(* What operators write.  Each edit is one transaction that reads what it   *)
(* writes over.                                                             *)

Edited(c) ==
    /\ edits < MaxEdits
    /\ c # canonical
    /\ canonical' = c
    /\ edits' = edits + 1

\* An edit that claims material of the issuer is refused.
Claims(changes) == "cert" \in DOMAIN changes /\ changes["cert"].mode \in IssuerOwned

UpdateDomain(changes) ==
    /\ ~Claims(changes)
    /\ Composes(Applying(canonical.zone, changes))
    /\ Edited(ApplyToSource(canonical, Zone, changes))

\* A rule is not held against its zone when it is written.
CreateRule(r, match, overrides) ==
    /\ canonical.rules[r] = NoRule
    /\ ~Claims(overrides)
    /\ Edited([canonical EXCEPT !.rules[r] = [match |-> match, overrides |-> overrides]])

\* Overrides are replaced as a whole, the issuer's with them.
UpdateOverrides(r, overrides) ==
    /\ canonical.rules[r] # NoRule
    /\ ~Claims(overrides)
    /\ Edited([canonical EXCEPT !.rules[r].overrides = overrides])

UpdateMatch(r, match) ==
    /\ canonical.rules[r] # NoRule
    /\ Edited([canonical EXCEPT !.rules[r].match = match])

DeleteRule(r) ==
    Edited([canonical EXCEPT !.rules[r] = NoRule])

\* A record is created, pointed elsewhere or proxied; unproxied or deleted.
WriteRecord(h, o) ==
    Edited([canonical EXCEPT !.origin[h] = o])

Edit ==
    \/ \E changes \in Written :
          \/ UpdateDomain(changes)
          \/ \E r \in Rules : \/ \E match \in SUBSET Hostnames \ {{}} : CreateRule(r, match, changes)
                              \/ UpdateOverrides(r, changes)
    \/ \E r \in Rules : \/ \E match \in SUBSET Hostnames \ {{}} : UpdateMatch(r, match)
                        \/ DeleteRule(r)
    \/ \E h \in Hostnames, o \in Origins \cup {NoOrigin} : WriteRecord(h, o)

HostsInit == canonical \in Starts /\ edits = 0
=============================================================================
