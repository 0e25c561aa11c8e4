------------------------- MODULE CertificatesProofs -------------------------
(***************************************************************************)
(* What the derivation of hosts and the certificates they are served with  *)
(* promise, for every set of hostnames, rules and origins and every bound. *)
(* Two ideas carry it: a host keeps the name of the zone or rule it comes  *)
(* from, so that what is issued for the name finds its way back; and what  *)
(* anyone could still name is never collected.                             *)
(***************************************************************************)
EXTENDS Certificates, SequenceTheorems, FiniteSetTheorems, WellFoundedInduction, TLAPS

-----------------------------------------------------------------------------
(* Numbers.                                                                *)

LEMMA Least ==
    ASSUME NEW T, T \subseteq Nat, T # {}
    PROVE  \E x \in T : \A y \in T : x <= y
<1> DEFINE Less == {p \in Nat \X Nat : p[1] < p[2]}
<1>1. IsWellFoundedOn(Less, Nat)
  BY NatLessThanWellFounded DEF OpToRel
<1> HIDE DEF Less
<1>2. PICK x \in T : \A y \in T : <<y, x>> \notin Less
  BY <1>1, WFMin
<1>3. \A y \in T : x <= y
  <2> TAKE y \in T
  <2>1. x \in Nat /\ y \in Nat /\ <<y, x>> \in Nat \X Nat
    OBVIOUS
  <2>2. ~(<<y, x>>[1] < <<y, x>>[2])
    BY <1>2, <2>1 DEF Less
  <2> QED BY <2>1, <2>2
<1> QED BY <1>3

-----------------------------------------------------------------------------
(* Settings, and what they name.                                           *)

\* Settings send an edge to none but the certificates of a set.
Naming(s, C) == "cert" \in DOMAIN s => s["cert"] \in C

\* So does a canonical state.
StateNaming(c, C) ==
    /\ Naming(c.zone, C)
    /\ \A r \in Rules : c.rules[r] # NoRule => Naming(c.rules[r].overrides, C)

\* A version that is named is on disk, and came from the authority if it was
\* requested there.
Usable ==
    {cert \in Certificate : cert.path.version # 0 =>
        /\ cert.path.version \in files
        /\ cert.mode = "requested" => issued[cert.path.version].source = "acme"}

LEMMA UsableKept == ASSUME UNCHANGED <<issued, files>> PROVE Usable' = Usable
BY DEF Usable

LEMMA UsableOnDisk ==
    ASSUME NEW c, StateNaming(c, Usable)
    PROVE  VersionsOf(c) \subseteq files
<1> DEFINE SettingsThere ==
             {c.zone} \cup {c.rules[r].overrides : r \in {s \in Rules : c.rules[s] # NoRule}}
           VersionsThere ==
             {s["cert"].path.version : s \in {t \in SettingsThere : "cert" \in DOMAIN t}}
<1>1. VersionsOf(c) = VersionsThere \ {0}
  BY DEF VersionsOf
<1>2. \A s \in SettingsThere : Naming(s, Usable)
  BY DEF StateNaming
<1> HIDE DEF SettingsThere
<1>3. \A v \in VersionsThere : v # 0 => v \in files
  BY <1>2 DEF Naming, Usable
<1> QED BY <1>1, <1>3

\* What is still on disk after some files went is still usable.
LEMMA UsableStill ==
    ASSUME NEW c, StateNaming(c, Usable), UNCHANGED issued, VersionsOf(c) \subseteq files'
    PROVE  StateNaming(c, Usable')
<1> DEFINE SettingsThere ==
             {c.zone} \cup {c.rules[r].overrides : r \in {s \in Rules : c.rules[s] # NoRule}}
           VersionsThere ==
             {s["cert"].path.version : s \in {t \in SettingsThere : "cert" \in DOMAIN t}}
<1>1. VersionsOf(c) = VersionsThere \ {0}
  BY DEF VersionsOf
<1>2. \A s \in SettingsThere : Naming(s, Usable)
  BY DEF StateNaming
<1>3. \A s \in SettingsThere : Naming(s, Usable')
  <2> TAKE s \in SettingsThere
  <2>1. Naming(s, Usable)
    BY <1>2
  <2>2. "cert" \in DOMAIN s => s["cert"].path.version \in VersionsThere
    OBVIOUS
  <2> HIDE DEF VersionsThere
  <2> QED BY <1>1, <2>1, <2>2 DEF Naming, Usable
<1> QED BY <1>3 DEF StateNaming

LEMMA NamingGrows ==
    ASSUME NEW c, NEW V, NEW W, StateNaming(c, V), V \subseteq W
    PROVE  StateNaming(c, W)
BY DEF StateNaming, Naming

LEMMA AppliedNames ==
    ASSUME NEW p, NEW s, NEW V, Naming(p, V), Naming(s, V)
    PROVE  Naming(Applying(p, s), V)
BY DEF Naming, Applying

LEMMA OperatorNamesNothing ==
    ASSUME NEW s, IsSettings(s), ByOperator(s)
    PROVE  Naming(s, Usable)
BY DEF Naming, Usable, IsSettings, ByOperator, NoPath, OwnPath

LEMMA PolicyIsSettings ==
    ASSUME NEW p \in Policy
    PROVE  IsSettings(p)
BY DEF IsSettings, Policy

LEMMA AppliedPolicy ==
    ASSUME NEW p \in Policy, NEW s, IsSettings(s)
    PROVE  Applying(p, s) \in Policy
<1> DEFINE q == Applying(p, s)
<1>1. DOMAIN q = {"cert", "ssl", "auto"} /\ q = [f \in {"cert", "ssl", "auto"} |-> q[f]]
  BY DEF Applying, Policy, IsSettings
<1>2. q.cert \in Certificate /\ q.ssl \in 0..MaxSsl /\ q.auto \in BOOLEAN
  BY DEF Applying, Policy, IsSettings
<1> HIDE DEF q
<1>3. q = [cert |-> q.cert, ssl |-> q.ssl, auto |-> q.auto]
  BY <1>1
<1>4. q \in Policy
  BY <1>2, <1>3 DEF Policy
<1> QED BY <1>4 DEF q

LEMMA AppliedSettings ==
    ASSUME NEW p, IsSettings(p), NEW s, IsSettings(s)
    PROVE  IsSettings(Applying(p, s))
BY DEF IsSettings, Applying

-----------------------------------------------------------------------------
(* Canonical states.                                                       *)

LEMMA ZoneWritten ==
    ASSUME NEW c, IsCanonical(c), NEW s, IsSettings(s), NEW V, StateNaming(c, V), Naming(s, V)
    PROVE  /\ IsCanonical(ApplyToSource(c, Zone, s))
           /\ StateNaming(ApplyToSource(c, Zone, s), V)
<1> DEFINE d == ApplyToSource(c, Zone, s)
<1>1. DOMAIN d = DOMAIN c /\ d.zone = Applying(c.zone, s) /\ d.rules = c.rules /\ d.origin = c.origin
  BY DEF ApplyToSource, IsCanonical
<1> HIDE DEF d
<1>2. d.zone \in Policy /\ Naming(d.zone, V)
  BY <1>1, AppliedPolicy, AppliedNames DEF IsCanonical, StateNaming
<1>3. IsCanonical(d) /\ StateNaming(d, V)
  BY <1>1, <1>2 DEF IsCanonical, StateNaming
<1> QED BY <1>3 DEF d

\* One rule is put in the place of another, or of none.
LEMMA RulePut ==
    ASSUME NEW c, IsCanonical(c), NEW r \in Rules, NEW rule, IsRule(rule), NEW V,
           StateNaming(c, V), rule # NoRule => Naming(rule.overrides, V)
    PROVE  /\ IsCanonical([c EXCEPT !.rules[r] = rule])
           /\ StateNaming([c EXCEPT !.rules[r] = rule], V)
<1> DEFINE d == [c EXCEPT !.rules[r] = rule]
<1>1. /\ DOMAIN d = DOMAIN c /\ d.zone = c.zone /\ d.origin = c.origin
      /\ DOMAIN d.rules = Rules
      /\ \A q \in Rules : d.rules[q] = IF q = r THEN rule ELSE c.rules[q]
  BY DEF IsCanonical
<1> HIDE DEF d
<1>2. IsCanonical(d) /\ StateNaming(d, V)
  BY <1>1 DEF IsCanonical, StateNaming
<1> QED BY <1>2 DEF d

LEMMA OverridesPut ==
    ASSUME NEW c, IsCanonical(c), NEW r \in Rules, c.rules[r] # NoRule,
           NEW s, IsSettings(s), NEW V, StateNaming(c, V), Naming(s, V)
    PROVE  /\ IsCanonical([c EXCEPT !.rules[r].overrides = s])
           /\ StateNaming([c EXCEPT !.rules[r].overrides = s], V)
<1> DEFINE rule == [c.rules[r] EXCEPT !.overrides = s]
<1>1. [c EXCEPT !.rules[r].overrides = s] = [c EXCEPT !.rules[r] = rule]
  BY DEF IsCanonical
<1>2. DOMAIN rule = DOMAIN c.rules[r] /\ rule.match = c.rules[r].match /\ rule.overrides = s
  BY DEF IsCanonical, IsRule
<1> HIDE DEF rule
<1>3. IsRule(rule)
  BY <1>2 DEF IsCanonical, IsRule
<1> QED BY <1>1, <1>2, <1>3, RulePut

LEMMA MatchPut ==
    ASSUME NEW c, IsCanonical(c), NEW r \in Rules, c.rules[r] # NoRule,
           NEW match \in SUBSET Hostnames, NEW V, StateNaming(c, V)
    PROVE  /\ IsCanonical([c EXCEPT !.rules[r].match = match])
           /\ StateNaming([c EXCEPT !.rules[r].match = match], V)
<1> DEFINE rule == [c.rules[r] EXCEPT !.match = match]
<1>1. [c EXCEPT !.rules[r].match = match] = [c EXCEPT !.rules[r] = rule]
  BY DEF IsCanonical
<1>2. /\ DOMAIN rule = DOMAIN c.rules[r] /\ rule.match = match
      /\ rule.overrides = c.rules[r].overrides
  BY DEF IsCanonical, IsRule
<1> HIDE DEF rule
<1>3. IsRule(rule)
  BY <1>2 DEF IsCanonical, IsRule
<1>4. Naming(rule.overrides, V)
  BY <1>2 DEF StateNaming
<1> QED BY <1>1, <1>3, <1>4, RulePut

LEMMA SourceWritten ==
    ASSUME NEW c, IsCanonical(c), NEW r \in Rules \cup {Zone}, r # Zone => c.rules[r] # NoRule,
           NEW s, IsSettings(s), NEW V, StateNaming(c, V), Naming(s, V)
    PROVE  /\ IsCanonical(ApplyToSource(c, r, s))
           /\ StateNaming(ApplyToSource(c, r, s), V)
<1>1. CASE r = Zone
  BY <1>1, ZoneWritten
<1>2. CASE r # Zone
  <2> DEFINE o == Applying(c.rules[r].overrides, s)
  <2>1. r \in Rules /\ IsSettings(c.rules[r].overrides)
    BY <1>2 DEF IsCanonical, IsRule
  <2>2. IsSettings(o)
    BY <2>1, AppliedSettings
  <2>3. Naming(o, V)
    BY <1>2, <2>1, AppliedNames DEF StateNaming
  <2>4. ApplyToSource(c, r, s) = [c EXCEPT !.rules[r].overrides = o]
    BY <1>2, <2>1 DEF ApplyToSource, IsCanonical, IsRule
  <2> HIDE DEF o
  <2> QED BY <1>2, <2>1, <2>2, <2>3, <2>4, OverridesPut
<1> QED BY <1>1, <1>2

-----------------------------------------------------------------------------
(* The hosts of a canonical state, and where their names lead.             *)

RuleThere(c, r) == r \in Rules \cup {Zone} /\ (r # Zone => c.rules[r] # NoRule)

LEMMA WinnerThere ==
    ASSUME NEW c, NEW h
    PROVE  RuleThere(c, Winner(c, h))
<1> DEFINE covering == {r \in Rules : c.rules[r] # NoRule /\ h \in c.rules[r].match}
<1>1. CASE covering = {}
  BY <1>1 DEF Winner, RuleThere
<1>2. CASE covering # {}
  <2>1. \E r \in covering : \A s \in covering : r <= s
    <3>1. covering \subseteq Nat
      BY HostsAssumption
    <3> HIDE DEF covering
    <3> QED BY <1>2, <3>1, Least
  <2>2. Winner(c, h) \in covering
    BY <1>2, <2>1 DEF Winner
  <2>3. Zone \notin Rules
    BY HostsAssumption DEF Zone
  <2> QED BY <2>2, <2>3 DEF RuleThere
<1> QED BY <1>1, <1>2

SiteFacts(c, s) ==
    /\ RuleThere(c, s.rule)
    /\ s.origin \in Origins
    /\ s.name \in {Base(s.rule), Append(Base(s.rule), s.origin)}
    /\ s.policy = PolicyOf(c, s.rule)

LEMMA SitesAre ==
    ASSUME NEW c, IsCanonical(c), NEW s \in Sites(c)
    PROVE  SiteFacts(c, s)
<1> DEFINE groups == Groups(c)
           first(g) == \A f \in groups : f.rule = g.rule => g.origin <= f.origin
           site(g) == [rule |-> g.rule, origin |-> g.origin, policy |-> PolicyOf(c, g.rule),
                       name |-> IF first(g) THEN Base(g.rule) ELSE Append(Base(g.rule), g.origin)]
<1>1. PICK g \in groups : s = site(g)
  BY DEF Sites
<1>2. PICK h \in Hostnames : g.rule = Winner(c, h) /\ g.origin = c.origin[h]
  BY DEF Groups
<1>3. g.origin \in Origins
  BY <1>2 DEF Groups, IsCanonical
<1>4. RuleThere(c, g.rule)
  BY <1>2, WinnerThere
<1>5. /\ s.rule = g.rule /\ s.origin = g.origin /\ s.policy = PolicyOf(c, g.rule)
      /\ s.name \in {Base(g.rule), Append(Base(g.rule), g.origin)}
  BY <1>1
<1> QED BY <1>3, <1>4, <1>5 DEF SiteFacts

LEMMA SitesAreNamed ==
    ASSUME NEW c, IsCanonical(c), NEW s \in Sites(c)
    PROVE  s.name \in Names
BY SitesAre DEF SiteFacts, RuleThere, Names

\* What a name begins with.
Begins(r, n) ==
    IF r = Zone THEN Len(n) >= 1 /\ n[1] = Zone
    ELSE Len(n) >= 2 /\ n[1] = Zone /\ n[2] = r

LEMMA BaseIsSeq ==
    ASSUME NEW r \in Rules \cup {Zone}
    PROVE  Base(r) \in Seq(Nat) /\ Len(Base(r)) = IF r = Zone THEN 1 ELSE 2
BY HostsAssumption DEF Base, Zone

LEMMA PrefixBegins ==
    ASSUME NEW r \in Rules \cup {Zone}, NEW n \in Seq(Nat)
    PROVE  IsPrefix(Base(r), n) <=> Begins(r, n)
<1> DEFINE b == Base(r)
<1>1. b \in Seq(Nat) /\ Len(b) = IF r = Zone THEN 1 ELSE 2
  BY BaseIsSeq
<1>2. b[1] = Zone /\ (r # Zone => b[2] = r)
  BY DEF Base, Zone
<1> HIDE DEF b
<1>3. SubSeq(b, 1, Len(b)) = b
  BY <1>1, SubSeqFull
<1>4. CASE Len(b) <= Len(n)
  <2> DEFINE t == SubSeq(n, 1, Len(b))
  <2>1. \A i \in 1..Len(b) : n[i] \in Nat
    BY <1>1, <1>4, ElementOfSeq, LenProperties
  <2>2. /\ t \in Seq(Nat) /\ Len(t) = Len(b)
        /\ \A i \in 1..Len(b) : t[i] = n[i]
    <3>1. 1 \in Int /\ Len(b) \in Int
      BY <1>1
    <3>2. /\ t \in Seq(Nat)
          /\ Len(t) = IF 1 <= Len(b) THEN Len(b) - 1 + 1 ELSE 0
          /\ \A i \in 1..(Len(b) - 1 + 1) : t[i] = n[1 + i - 1]
      BY <2>1, <3>1, SubSeqProperties
    <3> HIDE DEF t
    <3> QED BY <1>1, <3>2
  <2> HIDE DEF t
  <2>3. b = t <=> \A i \in 1..Len(b) : b[i] = n[i]
    <3>1. b = t => \A i \in 1..Len(b) : b[i] = n[i]
      BY <2>2
    <3>2. (\A i \in 1..Len(b) : b[i] = n[i]) => b = t
      BY <1>1, <2>2, SeqEqual
    <3> QED BY <3>1, <3>2
  <2>4. (\A i \in 1..Len(b) : b[i] = n[i]) <=> Begins(r, n)
    BY <1>1, <1>2, <1>4 DEF Begins, Zone
  <2>5. IsPrefix(b, n) <=> b = t
    BY <1>3, <1>4 DEF IsPrefix, t
  <2> QED BY <2>3, <2>4, <2>5 DEF b
<1>5. CASE ~(Len(b) <= Len(n))
  <2>1. ~IsPrefix(b, n)
    BY <1>5 DEF IsPrefix
  <2>2. Len(n) \in Nat /\ ~Begins(r, n)
    BY <1>1, <1>5, LenProperties DEF Begins
  <2> QED BY <2>1, <2>2 DEF b
<1> QED BY <1>4, <1>5

LEMMA NameParts ==
    ASSUME NEW r \in Rules \cup {Zone}, NEW o \in Origins,
           NEW n \in {Base(r), Append(Base(r), o)}
    PROVE  /\ n \in Seq(Nat)
           /\ Begins(r, n) /\ Begins(Zone, n)
           /\ r = Zone => Len(n) = 1 \/ n[2] = o
<1>1. Base(r) \in Seq(Nat) /\ o \in Nat
  BY BaseIsSeq, HostsAssumption
<1>2. CASE r = Zone
  <2>1. Base(r) = <<0>>
    BY <1>2 DEF Base, Zone
  <2>2. n = <<0>> \/ n = <<0, o>>
    BY <2>1
  <2>3. Len(n) >= 1 /\ n[1] = 0 /\ (Len(n) = 1 \/ n[2] = o)
    BY <2>2
  <2>4. n \in Seq(Nat)
    BY <1>1
  <2> QED BY <1>2, <2>3, <2>4 DEF Begins, Zone
<1>3. CASE r # Zone
  <2>1. Base(r) = <<0, r>>
    BY <1>3 DEF Base, Zone
  <2>2. n = <<0, r>> \/ n = <<0, r, o>>
    BY <2>1
  <2>3. Len(n) >= 2 /\ n[1] = 0 /\ n[2] = r
    BY <2>2
  <2>4. n \in Seq(Nat)
    BY <1>1
  <2> QED BY <1>3, <2>3, <2>4 DEF Begins, Zone
<1> QED BY <1>2, <1>3

LEMMA NamesBegin ==
    ASSUME NEW n \in Names
    PROVE  n \in Seq(Nat) /\ Begins(Zone, n)
<1>1. CASE \E r \in Rules \cup {Zone} : n = Base(r)
  <2>1. PICK r \in Rules \cup {Zone} : n = Base(r)
    BY <1>1
  <2>2. r = Zone => n = <<0>>
    BY <2>1 DEF Base, Zone
  <2>3. r # Zone => n = <<0, r>>
    BY <2>1 DEF Base, Zone
  <2>4. Len(n) >= 1 /\ n[1] = 0
    BY <2>2, <2>3
  <2> QED BY <2>1, <2>4, BaseIsSeq DEF Begins, Zone
<1>2. CASE \E r \in Rules \cup {Zone} : \E o \in Origins : n = Append(Base(r), o)
  <2>1. PICK r \in Rules \cup {Zone} : \E o \in Origins : n = Append(Base(r), o)
    BY <1>2
  <2>2. PICK o \in Origins : n = Append(Base(r), o)
    BY <2>1
  <2> QED BY <2>2, NameParts
<1>3. n \in {Base(r) : r \in Rules \cup {Zone}}
         \cup {Append(b, o) : b \in {Base(r) : r \in Rules \cup {Zone}}, o \in Origins}
  BY DEF Names
<1> QED BY <1>1, <1>2, <1>3

\* There is a source with the longest base.
LEMMA SourceThere ==
    ASSUME NEW c, NEW n \in Names
    PROVE  /\ HostSource(c, n) \in Bases(c, n)
           /\ \A r \in Bases(c, n) : Len(Base(r)) <= Len(Base(HostSource(c, n)))
<1>1. n \in Seq(Nat) /\ Zone \in Bases(c, n)
  BY NamesBegin, PrefixBegins DEF Bases
<1>2. \E r \in Bases(c, n) : \A s \in Bases(c, n) : Len(Base(s)) <= Len(Base(r))
  <2>1. \A s \in Bases(c, n) : Len(Base(s)) = IF s = Zone THEN 1 ELSE 2
    BY BaseIsSeq DEF Bases
  <2>2. CASE \E r \in Bases(c, n) : r # Zone
    BY <2>1, <2>2
  <2>3. CASE \A r \in Bases(c, n) : r = Zone
    BY <1>1, <2>1, <2>3
  <2> QED BY <2>2, <2>3
<1> QED BY <1>2 DEF HostSource

\* A host finds back the rule it came from, in any state that still has it.
LEMMA SourceFound ==
    ASSUME NEW c, NEW d, NEW s, SiteFacts(d, s), RuleThere(c, s.rule), s.name \in Names
    PROVE  HostSource(c, s.name) = s.rule
<1> DEFINE n == s.name
           h == HostSource(c, n)
<1>1. /\ s.rule \in Rules \cup {Zone} /\ s.origin \in Origins
      /\ n \in {Base(s.rule), Append(Base(s.rule), s.origin)}
  BY DEF SiteFacts, RuleThere
<1>2. Zone \notin Rules /\ s.origin \notin Rules
  BY <1>1, HostsAssumption DEF Zone
<1>3. /\ n \in Seq(Nat)
      /\ Begins(s.rule, n)
      /\ s.rule = Zone => Len(n) = 1 \/ n[2] = s.origin
  BY <1>1, NameParts
<1>4. h \in Bases(c, n) /\ \A r \in Bases(c, n) : Len(Base(r)) <= Len(Base(h))
  BY SourceThere
<1>5. s.rule \in Bases(c, n)
  BY <1>1, <1>3, PrefixBegins DEF Bases, RuleThere
<1>6. h \in Rules \cup {Zone} /\ Begins(h, n)
  BY <1>3, <1>4, PrefixBegins DEF Bases
<1> HIDE DEF h
<1>7. ASSUME h # Zone PROVE h = s.rule
  BY <1>2, <1>3, <1>6, <1>7 DEF Begins
<1>8. ASSUME h = Zone PROVE h = s.rule
  <2>1. Len(Base(h)) = 1 /\ Len(Base(s.rule)) <= Len(Base(h))
    BY <1>4, <1>5, <1>8, BaseIsSeq
  <2>2. Len(Base(s.rule)) = IF s.rule = Zone THEN 1 ELSE 2
    BY <1>1, BaseIsSeq
  <2> QED BY <1>8, <2>1, <2>2
<1>9. h = s.rule
  BY <1>7, <1>8
<1> QED BY <1>9 DEF h

-----------------------------------------------------------------------------
(* What is kept of the releases.                                           *)

LEMMA CountReached ==
    ASSUME NEW n \in Nat, NEW K \in SUBSET (1..n), NEW i \in 1..Cardinality(K)
    PROVE  \E j \in K : Cardinality({k \in 1..j : k \in K}) = i
<1> DEFINE U(j) == {k \in 1..j : k \in K}
           T == {j \in 0..n : Cardinality(U(j)) >= i}
<1>1. IsFiniteSet(1..n) /\ IsFiniteSet(K)
  <2>1. IsFiniteSet(1..n)
    BY FS_Interval
  <2>2. K \subseteq 1..n
    OBVIOUS
  <2> QED BY <2>1, <2>2, FS_Subset
<1>2. \A j \in Nat : IsFiniteSet(U(j)) /\ Cardinality(U(j)) \in Nat
  <2> TAKE j \in Nat
  <2>1. U(j) \subseteq K
    OBVIOUS
  <2>2. IsFiniteSet(U(j))
    BY <1>1, <2>1, FS_Subset
  <2> QED BY <2>2, FS_CardinalityType
<1>3. U(n) = K /\ U(0) = {}
  <2>1. \A k \in K : k \in 1..n
    OBVIOUS
  <2>2. U(n) = K
    BY <2>1
  <2>3. U(0) = {}
    OBVIOUS
  <2> QED BY <2>2, <2>3
<1>4. n \in T
  BY <1>1, <1>2, <1>3, FS_CardinalityType
<1>5. PICK j \in T : \A y \in T : j <= y
  <2>1. T \subseteq Nat
    OBVIOUS
  <2> HIDE DEF T
  <2>2. T # {}
    BY <1>4
  <2> QED BY <2>1, <2>2, Least
<1>6. j \in 0..n /\ j \in Nat /\ Cardinality(U(j)) >= i
  BY <1>5
<1>7. j # 0
  <2>1. Cardinality(U(0)) = 0
    BY <1>3, FS_EmptySet
  <2>2. j # 0
    <3> SUFFICES ASSUME j = 0 PROVE FALSE
      OBVIOUS
    <3>1. Cardinality(U(j)) = 0
      BY <2>1
    <3> HIDE DEF U
    <3> QED BY <1>6, <3>1
  <2> QED BY <2>2
<1>8. j - 1 \in 0..n /\ j - 1 \in Nat
  BY <1>6, <1>7
<1>9. ~(Cardinality(U(j - 1)) >= i)
  <2>1. j - 1 \notin T
    BY <1>5, <1>6, <1>8
  <2> QED BY <1>8, <2>1
<1>10. Cardinality(U(j - 1)) < i
  <2>1. Cardinality(U(j - 1)) \in Nat
    BY <1>2, <1>8
  <2> HIDE DEF U
  <2> QED BY <1>9, <2>1
<1>11. j \in K
  <2> SUFFICES ASSUME j \notin K PROVE FALSE
    OBVIOUS
  <2>1. U(j) = U(j - 1)
    BY <1>6, <1>7, <1>8
  <2> HIDE DEF U
  <2> QED BY <1>6, <1>9, <2>1
<1>12. Cardinality(U(j)) = Cardinality(U(j - 1)) + 1
  <2>1. U(j) = U(j - 1) \cup {j} /\ j \notin U(j - 1)
    BY <1>6, <1>7, <1>8, <1>11
  <2>2. IsFiniteSet(U(j - 1))
    BY <1>2, <1>8
  <2> HIDE DEF U
  <2> QED BY <2>1, <2>2, FS_AddElement
<1>13. Cardinality(U(j)) = i
  <2>1. Cardinality(U(j - 1)) \in Nat
    BY <1>2, <1>8
  <2> HIDE DEF U
  <2> QED BY <1>6, <1>10, <1>12, <2>1
<1> QED BY <1>11, <1>13

\* Pruning takes releases out, and puts none in.
LEMMA PrunedKeeps ==
    ASSUME NEW S, NEW rs \in Seq(S)
    PROVE  Pruned(rs) \in Seq(S)
<1> DEFINE kept(i) == rs[i].applied \/ i > Len(rs) - Retention
           K == {j \in DOMAIN rs : kept(j)}
           m == Cardinality(K)
           pick(i) == CHOOSE j \in DOMAIN rs : kept(j) /\ Cardinality({k \in 1..j : kept(k)}) = i
<1>1. Len(rs) \in Nat /\ DOMAIN rs = 1..Len(rs)
  BY LenProperties
<1>2. K \in SUBSET (1..Len(rs)) /\ m \in Nat
  <2>1. IsFiniteSet(1..Len(rs)) /\ K \subseteq 1..Len(rs)
    BY <1>1, FS_Interval
  <2> HIDE DEF K
  <2>2. IsFiniteSet(K)
    BY <2>1, FS_Subset
  <2> QED BY <2>1, <2>2, FS_CardinalityType
<1>3. \A i \in 1..m : rs[pick(i)] \in S
  <2> TAKE i \in 1..m
  <2>1. PICK j \in K : Cardinality({k \in 1..j : k \in K}) = i
    <3> HIDE DEF K
    <3> QED BY <1>1, <1>2, CountReached
  <2>2. {k \in 1..j : k \in K} = {k \in 1..j : kept(k)}
    BY <1>1
  <2>3. j \in DOMAIN rs /\ kept(j) /\ Cardinality({k \in 1..j : kept(k)}) = i
    BY <2>1, <2>2
  <2> HIDE DEF kept
  <2>4. pick(i) \in DOMAIN rs
    BY <2>3
  <2> QED BY <1>1, <2>4, ElementOfSeq
<1>4. Pruned(rs) = [i \in 1..m |-> rs[pick(i)]]
  BY DEF Pruned
<1> HIDE DEF m, pick
<1>5. [i \in 1..m |-> rs[pick(i)]] \in [1..m -> S]
  BY <1>3
<1> QED BY <1>2, <1>4, <1>5, SeqDef

-----------------------------------------------------------------------------
(* The inductive invariant.                                                *)

Issued == [site : Names, source : Sources, until : 0..MaxNow + Lifetime]
Issuing == [at : {"asked", "written", "stored"}, site : Names, source : Sources, version : Nat]

\* Canonical state names what is on disk.
StateSafe ==
    /\ IsCanonical(canonical) /\ edits \in 0..MaxEdits
    /\ StateNaming(canonical, Usable)

StoreTyped ==
    /\ issued \in Seq(Issued) /\ 1..Len(issued) \subseteq Versions
    /\ files \subseteq 1..Len(issued)
    /\ metadata \in [Names -> Nat]
    /\ \A n \in Names : metadata[n] # 0 => metadata[n] \in files /\ issued[metadata[n]].site = n

\* What an issuance has written stays on disk while it lasts.
IssuingSafe ==
    \/ issuing = Nobody
    \/ /\ issuing \in Issuing
       /\ issuing.at = "asked" => issuing.version = 0
       /\ issuing.at # "asked" => /\ issuing.version \in files
                                  /\ issued[issuing.version].site = issuing.site
                                  /\ issued[issuing.version].source = issuing.source
       /\ issuing.at = "written" => issued[issuing.version].until = now + Lifetime

\* A kept release names what is on disk.
ReleasesSafe ==
    /\ releases \in Seq({releases[i] : i \in DOMAIN releases})
    /\ \A i \in DOMAIN releases : /\ DOMAIN releases[i] = {"inputs", "applied"}
                                  /\ releases[i].applied \in BOOLEAN
                                  /\ IsCanonical(releases[i].inputs)
                                  /\ StateNaming(releases[i].inputs, Usable)

\* A host whose renewal is late owes it to a fault in every sweep since it was
\* due, or its renewal is under way.
Attempting(n) ==
    issuing # Nobody /\ issuing.site = n /\ issuing.at \in {"asked", "written"}
OnTime(n) ==
    metadata[n] # 0 /\ issued[metadata[n]].source = "acme" /\ n \notin lapsed =>
        LET until == issued[metadata[n]].until IN
        /\ now + Window <= until + faults
        /\ n \in swept /\ until <= now + Window =>
             now + Window + 1 <= until + faults \/ Attempting(n)
Punctual == \A n \in Names : OnTime(n)

TimeTyped == now \in 0..MaxNow /\ swept \subseteq Names /\ lapsed \subseteq Names
ScanTyped == DOMAIN scan \subseteq Names /\ \A n \in DOMAIN scan : scan[n] \in 1..MaxSsl
FaultsTyped == faults \in 0..MaxFaults

CertificatesInv ==
    /\ StateSafe /\ StoreTyped /\ IssuingSafe /\ ReleasesSafe
    /\ TimeTyped /\ ScanTyped /\ FaultsTyped
    /\ Punctual

USE DEF hosts, store, time

LEMMA InvTyped == CertificatesInv => CertificatesTypeOK
<1> SUFFICES ASSUME CertificatesInv PROVE CertificatesTypeOK
    OBVIOUS
<1>1. issued \in Seq([site : Names, source : Sources, until : 0..MaxNow + Lifetime])
      /\ DOMAIN issued = 1..Len(issued) /\ Len(issued) \in Nat
  BY LenProperties DEF CertificatesInv, StoreTyped, Issued
<1>2. files \subseteq DOMAIN issued
  BY <1>1 DEF CertificatesInv, StoreTyped
<1>3. metadata \in [Names -> {0} \cup DOMAIN issued]
  BY <1>1, <1>2 DEF CertificatesInv, StoreTyped
<1>4. \/ issuing = Nobody
      \/ issuing \in [at : {"asked", "written", "stored"}, site : Names,
                      source : Sources, version : {0} \cup DOMAIN issued]
  BY <1>1, <1>2 DEF CertificatesInv, IssuingSafe, Issuing
<1>5. \A i \in DOMAIN releases : IsCanonical(releases[i].inputs) /\ releases[i].applied \in BOOLEAN
  BY DEF CertificatesInv, ReleasesSafe
<1>6. IsCanonical(canonical) /\ edits \in 0..MaxEdits
  BY DEF CertificatesInv, StateSafe
<1>7. /\ now \in 0..MaxNow /\ swept \subseteq Names /\ lapsed \subseteq Names
      /\ DOMAIN scan \subseteq Names /\ \A n \in DOMAIN scan : scan[n] \in 1..MaxSsl
      /\ faults \in 0..MaxFaults
  BY DEF CertificatesInv, TimeTyped, ScanTyped, FaultsTyped
<1>8. \A n \in Names : metadata[n] # 0 => metadata[n] \in files /\ issued[metadata[n]].site = n
  BY DEF CertificatesInv, StoreTyped
<1> QED BY <1>1, <1>2, <1>3, <1>4, <1>5, <1>6, <1>7, <1>8 DEF CertificatesTypeOK

LEMMA InvPresent == CertificatesInv => MaterialPresent
BY UsableOnDisk DEF CertificatesInv, StateSafe, ReleasesSafe, MaterialPresent

LEMMA InvInit == CertificatesInit => CertificatesInv
<1> SUFFICES ASSUME CertificatesInit PROVE CertificatesInv
    OBVIOUS
<1> USE DEF CertificatesInit
<1>1. canonical \in Starts /\ edits = 0
  BY DEF HostsInit
<1>2. StateNaming(canonical, Usable)
  <2>1. /\ IsCanonical(canonical) /\ ByOperator(canonical.zone)
        /\ \A r \in Rules : canonical.rules[r] = NoRule \/ ByOperator(canonical.rules[r].overrides)
    BY <1>1, HostsAssumption
  <2>2. /\ IsSettings(canonical.zone)
        /\ \A r \in Rules : canonical.rules[r] = NoRule \/ IsSettings(canonical.rules[r].overrides)
    BY <2>1, PolicyIsSettings DEF IsCanonical, IsRule
  <2>3. Naming(canonical.zone, Usable)
    BY <2>1, <2>2, OperatorNamesNothing
  <2>4. \A r \in Rules : canonical.rules[r] # NoRule => Naming(canonical.rules[r].overrides, Usable)
    BY <2>1, <2>2, OperatorNamesNothing
  <2> QED BY <2>3, <2>4 DEF StateNaming
<1>3. StateSafe
  BY <1>1, <1>2, HostsAssumption DEF StateSafe
<1>4. StoreTyped
  <2>1. issued \in Seq(Issued) /\ Len(issued) = 0
    BY EmptySeq
  <2> QED BY <2>1 DEF StoreTyped
<1>5. IssuingSafe
  BY DEF IssuingSafe
<1>6. ReleasesSafe
  <2>1. releases = <<>> /\ DOMAIN releases = {}
    BY EmptySeq, LenProperties
  <2>2. releases \in Seq({releases[i] : i \in DOMAIN releases})
    BY <2>1, EmptySeq
  <2> QED BY <2>1, <2>2 DEF ReleasesSafe
<1>7. TimeTyped /\ FaultsTyped
  BY CertificatesAssumption DEF TimeTyped, FaultsTyped
<1>8. ScanTyped
  <2>1. DOMAIN scan = {}
    BY DEF NoScan
  <2> QED BY <2>1 DEF ScanTyped
<1>9. Punctual
  BY DEF Punctual, OnTime
<1> QED BY <1>3, <1>4, <1>5, <1>6, <1>7, <1>8, <1>9 DEF CertificatesInv

-----------------------------------------------------------------------------
(* The parts a step leaves alone.                                          *)

LEMMA StateKept ==
    ASSUME StateSafe, UNCHANGED <<hosts, store>>
    PROVE  StateSafe'
BY UsableKept DEF StateSafe

LEMMA ReleasesKept ==
    ASSUME ReleasesSafe, UNCHANGED <<releases, store>>
    PROVE  ReleasesSafe'
BY UsableKept DEF ReleasesSafe

LEMMA StoreKept == ASSUME StoreTyped, UNCHANGED store PROVE StoreTyped'
BY DEF StoreTyped

LEMMA IssuingKept == ASSUME IssuingSafe, UNCHANGED <<store, issuing, now>> PROVE IssuingSafe'
BY DEF IssuingSafe

LEMMA TimeKept == ASSUME TimeTyped, UNCHANGED time PROVE TimeTyped'
BY DEF TimeTyped

LEMMA ScanKept == ASSUME ScanTyped, UNCHANGED scan PROVE ScanTyped'
BY DEF ScanTyped

LEMMA FaultsKept == ASSUME FaultsTyped, UNCHANGED faults PROVE FaultsTyped'
BY DEF FaultsTyped

LEMMA FaultsCounted == ASSUME FaultsTyped, Fault PROVE FaultsTyped'
BY CertificatesAssumption DEF FaultsTyped, Fault

LEMMA EndsKnown ==
    ASSUME CertificatesInv, NEW n \in Names, metadata[n] # 0
    PROVE  issued[metadata[n]] \in Issued /\ issued[metadata[n]].until \in Nat
<1>1. issued \in Seq(Issued) /\ metadata[n] \in 1..Len(issued)
  BY DEF CertificatesInv, StoreTyped
<1>2. issued[metadata[n]] \in Issued
  BY <1>1, ElementOfSeq
<1>3. 0..(MaxNow + Lifetime) \subseteq Nat
  BY CertificatesAssumption
<1> QED BY <1>2, <1>3 DEF Issued

LEMMA PunctualKept ==
    ASSUME Punctual, UNCHANGED <<store, issuing, time, faults>>
    PROVE  Punctual'
BY DEF Punctual, OnTime, Attempting

-----------------------------------------------------------------------------
(* What operators and upgrades write.                                      *)

\* A state that names what is on disk takes the place of the present one.
LEMMA EditedSafe ==
    ASSUME StateSafe, UNCHANGED <<issued, files>>,
           NEW c, IsCanonical(c), StateNaming(c, Usable), Edited(c)
    PROVE  StateSafe'
BY UsableKept, HostsAssumption DEF StateSafe, Edited

LEMMA EditPreserves == StateSafe /\ Edit /\ UNCHANGED <<issued, files>> => StateSafe'
<1> SUFFICES ASSUME StateSafe, Edit, UNCHANGED <<issued, files>> PROVE StateSafe'
    OBVIOUS
<1>0. IsCanonical(canonical) /\ StateNaming(canonical, Usable)
  BY DEF StateSafe
<1>s. \A s \in Written : IsSettings(s) /\ Naming(s, Usable)
  BY HostsAssumption, OperatorNamesNothing
<1>1. ASSUME NEW s \in Written, UpdateDomain(s) PROVE StateSafe'
  BY <1>0, <1>s, <1>1, ZoneWritten, EditedSafe DEF UpdateDomain
<1>2. ASSUME NEW s \in Written, NEW r \in Rules, NEW match \in SUBSET Hostnames \ {{}},
             CreateRule(r, match, s)
      PROVE StateSafe'
  <2> DEFINE rule == [match |-> match, overrides |-> s]
  <2>1. IsRule(rule) /\ Naming(rule.overrides, Usable)
    BY <1>s DEF IsRule
  <2>2. Edited([canonical EXCEPT !.rules[r] = rule])
    BY <1>2 DEF CreateRule
  <2> HIDE DEF rule
  <2> QED BY <1>0, <2>1, <2>2, RulePut, EditedSafe
<1>3. ASSUME NEW s \in Written, NEW r \in Rules, UpdateOverrides(r, s) PROVE StateSafe'
  BY <1>0, <1>s, <1>3, OverridesPut, EditedSafe DEF UpdateOverrides
<1>4. ASSUME NEW r \in Rules, NEW match \in SUBSET Hostnames \ {{}}, UpdateMatch(r, match)
      PROVE StateSafe'
  BY <1>0, <1>4, MatchPut, EditedSafe DEF UpdateMatch
<1>5. ASSUME NEW r \in Rules, DeleteRule(r) PROVE StateSafe'
  <2>1. IsRule(NoRule)
    BY DEF IsRule
  <2> QED BY <1>0, <1>5, <2>1, RulePut, EditedSafe DEF DeleteRule
<1>6. ASSUME NEW h \in Hostnames, NEW o \in Origins \cup {NoOrigin}, WriteRecord(h, o)
      PROVE StateSafe'
  <2> DEFINE d == [canonical EXCEPT !.origin[h] = o]
  <2>1. /\ DOMAIN d = DOMAIN canonical /\ d.zone = canonical.zone /\ d.rules = canonical.rules
        /\ d.origin = [canonical.origin EXCEPT ![h] = o]
    BY <1>0 DEF IsCanonical
  <2>2. Edited(d)
    BY <1>6 DEF WriteRecord
  <2> HIDE DEF d
  <2>3. IsCanonical(d) /\ StateNaming(d, Usable)
    BY <1>0, <2>1 DEF IsCanonical, StateNaming
  <2> QED BY <2>2, <2>3, EditedSafe
<1> QED BY <1>1, <1>2, <1>3, <1>4, <1>5, <1>6 DEF Edit

\* Settings written to the source of a name.
LEMMA SourceSafe ==
    ASSUME NEW c, IsCanonical(c), NEW n \in Names, NEW s, IsSettings(s),
           NEW V, StateNaming(c, V), Naming(s, V)
    PROVE  /\ IsCanonical(ApplyToSource(c, HostSource(c, n), s))
           /\ StateNaming(ApplyToSource(c, HostSource(c, n), s), V)
<1>1. /\ HostSource(c, n) \in Rules \cup {Zone}
      /\ HostSource(c, n) # Zone => c.rules[HostSource(c, n)] # NoRule
  BY SourceThere DEF Bases
<1> QED BY <1>1, SourceWritten

LEMMA UpgradePreserves ==
    ASSUME CertificatesInv, NEW n \in DOMAIN scan, ApplyUpgrade(n)
    PROVE  CertificatesInv'
<1> USE DEF ApplyUpgrade
<1>1. n \in Names /\ scan[n] \in 1..MaxSsl
  BY DEF CertificatesInv, ScanTyped
<1>2. IsSettings([ssl |-> scan[n]]) /\ Naming([ssl |-> scan[n]], Usable)
  BY <1>1, HostsAssumption DEF IsSettings, Naming
<1>3. StateSafe'
  <2>1. IsCanonical(Upgrade(n)) /\ StateNaming(Upgrade(n), Usable)
    BY <1>1, <1>2, SourceSafe DEF Upgrade, CertificatesInv, StateSafe
  <2>2. /\ canonical' \in {Upgrade(n), canonical}
        /\ UNCHANGED <<edits, issued, files>>
    OBVIOUS
  <2> QED BY <2>1, <2>2, UsableKept DEF CertificatesInv, StateSafe
<1>4. ScanTyped'
  <2>1. CASE Refused(n)
    <3>1. scan' = <<>>
      BY <2>1 DEF NoScan
    <3>2. DOMAIN scan' = {}
      BY <3>1
    <3> QED BY <3>2 DEF ScanTyped
  <2>2. CASE ~Refused(n)
    <3>1. scan' = [m \in DOMAIN scan \ {n} |-> scan[m]]
      BY <2>2
    <3> QED BY <3>1 DEF CertificatesInv, ScanTyped
  <2> QED BY <2>1, <2>2
<1>5. StoreTyped' /\ IssuingSafe' /\ ReleasesSafe' /\ TimeTyped' /\ FaultsTyped' /\ Punctual'
  BY StoreKept, IssuingKept, ReleasesKept, TimeKept, FaultsKept, PunctualKept DEF CertificatesInv
<1> QED BY <1>3, <1>4, <1>5 DEF CertificatesInv

-----------------------------------------------------------------------------
(* Issuance.                                                               *)

LEMMA BeginPreserves ==
    ASSUME CertificatesInv, NEW n \in Names, NEW source \in Sources, Begin(n, source),
           edits' \in 0..MaxEdits, UNCHANGED <<now, lapsed>>, swept' \in {swept, swept \cup {n}}
    PROVE  CertificatesInv'
<1> USE DEF Begin
<1>1. StateSafe'
  BY UsableKept DEF CertificatesInv, StateSafe
<1>2. IssuingSafe'
  BY DEF IssuingSafe, Issuing
<1>3. StoreTyped' /\ ReleasesSafe' /\ ScanTyped' /\ FaultsTyped'
  BY StoreKept, ReleasesKept, ScanKept, FaultsKept DEF CertificatesInv
<1>4. TimeTyped'
  BY DEF CertificatesInv, TimeTyped
<1>5. ASSUME NEW m \in Names PROVE OnTime(m)'
  <2>1. OnTime(m) /\ ~Attempting(m)
    BY DEF CertificatesInv, Punctual, Attempting
  <2>2. m = n => Attempting(m)'
    BY DEF Attempting, Nobody
  <2>3. m # n => (m \in swept' <=> m \in swept)
    OBVIOUS
  <2>4. UNCHANGED <<metadata, issued, lapsed, now, faults>>
    BY DEF store
  <2> QED BY <2>1, <2>2, <2>3, <2>4 DEF OnTime
<1>6. Punctual'
  BY <1>5 DEF Punctual
<1> QED BY <1>1, <1>2, <1>3, <1>4, <1>6 DEF CertificatesInv

LEMMA AsksPreserve ==
    ASSUME CertificatesInv,
           \/ \E s \in Sites(canonical) : (\E source \in Sources : Request(s, source)) \/ Reconcile(s)
           \/ \E n \in Names : Renew(n)
    PROVE  CertificatesInv'
<1>0. IsCanonical(canonical) /\ edits \in 0..MaxEdits
  BY DEF CertificatesInv, StateSafe
<1>1. ASSUME NEW s \in Sites(canonical), NEW source \in Sources, Request(s, source)
      PROVE CertificatesInv'
  <2>1. edits' \in 0..MaxEdits
    BY <1>0, <1>1, HostsAssumption DEF Request
  <2> QED BY <1>0, <1>1, <2>1, SitesAreNamed, BeginPreserves DEF Request
<1>2. ASSUME NEW s \in Sites(canonical), Reconcile(s) PROVE CertificatesInv'
  <2>1. "acme" \in Sources
    BY DEF Sources
  <2> QED BY <1>0, <1>2, <2>1, SitesAreNamed, BeginPreserves DEF Reconcile
<1>3. ASSUME NEW n \in Names, Renew(n) PROVE CertificatesInv'
  <2>1. "acme" \in Sources
    BY DEF Sources
  <2> QED BY <1>0, <1>3, <2>1, BeginPreserves DEF Renew
<1> QED BY <1>1, <1>2, <1>3

LEMMA WriteVersionPreserves == CertificatesInv /\ WriteVersion => CertificatesInv'
<1> SUFFICES ASSUME CertificatesInv, WriteVersion PROVE CertificatesInv'
    OBVIOUS
<1> USE DEF WriteVersion
<1> DEFINE v == Len(issued) + 1
           e == [site |-> issuing.site, source |-> issuing.source, until |-> now + Lifetime]
<1>1. issuing \in Issuing /\ issued \in Seq(Issued) /\ Len(issued) \in Nat
  BY LenProperties DEF CertificatesInv, IssuingSafe, StoreTyped, Nobody
<1>2. e \in Issued
  BY <1>1, CertificatesAssumption DEF Issuing, Issued, CertificatesInv, TimeTyped
<1>3. issued' = Append(issued, e)
  OBVIOUS
<1> HIDE DEF e
<1>4. /\ issued' \in Seq(Issued) /\ Len(issued') = v
      /\ \A i \in 1..Len(issued) : issued'[i] = issued[i]
      /\ issued'[v] = e
  BY <1>1, <1>2, <1>3
<1>5. files' = files \cup {v} /\ v \in Versions /\ v \in Nat
  BY <1>1, <1>4
<1>6. StoreTyped'
  <2>1. 1..Len(issued') \subseteq Versions
    BY <1>1, <1>4, <1>5 DEF CertificatesInv, StoreTyped
  <2>2. files' \subseteq 1..Len(issued')
    BY <1>1, <1>4, <1>5 DEF CertificatesInv, StoreTyped
  <2>3. \A n \in Names : metadata[n] # 0 =>
           metadata[n] \in files' /\ issued'[metadata[n]].site = n
    BY <1>4, <1>5 DEF CertificatesInv, StoreTyped
  <2> QED BY <1>4, <2>1, <2>2, <2>3 DEF CertificatesInv, StoreTyped
<1>7. IssuingSafe'
  <2>1. issuing' = [issuing EXCEPT !.at = "written", !.version = v]
    BY <1>4
  <2>2. /\ issuing' \in Issuing /\ issuing'.at = "written"
        /\ issuing'.version = v /\ issuing'.site = issuing.site
    BY <1>1, <1>5, <2>1 DEF Issuing
  <2>3. /\ issued'[v].site = issuing.site /\ issued'[v].source = issuing.source
        /\ issued'[v].until = now' + Lifetime
    BY <1>4 DEF e
  <2>4. issuing'.source = issuing.source
    BY <1>1, <2>1 DEF Issuing
  <2> QED BY <1>5, <2>2, <2>3, <2>4 DEF IssuingSafe
<1>8. StateSafe' /\ ReleasesSafe'
  <2>1. Usable \subseteq Usable'
    BY <1>4, <1>5 DEF Usable, CertificatesInv, StoreTyped
  <2>2. StateSafe'
    BY <2>1, NamingGrows DEF CertificatesInv, StateSafe
  <2>3. UNCHANGED releases
    OBVIOUS
  <2>4. ReleasesSafe'
    BY <2>1, <2>3, NamingGrows DEF CertificatesInv, ReleasesSafe
  <2> QED BY <2>2, <2>4
<1>9. TimeTyped' /\ ScanTyped' /\ FaultsTyped'
  BY TimeKept, ScanKept, FaultsKept DEF CertificatesInv
<1>10. ASSUME NEW m \in Names PROVE OnTime(m)'
  <2>1. OnTime(m) /\ (Attempting(m) => Attempting(m)')
    BY <1>1 DEF CertificatesInv, Punctual, Attempting, Issuing, Nobody
  <2>2. metadata[m] # 0 => issued'[metadata[m]] = issued[metadata[m]]
    BY <1>4 DEF CertificatesInv, StoreTyped
  <2> QED BY <2>1, <2>2 DEF OnTime
<1>11. Punctual'
  BY <1>10 DEF Punctual
<1> QED BY <1>6, <1>7, <1>8, <1>9, <1>11 DEF CertificatesInv

LEMMA WriteMetadataPreserves == CertificatesInv /\ WriteMetadata => CertificatesInv'
<1> SUFFICES ASSUME CertificatesInv, WriteMetadata PROVE CertificatesInv'
    OBVIOUS
<1> USE DEF WriteMetadata
<1>1. /\ issuing \in Issuing /\ issuing.version \in files
      /\ issued[issuing.version].site = issuing.site
      /\ issued[issuing.version].source = issuing.source
      /\ issued[issuing.version].until = now + Lifetime
  BY DEF CertificatesInv, IssuingSafe, Nobody
<1>2. issuing.site \in Names /\ issuing.version \in Nat
  BY <1>1 DEF Issuing
<1>3. StoreTyped'
  BY <1>1, <1>2 DEF CertificatesInv, StoreTyped
<1>4. IssuingSafe'
  BY <1>1 DEF IssuingSafe, Issuing
<1>5. TimeTyped'
  BY DEF CertificatesInv, TimeTyped
<1>6. StateSafe' /\ ReleasesSafe' /\ ScanTyped' /\ FaultsTyped'
  <2>1. UNCHANGED <<hosts, issued, files, scan, releases, faults>>
    OBVIOUS
  <2>2. StateSafe'
    BY <2>1, UsableKept DEF CertificatesInv, StateSafe
  <2>3. ReleasesSafe'
    BY <2>1, UsableKept DEF CertificatesInv, ReleasesSafe
  <2> QED BY <2>2, <2>3, ScanKept, FaultsKept DEF CertificatesInv
<1>7. ASSUME NEW m \in Names PROVE OnTime(m)'
  <2>1. CASE m = issuing.site
    <3>1. metadata'[m] = issuing.version /\ issued'[metadata'[m]].until = now + Lifetime
      BY <1>1, <1>2, <2>1 DEF CertificatesInv, StoreTyped
    <3>2. now' = now /\ faults' = faults /\ now \in Nat /\ faults \in Nat
      BY CertificatesAssumption DEF CertificatesInv, TimeTyped, FaultsTyped
    <3>3. now + Window <= now + Lifetime + faults /\ ~(now + Lifetime <= now + Window)
      BY <3>2, CertificatesAssumption
    <3> QED BY <3>1, <3>2, <3>3 DEF OnTime
  <2>2. CASE m # issuing.site
    <3>1. metadata'[m] = metadata[m] /\ issued' = issued
      BY <2>2 DEF CertificatesInv, StoreTyped
    <3>2. OnTime(m) /\ ~Attempting(m)
      BY <2>2 DEF CertificatesInv, Punctual, Attempting
    <3>3. m \in lapsed' <=> m \in lapsed
      BY <2>2
    <3>4. UNCHANGED <<now, faults, swept>>
      OBVIOUS
    <3> QED BY <3>1, <3>2, <3>3, <3>4 DEF OnTime
  <2> QED BY <2>1, <2>2
<1>8. Punctual'
  BY <1>7 DEF Punctual
<1> QED BY <1>3, <1>4, <1>5, <1>6, <1>8 DEF CertificatesInv

\* What is activated is on disk, under the directory of the host it is for.
LEMMA ActivatedSafe ==
    ASSUME CertificatesInv, issuing.at = "stored"
    PROVE  /\ issuing \in Issuing /\ issuing.site \in Names /\ issuing.version \in files
           /\ IsCanonical(Activated) /\ StateNaming(Activated, Usable)
<1> DEFINE mode == IF issuing.source = "acme" THEN "requested" ELSE "uploaded"
           path == [site |-> issuing.site, version |-> issuing.version]
           s == [cert |-> [mode |-> mode, path |-> path]]
<1>1. /\ issuing \in Issuing /\ issuing.version \in files
      /\ issued[issuing.version].source = issuing.source
  BY DEF CertificatesInv, IssuingSafe, Nobody
<1>2. issuing.site \in Names /\ issuing.version \in Versions
  BY <1>1 DEF Issuing, CertificatesInv, StoreTyped
<1>3. [mode |-> mode, path |-> path] \in Certificate
  BY <1>2 DEF Certificate, Modes, Paths
<1>4. IsSettings(s) /\ Naming(s, Usable)
  BY <1>1, <1>3 DEF IsSettings, Naming, Usable
<1>5. Activated = ApplyToSource(canonical, HostSource(canonical, issuing.site), s)
  BY DEF Activated
<1> HIDE DEF s
<1>6. IsCanonical(canonical) /\ StateNaming(canonical, Usable)
  BY DEF CertificatesInv, StateSafe
<1> QED BY <1>1, <1>2, <1>4, <1>5, <1>6, SourceSafe

LEMMA ActivatePreserves == CertificatesInv /\ Activate => CertificatesInv'
<1> SUFFICES ASSUME CertificatesInv, Activate PROVE CertificatesInv'
    OBVIOUS
<1> USE DEF Activate
<1>1. StateSafe'
  <2>1. canonical' \in {Activated, canonical} /\ UNCHANGED <<edits, issued, files>>
    OBVIOUS
  <2>2. issuing.at = "stored"
    OBVIOUS
  <2> QED BY <2>1, <2>2, ActivatedSafe, UsableKept DEF CertificatesInv, StateSafe
<1>2. IssuingSafe'
  BY DEF IssuingSafe
<1>3. StoreTyped' /\ ReleasesSafe' /\ TimeTyped' /\ ScanTyped' /\ FaultsTyped'
  BY StoreKept, ReleasesKept, TimeKept, ScanKept, FaultsKept DEF CertificatesInv
<1>4. Punctual'
  <2>1. \A m \in Names : OnTime(m) /\ ~Attempting(m)
    BY DEF CertificatesInv, Punctual, Attempting
  <2>2. UNCHANGED <<metadata, issued, lapsed, swept, now, faults>>
    OBVIOUS
  <2> QED BY <2>1, <2>2 DEF Punctual, OnTime
<1> QED BY <1>1, <1>2, <1>3, <1>4 DEF CertificatesInv

\* Who held the lock is gone, and left what it wrote.
LEMMA AbandonedPreserves == CertificatesInv /\ (Refuse \/ Crash) => CertificatesInv'
<1> SUFFICES ASSUME CertificatesInv, Refuse \/ Crash PROVE CertificatesInv'
    OBVIOUS
<1> USE DEF Refuse, Crash
<1>1. /\ Fault /\ issuing' = Nobody
      /\ UNCHANGED <<hosts, store, time, scan, releases>>
  BY Zenon
<1>2. IssuingSafe'
  BY <1>1 DEF IssuingSafe
<1>3. StateSafe' /\ StoreTyped' /\ ReleasesSafe' /\ TimeTyped' /\ ScanTyped' /\ FaultsTyped'
  BY <1>1, StateKept, StoreKept, ReleasesKept, TimeKept, ScanKept, FaultsCounted
     DEF CertificatesInv
<1>4. ASSUME NEW m \in Names PROVE OnTime(m)'
  <2>1. OnTime(m) /\ faults' = faults + 1 /\ faults \in Nat /\ now \in Nat
    BY <1>1, CertificatesAssumption DEF CertificatesInv, Punctual, Fault, FaultsTyped, TimeTyped
  <2>2. metadata[m] # 0 => issued[metadata[m]].until \in Nat
    BY EndsKnown
  <2>3. UNCHANGED <<metadata, issued, lapsed, swept, now>>
    BY <1>1
  <2> QED BY <2>1, <2>2, <2>3, CertificatesAssumption DEF OnTime
<1>5. Punctual'
  BY <1>4 DEF Punctual
<1> QED BY <1>2, <1>3, <1>5 DEF CertificatesInv

LEMMA SweepPreserves ==
    CertificatesInv /\ (Tick \/ \E n \in Names : RenewMissing(n)) => CertificatesInv'
<1> SUFFICES ASSUME CertificatesInv, Tick \/ \E n \in Names : RenewMissing(n)
             PROVE CertificatesInv'
    OBVIOUS
<1> USE DEF Tick, RenewMissing
<1>1. UNCHANGED <<hosts, store, issuing, scan, releases, faults>> /\ issuing = Nobody
  BY Zenon
<1>2. TimeTyped'
  BY CertificatesAssumption DEF CertificatesInv, TimeTyped
<1>3. /\ StateSafe' /\ StoreTyped' /\ ReleasesSafe' /\ ScanTyped' /\ FaultsTyped'
  BY <1>1, StateKept, StoreKept, ReleasesKept, ScanKept, FaultsKept DEF CertificatesInv
<1>4. IssuingSafe'
  BY <1>1 DEF IssuingSafe
<1>5. ASSUME NEW m \in Names PROVE OnTime(m)'
  <2>1. OnTime(m) /\ ~Attempting(m) /\ faults \in Nat /\ now \in Nat
    BY <1>1, CertificatesAssumption DEF CertificatesInv, Punctual, Attempting, FaultsTyped, TimeTyped
  <2>2. metadata[m] # 0 => issued[metadata[m]].until \in Nat
    BY EndsKnown
  <2>3. UNCHANGED <<metadata, issued, faults>>
    BY <1>1
  <2>4. CASE Tick
    <3>1. UNCHANGED lapsed /\ now' = now + 1 /\ swept' = {} /\ (Due(m) => m \in swept)
      BY <2>4
    <3> QED BY <2>1, <2>2, <2>3, <3>1, CertificatesAssumption DEF OnTime, Due
  <2>5. CASE \E n \in Names : RenewMissing(n)
    <3>1. PICK n \in Names : RenewMissing(n)
      BY <2>5
    <3>2. /\ now' = now /\ swept' = swept \cup {n} /\ lapsed' = lapsed \cup {n}
      BY <3>1
    <3> QED BY <2>1, <2>3, <3>2 DEF OnTime
  <2> QED BY <2>4, <2>5
<1>6. Punctual'
  BY <1>5 DEF Punctual
<1> QED BY <1>2, <1>3, <1>4, <1>6 DEF CertificatesInv

-----------------------------------------------------------------------------
(* Releases and the collection.                                            *)

ReleaseSafe(e) ==
    /\ DOMAIN e = {"inputs", "applied"} /\ e.applied \in BOOLEAN
    /\ IsCanonical(e.inputs) /\ StateNaming(e.inputs, Usable)

LEMMA ReleasesSafeIf ==
    ASSUME NEW S, releases' \in Seq(S), \A e \in S : ReleaseSafe(e), UNCHANGED <<issued, files>>
    PROVE  ReleasesSafe'
<1>1. DOMAIN releases' = 1..Len(releases') /\ Len(releases') \in Nat
  BY LenProperties
<1>2. \A i \in DOMAIN releases' : ReleaseSafe(releases'[i])
  BY <1>1, ElementOfSeq
<1>3. releases' \in [1..Len(releases') -> {releases'[i] : i \in DOMAIN releases'}]
  BY <1>1, LenProperties
<1>4. releases' \in Seq({releases'[i] : i \in DOMAIN releases'})
  BY <1>1, <1>3, SeqDef
<1> QED BY <1>2, <1>4, UsableKept DEF ReleasesSafe, ReleaseSafe

LEMMA PreparePreserves == CertificatesInv /\ Prepare => CertificatesInv'
<1> SUFFICES ASSUME CertificatesInv, Prepare PROVE CertificatesInv'
    OBVIOUS
<1> DEFINE e == [inputs |-> canonical, applied |-> FALSE]
           Kept == {releases[i] : i \in DOMAIN releases}
           S == Kept \cup {e}
<1>1. PICK rs \in {releases, Append(releases, e)} : releases' = Pruned(rs)
  BY DEF Prepare
<1>2. UNCHANGED <<hosts, store, issuing, time, scan, faults>>
  BY DEF Prepare
<1>3. e \in S /\ releases \in Seq(Kept) /\ Kept \subseteq S
  BY DEF CertificatesInv, ReleasesSafe
<1>4. \A f \in S : ReleaseSafe(f)
  <2>1. \A f \in Kept : ReleaseSafe(f)
    BY DEF CertificatesInv, ReleasesSafe, ReleaseSafe
  <2>2. ReleaseSafe(e)
    BY DEF CertificatesInv, StateSafe, ReleaseSafe
  <2> QED BY <2>1, <2>2
<1> HIDE DEF e, Kept, S
<1>5. releases \in Seq(S)
  BY <1>3, SeqMonotonic
<1>6. rs \in Seq(S)
  BY <1>1, <1>3, <1>5
<1>7. releases' \in Seq(S)
  BY <1>1, <1>6, PrunedKeeps
<1>8. ReleasesSafe'
  BY <1>2, <1>4, <1>7, ReleasesSafeIf
<1>9. /\ StateSafe' /\ StoreTyped' /\ IssuingSafe' /\ TimeTyped' /\ ScanTyped' /\ FaultsTyped'
      /\ Punctual'
  BY <1>2, StateKept, StoreKept, IssuingKept, TimeKept, ScanKept, FaultsKept, PunctualKept
     DEF CertificatesInv
<1> QED BY <1>8, <1>9 DEF CertificatesInv

LEMMA DeployPreserves ==
    ASSUME CertificatesInv, NEW i \in DOMAIN releases, Deploy(i)
    PROVE  CertificatesInv'
<1> DEFINE e == [releases[i] EXCEPT !.applied = TRUE]
           Kept == {releases[j] : j \in DOMAIN releases}
           S == Kept \cup {e}
<1>1. releases' = [releases EXCEPT ![i] = e]
  BY DEF Deploy
<1>2. UNCHANGED <<hosts, store, issuing, time, scan, faults>>
  BY DEF Deploy
<1>3. releases \in Seq(Kept) /\ Kept \subseteq S /\ e \in S
  BY DEF CertificatesInv, ReleasesSafe
<1>4. \A f \in S : ReleaseSafe(f)
  <2>1. \A f \in Kept : ReleaseSafe(f)
    BY DEF CertificatesInv, ReleasesSafe, ReleaseSafe
  <2>2. ReleaseSafe(e)
    <3>1. /\ DOMAIN e = DOMAIN releases[i] /\ e.applied = TRUE
          /\ e.inputs = releases[i].inputs
      BY DEF CertificatesInv, ReleasesSafe
    <3> HIDE DEF e
    <3> QED BY <3>1 DEF CertificatesInv, ReleasesSafe, ReleaseSafe
  <2> QED BY <2>1, <2>2
<1> HIDE DEF e, Kept, S
<1>5. releases \in Seq(S)
  BY <1>3, SeqMonotonic
<1>6. i \in 1..Len(releases)
  BY <1>5, LenProperties
<1>7. releases' \in Seq(S)
  BY <1>1, <1>3, <1>5, <1>6, ExceptSeq
<1>8. ReleasesSafe'
  BY <1>2, <1>4, <1>7, ReleasesSafeIf
<1>9. /\ StateSafe' /\ StoreTyped' /\ IssuingSafe' /\ TimeTyped' /\ ScanTyped' /\ FaultsTyped'
      /\ Punctual'
  BY <1>2, StateKept, StoreKept, IssuingKept, TimeKept, ScanKept, FaultsKept, PunctualKept
     DEF CertificatesInv
<1> QED BY <1>8, <1>9 DEF CertificatesInv

\* The two ways the stored state is replaced as a whole.
LEMMA ReplacedPreserves ==
    CertificatesInv /\ (EditHosts \/ \E i \in DOMAIN releases : Rollback(i)) => CertificatesInv'
<1> SUFFICES ASSUME CertificatesInv, EditHosts \/ \E i \in DOMAIN releases : Rollback(i)
             PROVE CertificatesInv'
    OBVIOUS
<1>1. UNCHANGED <<store, issuing, time, scan, releases, faults>>
  BY DEF EditHosts, Rollback
<1>2. CASE EditHosts
  <2>1. StateSafe'
    BY <1>1, <1>2, EditPreserves DEF EditHosts, CertificatesInv
  <2> QED BY <1>1, <2>1, StoreKept, IssuingKept, ReleasesKept, TimeKept, ScanKept, FaultsKept,
         PunctualKept DEF CertificatesInv
<1>3. CASE \E i \in DOMAIN releases : Rollback(i)
  <2>1. PICK i \in DOMAIN releases : Rollback(i)
    BY <1>3
  <2>2. /\ IsCanonical(releases[i].inputs) /\ StateNaming(releases[i].inputs, Usable)
        /\ Edited(releases[i].inputs)
    BY <2>1 DEF CertificatesInv, ReleasesSafe, Rollback
  <2>3. StateSafe'
    BY <1>1, <2>2, EditedSafe DEF CertificatesInv
  <2> QED BY <1>1, <2>3, StoreKept, IssuingKept, ReleasesKept, TimeKept, ScanKept, FaultsKept,
         PunctualKept DEF CertificatesInv
<1> QED BY <1>2, <1>3

\* What the roots hold of the files is there after the collection.
LEMMA CollectPreserves == CertificatesInv /\ Collect => CertificatesInv'
<1> SUFFICES ASSUME CertificatesInv, Collect PROVE CertificatesInv'
    OBVIOUS
<1>1. /\ issuing = Nobody /\ files' = files \cap Roots
      /\ UNCHANGED <<hosts, issued, metadata, issuing, time, scan, releases, faults>>
  BY DEF Collect
<1>2. ASSUME NEW c, StateNaming(c, Usable), VersionsOf(c) \subseteq Roots
      PROVE  StateNaming(c, Usable')
  <2>1. VersionsOf(c) \subseteq files
    BY <1>2, UsableOnDisk
  <2>2. VersionsOf(c) \subseteq files'
    BY <1>1, <1>2, <2>1
  <2> QED BY <1>1, <1>2, <2>2, UsableStill
<1>3. StateSafe'
  <2>1. VersionsOf(canonical) \subseteq Roots
    BY DEF Roots, Newest
  <2>2. StateNaming(canonical, Usable')
    BY <1>2, <2>1 DEF CertificatesInv, StateSafe
  <2> QED BY <1>1, <2>2 DEF CertificatesInv, StateSafe
<1>4. ReleasesSafe'
  <2>1. \A i \in DOMAIN releases : VersionsOf(releases[i].inputs) \subseteq Roots
    BY DEF Roots
  <2>2. \A i \in DOMAIN releases : StateNaming(releases[i].inputs, Usable')
    BY <1>2, <2>1 DEF CertificatesInv, ReleasesSafe
  <2> QED BY <1>1, <2>2 DEF CertificatesInv, ReleasesSafe
<1>5. StoreTyped'
  <2>1. \A n \in Names : metadata[n] \in Roots
    BY DEF Roots, Newest
  <2> QED BY <1>1, <2>1 DEF CertificatesInv, StoreTyped
<1>6. IssuingSafe'
  BY <1>1 DEF IssuingSafe
<1>7. TimeTyped' /\ ScanTyped' /\ FaultsTyped'
  BY <1>1, TimeKept, ScanKept, FaultsKept DEF CertificatesInv
<1>8. Punctual'
  BY <1>1 DEF CertificatesInv, Punctual, OnTime, Attempting
<1> QED BY <1>3, <1>4, <1>5, <1>6, <1>7, <1>8 DEF CertificatesInv

LEMMA ScanPreserves == CertificatesInv /\ Scan => CertificatesInv'
<1> SUFFICES ASSUME CertificatesInv, Scan PROVE CertificatesInv'
    OBVIOUS
<1>1. PICK proven \in SUBSET Candidates \ {{}} :
         \E target \in [{s.name : s \in proven} -> 1..MaxSsl] : scan' = target
  BY DEF Scan
<1>2. scan' \in [{s.name : s \in proven} -> 1..MaxSsl]
  BY <1>1
<1>3. {s.name : s \in proven} \subseteq Names
  BY <1>1, SitesAreNamed DEF Candidates, CertificatesInv, StateSafe
<1>4. ScanTyped'
  BY <1>2, <1>3 DEF ScanTyped
<1>5. UNCHANGED <<hosts, store, issuing, time, releases, faults>>
  BY DEF Scan
<1> QED BY <1>4, <1>5, StateKept, StoreKept, IssuingKept, ReleasesKept, TimeKept, FaultsKept,
       PunctualKept DEF CertificatesInv

-----------------------------------------------------------------------------
(* The theorems.                                                           *)

LEMMA InvStep == CertificatesInv /\ [CertificatesNext]_certificates => CertificatesInv'
<1> SUFFICES ASSUME CertificatesInv, [CertificatesNext]_certificates PROVE CertificatesInv'
    OBVIOUS
<1>1. CASE UNCHANGED certificates
  BY <1>1, StateKept, StoreKept, IssuingKept, ReleasesKept, TimeKept, ScanKept, FaultsKept,
     PunctualKept DEF CertificatesInv, certificates
<1>2. CASE CertificatesNext
  BY <1>2, AsksPreserve, WriteVersionPreserves, WriteMetadataPreserves, ActivatePreserves,
     AbandonedPreserves, SweepPreserves, PreparePreserves, DeployPreserves, ReplacedPreserves,
     CollectPreserves, ScanPreserves, UpgradePreserves, Zenon DEF CertificatesNext
<1> QED BY <1>1, <1>2

\* The inductive invariant of certificates.
THEOREM CertificatesSafe == CertificatesSpec => []CertificatesInv
BY InvInit, InvStep, PTL DEF CertificatesSpec

\* Every state is well typed, and the certificate a host's metadata names is on
\* disk and was issued for that host.
THEOREM CertificatesTypes == CertificatesSpec => []CertificatesTypeOK
BY CertificatesSafe, InvTyped, PTL

\* What canonical state names, and what a rollback to any kept release would
\* bring back, is never collected.
THEOREM MaterialKept == CertificatesSpec => []MaterialPresent
BY CertificatesSafe, InvPresent, PTL

LEMMA ActivationStep ==
    ASSUME CertificatesInv, [CertificatesNext]_certificates,
           issuing.at = "stored", canonical' # canonical, issuing' = Nobody
    PROVE  Site(canonical', issuing.site).policy.cert.path.version = issuing.version
<1> DEFINE n == issuing.site
           s == Site(canonical', n)
           r == HostSource(canonical, n)
<1>1. Activate
  <2>1. issuing # Nobody
    BY DEF Nobody
  <2>2. ~UNCHANGED issuing /\ ~UNCHANGED hosts
    BY <2>1
  <2>3. CertificatesNext
    BY <2>2 DEF certificates
  <2> QED BY <2>1, <2>2, <2>3 DEF CertificatesNext, EditHosts, Request, Reconcile, Renew, Begin,
          RenewMissing, Refuse, WriteVersion, WriteMetadata, Crash, Tick, Prepare, Collect,
          Deploy, Rollback, Scan, ApplyUpgrade
<1>2. canonical' = Activated /\ HasSite(Activated, n)
  BY <1>1 DEF Activate
<1>3. n \in Names /\ IsCanonical(Activated) /\ IsCanonical(canonical)
  BY ActivatedSafe DEF CertificatesInv, StateSafe
<1>4. s \in Sites(Activated) /\ s.name = n
  BY <1>2 DEF HasSite, Site
<1>5. SiteFacts(Activated, s)
  BY <1>3, <1>4, SitesAre
<1>6. r \in Rules \cup {Zone} /\ (r # Zone => canonical.rules[r] # NoRule)
  BY <1>3, SourceThere DEF Bases
<1> DEFINE path == [site |-> issuing.site, version |-> issuing.version]
           cert == [mode |-> IF issuing.source = "acme" THEN "requested" ELSE "uploaded",
                    path |-> path]
           o == Applying(IF r = Zone THEN canonical.zone ELSE canonical.rules[r].overrides,
                         [cert |-> cert])
<1>7. "cert" \in DOMAIN o /\ o["cert"] = cert
  BY DEF Applying
<1>8. /\ r = Zone => Activated.zone = o /\ Activated.rules = canonical.rules
      /\ r # Zone => Activated.rules[r].overrides = o
      /\ \A q \in Rules : q # r => Activated.rules[q] = canonical.rules[q]
  BY <1>3, <1>6 DEF Activated, ApplyToSource, IsCanonical, IsRule
<1> HIDE DEF o, cert, r, s
<1>9. s.rule = r
  <2>1. RuleThere(canonical, s.rule)
    BY <1>5, <1>6, <1>8 DEF SiteFacts, RuleThere
  <2> QED BY <1>3, <1>4, <1>5, <2>1, SourceFound DEF r
<1>10. s.policy = PolicyOf(Activated, r)
  BY <1>5, <1>9 DEF SiteFacts
<1>11. PolicyOf(Activated, r).cert = cert
  BY <1>7, <1>8 DEF PolicyOf, Applying
<1>12. s.policy.cert.path.version = issuing.version
  BY <1>10, <1>11 DEF cert
<1> QED BY <1>12 DEF s

\* When a certificate is activated, the host it was issued for is served with
\* it, whatever the zone's rules and records became while the authority worked.
THEOREM ActivationsReach == CertificatesSpec => ActivationReaches
BY CertificatesSafe, ActivationStep, PTL DEF CertificatesSpec, ActivationReaches

LEMMA UpgradeStep ==
    ASSUME CertificatesInv, [CertificatesNext]_certificates, Upgraded,
           NEW n \in DOMAIN scan \ DOMAIN scan'
    PROVE  Site(canonical, n).policy.auto /\ Site(canonical, n).policy.ssl < scan[n]
<1>1. ~UNCHANGED scan /\ ~UNCHANGED hosts
  BY DEF Upgraded
<1>2. \E m \in DOMAIN scan : ApplyUpgrade(m)
  BY <1>1 DEF certificates, CertificatesNext, EditHosts, Request, Reconcile, Renew, Begin,
     RenewMissing, Refuse, WriteVersion, WriteMetadata, Activate, Crash, Tick, Prepare, Collect,
     Deploy, Rollback, Scan
<1>3. PICK m \in DOMAIN scan : ApplyUpgrade(m)
  BY <1>2
<1>4. StillUpgrades(m) /\ ~Refused(m) /\ scan' = [q \in DOMAIN scan \ {m} |-> scan[q]]
  BY <1>3 DEF ApplyUpgrade, Upgraded
<1>5. n = m
  BY <1>4
<1>6. Site(canonical, n).policy.auto /\ scan[n] > Site(canonical, n).policy.ssl
  BY <1>4, <1>5 DEF StillUpgrades
<1> QED BY <1>6

\* An upgrade touches no host taken out of automatic mode, and weakens none,
\* whatever operators did while the origins were scanned.
THEOREM UpgradesRespectOperators == CertificatesSpec => UpgradeRespectsOperator
<1>1. CertificatesInv /\ [CertificatesNext]_certificates =>
        [Upgraded => \A n \in DOMAIN scan \ DOMAIN scan' :
            /\ Site(canonical, n).policy.auto
            /\ Site(canonical, n).policy.ssl < scan[n]]_certificates
  BY UpgradeStep
<1> QED BY <1>1, CertificatesSafe, PTL DEF CertificatesSpec, UpgradeRespectsOperator

\* What a host is served with is a usable certificate of its policy.
LEMMA ServedUsable ==
    ASSUME CertificatesInv, NEW s \in Sites(canonical)
    PROVE  s.policy.cert \in Usable /\ ComposesAs(s.name, s.policy)
<1>1. IsCanonical(canonical) /\ StateNaming(canonical, Usable)
  BY DEF CertificatesInv, StateSafe
<1>2. SiteFacts(canonical, s)
  BY <1>1, SitesAre
<1>3. ComposesAs(s.name, s.policy)
  BY DEF Sites
<1>4. Naming(s.policy, Usable) /\ s.policy \in Policy
  <2>1. CASE s.rule = Zone
    BY <1>1, <1>2, <2>1 DEF SiteFacts, PolicyOf, IsCanonical, StateNaming
  <2>2. CASE s.rule # Zone
    <3>1. /\ s.policy = Applying(canonical.zone, canonical.rules[s.rule].overrides)
          /\ s.rule \in Rules /\ canonical.rules[s.rule] # NoRule
      BY <1>2, <2>2 DEF SiteFacts, RuleThere, PolicyOf
    <3>2. IsSettings(canonical.rules[s.rule].overrides) /\ canonical.zone \in Policy
      BY <1>1, <3>1 DEF IsCanonical, IsRule
    <3>3. Naming(canonical.zone, Usable) /\ Naming(canonical.rules[s.rule].overrides, Usable)
      BY <1>1, <3>1 DEF StateNaming
    <3> QED BY <3>1, <3>2, <3>3, AppliedNames, AppliedPolicy
  <2> QED BY <2>1, <2>2
<1> QED BY <1>3, <1>4 DEF Naming, Policy

LEMMA NoNameElsewhere == NoPath.site \notin Names /\ OwnPath.site \notin Names
<1>1. \A n \in Names : Begins(Zone, n)
  BY NamesBegin
<1>2. <<>> \notin Names
  BY <1>1 DEF Begins
<1>3. <<Zone, Zone>> \notin Names
  <2> SUFFICES ASSUME <<Zone, Zone>> \in Names PROVE FALSE
    OBVIOUS
  <2>1. CASE \E r \in Rules \cup {Zone} : <<Zone, Zone>> = Base(r)
    BY <2>1, HostsAssumption DEF Base, Zone
  <2>2. CASE \E r \in Rules \cup {Zone} : \E o \in Origins : <<Zone, Zone>> = Append(Base(r), o)
    <3>1. PICK r \in Rules \cup {Zone}, o \in Origins : <<Zone, Zone>> = Append(Base(r), o)
      BY <2>2
    <3>2. o # Zone /\ (r # Zone => r \in Rules) /\ Zone \notin Rules
      BY HostsAssumption DEF Zone
    <3>3. /\ Begins(r, <<Zone, Zone>>)
          /\ r = Zone => Len(<<Zone, Zone>>) = 1 \/ <<Zone, Zone>>[2] = o
      BY <3>1, NameParts
    <3> QED BY <3>2, <3>3 DEF Begins
  <2> QED BY <2>1, <2>2 DEF Names
<1> QED BY <1>2, <1>3 DEF NoPath, OwnPath

\* A host served with a certificate its metadata names never has it expire, for
\* any lifetime and number of hosts, when fewer attempts fail than there are
\* sweeps in the window.
THEOREM RenewalsInTime ==
    ASSUME MaxFaults < Window
    PROVE  CertificatesSpec => []RenewedInTime
<1>1. ASSUME CertificatesInv, NEW s \in Sites(canonical), Requested(s),
             s.policy.cert.path.version = metadata[s.name], s.name \notin lapsed
      PROVE  ~Expired(metadata[s.name])
  <2> DEFINE v == metadata[s.name]
             cert == s.policy.cert
  <2>1. s.name \in Names /\ cert \in Usable /\ cert \in Certificate /\ ComposesAs(s.name, s.policy)
    BY <1>1, ServedUsable, SitesAreNamed DEF CertificatesInv, StateSafe, Usable
  <2>2. cert.mode = "requested" /\ cert.path.version = v
    BY <1>1 DEF Requested
  <2>3. cert.path \in Paths /\ cert.path.site = s.name
    BY <2>1, <2>2 DEF Certificate, ComposesAs, IssuerOwned
  <2>4. v # 0
    <3>1. cert.path \notin {NoPath, OwnPath}
      BY <2>1, <2>3, NoNameElsewhere
    <3>2. cert.path \in [site : Names, version : Versions]
      BY <2>3, <3>1 DEF Paths
    <3> QED BY <2>2, <3>2, HostsAssumption
  <2> HIDE DEF v
  <2>5. issued[v].source = "acme"
    BY <2>1, <2>2, <2>4 DEF Usable
  <2>6. now + Window <= issued[v].until + faults
    BY <1>1, <2>1, <2>4, <2>5 DEF CertificatesInv, Punctual, OnTime, v
  <2>7. issued[v].until \in Nat /\ now \in Nat /\ faults \in 0..MaxFaults
    BY <1>1, <2>1, <2>4, EndsKnown, CertificatesAssumption
       DEF CertificatesInv, TimeTyped, FaultsTyped, v
  <2>8. ~(issued[v].until <= now)
    BY <2>6, <2>7, CertificatesAssumption
  <2> QED BY <2>8 DEF Expired, v
<1>2. CertificatesInv => RenewedInTime
  BY <1>1 DEF RenewedInTime
<1> QED BY <1>2, CertificatesSafe, PTL
=============================================================================
