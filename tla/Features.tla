------------------------------ MODULE Features ------------------------------
(***************************************************************************)
(* What the features of the program declare and what is resolved from the  *)
(* declarations when a process is composed: the command tree, the roles    *)
(* and modules of the plays, the fragments of Nginx, and what the operator *)
(* configured, scoped to the feature that claims it.  A roster is a        *)
(* sequence of features; a resolver answers Refused where the code raises. *)
(* A feature contributes at most one value of each kind, as all do.        *)
(***************************************************************************)
EXTENDS Naturals, SequencesExt, FiniteSetsExt

CONSTANT Refused

Blank == ""                    \* a name supplied without a value
Unfit == "unfit"               \* too short a secret, no value of a typed setting
Default == "default"

\* The features' names in order, those of the features of any program.
Alphabet == <<"backup", "cache", "certificates", "compression", "deployments",
  "diagnostics", "dns", "edges", "extension", "geoip", "hardening", "http",
  "http3", "jobs", "maintenance", "origins", "releases", "resolver",
  "security", "tls", "workflows">>

\* A feature that declares its name alone.
Feature(name) ==
    [name |-> name, provides |-> {}, founds |-> {}, extends |-> {},
     places |-> <<>>, carried |-> TRUE, roles |-> {}, edge |-> <<>>, host |-> <<>>,
     teardown |-> <<>>, modules |-> <<>>, fragments |-> {},
     secrets |-> {}, required |-> {}, long |-> {},
     settings |-> {}, typed |-> {}, model |-> TRUE,
     variables |-> <<>>, overrides |-> {}]

InOrder(features) ==
    LET names == SelectSeq(Alphabet, LAMBDA n : \E f \in features : f.name = n)
    IN [k \in DOMAIN names |-> CHOOSE f \in features : f.name = names[k]]
ByName(roster) == InOrder(ToSet(roster))
Collect(roster, Part(_)) == FlattenSeq([i \in DOMAIN roster |-> Part(roster[i])])
Distinct(roster, Part(_)) ==
    \A i, j \in DOMAIN roster : i # j => Part(roster[i]) \cap Part(roster[j]) = {}

-----------------------------------------------------------------------------
\* Every name is declared once.
Registry(roster) ==
    IF Distinct(roster, LAMBDA f : {f.name}) THEN roster ELSE Refused

Capabilities(roster) == UNION {roster[i].provides \cup {roster[i].name} : i \in DOMAIN roster}

\* A group is founded once, only a founded one is extended, and a founder that
\* orders its group places the commands of all who extend it.
CommandTree(roster) ==
    LET founded == UNION {roster[i].founds : i \in DOMAIN roster}
        Joins(g) == {roster[i].name : i \in {j \in DOMAIN roster : g \in roster[j].extends}}
        Orders(f) == \A g \in DOMAIN f.places : Joins(g) \subseteq f.places[g]
    IN IF /\ Distinct(roster, LAMBDA f : f.founds)
          /\ \A i \in DOMAIN roster : roster[i].extends \subseteq founded /\ Orders(roster[i])
       THEN [g \in founded |-> Joins(g)]
       ELSE Refused

\* The directories searched for a role, core's first; a role is in one of them.
RoleSearchPath(core, roster) ==
    LET with == SelectSeq(ByName(roster), LAMBDA f : f.roles # {})
    IN IF /\ \A i \in DOMAIN with : with[i].carried /\ with[i].roles \cap core = {}
          /\ Distinct(with, LAMBDA f : f.roles)
       THEN [i \in DOMAIN with |-> with[i].name]
       ELSE Refused

\* The roles a play runs in one slot, each shipped by the feature that asks.
Slot(roster, slot) ==
    IF \A i \in DOMAIN roster : ToSet(roster[i][slot]) \subseteq roster[i].roles
    THEN Collect(ByName(roster), LAMBDA f : f[slot])
    ELSE Refused

\* Modules declared alike are one; different ones share no name and no object.
EdgeModules(roster) ==
    LET all == Collect(ByName(roster), LAMBDA f : f.modules)
        Agree(m, n) == IF m.name = n.name THEN m = n
                       ELSE m.objects \cap n.objects = {}
        First(i) == \A j \in 1..(i - 1) : all[j].name # all[i].name
    IN IF \A i, j \in DOMAIN all : Agree(all[i], all[j])
       THEN [k \in 1..Cardinality({i \in DOMAIN all : First(i)}) |->
               all[SetToSortSeq({i \in DOMAIN all : First(i)}, <)[k]]]
       ELSE Refused

\* A fragment is contributed once, by one feature in one context.
NginxResources(roster) ==
    LET with == SelectSeq(ByName(roster), LAMBDA f : f.fragments # {})
        Names(f) == {r[2] : r \in f.fragments}
        Once(f) == \A r, q \in f.fragments : r[2] = q[2] => r = q
    IN IF /\ \A i \in DOMAIN with : with[i].carried /\ Once(with[i])
          /\ Distinct(with, Names)
       THEN [i \in DOMAIN with |-> <<with[i].name, with[i].fragments>>]
       ELSE Refused

-----------------------------------------------------------------------------
\* What the operator supplied, as functions from the names to the values.
At(given, name) == IF name \in DOMAIN given THEN given[name] ELSE Blank

\* A blank value of the environment stands for a model, and yields to the
\* file for settings declared one by one.
Supplied(f, name, env, file) ==
    IF name \in DOMAIN env /\ (f.model \/ env[name] # Blank)
    THEN env[name] ELSE At(file, name)

FeatureConfiguration(f, env, file) ==
    LET Setting(n) == Supplied(f, n, env, file)
    IN IF \/ f.model /\ f.secrets \cap DOMAIN file # {}
          \/ \E n \in f.required : At(env, n) = Blank
          \/ \E n \in f.long : At(env, n) = Unfit
          \/ \E n \in f.typed : Setting(n) = Unfit
       THEN Refused
       ELSE [n \in f.secrets \cup f.settings |->
               IF n \in f.secrets THEN At(env, n)
               ELSE IF Setting(n) = Blank THEN Default ELSE Setting(n)]

\* Names are claimed once, no name is left unclaimed, no secret is in the file.
CapabilityEnvironment(roster, env, file) ==
    LET secrets == UNION {roster[i].secrets : i \in DOMAIN roster}
        claimed == secrets \cup UNION {roster[i].settings : i \in DOMAIN roster}
        Config(f) == FeatureConfiguration(f, env, file)
    IN IF \/ ~Distinct(roster, LAMBDA f : f.secrets \cup f.settings)
          \/ ~(DOMAIN env \cup DOMAIN file \subseteq claimed)
          \/ DOMAIN file \cap secrets # {}
          \/ \E i \in DOMAIN roster : Config(roster[i]) = Refused
       THEN Refused
       ELSE [environment |-> [n \in DOMAIN env \cap secrets |-> env[n]],
             configs |-> [name \in {roster[i].name : i \in DOMAIN roster} |->
                Config(roster[CHOOSE i \in DOMAIN roster : roster[i].name = name])]]

\* What a process resolves once, before it has any service.
Assembly(core, roster, env, file) ==
    LET parts == [settings |-> CapabilityEnvironment(roster, env, file),
                  path |-> RoleSearchPath(core, roster),
                  edge |-> Slot(roster, "edge"),
                  host |-> Slot(roster, "host"),
                  teardown |-> Slot(roster, "teardown"),
                  modules |-> EdgeModules(roster),
                  nginx |-> NginxResources(roster)]
    IN IF Registry(roster) = Refused THEN Refused
       ELSE IF \E p \in DOMAIN parts : parts[p] = Refused THEN Refused
       ELSE parts
=============================================================================
