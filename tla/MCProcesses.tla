---------------------------- MODULE MCProcesses -----------------------------
(* Programs with the shipped features in two orders, with one more feature  *)
(* that claims an operator's key and overrides the sites' policy, and with  *)
(* one that clashes.                                                         *)
EXTENDS Processes

MCHere == "here"

Policy == [enabled |-> TRUE, cache |-> TRUE, compression |-> FALSE, http3 |-> FALSE,
           attack |-> FALSE, firewall |-> "none", country |-> FALSE,
           mode |-> "disabled", auto |-> FALSE]

Extension == [Feature("extension") EXCEPT !.secrets = {"API_KEY"}, !.model = FALSE,
    !.variables = [policy |-> [Policy EXCEPT !.cache = FALSE]], !.overrides = {"policy"}]
Clashing == [Feature("extension") EXCEPT !.roles = {"cache_config"}]
MCFeaturesOf == [shipped |-> Shipped, reversed |-> Reverse(Shipped),
                 extended |-> Append(Shipped, Extension),
                 preceded |-> <<Extension>> \o Reverse(Shipped),
                 clashing |-> Append(Shipped, Clashing)]
MCPrograms == DOMAIN MCFeaturesOf

None == <<>>
Secret(s) == [UNDER_ATTACK_SECRET |-> s]
Home == [HOME |-> "home"]
Key == [API_KEY |-> "key"]
MCSuppliedBy ==
    [bare |-> [exported |-> Home, dotenvs |-> [here |-> Key],
               tomls |-> [here |-> None]],
     local |-> [exported |-> Home, dotenvs |-> [here |-> Key @@ Secret("local")],
                tomls |-> [here |-> [DATABASE_PATH |-> "file", BACKUP_DIR |-> "dir"]]],
     exported |-> [exported |-> Home @@ Key @@ Secret("exported"),
                   dotenvs |-> [here |-> Secret("local")],
                   tomls |-> [here |-> None]],
     moved |-> [exported |-> Home,
                dotenvs |-> [here |-> Secret("local") @@ [PROJECT_DIR |-> "there"],
                             there |-> Secret("there") @@ [MAXMIND_ACCOUNT_ID |-> "id"]],
                tomls |-> [here |-> Secret("committed"), there |-> None]],
     committed |-> [exported |-> Home, dotenvs |-> [here |-> None],
                    tomls |-> [here |-> Secret("committed")]]]
MCSources == DOMAIN MCSuppliedBy

Site(name, policy) == [name |-> name, serves |-> TRUE, policy |-> policy,
                       reserved |-> FALSE]
Plain == Site(1, Policy)
Quick == Site(2, [Policy EXCEPT !.http3 = TRUE])
Attacked == Site(1, [Policy EXCEPT !.attack = TRUE])
Named == Site(3, [Policy EXCEPT !.mode = "requested"])
Inputs(sites, refused) == [sites |-> sites, refused |-> refused,
                           settings |-> [workers |-> 1]]
All == {"cache", "compression", "http3", "security", "geoip", "certificates"}
State(inputs) == [inputs |-> inputs, targets |-> (1 :> {All} @@ 2 :> {}),
                  material |-> <<>>]
MCStateOf ==
    [served |-> State(Inputs({Plain, Quick}, {})),
     lacking |-> [State(Inputs({Plain, Quick}, {})) EXCEPT
                    !.targets = (1 :> {All \ {"http3"}} @@ 2 :> {})],
     attacked |-> State(Inputs({Attacked}, {})),
     refused |-> State(Inputs({Plain}, {"host"})),
     unissued |-> State(Inputs({Named}, {})),
     issued |-> [State(Inputs({Named}, {})) EXCEPT !.material = (3 :> "material")],
     conflicting |-> State([Inputs({Quick}, {}) EXCEPT !.settings = [quic |-> TRUE]])]
MCStates == DOMAIN MCStateOf
=============================================================================
