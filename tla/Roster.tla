------------------------------- MODULE Roster -------------------------------
(***************************************************************************)
(* The features the program ships, as their modules declare them: names    *)
(* without the common prefixes, modules by the object they load.  Core's   *)
(* roles are the directories beside its plays.                             *)
(***************************************************************************)
EXTENDS Features

CoreRoles == {"base", "capabilities", "config_release", "controlplane", "docker",
              "edge", "edge_stack", "edge_teardown", "firewall", "kernel",
              "nginx", "uninstall"}

Module(name, object, build, probe) ==
    [name |-> name, objects |-> {object}, build |-> build, probe |-> probe]

\* Features of the control plane alone.
Dns == [Feature("dns") EXCEPT
    !.founds = {"domain", "record", "rule", "dns"},
    !.places = [domain |-> {"cache", "compression", "http", "security", "tls"}]]
Edges == [Feature("edges") EXCEPT !.founds = {"edge"}]
Jobs == [Feature("jobs") EXCEPT !.founds = {"job"}]
Releases == [Feature("releases") EXCEPT !.founds = {"release"}]
Workflows == Feature("workflows")
Deployments == Feature("deployments")
Maintenance == Feature("maintenance")
Diagnostics == [Feature("diagnostics") EXCEPT !.founds = {"ansible"}]
Backup == [Feature("backup") EXCEPT !.provides = {"backup"},
              !.founds = {"backup"}, !.settings = {"BACKUP_DIR"}]

\* Features of the edge.
Http == [Feature("http") EXCEPT !.extends = {"domain"}]
Tls == [Feature("tls") EXCEPT !.extends = {"domain"}]
Certificates ==
    LET intervals == {"CERTIFICATE_RECONCILE_INTERVAL_SECONDS",
                      "CERTIFICATE_RENEWAL_INTERVAL_SECONDS",
                      "CERTIFICATE_RENEWAL_BUDGET_SECONDS",
                      "SSL_AUTOMATIC_SCAN_INTERVAL_SECONDS"}
    IN [Feature("certificates") EXCEPT
          !.provides = {"certificates"}, !.founds = {"cert", "ssl"},
          !.settings = {"CERTBOT", "ACME_DEFAULT_EMAIL", "ACME_CA_DOMAIN"} \cup intervals,
          !.typed = {"ACME_CA_DOMAIN"} \cup intervals]
Cache == [Feature("cache") EXCEPT
    !.provides = {"cache"}, !.founds = {"cache"}, !.extends = {"domain"},
    !.roles = {"cache_config", "cache_purge", "cache_stats"},
    !.edge = <<"cache_config">>,
    !.fragments = {<<"http", "cache-http">>, <<"upstream", "cache-upstream">>}]
Compression == [Feature("compression") EXCEPT
    !.provides = {"compression"}, !.extends = {"domain"},
    !.roles = {"compression"}, !.edge = <<"compression">>,
    !.modules = <<Module("brotli", "brotli_filter", TRUE, "brotli")>>,
    !.fragments = {<<"server", "compression-server">>}]
Security == [Feature("security") EXCEPT
    !.provides = {"security"}, !.extends = {"domain"},
    !.secrets = {"UNDER_ATTACK_SECRET"}, !.long = {"UNDER_ATTACK_SECRET"},
    !.roles = {"security"}, !.edge = <<"security">>,
    !.modules = <<Module("njs", "js", FALSE, "js_path")>>,
    !.fragments = {<<"http", "security-http">>, <<"server", "security-server">>,
                   <<"access", "security-access">>,
                   <<"upstream", "security-upstream">>,
                   <<"module", "under-attack">>}]
Geoip == [Feature("geoip") EXCEPT
    !.provides = {"geoip"},
    !.secrets = {"MAXMIND_ACCOUNT_ID", "MAXMIND_LICENSE_KEY"},
    !.roles = {"geoip"}, !.edge = <<"geoip">>,
    !.modules = <<Module("geoip2", "geoip2", TRUE, "")>>,
    !.fragments = {<<"http", "geoip-http">>, <<"upstream", "geoip-upstream">>}]
Http3 == [Feature("http3") EXCEPT
    !.provides = {"http3"}, !.roles = {"http3"}, !.edge = <<"http3">>,
    !.fragments = {<<"server", "http3-server">>, <<"upstream", "http3-upstream">>}]
Origins == [Feature("origins") EXCEPT
    !.provides = {"origins"}, !.founds = {"origin"}, !.roles = {"origins"}]
Hardening == [Feature("hardening") EXCEPT
    !.provides = {"hardening"},
    !.roles = {"hardening_sshd", "hardening_fail2ban", "hardening_teardown"},
    !.host = <<"hardening_sshd", "hardening_fail2ban">>,
    !.teardown = <<"hardening_teardown">>]
Resolver == [Feature("resolver") EXCEPT
    !.provides = {"resolver"}, !.roles = {"resolver", "resolver_teardown"},
    !.edge = <<"resolver">>, !.teardown = <<"resolver_teardown">>]

\* The order of registration.
Shipped ==
    <<Http, Dns, Edges, Jobs, Releases, Workflows, Deployments, Tls, Certificates,
      Maintenance, Diagnostics, Backup, Cache, Compression, Security, Origins,
      Geoip, Hardening, Http3, Resolver>>
=============================================================================
