----------------------------- MODULE MCRestore ------------------------------
(* A database, a certificate directory and the host's two configuration
   files; archives of the data alone, of the configuration, and of all.    *)
EXTENDS Restore, TLC

CONSTANTS database, tls, toml, env, api, worker
MCPlaces == {database, tls, toml, env}
MCOrder == (database :> 1 @@ tls :> 2 @@ toml :> 3 @@ env :> 4)
MCSelections == {{database, tls}, {tls, env}, MCPlaces}
=============================================================================
