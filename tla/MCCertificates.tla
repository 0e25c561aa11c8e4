--------------------------- MODULE MCCertificates ---------------------------
(* Two hostnames of one zone, one rule, two origins. *)
EXTENDS Certificates

Plain == [cert |-> [mode |-> "disabled", path |-> NoPath], ssl |-> 0, auto |-> TRUE]
Existing == [mode |-> "existing", path |-> OwnPath]

\* The second hostname waits to be proxied, or has a rule of its own.
Alone == [zone |-> Plain, rules |-> [r \in Rules |-> NoRule], origin |-> (1 :> 2 @@ 2 :> 0)]
Ruled == [Alone EXCEPT !.rules[1] = [match |-> {2}, overrides |-> [cert |-> Existing]],
                       !.origin[2] = 2]
MCStarts == {Alone, Ruled}
\* Two origins behind the one zone.
Shared == [Alone EXCEPT !.zone.cert = Existing, !.origin[2] = 3]
SharedStarts == {Shared}
AloneStarts == {Alone}
MCWritten == {[cert |-> Existing], [auto |-> FALSE], [ssl |-> MaxSsl]}
MCVersions == 1..2
=============================================================================
