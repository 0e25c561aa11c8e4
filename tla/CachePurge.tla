----------------------------- MODULE CachePurge -----------------------------
(***************************************************************************)
(* Purging the caches of the edges: the request and its resolution against *)
(* the desired sites, the run that computes and removes cache files on the *)
(* edges, and the report.  Beside it operators edit sites, deployments     *)
(* bring edges to them one by one, and visitors fill the caches.           *)
(*                                                                         *)
(* A cached response is known by its scheme, host and query; the listener  *)
(* port, the method and the encoding of its key are all purged together.   *)
(***************************************************************************)
EXTENDS AnsibleRun, Naturals, Sequences

CONSTANTS
    Runs,           \* purges there may be
    Hosts,          \* names visitors ask for
    Suffixes,       \* domains those names may be under
    Under,          \* the domains a name is under, longest first
    Sites,          \* the sites, in the order they are listed
    Exact, Wild,    \* the names, and the domains, of each
    Policies,       \* what operators set a site to
    Visits,         \* what visitors ask for
    Asks,           \* sets of entries that are purged
    MaxEdits        \* bound: edits of a site

Entries == [scheme : {"http", "https"}, host : Hosts, query : {"", "q"}]
AllPolicies == [enabled : BOOLEAN, tls : BOOLEAN, https : BOOLEAN, ignore : BOOLEAN]
Listed == DOMAIN Sites
Misses == [host : Hosts, sites : [Listed -> AllPolicies], steady : BOOLEAN]

ASSUME PurgeAssumption ==
    /\ Under \in [Hosts -> Seq(Suffixes)]
    /\ Exact \in [Listed -> SUBSET Hosts] /\ Wild \in [Listed -> SUBSET Suffixes]
    /\ Policies \subseteq AllPolicies /\ Visits \subseteq Entries
    /\ Asks \subseteq SUBSET Entries /\ MaxEdits \in Nat

VARIABLES
    desired,        \* the policy of each site
    served,         \* what each edge has been brought to
    copies,         \* the responses each edge has cached, by key
    request,        \* each purge
    file,           \* the variable files of the runs
    runs,           \* the runs
    done,           \* edges a run has purged; no part of the system
    missed,         \* copies left that were to go; no part of the system
    edits

purge == <<desired, served, copies, request, file, runs, done, missed, edits>>

None == 0
NoFile == [entries |-> {}, all |-> FALSE]
NoRequest == [at |-> "idle", asked |-> {}, all |-> FALSE, limit |-> {}, entries |-> {},
              seen |-> {}, refused |-> "no"]

-----------------------------------------------------------------------------
(* Names and keys.                                                         *)

Serves(sites, s) == sites[s].enabled
FirstOf(is) == IF is = {} THEN None ELSE CHOOSE i \in is : \A j \in is : i <= j

\* The site a hostname belongs to, as a purge takes it: the exact name, or the
\* first site listed with a wildcard over it.
ExactOwner(sites, h) == FirstOf({s \in Listed : Serves(sites, s) /\ h \in Exact[s]})
Has(sites, s, d) == Serves(sites, s) /\ d \in Wild[s]
WildOwner(sites, h) == FirstOf({s \in Listed : \E i \in DOMAIN Under[h] : Has(sites, s, Under[h][i])})
Owner(sites, h) ==
    IF ExactOwner(sites, h) # None THEN ExactOwner(sites, h) ELSE WildOwner(sites, h)

\* And as nginx takes it: the exact name, or the longest wildcard.
Longest(sites, h) == FirstOf({i \in DOMAIN Under[h] : \E s \in Listed : Has(sites, s, Under[h][i])})
NginxOwner(sites, h) ==
    IF ExactOwner(sites, h) # None \/ Longest(sites, h) = None THEN ExactOwner(sites, h)
    ELSE FirstOf({s \in Listed : Has(sites, s, Under[h][Longest(sites, h)])})

Key(policy, entry) == IF policy.ignore THEN [entry EXCEPT !.query = ""] ELSE entry

\* What nginx proxies, and so caches: no HTTPS without TLS, and no HTTP where it redirects.
Proxies(policy, scheme) ==
    IF scheme = "https" THEN policy.tls ELSE ~(policy.tls /\ policy.https)
Caches(e, entry) ==
    LET s == NginxOwner(served[e], entry.host)
    IN s # None /\ Proxies(served[e][s], entry.scheme)
KeyAt(e, entry) == Key(served[e][NginxOwner(served[e], entry.host)], entry)
Held(e, entry) == Caches(e, entry) /\ KeyAt(e, entry) \in copies[e]

\* `_resolve_purge_entries`.
Unknown(entry) == Owner(desired, entry.host) = None
Scheme(policy) == IF policy.tls THEN "https" ELSE "http"
Mismatched(entry) == /\ ~Unknown(entry)
                     /\ entry.scheme # Scheme(desired[Owner(desired, entry.host)])
DesiredKeyWhole(entry) == entry                                            \* mutant
DesiredKey(entry) == Key(desired[Owner(desired, entry.host)], entry)
Refusal(entries) ==
    CASE \E n \in entries : Unknown(n) -> "unknown"
      [] \E n \in entries : Mismatched(n) -> "mismatched"
      [] OTHER -> "no"
Resolved(entries) == {DesiredKey(n) : n \in entries}

-----------------------------------------------------------------------------

PurgeInit ==
    /\ desired \in [Listed -> Policies]
    /\ served = [e \in Edges |-> desired]
    /\ copies = [e \in Edges |-> {}]
    /\ request = [p \in Runs |-> NoRequest]
    /\ file = [p \in Runs |-> NoFile]
    /\ runs = [p \in Runs |-> NoRun]
    /\ done = [p \in Runs |-> {}] /\ missed = [p \in Runs |-> {}]
    /\ edits = 0

World == UNCHANGED <<desired, served, copies, edits>>
Ghosts == UNCHANGED <<done, missed>>

Edit(s) ==
    /\ edits < MaxEdits
    /\ edits' = edits + 1
    /\ \E policy \in Policies : desired' = [desired EXCEPT ![s] = policy]
    /\ Ghosts /\ UNCHANGED <<served, copies, request, file, runs>>

\* A deployment brings one edge to the desired state; what it cached stays.
Converge(e) ==
    /\ served[e] # desired
    /\ served' = [served EXCEPT ![e] = desired]
    /\ Ghosts /\ UNCHANGED <<desired, copies, request, file, runs, edits>>

Visit(e, entry) ==
    /\ Caches(e, entry)
    /\ copies' = [copies EXCEPT ![e] = @ \cup {KeyAt(e, entry)}]
    /\ Ghosts /\ UNCHANGED <<desired, served, request, file, runs, edits>>

\* The API resolves the entries and queues them as resolved, or refuses; the
\* command line leaves all of it to the purge.
Submit(p, asked, all, limit) ==
    /\ request[p].at = "idle"
    /\ all = (asked = {})               \* both, or neither, is refused
    /\ request' = [request EXCEPT ![p] =
         [NoRequest EXCEPT !.at = IF Refusal(asked) = "no" THEN "queued" ELSE "refused",
                           !.asked = asked, !.all = all, !.limit = limit,
                           !.refused = Refusal(asked),
                           !.entries = IF Refusal(asked) = "no" THEN Resolved(asked) ELSE {},
                           !.seen = {desired}]]
    /\ World /\ Ghosts /\ UNCHANGED <<file, runs>>
Command(p, asked, all, limit) ==
    /\ request[p].at = "idle"
    /\ all = (asked = {})
    /\ request' = [request EXCEPT ![p] =
         [NoRequest EXCEPT !.at = "queued", !.asked = asked, !.all = all, !.limit = limit, !.entries = asked]]
    /\ World /\ Ghosts /\ UNCHANGED <<file, runs>>

\* The purge resolves what it is given, once more where the API has, and
\* writes the variables of its run to a file of that run.
FileOf(p) == p
Take(p) ==
    /\ request[p].at = "queued"
    /\ LET why == Refusal(request[p].entries)
           entries == Resolved(request[p].entries)
       IN IF why # "no"
          THEN /\ request' = [request EXCEPT ![p].at = "refused", ![p].refused = why, ![p].seen = @ \cup {desired}]
               /\ UNCHANGED file
          ELSE /\ request' = [request EXCEPT ![p].at = "staged", ![p].entries = entries, ![p].seen = @ \cup {desired}]
               /\ file' = [file EXCEPT ![FileOf(p)] = [entries |-> entries, all |-> request[p].all]]
    /\ World /\ Ghosts /\ UNCHANGED runs

\* Ansible reads its variables as it starts.
Launch(p) ==
    /\ request[p].at = "staged"
    /\ request' = [request EXCEPT ![p].at = "running",
                     ![p].entries = file[FileOf(p)].entries, ![p].all = file[FileOf(p)].all]
    /\ runs' = [runs EXCEPT ![p] = Launched(request[p].limit)]
    /\ World /\ Ghosts /\ UNCHANGED file

HostStarts(p, e) ==
    /\ runs[p].at = "going" /\ e \in Silent(runs[p])
    /\ runs' = [runs EXCEPT ![p] = Started(@, e)]
    /\ World /\ Ghosts /\ UNCHANGED <<request, file>>

\* The role removes the files of the keys it was given, or all of them.
Removes(p, e) == IF request[p].all THEN copies[e] ELSE request[p].entries \cap copies[e]
Left(p, e) == copies[e] \ Removes(p, e)

\* The entries asked for and left; with the sites their edge serves, and whether
\* the purge was resolved against those and no others.
Stays(p, e) == {n \in request[p].asked : Caches(e, n) /\ KeyAt(e, n) \in Left(p, e)}
Miss(p, e, n) == [host |-> n.host, sites |-> served[e], steady |-> request[p].seen = {served[e]}]

Remove(p, e) ==
    /\ runs[p].at = "going" /\ e \in AtWork(runs[p]) \ done[p]
    /\ copies' = [copies EXCEPT ![e] = Left(p, e)]
    /\ missed' = [missed EXCEPT ![p] = @ \cup {Miss(p, e, n) : n \in Stays(p, e)}]
    /\ done' = [done EXCEPT ![p] = @ \cup {e}]
    /\ UNCHANGED <<desired, served, request, file, runs, edits>>

\* A host ends, before or after it removed anything if it fails; others go on.
HostEnds(p, e) ==
    /\ runs[p].at = "going" /\ e \in AtWork(runs[p])
    /\ \/ e \in done[p] /\ runs' = [runs EXCEPT ![p] = Finished(@, e, [Zero EXCEPT !.changed = TRUE])]
       \/ runs' = [runs EXCEPT ![p] = Finished(@, e, [Zero EXCEPT !.failed = TRUE])]
       \/ runs' = [runs EXCEPT ![p] = Finished(@, e, [Zero EXCEPT !.unreachable = TRUE])]
    /\ World /\ Ghosts /\ UNCHANGED <<request, file>>

Ends(p) ==
    /\ runs[p].at = "going"
    /\ \/ AllEnded(runs[p]) /\ runs' = [runs EXCEPT ![p] = Recap(@)]
       \/ runs' = [runs EXCEPT ![p] = TimedOut(@)]
       \/ ~Reported(runs[p]) /\ runs' = [runs EXCEPT ![p] = Died(@)]
    /\ World /\ Ghosts /\ UNCHANGED <<request, file>>

\* The report, which is an error when no host is in it; the variable file goes.
Report(p) ==
    /\ request[p].at = "running" /\ runs[p].at = "ended"
    /\ request' = [request EXCEPT ![p].at = IF Reported(runs[p]) THEN "reported" ELSE "failed"]
    /\ file' = [file EXCEPT ![FileOf(p)] = NoFile]
    /\ World /\ Ghosts /\ UNCHANGED runs

PurgeNext ==
    \/ \E s \in Listed : Edit(s)
    \/ \E e \in Edges : Converge(e)
    \/ \E e \in Edges, entry \in Visits : Visit(e, entry)
    \/ \E p \in Runs :
         \/ \E asked \in Asks, all \in BOOLEAN, limit \in SUBSET Edges \ {{}} :
              Submit(p, asked, all, limit) \/ Command(p, asked, all, limit)
         \/ Take(p) \/ Launch(p) \/ Ends(p) \/ Report(p)
         \/ \E e \in Edges : HostStarts(p, e) \/ Remove(p, e) \/ HostEnds(p, e)

PurgeSpec == PurgeInit /\ [][PurgeNext]_purge

-----------------------------------------------------------------------------
(* Properties.                                                             *)

Done(p) == request[p].at = "reported"
Failed(p) == FailedHosts(runs[p])
IsComplete(p) == Done(p) /\ Failed(p) = {}

PurgeTypeOK ==
    /\ desired \in [Listed -> AllPolicies] /\ served \in [Edges -> [Listed -> AllPolicies]]
    /\ copies \in [Edges -> SUBSET Entries]
    /\ \A p \in Runs :
         /\ request[p].at \in {"idle", "refused", "queued", "staged", "running", "reported", "failed"}
         /\ request[p].refused \in {"no", "unknown", "mismatched"}
         /\ request[p].entries \subseteq Entries /\ request[p].limit \subseteq Edges
         /\ RunTypeOK(runs[p])
         /\ done[p] \subseteq Edges /\ missed[p] \subseteq Misses
    /\ edits \in 0..MaxEdits

\* Where an edge serves the very sites a purge was resolved against, the purge
\* leaves there no copy that an asked entry would be answered from: the key it
\* computed is the key nginx wrote.  Excepted are names that wildcards of two
\* sites are over, where the purge took another site than nginx does: it takes
\* the first one listed (cache.py:139-146), nginx the longest.
SteadyPurgeRemoves ==
    \A p \in Runs : \A m \in missed[p] :
        m.steady => Owner(m.sites, m.host) # NginxOwner(m.sites, m.host)

\* `failed_hosts` names "the edges that may still be serving the cached copy":
\* of a run that was not cut short, every edge that removed nothing is named.
FailedAreNamed ==
    \A p \in Runs : Done(p) /\ runs[p].status # "timed_out" => request[p].limit \ done[p] \subseteq Failed(p)

-----------------------------------------------------------------------------
(* Said of the program and not kept by its code (README, known gaps); no run *)
(* checks these.                                                             *)

\* Success means "not served from cache now".
CompleteIsGone == \A p \in Runs : IsComplete(p) /\ runs[p].status = "succeeded" => missed[p] = {}

\* Complete is true only if every edge purged.
CompleteIsEveryEdge == \A p \in Runs : IsComplete(p) => request[p].limit \subseteq done[p]

\* A scheme is refused because nothing is cached under it: not by an edge that
\* serves the sites the request was judged by.
RefusedIsNotCached ==
    [][\A p \in Runs : request'[p].refused = "mismatched" /\ request[p].refused = "no" =>
         \A e \in Edges : served[e] = desired =>
            ~\E n \in request'[p].asked : Mismatched(n) /\ Held(e, n)]_purge

\* The hostname of an entry matches a site, "wildcards as nginx matches them":
\* a purge resolves it by the site nginx answers it with.  The code takes the
\* first wildcard listed, so this fails where the wildcards of two sites nest.
WildcardsAsNginx ==
    \A p \in Runs : request[p].at = "staged" =>
        \A n \in request[p].asked : \A sites \in request[p].seen :
            Owner(sites, n.host) = NginxOwner(sites, n.host)
=============================================================================
