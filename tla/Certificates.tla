---------------------------- MODULE Certificates ----------------------------
(***************************************************************************)
(* The material of the hosts a zone derives to: how it is issued, stored,  *)
(* activated, renewed and collected, next to operators who edit the zone,  *)
(* an automatic upgrade of its TLS mode, and releases that go on naming    *)
(* the material they were compiled with.                                   *)
(*                                                                         *)
(* What issues, stores or collects holds the deployment lock; what edits   *)
(* the zone or scans its origins does not.                                 *)
(***************************************************************************)
EXTENDS Hosts

CONSTANTS
    Lifetime, Window,   \* of a certificate, and how long before its end it is due
    Retention,          \* releases that are kept
    MaxReleases,        \* bound: releases kept at once
    MaxFaults,          \* bound: attempts refused, processes killed
    MaxNow              \* bound: renewal sweeps

ASSUME CertificatesAssumption ==
    /\ {Lifetime, Window, Retention, MaxReleases, MaxFaults, MaxNow} \subseteq Nat
    /\ Window < Lifetime

VARIABLES
    issued,         \* the certificates ever stored: their host, source and end
    files,          \* those whose chain and key are on disk
    metadata,       \* per host: the one its metadata names, 0 for none
    issuing,        \* the issuance that holds the lock
    now,            \* renewal sweeps so far
    swept,          \* the hosts the current sweep attempted
    lapsed,         \* those it last found no host for
    scan,           \* the upgrades a scan of the origins recommends
    releases,       \* the releases kept, in the order they were recorded
    faults          \* such faults so far

time == <<now, swept, lapsed>>
store == <<issued, files, metadata>>
certificates == <<hosts, store, issuing, time, scan, releases, faults>>

Nobody == [at |-> "nobody"]
NoScan == <<>>
Sources == {"acme", "uploaded"}

CertificatesInit ==
    /\ HostsInit
    /\ issued = <<>> /\ files = {}
    /\ metadata = [n \in Names |-> 0]
    /\ issuing = Nobody
    /\ now = 0 /\ swept = {} /\ lapsed = {}
    /\ scan = NoScan
    /\ releases = <<>>
    /\ faults = 0

Fault == faults < MaxFaults /\ faults' = faults + 1

-----------------------------------------------------------------------------
(* Issuance: ask for it under the lock, write the files, then the metadata, *)
(* then activate.                                                          *)

\* A certificate is asked for a host that is derived.
Begin(n, source) ==
    /\ issuing = Nobody
    /\ issuing' = [at |-> "asked", site |-> n, source |-> source, version |-> 0]
    /\ UNCHANGED <<canonical, store, scan, releases, faults>>

\* An operator uploads one, or requests one.
Request(s, source) ==
    /\ edits < MaxEdits /\ edits' = edits + 1
    /\ Begin(s.name, source)
    /\ UNCHANGED time

\* The reconciliation issues the first, where no certificate is in use.
Reconcile(s) ==
    /\ s.policy.cert.mode = "disabled"
    /\ Begin(s.name, "acme")
    /\ UNCHANGED <<edits, time>>

\* The sweep goes by the metadata, whatever canonical state names.
DueLate(n) ==                                                             \* mutant
    metadata[n] # 0 /\ issued[metadata[n]].source = "acme" /\ issued[metadata[n]].until <= now
Due(n) ==
    /\ metadata[n] # 0
    /\ issued[metadata[n]].source = "acme"
    /\ issued[metadata[n]].until <= now + Window

Renew(n) ==
    /\ Due(n) /\ n \notin swept
    /\ HasSite(canonical, n)
    /\ Begin(n, "acme")
    /\ swept' = swept \cup {n}
    /\ UNCHANGED <<edits, now, lapsed>>

\* A due certificate whose host is derived no more fails, and stays.
RenewMissing(n) ==
    /\ issuing = Nobody
    /\ Due(n) /\ n \notin swept
    /\ ~HasSite(canonical, n)
    /\ swept' = swept \cup {n} /\ lapsed' = lapsed \cup {n}
    /\ UNCHANGED <<hosts, store, issuing, now, scan, releases, faults>>

\* The preflight or the authority refuses; or the lock was taken, or the
\* budget of the sweep spent, and nothing was asked.
Refuse ==
    /\ issuing.at = "asked"
    /\ Fault
    /\ issuing' = Nobody
    /\ UNCHANGED <<hosts, store, time, scan, releases>>

\* The certificate is checked, its chain and key are written under their digests.
WriteVersion ==
    /\ issuing.at = "asked"
    /\ Len(issued) + 1 \in Versions
    /\ issued' = Append(issued, [site |-> issuing.site, source |-> issuing.source,
                                 until |-> now + Lifetime])
    /\ files' = files \cup {Len(issued')}
    /\ issuing' = [issuing EXCEPT !.at = "written", !.version = Len(issued')]
    /\ UNCHANGED <<hosts, metadata, time, scan, releases, faults>>

\* The metadata is replaced last.
WriteMetadata ==
    /\ issuing.at = "written"
    /\ metadata' = [metadata EXCEPT ![issuing.site] = issuing.version]
    /\ lapsed' = lapsed \ {issuing.site}
    /\ issuing' = [issuing EXCEPT !.at = "stored"]
    /\ UNCHANGED <<hosts, issued, files, now, swept, scan, releases, faults>>

\* The exact version is written on the zone or rule the host came from, unless
\* the host is gone then, which undoes the write.
Activated ==
    ApplyToSource(canonical, HostSource(canonical, issuing.site),
        [cert |-> [mode |-> IF issuing.source = "acme" THEN "requested" ELSE "uploaded",
                   path |-> [site |-> issuing.site, version |-> issuing.version]]])
Activate ==
    /\ issuing.at = "stored"
    /\ canonical' = IF HasSite(Activated, issuing.site) THEN Activated ELSE canonical
    /\ issuing' = Nobody
    /\ UNCHANGED <<edits, store, time, scan, releases, faults>>

\* The process dies, and its lock with it.
Crash ==
    /\ issuing # Nobody
    /\ Fault
    /\ issuing' = Nobody
    /\ UNCHANGED <<hosts, store, time, scan, releases>>

\* The next sweep is due when this one attempted all it found.
Tick ==
    /\ issuing = Nobody
    /\ now < MaxNow
    /\ \A n \in Names : Due(n) => n \in swept
    /\ now' = now + 1 /\ swept' = {}
    /\ UNCHANGED <<hosts, store, issuing, lapsed, scan, releases, faults>>

-----------------------------------------------------------------------------
(* Releases, and what they keep.                                           *)

\* The versions a canonical state names.
VersionsOf(c) ==
    LET sources == {c.zone} \cup {c.rules[r].overrides : r \in {s \in Rules : c.rules[s] # NoRule}}
        named == {s["cert"].path.version : s \in {t \in sources : "cert" \in DOMAIN t}}
    IN named \ {0}

\* Those beyond the newest that no deployment names are dropped.
Pruned(rs) ==
    LET kept(i) == rs[i].applied \/ i > Len(rs) - Retention
    IN [i \in 1..Cardinality({j \in DOMAIN rs : kept(j)}) |->
          rs[CHOOSE j \in DOMAIN rs : kept(j) /\ Cardinality({k \in 1..j : kept(k)}) = i]]

\* The current state is compiled and recorded, once for the same state.
Prepare ==
    LET again == \E i \in DOMAIN releases : releases[i].inputs = canonical
    IN /\ releases' = Pruned(IF again THEN releases
                             ELSE Append(releases, [inputs |-> canonical, applied |-> FALSE]))
       /\ Len(releases') <= MaxReleases
       /\ releases' # releases
       /\ UNCHANGED <<hosts, store, issuing, time, scan, faults>>

\* A deployment that applied keeps its release for good; the one that is a
\* check does as a newer release does, for a while.
Deploy(i) ==
    /\ ~releases[i].applied
    /\ releases' = [releases EXCEPT ![i].applied = TRUE]
    /\ UNCHANGED <<hosts, store, issuing, time, scan, faults>>

\* A rollback, which holds the lock, adopts what an applied release was
\* compiled from.
Rollback(i) ==
    /\ issuing = Nobody
    /\ releases[i].applied
    /\ Edited(releases[i].inputs)
    /\ UNCHANGED <<store, issuing, time, scan, releases, faults>>

\* Files neither the metadata, nor canonical state, nor a release names.
Newest == VersionsOf(canonical) \cup {metadata[n] : n \in Names}
RootsForgetful == Newest                                                  \* mutant
RootsUnnamed ==                                                           \* mutant
    VersionsOf(canonical) \cup UNION {VersionsOf(releases[i].inputs) : i \in DOMAIN releases}
Roots == Newest \cup UNION {VersionsOf(releases[i].inputs) : i \in DOMAIN releases}
Collect ==
    /\ issuing = Nobody
    /\ files' = files \cap Roots
    /\ files' # files
    /\ UNCHANGED <<hosts, issued, metadata, issuing, time, scan, releases, faults>>

-----------------------------------------------------------------------------
(* Automatic upgrades of the TLS mode.                                     *)

\* The hosts an upgrade is sought for, and what the scan of their origins over
\* HTTP and HTTPS recommends for each: nothing, or a stronger mode.
Candidates == {s \in Sites(canonical) : /\ s.policy.auto
                                        /\ s.policy.cert.mode # "disabled"
                                        /\ s.policy.ssl < MaxSsl}
Scan ==
    /\ scan = NoScan
    /\ \E proven \in SUBSET Candidates \ {{}} :
         \E target \in [{s.name : s \in proven} -> 1..MaxSsl] :
            /\ \A s \in proven : target[s.name] > s.policy.ssl
            /\ scan' = target
    /\ UNCHANGED <<hosts, store, issuing, time, releases, faults>>

\* The guards are read again in the transaction that writes.
StillUpgradesUnchecked(n) == HasSite(canonical, n)                        \* mutant
StillUpgrades(n) ==
    /\ HasSite(canonical, n)
    /\ Site(canonical, n).policy.auto
    /\ scan[n] > Site(canonical, n).policy.ssl

\* A host that is gone, or a zone that cannot have the mode any more, ends the
\* reconciliation; a rule is not held against its zone.
Upgrade(n) == ApplyToSource(canonical, HostSource(canonical, n), [ssl |-> scan[n]])
Refused(n) == ~HasSite(canonical, n) \/ (StillUpgrades(n) /\ ~Composes(Upgrade(n).zone))
ApplyUpgrade(n) ==
    /\ canonical' = IF StillUpgrades(n) /\ ~Refused(n) THEN Upgrade(n) ELSE canonical
    /\ scan' = IF Refused(n) THEN NoScan ELSE [m \in DOMAIN scan \ {n} |-> scan[m]]
    /\ UNCHANGED <<edits, store, issuing, time, releases, faults>>

-----------------------------------------------------------------------------
EditHosts ==
    /\ Edit
    /\ UNCHANGED <<store, issuing, time, scan, releases, faults>>

CertificatesNext ==
    \/ EditHosts
    \/ \E s \in Sites(canonical) : (\E source \in Sources : Request(s, source)) \/ Reconcile(s)
    \/ \E n \in Names : Renew(n) \/ RenewMissing(n)
    \/ Refuse \/ WriteVersion \/ WriteMetadata \/ Activate \/ Crash \/ Tick
    \/ Prepare \/ Collect
    \/ \E i \in DOMAIN releases : Deploy(i) \/ Rollback(i)
    \/ Scan
    \/ \E n \in DOMAIN scan : ApplyUpgrade(n)

CertificatesSpec == CertificatesInit /\ [][CertificatesNext]_certificates

-----------------------------------------------------------------------------
(* Properties.                                                             *)

\* Every variable has its type, and the certificate the metadata of a host
\* names was issued for that host and is on disk.
CertificatesTypeOK ==
    /\ IsCanonical(canonical) /\ edits \in 0..MaxEdits
    /\ issued \in Seq([site : Names, source : Sources, until : 0..MaxNow + Lifetime])
    /\ files \subseteq DOMAIN issued
    /\ metadata \in [Names -> {0} \cup DOMAIN issued]
    /\ \A n \in Names : metadata[n] # 0 => metadata[n] \in files /\ issued[metadata[n]].site = n
    /\ issuing = Nobody \/ issuing \in [at : {"asked", "written", "stored"}, site : Names,
                                        source : Sources, version : {0} \cup DOMAIN issued]
    /\ now \in 0..MaxNow /\ swept \subseteq Names /\ lapsed \subseteq Names
    /\ DOMAIN scan \subseteq Names /\ \A n \in DOMAIN scan : scan[n] \in 1..MaxSsl
    /\ \A i \in DOMAIN releases : /\ IsCanonical(releases[i].inputs)
                                  /\ releases[i].applied \in BOOLEAN
    /\ faults \in 0..MaxFaults

\* What canonical state names, and what every release that is kept names and a
\* rollback would bring back, is on disk: the collection keeps it
\* (issuance.py, collect_material).
MaterialPresent ==
    /\ VersionsOf(canonical) \subseteq files
    /\ \A i \in DOMAIN releases : VersionsOf(releases[i].inputs) \subseteq files

Requested(s) == s.policy.cert.mode = "requested"
Expired(v) == issued[v].until <= now

\* A host served with the certificate its metadata names never has it expire,
\* as long as fewer attempts fail than there are sweeps in the window and the
\* host did not go meanwhile (issuance.py, renew_certificates).
RenewedInTime ==
    \A s \in Sites(canonical) :
        Requested(s) /\ s.policy.cert.path.version = metadata[s.name]
            => ~Expired(metadata[s.name]) \/ s.name \in lapsed

\* When a certificate is activated, the host it was issued for is served with
\* it from then on, however its zone, rules and records changed while the
\* authority worked (hosts.py, host_source).
ActivationReaches ==
    [][issuing.at = "stored" /\ canonical' # canonical /\ issuing' = Nobody =>
          Site(canonical', issuing.site).policy.cert.path.version = issuing.version]_certificates

Upgraded == scan' # scan /\ canonical' # canonical

\* An upgrade never weakens what an operator picked, nor touches a host taken
\* out of automatic mode, while the scan ran (hosts.py of the DNS service,
\* apply_automatic_ssl_upgrade).
UpgradeRespectsOperator ==
    [][Upgraded =>
        \A n \in DOMAIN scan \ DOMAIN scan' :
            /\ Site(canonical, n).policy.auto
            /\ Site(canonical, n).policy.ssl < scan[n]]_certificates

-----------------------------------------------------------------------------
(* Said of the program and not kept by its code (README, known gaps); no run *)
(* checks these.                                                             *)

\* No host is served with a certificate it requested and let expire.
ActiveRenewed ==
    \A s \in Sites(canonical) :
        Requested(s) => ~Expired(s.policy.cert.path.version) \/ s.name \in lapsed

\* "Apply only proven upgrades": an upgrade changes the mode of no host whose
\* origin the scan has not proven.
UpgradeOnlyProven ==
    [][Upgraded =>
        \A s \in Sites(canonical) : \A t \in Sites(canonical') :
            s.name = t.name /\ s.policy.ssl # t.policy.ssl => s.name \in DOMAIN scan]_certificates
=============================================================================
