# BlitzeCDN control plane: TLA+ specifications and proofs

BlitzeCDN's control plane (`src/blitzecdn`) keeps the desired state of a CDN in
one SQLite database, compiles it into immutable *releases*, and converges a
fleet of edge servers to a release by Ansible runs. This directory models what
is stateful in it: the durable job queue and the scheduler, the configuration
transaction on an edge, the rollout of deployments over one edge and over the
fleet, certificates and the hosts they are for, the restore of a backup, desired
state with its releases, what the control plane concludes from a run of Ansible
(the drift check, the purge of the caches), and the life of a process from the
features it is composed of to the releases it compiles.
Paths below are relative to `src/blitzecdn` unless they start with `tests/`.

## 1. The system

### Processes and shared state

Three kinds of process run the same services: the API, the CLI and any number
of workers (`entrypoints/`, `composition/`). They share

* one SQLite database; every write is a `BEGIN IMMEDIATE` transaction
  (`core/persistence/engine.py`), so a transaction is atomic and serialised;
* a state directory, with an advisory *deployment lock* file that is refused,
  never waited for (`core/ansible/lock.py`);
* the edges, reached by Ansible, each with its own disk and one container.

Nothing else is shared: processes communicate by rows (jobs, schedules,
deployments, targets, requirements), and learn of each other's death only by a
lapsed lease or a freed lock.

### Components

| Component | State | Operations | What makes it hard | What makes it correct |
|---|---|---|---|---|
| Job queue (`capabilities/jobs`) | `jobs` table: status, attempts, lease, fence, dedupe key | enqueue, claim (retiring spent jobs), renew, complete, fail, retry, defer, prune | workers that stall past their lease, die or report late | one owner per job; attempts bounded; outcomes final; every job finishes |
| Worker loop (`jobs/service/runner.py`) | what the process is doing | tick: publish due schedules, claim, hold, run, prune | death or an exception between any two | no claim is lost for ever |
| Scheduler (`jobs/service/scheduling.py`) | `schedules` table: next run | register, scan, compare-and-swap and publish | several workers fire from stale snapshots; restarts re-register | a slot fires once, and fires |
| Configuration transaction (Ansible role `blitzecdn_config_release` and its helper, `blitzecdn_edge_stack`) | release trees, `current` link, journals, Compose file, image record, container | stage, seal, activate, withdraw, commit, two nested rescues | a run may be cut off or fail between any two steps, and be replayed after other runs | the pointer names a sealed tree; withdrawal restores; a committed release is not lost |
| Deployments (`capabilities/deployments`) | deployment, targets with phase and fence, lock | admit, run from the queue, phases, verify, withdraw, complete, fail, recover | controller crashes, redelivery, interleaved deployments, many edges | what is reported is what the edges hold; every deployment ends |
| Requirements and certificates (`capabilities/tls`) | certificate versions on disk, site policy, requirement rows | issue, renew, upload, activate, collect, upgrade SSL mode | a file write and a transaction per step; requirements raised while a deployment runs | a raised requirement reaches the fleet; no active certificate is collected |
| Workflow journal (`capabilities/workflows`) | workflows with checkpoints | begin, checkpoint, finish, reconcile | a restart beside a running process | finished work is not reopened |
| Releases (`capabilities/releases`) | releases, inputs, rendered artefacts | prepare, record, render, prune | retention beside admission, an upgrade between two deployments of a release | a release that is needed exists, and is shipped as it was first rendered |
| Rollback adoption (`deployments/service/rollback.py`) | desired state | converge an old release, adopt its inputs | records change meanwhile | nothing written meanwhile is deleted; all that was converged is adopted |
| DNS, rules, edges (`capabilities/dns`, `capabilities/edges`) | zones, records, rules, settings, roster | edits with foreign keys and cascades, compare-and-swap, decommission | read outside the transaction | stored state composes; no lost update |
| Ansible runner (`core/ansible`) | the events and the recap of a run | start, hear, end or be cut off | a run stopped at its time limit has entries and no counts | nothing is concluded that no host said |
| Drift check (`capabilities/deployments`, check mode and `service/reporting.py`) | target rows, the last run, the report | admit, walk, resume, report | edges drift, go and come back meanwhile; the worker dies | no invented drift; a check that stopped is not "in sync" |
| Cache purge (`capabilities/cache`) | the request, its variables, what edges hold | resolve, remove on each edge, report | resolved against desired sites, executed against served ones | what was asked for is gone; who did not purge is named |
| Features, configuration, compilation (`core/features`, `core/config`, `releases/service/compiler.py`, the `feature.py` and `wiring.py` of the features) | none of their own | resolve what features declare and operators configure; compile desired state | any order of features, any mix of sources, many refusals | the same in any order; identity by content; secrets confined |
| Entry points, heartbeats (`entrypoints/`, `composition/`, `jobs/adapters/monitor.py`) | what a process holds; its record on disk | launch, acquire, start, work, give back; pulse | a step of the start or of the end that fails; a kill | given back in the opposite order; nothing used after it was given back |
| Maintenance jobs | the `CERTIFICATES` requirement | converge after the job | | see requirements |
| Origin checks, diagnostics, edge operations, cache statistics | none that is decided on | | | |
| Host install and update (`host/`) | the installation itself | | | |

How they meet: admitting a deployment writes the deployment, its targets and a
job in one transaction; a worker claims the job and calls the deployment
service; that takes the lock (or the job is *deferred*) and runs the rollout;
the rollout runs Ansible phases on each edge and records a checkpoint after
each; the edge keeps its own journal of the transaction. A worker's death
returns the job by its lease, and the next one resumes the rollout from the
checkpoints.

## 2. Plan

In order of what matters most to an operator. All of it is done but for the
parts named at the end.

1. `JobQueue`, its abstract specification `JobLedger`, the refinement
   `JobQueueLedger`.
2. `JobScheduler`, composed with the queue; the proofs of 1 and 2, `JobProofs`.
3. `ConfigurationRelease`.
4. `EdgeRollout`: deployments on one edge, composed with 3; the proofs of both,
   `EdgeRolloutProofs`.
5. `Fleet`: admission, requests of one edge and checks, generations and takeover
   without the lock, rollback and adoption, requirements, workflows, the roster;
   the proofs `FleetProofs`.
6. `Hosts`, the derivation of virtual hosts and the edits of operators, and
   `Certificates` over it: issuance, renewal, activation, collection, what kept
   releases name, and the automatic upgrade of the TLS mode; the proofs
   `CertificatesProofs`.
7. `Restore`, the proofs `RestoreProofs`.
8. `AnsibleRun` (over `Tables`), and on it `DriftCheck` and `CachePurge`; the
   proofs `AnsibleRunProofs`.
9. `DesiredState`, the proofs `DesiredStateProofs`.
10. `Features`, `Roster`, `ReleaseCompiler` and `Processes`, each over the one
    before; the proofs `ProcessesProofs`.

Left: the order in which a live backup copies the database and the certificate
tree (an archive taken during a renewal and a collection); the firewall roles,
whose registry of managed rules is written last.

## 3. Modules

### JobQueue: the durable job queue

| Model | Code |
|---|---|
| `rows`, `created` | the `jobs` table (`jobs/adapters/tables.py`), its creation order |
| `worker` | each worker's claim (`JobClaim`) and where its tick stands |
| `Enqueue` | `JobStore.enqueue`, through the three publishers; a key in flight is refused by the partial unique index (`InFlight`) |
| `Claim`, `RetireOnly` | `JobStore.claim`: retire every spent row met before the oldest takeable one, take that one under a new fence and lease |
| `Hold` | `JobRunner._hold_for_declared_lease` |
| `Complete`, `FailForGood`, `FailOrRetry`, `Defer` | `JobQueue.run`: the outcome of a handler recorded under the fence (`Owns`, `Recorded`) |
| `Prune` | `JobQueue.prune`, after every job |
| `Lose` | death of the process, or an exception that escapes the tick |
| `Tick` | the clock; ticks that change no comparison are left out |

A row's payload, timestamps that are only shown, and the error text are left
out. A handler is its outcome. Deferral keeps no bound in the code; `DeferFence`
bounds how often a job is deferred, and is the only bound with `MaxJobs`. What a
maintenance job that fails on a held lock leaves for its next firing is not modelled.

`JobLedger` is the promise without clock, fence or lease: a job waits, is held
by one worker, or is closed; only the holder settles it or hands it back; it is
given up only when its last permitted run was lost. `JobQueueLedger` maps the
table to it: the holder is the worker whose claim has the row's fence.

### JobScheduler

Extends `JobQueue`. `schedule` is the schedules table, `loop` is each worker's
position in its tick with the snapshot it scanned. `Register` is a process start
with some release of the program (`Installations`), `Scan` reads what is due,
`Fire` is the compare-and-swap and the publication in one transaction,
`FireFails` its failure, `ClaimOne` and `Work` are the queue's steps, `Die` the
loss of the process. The jitter is any value in its range.

### ConfigurationRelease: one edge's transaction

| Model | Code |
|---|---|
| `tree`, `pointer`, `journal` | `<root>/<digest>`, `<root>/current`, `<root>/.<digest>.transaction.json` |
| `records` | the Compose file and the deployed-image record, by the release whose image they name |
| `runtime` | what the container loaded |
| `run` | the Ansible run in progress: its kind, release and next step |
| `StageTree`, `StageFiles`, `Seal` | `stage`, `seal_candidate` |
| `ActivateJournal`, `ActivateSwitch` | `activate` |
| `ActivateCompose`, `ActivateReload`, `ActivateImage` | `blitzecdn_edge_stack/tasks/main.yml` |
| `RevertCompose`, `RevertRestart` | its rescue, `blitzecdn_edge_stack/tasks/rollback.yml` |
| `RestoreNothing`, `RestoreSwitch`, `RestoreCompose`, `RestoreImage`, `RestoreClose`, `RestoreRestart` | `rollback` and `blitzecdn_config_release/tasks/rollback.yml`, as a run of its own or as the rescue of an activation |
| `Commit` | `commit` |
| `Break`, `Lose`, `Reboot` | a task that fails (into the rescue that applies), the connection or the controller gone in mid-run, the edge restarting |

Every write that a crash can separate from the next is an action. A single
atomic write (rename over the old file) is one action; the writes of the files
of a tree are one, because nothing tells their number apart. Hashing and bundle
parsing are left out: a digest is a model value and a sealed tree is taken to be
its content. Host roles that do not touch this state appear as `Break`.

### EdgeRollout: deployments on one edge

Extends `ConfigurationRelease`. `deployment` is the row and its target's
checkpoint, `controller` is where the process that holds the deployment lock
stands. `Take` is `run_queued` (first delivery or redelivery after a crash),
`StartRun`/`RecordPhase` a phase and its checkpoint, `Observe` the external
verifier's success followed by the commit run, `PhaseFails`/`ObserveFails`,
`Withdraw`/`Withdrawn` the withdrawal, `Finish`/`Complete` the success path,
`Reobserve`/`ReobserveFails`/`Fail` the second look at a target that had already
succeeded, `Interrupt` an operator's Ctrl-C, `Crash` the controller's death.

Simplifications: one edge; PREPARE and VALIDATE are folded into STAGE (they
change nothing the model has, and their failure ends a deployment the same way);
a timeout is a failure; a deployment that fails for a reason outside the edge
(its targets were removed, say) is not modelled; the target's own FAILED status
is merged with the deployment's. `restored` is a failed deployment whose target
says its previous service was restored.

### Fleet: deployments over the fleet

| Model | Code |
|---|---|
| `canonical` | the zones, rules, records and settings, as what operators wrote (`doc`) and the certificates they name (`cert`) |
| `required` | the `CERTIFICATES` row of the requirements table |
| `roster`, `torn` | the edges table; an edge whose teardown reported clean but whose row is not deleted yet |
| `deployments`, `targets` | the two tables: status, release, kind, generation; per edge its status, phase and fence |
| `queue` | the deployments that a live job would deliver (`JobQueue` has the jobs) |
| `lock` | the flock of `core/ansible/lock.py` |
| `worker` | where a process stands in `DeploymentService` or `Rollout`, what it read, and the row of its workflow |
| `serving` | per edge: what it serves and what a withdrawal would restore, the outcome of `EdgeRollout` |
| `Deploy`, `Rollback`, `ConvergeRequirement`, `Admit` | `deploy`, `submit_deployment`, `rollback`, `converge_requirements`; the admitting transaction with the pruning of checks |
| `Deliver`, `DeliverFinished`, `Initialize` | `run_queued`, `initialize` and the review of workflows |
| `Start`, `Claim`, `Plan` | `converge`, `claim_generation`, `plan` |
| `Reobserve`, `BeginEdge`, `RunPhase`, `RecordPhase`, `FinishEdge`, `PhaseFails`, `Stop`, `WalkedAll` | the walk of `Rollout.converge` and `_converge_edge` |
| `Complete`, `Fail`, `Interrupt` | `_complete_rollout`, `_fail_convergence`, an operator's Ctrl-C |
| `Register`, `Remove`, `Teardown`, `Drop` | `add_edge`, `remove_edge`, the two halves of `decommission_edge` |
| `Crash`, `LoseLock` | the death of a process; the lock file replaced under its holder |

A release is its inputs: compiling is deterministic, so equal inputs are equal
releases. PREPARE, VALIDATE and STAGE are one phase, as none of them changes
what an edge serves. A host limit names one edge or none. `MaxEvents` bounds
what may go wrong or be issued, `MaxDoc` the edits, `MaxDeployments` admissions;
`Requests` says what each is asked for as.

### Hosts and Certificates

`Hosts` is pure derivation and the operators' edits: `canonical` is one zone,
its rules in order and the origin of each proxied record; `Sites` is
`derive_sites` (groups by deciding rule and origin, names, hosts that do not
compose dropped), `HostSource` is `host_source`, `ApplyToSource` is
`_apply_to_source`. The edits are `UpdateDomain`, `CreateRule`,
`UpdateOverrides`, `UpdateMatch`, `DeleteRule`, `WriteRecord`, each with the
validation the code has (a rule is not held against its zone when written).

| Model (Certificates) | Code |
|---|---|
| `issued`, `files`, `metadata` | what the store ever wrote; the version files on disk; `metadata.json` per host |
| `issuing` | the issuance that holds the deployment lock, and its step |
| `now`, `swept`, `lapsed` | renewal sweeps; the hosts one has attempted; those it found no host for |
| `releases` | the releases kept, with the inputs they were compiled from |
| `scan` | the modes a scan of the origins recommends |
| `Request`, `Reconcile`, `Renew`, `RenewMissing` | upload and request, first issuance, the sweep |
| `Refuse`, `WriteVersion`, `WriteMetadata`, `Activate`, `Crash` | preflight or authority refusing; `install`, files first and metadata last; the transaction that activates; the process dying |
| `Prepare`, `Deploy`, `Rollback`, `Collect` | preparation with retention; a deployment that applied; adoption; `collect_material` |
| `Scan`, `ApplyUpgrade` | `AutomaticSslService.reconcile`, one host at a time, the guards read again |

A hostname has one record and an unproxied one is no record. A sweep is the unit
of time; a certificate lives `Lifetime` sweeps and is due `Window` before its
end. Operators are taken to name no file of the issuer's: its modes are refused
in the code, but a path under its root would pass for an existing certificate,
which nothing keeps. `Tick` waits until the sweep attempted everything due: the sweep is a loop
over all candidates, and an attempt that fails is a `Refuse`.

### Restore: a backup put back on an installed host

| Model | Code |
|---|---|
| `pc`, `command`, `cleaning`, `todo`, `failed` | where `HostRuntime._restore` or the container it runs stands |
| `service`, `running` | the containers of the writers; those to start again |
| `live`, `stage` | each place as a generation: 0 at first, n after the n-th archive, absent in mid-swap; the private copy of the host's files |
| `checkpoint`, `saved` | the directory of `RestoreJournal` without or with its manifest; what it holds |
| `BeginRestore`, `BeginRecover`, `Stop`, `RunContainer`, `Publish`, `Commit`, `Finally`, `Start`, `Return` | the wrapper (`host_runtime.py`) |
| `Refuse`, `OpenCheckpoint`, `Save`, `Vacate`, `Write`, `Written` | `BackupService.restore` and the components |
| `Remove`, `CopyBack`, `RolledBack`, `RollbackFailed` | `RestoreJournal.rollback`, `commit` |
| the `...Fails`, `Interrupt`, `Crash` | a call that raises at that step; a signal or a killed container; the machine restarting |

`old` and `new` are history: everything before the last restore and as it
asked. A file of the configuration that is merged key by key (`blitzecdn.toml`,
the environment) is still one value per restore. A wrapper killed outright,
which leaves its container running with the lock released, is left out; the
wrapper turns the signals it gets into `Interrupt`.

### AnsibleRun, DriftCheck and CachePurge: what a run says

`Tables` has the operators for tables whose rows come and go. `AnsibleRun` is one
invocation of Ansible as the control plane reads it: an event of a host makes an
entry for it with its counts at zero, only the recap at the end sets the counts
(`tally` is what Ansible has counted and not yet told), and a run stopped at its
time limit has entries and no recap. A count is whether it is above zero.

| Model (DriftCheck) | Code |
|---|---|
| `differs`, `up` | what a converge would change on an edge; whether it can be reached |
| `rows`, `at`, `left` | the target rows; where the worker is in the walk, and what is before it |
| `run`, `last`, `result` | the run of the edge at hand, `last_run`, the result on the record |
| `Admit`, `Claim`, `PassOver`, `BeginEdge`, `RunGoes`, `RecordPhase`, `FinishEdge`, `Stop`, `Complete` | a check-mode deployment through `DeploymentService` and `Rollout` |
| `CannotLaunch`, `Crash`, `Drift` | Ansible that cannot start; the worker's death; the fleet changing meanwhile |
| `InSync`, `Drifted`, `Unreachable` | the report of `deployments/service/reporting.py` |

| Model (CachePurge) | Code |
|---|---|
| `desired`, `served`, `copies` | the sites' policies, what each edge was brought to, what it has cached |
| `request`, `file`, `runs` | each purge, the variable file of its play, its run |
| `Submit`, `Command`, `Take`, `Launch` | asked through the API and its job, or on the command line; resolved against the desired sites |
| `HostStarts`, `Remove`, `HostEnds`, `Ends`, `Report` | the purge role on each edge, and the report |
| `Edit`, `Converge`, `Visit` | an operator, a deployment reaching an edge, a visitor whose response is stored |

A visit and its store are one step, and so is the removal on one edge. Hosts that
are wildcards are refused by the role and are no input. The key is scheme, host
and query; port, method and encoding are purged together. `Owner` is the site that
the purge finds for a name, `NginxOwner` the one nginx answers it from; they differ
where the wildcards of two sites nest (known gap 5). `missed` and `done` are history:
the names a removal left a copy of, with the sites its edge served, and who removed.

### DesiredState: the desired state and its releases

| Model | Code |
|---|---|
| `db` | the tables: zones, records, rules, settings, edges, releases, deployments, and a clock for their timestamps |
| `op` | what each process is doing and what it read outside a transaction |
| `lock`, `program` | the deployment lock; the installed program, which renders configurations |
| `CreateDomain` ... `DeleteSetting` | the edits of operators (`capabilities/dns`), with cascades and foreign keys (`ForeignKeys`) |
| `AddEdge`, `RemoveEdge`, `ReadEdge`, `ReplaceEdge` | the roster; an edit reads, composes and replaces what it expects |
| `Prepare`, `RecordConfiguration`, `Admit`, `SelectTarget` | a release compiled, recorded and pruned; its rendering put on record; the deployment admitted; a rollback's target |
| `Finish`, `Crash`, `Upgrade` | the end of a convergence with adoption; the death of a process; a new program |

A transaction is one step that takes all or nothing. Convergence is one step,
since the lock is held during it (`Fleet` has its inside). `MaxRequests` bounds
the edits and deployments, `MaxUpgrades` the upgrades.

### Features, Roster, ReleaseCompiler and Processes

`Features` is what is resolved from the declarations of the features: the
command tree, the roles and modules of the plays, the fragments, the secrets and
settings each claims; a resolver answers `Refused` where the code raises.
`Roster` is the features the program ships. `ReleaseCompiler` compiles desired
state: requirements, contributions, merged variables, findings, identity. All of
it is functions; a feature contributes at most one value of each kind, as all do.

| Model (Processes) | Code |
|---|---|
| `program`, `source`, `state` | what is installed, configured and desired now |
| `process`, `open`, `release` | the process with what it read at launch; what it holds; its callbacks, last first |
| `tasks`, `job`, `record` | the tasks of the API's pool; the worker's job; the file of its heartbeat |
| `Launch`, `Acquire`, `Resolve`, `Built`, `Start`, `Fail` | settings and registry; the container; the start of `api/app.py` and of the worker; a step that raises |
| `Submit`, `TaskEnds`, `Busy`, `Idle`, `Pulse`, `Play`, `Prepare` | the work: requests, jobs, heartbeats, runs of Ansible, compilations |
| `Stop`, `GiveBack`, `Ended`, `Kill`, `Edit` | the ends, and the operator's edits |

One process at a time, as its resources are its own. A command that needs no play
resolves no parts. The record of a worker is named by host and process, so it
survives a kill and is removed by an orderly end only.

The MC modules (`MC*.tla`) only give values to constants and define symmetry.

## 4. Runs

| Run | Question | Bounds |
|---|---|---|
| `job_queue` | Is the queue safe, does it implement the ledger, does every queued job finish? | 2 workers, 2 rows of any kind, 2 attempts, leases 1 and 2, retention 1 |
| `job_scheduler` | Does a slot fire exactly once, and does it fire? | 2 workers, 1 schedule, clock to 5, 3 rows, 2 losses |
| `edge_rollout` | Is the edge safe under runs that are cut off anywhere, is what is reported what the edge holds, and does every deployment end? | 3 deployments (a, b, a), 1 loss |
| `fleet` | Is the rollout ordered, fenced, honest and final over several edges and processes? | 2 workers, 2 edges, 2 deployments, 1 edit, 1 mishap |
| `certificates` | Is material in use kept, renewed, and served by its host? | 2 hostnames, 1 rule, 2 origins, 2 certificates, 3 sweeps, 1 edit, 1 mishap, 1 release kept |
| `restore` | Do services run on a whole state only, and start again? | 4 places, 2 services, 3 archives, 2 restores, 3 faults |
| `drift_check` | Does a report invent drift, or call a check that stopped in sync? | 3 edges, 1 crash, 2 moves of the fleet |
| `cache_purge` | Is what was asked for gone, and is every edge that did not purge named? | 2 edges, 2 zones (one under the other, both with a wildcard), 1 purge, 1 edit |
| `desired_state` | Does stored state stay whole, does an admitted release exist, is its first rendering shipped? | 2 processes, 4 requests, 1 upgrade, 1 release kept |
| `processes` | Is what is held given back in order, are secrets confined, is compilation known by its contents? | 5 programs, 5 configurations, 7 desired states, 1 edit, 2 tasks, 2 releases compared |
| `edge_rollout_recommit` | finding 1 | 4 deployments (a, b, a, a), 1 loss |
| `edge_rollout_recovery` | finding 2 | 2 deployments, 1 loss |

Why the bounds are enough. Every conflict over a job is between two claims of
one row or two rows of one key; two workers and two rows have both, and with two
attempts a claim can be live, lapsed, taken over, spent and retired while its
first worker still runs. Retention 1 makes pruning both keep and delete. In the
scheduler, a firing race needs two workers and one slot; a clock of 5 with an
interval of 2 has two slots, so that a snapshot can be stale by a whole slot. In
the edge transaction two releases have every relation that the helper tests: the
pointer on this release, on the recorded previous one, on none, and on another.
The proofs of all of these cover any number. In the rollout, three deployments let one be
resumed after another ran, and let a release return. In the fleet, a takeover
needs two processes, "the edges before it" two edges, and a rollback, a check
or a request of one edge a second deployment after the first; one mishap of each
kind (they share a bound) is followed by everything the code does about it. With
a certificate of three sweeps and a window of two, one refused attempt leaves
one more, which is what the window is for; two certificates are one and its
renewal. Three faults let a restore fail, its recovery fail and the retry fail
again, and two restores let one begin where another ended. In a drift check,
three edges are one passed, one at hand and one to come. In a purge, two edges can
serve different sites, and three names are one under the outer wildcard alone, one
under both, and an exact one under both; with two policies, the key of a name under
both depends on whose it is. In
desired state, four requests are two edits or an edit and a rollback around two
deployments, which is what retention 1 and a rollback need. The five programs and
configurations differ each in one thing the code decides by.

Deadlock is checked where the system cannot stop (`processes`). In the others all
rows or requests may be used up, the clock reach its bound, or all deployments be
over.

### Properties

*Queue.* `ExclusiveRuns`: two workers never own one job or two jobs of one key.
`SnapshotCurrent`: an owner decides on what the row says, though it asks the job
as it was claimed. `LeaseUndisturbed`: a running lease is ended by its holder
only. `ImplementsLedger`. `JobsFinish`. Proved and not run again: `AttemptsBounded`
(no job starts more often than it may, though deferrals give attempts back and
dead workers report nothing) and `OutcomesStand` (a late report changes nothing;
pruning takes finished jobs only).

*Scheduler.* `SlotsSpaced`: a slot moves forward by at least an interval, whoever
fires from whichever snapshot. `FiringsPublished`: a slot moves exactly when a
job of it is in flight. `DueFires`.

*Edge* (run with the rollout). `NeverUndoneToItself`, `CommittedLeftByActivation`,
`WithdrawnMeansRestored`: see the comments in the module; each speaks of a run
that is replayed, overtaken or cut off. `PointerSealed` and `DecisionsStand` are
proved and not run again.

*Rollout.* `RestoredIsHonest`: a deployment reported as restored left neither
pointer nor container on its release. `FailureLeavesNoTrace`: without losses, a
failed deployment leaves the edge in every part as it found it. `CommittedIsWhole`:
while no run was lost in the middle, what is committed is what pointer, both
records and container hold, whatever deployments came in between.
`DeploymentsEnd`.

*Fleet.* `EdgesInOrder`: no edge is begun before all earlier ones succeeded,
whoever resumes. `SuccessIsServed`: success means that every edge serves the
release; excepted are edges torn down meanwhile, and those of finding 2.
`TakeoverIsFinal`: the generation fences out a worker that was taken over, even
with the lock lost. `OutcomeStands`: two processes ending one deployment record
one outcome. `NoLiveReview`: a restart sends no running workflow to review.
`AdoptionLosesNothing`: a rollback adopts old records only if nothing was
activated meanwhile. `ChecksTouchNothing` is proved and not run again.

*Certificates.* `MaterialPresent`: what canonical state, or a release a rollback
could adopt, names is on disk. `RenewedInTime`: what the metadata names does not
expire in use as long as fewer attempts fail than the window has sweeps.
`ActivationReaches`: the certificate ends up on the host it is for, however the
zone changed during the issuance. `UpgradeRespectsOperator`.

*Restore.* `AllOrNothing`: a writer runs only on the state before the restore or
the one it asked for, and never while a checkpoint could be rolled back over what
it writes. `RecoveryEnds`: a complete checkpoint is resolved and the services
that still have a container run again. A checkpoint without its manifest is
excepted: recovery refuses it, and an operator has to remove it (nothing was
written then).

*Drift check.* `NothingInvented`: an edge reported as drifted was met by this check
and would change. `StoppedIsNotInSync`: a check that stopped early is not read as
a fleet in sync, unless the run of the last edge was cut at its time limit (known
gap 5).

*Cache purge.* `SteadyPurgeRemoves`: where an edge serves the sites a purge was
resolved against, no copy stays that an asked entry would be answered from, but of
names those sites give another owner than nginx does (known gap 5).
`FailedAreNamed`: of a run that was not cut short, every edge that removed nothing is
named.

*Desired state.* `StoredState`: records and rules have their zone, zones compose.
`PreparedAwaitsAdmission`: a release on record for a deployment is there when it is
admitted, whoever prunes (excepted: known gap 2). `ShipsFirstRender`: deployments of
one release ship its first rendering, across upgrades and rollbacks. `EditsMerge`:
an edit of an edge takes nothing back that another operator wrote. `AdoptedWhole`:
a rollback that succeeds adopts all of its release.

*Processes.* `HeldInOrder`: nothing runs without what it was built from, whichever
step failed: features not without the database, reports not without the monitor (a
worker makes it to start, the API only when somebody asks); an ended process holds
nothing. `SecretsConfined`: a play sees declared
secrets only, and no operator's key. The environment of a play is taken to be what
`execution.py:171` hands to Ansible Runner as `envvars`; Runner is not part of the
repository, and if it adds the environment of the process that calls it, the property
speaks of what the program hands over. `RendersAlike`: any order of the features
resolves and compiles to the same. `IdentityDecides`: two releases of one identity
are both servable or neither is.

`FailureLeavesNoTrace` and `CommittedIsWhole` are restricted to histories in which
no run was cut off (`clean`): a run that is lost in the middle and followed by
another deployment can leave records of both releases behind, until a later
activation writes them again. The operator sees such a deployment as failed.

### Fairness

* `FairSpec`: each worker keeps polling and its handlers return (weak fairness of
  `WorkerStep`; `run_forever` swallows exceptions and ticks again, and every run
  of a handler has a timeout), and time passes. Losses are not fair and not
  bounded in the queue: a job finishes although any worker may be lost any number
  of times, since attempts are spent at the claim.
* `FairScheduler`: each worker's loop goes on and time passes. Registration is
  never required; it may happen for ever.
* `FairRollout`: a deployment that is not over is delivered again (`initialize`
  republishes it, the lease returns its job) and a live run ends (Ansible runs
  have timeouts). Losses are bounded by `MaxLosses`; with unboundedly many no
  deployment could be promised to end. Redelivery is not bounded by the job's
  attempts here: `initialize` enqueues an interrupted deployment anew.
* `FairRestore`: the wrapper goes on, and an operator heeds its message "services
  remain stopped ... retry with 'blitzecdn backup recover'"
  (`host_runtime.py:282-287`) while a checkpoint or a stopped service remains.
  Faults are bounded; with unboundedly many no recovery could be promised to end.

`Fleet`, `Certificates`, `DriftCheck`, `CachePurge`, `DesiredState` and `Processes`
state no fairness: what ends there depends on operators, on the authority, on
who gets the lock, or is the subject of another module.

## 5. Proofs

All proofs are checked by TLAPS with SMT, Zenon and PTL. They assume
the named assumptions of the modules only: keys, digests and workers are distinct
from "none", the delays, leases, attempts and bounds are naturals (positive where
the code's constants are), and the settings operators write are well formed.
Every inductive invariant below was checked by TLC on the run of its module before
it was proved.

`JobProofs` proves, for any number of workers, rows, keys and for any
delays, `TypeOK`, `ExclusiveRuns`, `AttemptsBounded`, `SnapshotCurrent`,
`LeaseUndisturbed` and `OutcomesStand`. The invariant `QueueInv` adds what these
need to be inductive: rows beyond `created` are empty (so an insertion overwrites
nothing); a claim's fence is no newer than its row's while the row exists
(`ClaimsKnown`), so that raising the fence makes every claim stale; two claims of
one job differ in fence (`ClaimsDistinct`), so at most one is current; a current
claim has the row's attempts and kind (`ClaimsCurrent`), so that the outcomes a
worker may record are those the row allows; and one unfinished row per key. There
is one lemma per action; the four outcomes share one (`OutcomePreserves`). The
action properties follow from `StepRow`, which lists what a step may do to a row.

`EdgeRolloutProofs` first proves all the properties of the edge's transaction for
any set of releases and runs in any order. `ReleaseInv` adds what a run relies on between two of its
steps: a tree being staged is partial, hence not the pointer's; an activation
about to switch has a sealed tree and an open journal; a withdrawal past its
switch has the pointer on the journal's previous release and the records it has
already restored. The journal part is proved in the stronger form
`JournalsLeadAway`, which also speaks of journals never opened.

`RestoreProofs` proves `RestoreTypeOK` and `AllOrNothing` for any places,
services, archives and faults, from `PlacesAssumption`. `RestoreIInv` names the
argument: places no archive names are as they were (`Untouched`); a complete
checkpoint keeps the services down, and without one the state is whole
(`CheckpointHolds`); which checkpoint and services each step may meet (`Phases`);
before the first write nothing differs, and the host's files are written last
(`Before`); and what the loops have already done (`Progress`). One lemma per
action.

`FleetProofs` proves every property of the `fleet` run for any workers, edges,
requests and bounds, from `FleetAssumption`. Two invariants carry it.

- `FleetInv`: the structure of the tables, in which no certificate is newer than
  the ones issued (`Typed`); a check stages and goes no further (`Phased`); every
  row carries the generation of its deployment, no claim is ahead of it and no
  two claims share one (`Fenced`); and a worker whose claim is current finds the
  edges it passed succeeded and the rows ahead as it read them (`WalkOrdered`).
  It holds whether or not the lock does, so the order of the edges, the fence and
  what finished deployments recorded do not rest on the lock.
- `LockInv`: until the lock is lost, whoever is at work holds it and is not up
  for review (`Held`); nothing is decided before the walk is over (`Undecided`);
  and every edge a rollout is done with serves its release, or was torn down, or
  was taken on trust (`AllServed`). `NoLiveReview` and `SuccessIsServed` need it.

Each invariant is preserved by three kinds of steps, and the lemmas are sorted by
them: those outside the workers' walk, those of a worker which leave the rows and
its place alone (`ActsAside`), and those which go one edge or phase on
(`Advances`).

`JobProofs` then proves `ImplementsLedger`: the queue implements `JobLedger`
for any workers, rows, keys and delays. The mapping reads the status of every row
and its owner, who is the worker whose claim is current while the row is leased.
Beyond `QueueInv` only `Unburdened` is needed: a worker that is idle or pruning
owns nothing. `OwnerRead` and `EntryRead` say what the mapping reads of a row; one
lemma per action names the ledger's step it is, or that it is a stutter.

Last it proves `SchedulerTypeOK`, `SlotsSpaced` and
`FiringsPublished` for any schedules, workers, intervals and restarts, and that
the scheduler keeps `QueueInv`. `SchedulerInv` adds to it that what a worker is
about to publish had come at the moment it read it, and that this moment has
passed (`SnapshotsPast`). The argument: a slot moves only by the firing of a
snapshot that still had it (`SlotMoves`), and only a publication opens a row
(`NothingOpens`, `NothingTakesOff`).

`EdgeRolloutProofs` goes on to prove that a rollout on one edge implements the edge
transaction (`RolloutSpec => Spec`), so that every theorem about the transaction
holds under any sequence of deployments, deaths, resumptions and withdrawals; and
every safety property of the `edge_rollout` run, for any releases, deployments and
number of losses. Three invariants carry it.

- `RolloutInv` adds to `ReleaseInv` that what the pointer names, or a journal leads
  back to, was activated once (`NamedWasOpened`), that a withdrawal restarts the
  container only on another release (`RestartsElsewhere`), and that a controller
  that withdraws does so with its own release (`WithdrawsItsOwn`). It gives
  `RestoredIsHonest`.
- `WholeInv`: outside the steps that a run is in the middle of (`UnderWay`), pointer,
  both records and container name one release (`Whole`), and every journal would
  lead back to an edge in one piece (`SavedWhole`), as long as no run was cut off.
  What an activation has changed so far (`SwitchedOn`) holds in any case. It gives
  `CommittedIsWhole`, with any number of controllers dying between their runs.
- `TraceInv`: as long as nothing was lost at all, deployments come one after the
  other (`OneByOne`, `RunsItsOwn`), only the one at hand has a transaction open
  (`OpenIsAtHand`), and its way back is the committed release it found, or none
  (`WayBack`, `PointerDecided`); a withdrawal that is through has closed what it
  opened (`ClosesWhatItOpened`). It gives `FailureLeavesNoTrace`: whichever step fails,
  in whichever rescue, a failed deployment leaves what it found. `WayBack` has to
  say that the release found is committed: a deployment of the release that is
  already active opens no transaction, and its withdrawal undoes nothing only
  then (finding 1 is what happens otherwise).

`CertificatesProofs` proves every property of the `certificates` run for any
zones, rules, origins, edits, lifetimes and retention, from `HostsAssumption` and
`CertificatesAssumption`; `RenewedInTime` for any window of more sweeps than there
are faults. Three arguments carry it.

- The derivation: a host keeps the name of the zone or rule that decides it
  (`SitesAre`), and that name leads back to it in any state which still has the
  rule (`SourceFound`), because no address spells a rule. Hence an activation
  reaches its host.
- What is named is on disk (`StateNaming` over `Usable`), of canonical state and of
  every release kept. The collection keeps it, and an issuance that has written
  files keeps the lock, and with it the collection out.
- A renewal that is late by some sweeps is paid for by as many faults, or is under
  way (`OnTime`).

That pruning only takes releases out (`PrunedKeeps`) needs that the i-th kept
release exists, for which `CountReached` counts with the least-element principle
of the natural numbers.

`AnsibleRunProofs` proves the properties of the `drift_check` and the `cache_purge`
run for any fleet, crashes, edits and purges.

- `DriftInv`: what a run tells of an edge was met there by this check (`DriftTables`);
  a run goes on only while its edge is at hand; and a row that failed is still to be
  walked, or told of by the result, or its run was cut short (`DriftWalk`). The walk
  is over edges that the next worker finds in the rows, so the invariant speaks of
  rows, never of the worker.
- `PurgeInv`: a run is of the edges of its request, and each edge it counted was
  purged or could not be reached (`Stands`). `KeysInv` adds what the entries of a
  request are, resolved against the sites it saw (`Keyed`); resolving keys a second
  time changes none (`ResolvedAgain`), and where the purge and nginx find the same
  owner the key is the one nginx wrote (`PurgeMisses`). `SteadyPurges` assumes nothing
  of zones and wildcards: the names whose owners differ are excepted in the property,
  state by state.

`DesiredStateProofs` proves all properties of the `desired_state` run for any tables,
processes, retention and upgrades. `DesiredInv` is what every committed transaction
keeps: the foreign keys, that zones compose, and that a deployment which shipped
anything shipped what its release is recorded to render (`Sound`); and what a
process relies on between its transactions: it holds the lock and its release is
there (`Holding`). One lemma per action; the foreign keys carry the rest, since a
release named by a deployment is not pruned and a rule without its zone is not
inserted.

`ProcessesProofs` proves `HeldInOrder`, `SecretsConfined`, `IdentityDecides` and
`RendersAlike` for every roster, configuration and desired state. `LifeInv` reads from the callbacks
left to call what the process holds and what may still run (`Stage`), that a process
that got as far as its work resolved its parts (`Known`), and that a play has the
environment of the program and source it names (`Played`).

`RendersAlike` says that a reordered roster resolves and compiles to the same. No
induction over the two sequences is needed, because nothing they are made into
depends on more than the set of their features. What is sorted is read off the set
(`InOrder`: the names of the features, in the order of the alphabet, each with the
feature it is the name of); a roster that assembles names no feature twice
(`AssemblyNamed`), so that reading is unambiguous and every refusal is one of the set
too (`AssemblyAlike`); and merging picks for each key the one contribution that
supplies it, whatever its place (`CompileAlike`). The assumption it rests on is that
the alphabet lists every feature's name; TLC evaluates it over the roster of the
program.

What stays with TLC: liveness (`JobsFinish`, `DueFires`, `DeploymentsEnd`,
`RecoveryEnds`), which needs fairness and ENABLED. Every other property of a passing
run is a theorem.

## 6. Findings

1. *A withdrawn release may be active and undeployable*
   (`edge_rollout_recommit`, `configuration_release.py:182`). `activate` takes a
   release that is active without an open transaction for committed, as its
   comment says. After an activation of B was interrupted over a committed A, a
   second attempt at A was withdrawn to B, and B was then withdrawn to A, A is
   active and its journal says `rolled_back`. Deploying A again changes nothing,
   serves A, and its commit is refused; the withdrawal that follows switches the
   edge to B, which had been withdrawn.
2. *Recovery trusts a last checkpoint without looking*
   (`edge_rollout_recovery`, `rollout.py:192`). A test's comment says that worker
   recovery re-observes a completed edge before it trusts its checkpoint. It does
   so for a target that is SUCCEEDED, not for one whose VERIFY is recorded but
   whose status was not yet written: that one is recorded as succeeded although
   another deployment may have converged the edge since.

## 7. What is not modelled

Listed per component in `PROJECT.json`, with the reason. The map covers a little
under a third of the implementation; commands and routes that only pass a request on
to a service are mapped once, at the operations they ask for. Most of the rest is not
control that a model checker could say something about: options and their texts,
declarations and templates of Ansible roles that converge host state idempotently,
the validation and rendering of policy values, probes and reports. In the modelled
components the left-out parts are named in section 3: hashing of releases, parsing
and matching of certificates, what a preflight looks at (that it refuses is an
outcome), the contents of archives, derivation across several zones, listing and
statistics.

Known gaps: what a doc, a comment or an operator would expect and the code does
not keep, met while modelling, in addition to the findings. Where the model has
it, its definition is named; no run checks these.

1. A release with findings, which "nothing converges" by the comment at
   `releases/domain/release.py:197-199`, is converged by any path but the
   command `deploy`, the only one that validates (`deployments/cli.py:60-66`).
2. Preparing an old release again can prune it by the same transaction
   (`releases/service/releases.py:95-96`); the configuration then fails on its
   foreign key. `PreparedAwaitsAdmission` excepts it.
3. A and AAAA records of one name "must agree on the origin" by a comment in
   `dns/domain/record.py`, and cannot: one is an IPv4, the other an IPv6 address. A
   hostname that two sites derive has no finding in the compilation.
4. A rule's zone is looked up outside the transaction (`dns/service/rules.py:54`). If
   it is deleted meanwhile the insertion is refused, as it should, but reported as
   a rule that already exists.
5. Of several edges, a drift report reads the last run only, and a run cut at its
   time limit reads as in sync (`InSyncIsWhole`, `InSyncNothingFailed`). A purge that
   is reported complete may leave copies where an edge serves other sites, or where
   its run was cut (`CompleteIsGone`, `CompleteIsEveryEdge`); an entry is refused or keyed
   by one scheme although an edge caches both (`RefusedIsNotCached`). Names match
   "wildcards as nginx matches them" by `cache.py:119`, but the code takes the first
   wildcard listed (lines 139-146) and nginx the longest (`WildcardsAsNginx`). Sites are
   listed by the name of their zone, so `example` comes before `sub.example`: with a
   wildcard in both, a purge of `c.sub.example` is resolved by the site of `example`.
   If only one of the two ignores the query string, the copy stays and the purge is
   reported as complete; `SteadyPurgeRemoves` excepts these names.
6. A requirement is cleared by any deployment that applied, one of a single edge or
   of an older release included (`convergence.py:544`). A certificate that was stored
   and never activated is not renewed (`issuance.py:480`). An upgrade proven for one
   host is written on its zone or rule and thereby on others (`dns/service/hosts.py:109`).
7. The downgrade of the first migration drops an index that its upgrade never
   creates (`assets/migrations/versions/0001_initial_schema.py:427`).
8. A writer's container is removed before its replacement exists
   (`host/host_runtime.py:188`); a crash in between is not repaired. A checkpoint
   without its manifest is refused by every recovery (`backup/adapters/recovery.py:61`).
   A journal may stay pending behind another committed release
   (`configuration_release.py:180`).
9. A name exported without a value is the default for a feature whose settings are
   a model, and falls back to the project file for one whose settings are plain.
10. A comment on the merging of variables says that certificates override the paths
   of a site; `tls/wiring.py:182-206` declares no such override.

Also left: a slow handler of an abandoned job running beside the next one; a
scheduled job that finds the lock held; the order in which a live backup copies
its components.
