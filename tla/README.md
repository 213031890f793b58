# Formal models of helmsman-operator

TLA+ models of the operator, TLC configurations that check them on small instances, and TLAPS
proofs of the properties that matter most. Paths below are relative to the repository root.

## 1. Inventory

| Part | State it keeps | Operations | Talks to |
|---|---|---|---|
| AccessGrant controller, `internal/controller/access/accessgrant_controller.go` | none of its own; `AccessGrant.status`, the finalizer, RoleBindings `helmsman-ag-<name>` in the target namespace | `Reconcile`, `handleDeletion`, `expireGrant`, `deleteRoleBinding`, `setFailedState` | API server (reads through the informer cache, writes directly), work queue |
| AppDeployment controller, `internal/controller/appdeployment_controller.go`, `resources.go` | `AppDeployment.status`, the finalizer, ten kinds of children with owner references | `Reconcile`, `handleDeletion`, `getPlatformConfig`, `ensure*`, `createOrSkip` | API server, Keycloak, Vault |
| Keycloak and Vault client, `internal/controller/keycloak.go` | clients in the realm; `secret/apps/<app>/oidc` in Vault | `registerKeycloakClient`, `writeOIDCCredsToVault`, `deleteKeycloakClient` | HTTP, two services that can fail or time out (15 s) |
| Operator process, `cmd/main.go` | in memory only: caches, queues, delayed requeues | start, leader election, restart | runs both controllers, one worker each |
| Scaffolding CLI, `internal/cli` | a temporary clone, a remote branch, a pull request | clone, branch, write, commit, push, open PR | git, GitHub |
| Bootstrap and recovery, `dev-up-gemini.sh` | a secret backup, Vault, Keycloak | stages; stage 10.5 backs up and restores secrets | everything |

What is hard in it, and what makes each part correct:

* **AccessGrant controller.** Reads are stale, writes are checked by resourceVersion, every call can
  fail or take effect without an answer, the process can restart between any two calls, users and
  the access broker write the same objects, and the end of an access depends on a delayed requeue
  held in memory. Correct means: nobody gets access without validation and approval; access ends;
  it is never renewed in place; cleanup leaves nothing behind.
* **AppDeployment controller.** A long sequence of create-if-missing calls that may stop anywhere,
  with external registration before it and external cleanup in the finalizer, on caches that lag and
  next to a garbage collector that removes the children of a deleted namesake. Correct means: the
  sequence converges, `Ready` settles on the truth, pods are never reachable around their proxy, and
  deletion leaves no Keycloak client.
* **Keycloak and Vault client.** Read, decide, write against two services without transactions;
  requests that time out may be carried out late. Correct means: one client for each application,
  the secret in Vault is the one in Keycloak, and the cookie secret survives every reconcile.
* **CLI and bootstrap.** Multi-step scripts whose re-run after a failure must be safe: no pull
  request shows one commit and merges another, no live credential is overwritten.

`PROJECT.json` lists the same parts with their status and, under "hazards", each spot of the code
that is hard to test, with the properties that watch it.

## 2. Modules

| Module | Role |
|---|---|
| `AccessGrant` | the AccessGrant controller, API server, informer caches, work queue, clock, clients |
| `GrantLifecycle` | abstract specification: a grant as clients see it; `AccessGrant` implements it |
| `Subject` | `subjectFromSpec` and `sanitizeLabel`, checked over an enumeration of subjects |
| `Oidc` | the Keycloak and Vault client and the two services |
| `Workload` | what the AppDeployment controller builds: pods, Services, ingress policies, as pure operators |
| `AppDeployment` | the AppDeployment controller, API server, caches, garbage collector, users; extends `Oidc` and `Workload` |
| `Scaffold` | concurrent `helmsman-cli scaffold` against one fleet repository |
| `PlatformSecrets` | stage 10.5 of `dev-up-gemini.sh` |
| `MC*` | constants of the above for TLC |
| `AccessGrantProofs`, `LifecycleProofs` | theorems about `AccessGrant` |
| `OidcProofs` | theorems about `Oidc` |
| `SubjectProofs` | theorems about `Subject` |
| `AppDeploymentProofs`, `ResourceProofs` | theorems about `AppDeployment`: its status; its children and its Keycloak client |
| `ScaffoldProofs`, `SecretsProofs` | theorems about `Scaffold` and `PlatformSecrets` |

A definition marked "Variant" is a plausible wrong version of the one after it. It is used by no
specification; `PROJECT.json` names, for every property, a variant that breaks it.

### `AccessGrant`

| Variable | Stands for |
|---|---|
| `ag`, `rb` | the AccessGrants and RoleBindings stored by the API server |
| `agCache`, `rbCache` | the informer caches that `r.Get` reads |
| `behind` | grants whose newest version is still on its way to the cache |
| `queue`, `wakeAt` | the work queue (a set: keys are deduplicated) and the delayed requeues |
| `pc`, `key`, `obj` | the API call the worker is about to make, its request, and the variable `ag` of `Reconcile` |
| `fresh` | whether `obj` carries the resourceVersion the API server has: an update succeeds only then |
| `now` | the clock; one tick stands for eight hours |
| `created`, `userOps`, `faults`, `restarts` | history and counters that bound the disturbances |

A `Reconcile` is one action that reads the cached grant and decides, with a separate action for each
way through the code (`ReconcileReject`, `ReconcileExpire`, `ReconcileAwaitApproval`, ...), and one
action for every API call that follows (`CreateBinding`, `WriteActive`, ...), because clients, caches
and the clock move in between. Every call ends "ok", "failed" (no effect) or "lost" (effect, but the
caller sees an error); a conflict is what an update gets when `fresh` is false. What the code does
with the error is what the action does: ignored (`setFailedState`, the pending update, `expireGrant`,
the deletion of the RoleBinding in `handleDeletion`), returned (requeue), or followed by no requeue.

`ImplementsLifecycle` maps `ag` to `GrantLifecycle!grant`: spec, approver and status of a grant that
exists. Caches, queue, worker and finalizers disappear. `GrantLifecycle` says that each change of a
stored grant is one decision on the grant as it is stored at that instant: it is never activated on
a withdrawn approval or a spec that has been edited since, never expired before its time, never
decided twice. A failed, lost, stale or repeated call must be a stutter.

Abstractions, with their consequences:

* A cache that is several versions behind catches up in one step.
* The rate limiter's back-off is not modelled: a requeue after an error puts the key in the queue.
* Time is discrete. In the tick of `expiresAt` itself both "still active" and "expired" are possible,
  and so is the code's corner case in which the remaining time is no longer positive and
  `RequeueAfter` therefore requeues nothing. A timer set for tick t fires after t.
* Conditions, messages, `approvedAt`, `cluster` and `reason` are left out: nothing reads them.
  A subject stands for the RBAC subject made from it.
* One controller process at a time (leader election is on in `config/manager`, one replica).

### `Subject`

A subject is a sequence of characters of which only the class matters; reserved words count as one
character. A label is a sequence of characters like any other. `Digest`, the eight digits of SHA-256,
is a constant of which nothing is known but that it yields alphanumeric characters: digests may
collide, and what looks like a digest may stand in a subject. The state
machine does nothing but enumerate subjects. The Go loops are translated by what they select (the
first slash, the alphanumeric core), not character by character.

### `Oidc`

| Variable | Stands for |
|---|---|
| `clients`, `vault` | the client of each application in Keycloak; what is stored under `apps/<app>/oidc` |
| `call`, `op`, `app`, `found`, `creds` | the next HTTP request, what was asked for, `internalID`, `OIDCCredentials` |
| `result` | what the caller is told; names the condition the controller sets from it |
| `inFlight` | requests given up after 15 seconds (`httpClient`, line 17) that a service still carries out |
| `issued`, `cookies` | how many clients and cookie secrets there have been; a number names one |

One action for each HTTP request. Besides "ok", "failed" and "lost" a request may end "late": the
caller sees an error and the request is carried out at some later time, after newer ones. What the
code does not check is not checked: the status of the client list (an error object decodes into one
client with an empty id, line 97) and the read of the old credentials (line 192). Keycloak never
rotates a secret by itself; a client deleted and created again has a new one. `OidcSpec` is the
client under an arbitrary caller; in `AppDeployment` the caller is `Reconcile`.

### `Workload` and `AppDeployment`

`Workload` reduces a child to what the others have to agree with: the ports containers listen on,
the named or numbered port a Service leads to, the ports policies open. `AppServed` and `Gated` say
what Kubernetes makes of them. A child is described by the spec it was built from, so children of
different specs can meet.

| Variable | Stands for |
|---|---|
| `ad`, `child` | AppDeployments and children in the API server; a child has an owner (by uid) and a spec |
| `cfg` | the namespaces with a complete `helmsman-platform-config` Secret |
| `adCache`, `behind`, `childCache`, `childEvents` | the informer caches and the events on their way to them |
| `queue`, `timers` | work queue and delayed requeues |
| `pc`, `key`, `obj`, `fresh` | as in `AccessGrant`; `pc` is also the kind of the child that is ensured next |

Steps 1 to 5 of `Reconcile` up to the first call are one action for each way through them
(`ReconcileNothing`, `ReconcileDeletion`, `ReconcileAddFinalizer`, `ReconcileConfigMissing`,
`ReconcileRegister`, `ReconcileWorkload`). Then come the HTTP requests of `Oidc`, what is done with
their result (`Registered`, `CleanedUp`), one `EnsureChild` for each child in the order of the code,
`EnsureStatefulSet` with its update of the replicas, and the status. `createOrSkip` decides on a
cached child; so a child may be found that is gone, and missed although it is there. `ChildSync`
enqueues by the owner reference's *name*, as `EnqueueRequestForOwner` does, and not for the
ConfigMap, which `SetupWithManager` does not watch. `Collect` is the garbage collector: it removes a
child whose owner's uid is gone, at any time after that.

Abstractions: which children exist in an instance is a constant (`Kinds`), for the ten of them are
handled alike. Egress, volumes, probes, images, resources and `SERVER_PORT` overrides in `env` are
left out. The platform config is read as it is, though the code reads it through a cache: it guards
no write. `WorkloadCreated`, `phase`, `cluster`, `endpoint` are written together with `Ready`.

### `Scaffold`

Per invocation: the step it is at, the second its branch is named after, its clone and its commit;
shared: `main`, the remote branches, the pull requests. A step may fail before or after it took
effect and ends the invocation. git refuses an empty commit and a push that is no fast-forward,
GitHub a second open pull request for a branch; both are external, modelled as the code relies on
them. A commit is determined by its parent, its content and the second it is made in: two
invocations that agree in all of them produce the same commit.

### `PlatformSecrets`

The loop of stage 10.5 over the Vault paths: `Get`, `Put`, then the backup, then the Keycloak client.
Under a path there are credentials, numbered (0: missing or empty), and a flag that says whether the
other keys the script adds or keeps up to date are there; `database_url`, made from the password of
`db`, counts among those. As in the code, `Wanted` takes a whole path from Vault or, where that has
none, from the backup, and then makes up every credential it lacks, without looking for it in the
other source. A team's write replaces the whole path and may leave credentials out. `touched` is a
history variable: the paths teams have written to since the backup last agreed with Vault on them.
Between runs, and where an instance says so also during one, teams write, Vault (in dev mode)
and Keycloak (without a volume) restart empty, `HUB_IP` changes; the script may be stopped anywhere.

## 3. Runs

`CHECK_DEADLOCK` is off where bounded users, clocks or invocations really come to a stop.

| Run | Environment | Checks |
|---|---|---|
| `rich` | 1 grant, 3 specs (production within and beyond the limit, dev below one tick), every client action including delete, recreate, edit, withdraw, revoke and manual removal of the binding; 3 client writes, 1 fault, 1 restart, 3 clock values; binding cache lags at will | `TypeOK`, `IInv`, `ActiveGrantIsWatched`, `ExpiryNeverExtended`, `TerminalStable`, `ActivationRespectsPolicy`, `BindingCreatedUnderFinalizer`, `NoResurrection`, `ImplementsLifecycle` |
| `live` | 1 grant, production or dev with a TTL of one tick, create/approve/delete, binding cache lags by less than a tick; 1 fault, 1 restart, 4 clock values; fairness | `BoundWhileActive`, `ExpiredHasNoBinding`, `UnapprovedHasNoBinding`, `OverdueIsRemoved`, `DeletionCompletes`, `DeservingIsActivated` |
| `subject` | every subject of up to 6 characters over the two reserved words, both separators and a dot; labels of up to 4 characters: 2 readable ones, the dash, 1 of digest | `NobodyElseIsBound`, `LabelIsValid`, `CutLabelsDiffer` |
| `oidc_rich` | 2 applications, any caller; 3 failed, lost or late requests or process stops, 1 loss; up to 2 clients ever | `OidcTypeOK`, `OidcInv`, `DeletedMeansGone` |
| `app_rich` | 1 AppDeployment, specs with and without OIDC, every user action (edit, scale, delete a child, remove the platform config, ...), 3 of them, 1 fault in any call; traffic Service and StatefulSet | `TypeOK`, `SettledMeansReconciled`, `SettledMeansPresent`, `NoStaleReport` |
| `app_calm` | create, delete, create again under the same name; 1 fault in any call but those of the cleanup, 1 restart; ingress policy, traffic Service, StatefulSet | `NoOrphanClient`, `CredentialsInPlace`, `SettledMeansCurrent`, `SettledMeansServed`, `PodsAreGated`, `RegisteredMeansUsable` |
| `app_live` | 2 user actions (an application is created, and deleted; or the platform config goes, before or after it is created), 1 fault, 1 lost Keycloak client; ConfigMap and StatefulSet; fairness | `Converges`, `DeletionCompletes` |
| `scaffold_rich` | 3 invocations of one name by 2 teams in 3 seconds, 2 failing steps, merges | `TypeOK`, `DoneMeansOpened`, `ReviewedIsMerged` |
| `secrets_rich` | 2 paths, one with two generated credentials; 5 disturbances between runs, 2 failing calls (reads of Vault, writes, Keycloak), the script stopped anywhere | `TypeOK`, `HealthyMeansAgreed`, `BackupRemembers`, `BackupIsLive` |

The AccessGrant instances use tick limits 1 (production, 8 h) and 3 (other environments, 24 h).

Why the bounds are enough. Three client writes allow create, approve, withdraw or create, delete,
recreate; the clock passes the expiry of a one-tick grant. A second fault would hit a retry that
starts from the caches again, like the first. In `AppDeployment` two children exercise "the next one
is missing", and three of them the order policy, Service, pods; an update, a creation, a lost answer
and a collected child of a namesake all occur with three user actions. In `oidc_rich` three faults
allow a late create, a late write and a failure between them. The subject alphabet has every class
the two functions distinguish, and six characters are enough for the longest well-formed shape with
one character to spare; labels are cut from the fifth character on, so two readable characters are
left, the second of which the second trim may remove. Two user actions in `app_live` never create an
application again under its name, nor switch the platform config off and on below one.

What the calmer environments leave out is exactly what breaks their properties; section 4 has an
instance for each. In particular `app_calm` assumes a cleanup whose calls succeed, and specs that are
not edited. `PodsAreGated` covers the first AppDeployment of a name while it exists: after a deletion
the garbage collector may take the policies before the pods, and a second AppDeployment may meet
policies of the first that are collected a moment later. `secrets_rich` assumes that the backup can
be read and that nobody else writes during a run.

**Fairness.** `FairSpec` of `AccessGrant`: the work queue is first-in first-out, so a grant that
keeps coming back is reconciled (strong fairness of `Reconcile(g)`); a call returns, a watch
delivers, a timer fires, time passes (weak fairness). The informer's resync, ten hours by default in
controller-runtime v0.21 and not changed by `cmd/main.go`, re-enqueues every object again and again
(weak fairness of `Resync`); without it the corner cases below would leave a grant Active for good.
`FairSpec` of `AppDeployment` is the same, and weakly fair to the watches of the children and to the
garbage collector; HTTP calls return after 15 seconds at the latest. Nothing is assumed of users,
faults, late requests, losses or restarts. There is no liveness for `Scaffold`: `gitRun` runs git
without a timeout and may wait for ever.

## 4. Findings

Three runs expect a violation, of a statement the repository makes:

| Run | Statement | What the code does |
|---|---|---|
| `orphan` | "Cleanup is handled explicitly in the finalizer." (`accessgrant_controller.go:174`) | a grant deleted between `Create` and the status update has no `roleBindingRef`; the finalizer cleans up nothing |
| `oidc_cookie` | "Preserves any existing cookie-secret to avoid invalidating active sessions." (`keycloak.go:183`) | any error of the GET (line 192) is taken for "none exists"; a new cookie secret is written over the old one |
| `app_edit` | "the Service exposes the proxy port rather than the application port directly" (`appdeployment_types.go:83`) | `createOrSkip` leaves what exists: after OIDC is switched on, Service, policies and pods are the old ones, and the status says Reconciled for the new generation |

Further counterexamples, each with a configuration of its own that TLC ends with a violation:

| Configuration | Property | What the code does |
|---|---|---|
| `AccessGrant_revoke` | `OverdueIsRemoved` | "deletes it when the TTL expires" (`accessgrant_types.go:121`): a Revoked grant is skipped for good, its RoleBinding stays |
| `AccessGrant_edit` | `OverdueIsRemoved` | an active grant whose TTL becomes invalid falls back to Pending before expiry is looked at |
| `AccessGrant_samename` | `BoundWhileActive` | grants of one name in two namespaces share a RoleBinding (line 149); its content is not compared |
| `AccessGrant_short` | `ExpiredHasNoBinding` | "TTL elapsed — RoleBinding deleted" (line 244): a cached NotFound is taken for deleted; a TTL has no lower bound |
| `AppDeployment_orphan` | `NoOrphanClient` | "The finalizer ensures Keycloak cleanup happens" (`OPERATOR_IMPLEMENTATION_GUIDE.md:306`): a failed cleanup is logged and the finalizer removed (`appdeployment_controller.go:179`) |
| `AppDeployment_disabled` | `ClientHasOwner` | the same: cleanup depends on `spec.oidc.enabled` at the deletion (line 174), not on what was registered |
| `AppDeployment_shared` | `CredentialsInPlace` | "AppName is the unique identifier" (`appdeployment_types.go:12`), enforced by nothing: deleting one of two AppDeployments deletes the client of both |
| `AppDeployment_failing` | `ReadyMeansRegistered` | "fully reconciled and healthy" (`appdeployment_types.go:129`): a later failed registration leaves `Ready` True (line 97) |
| `AppDeployment_configmap` | `SettledMeansAllPresent` | "All workload resources are present" (line 151): the namesake's ConfigMap is collected after it was found, and nothing watches ConfigMaps (line 251) |
| `Scaffold_overwrite` | `AddsApplication` | "Adds an AppDeployment CR" (`scaffold.go:242`): an existing file of another team is replaced (line 196) |
| `PlatformSecrets_unread` | `CredentialsAreKept` | "Existing values are never overwritten" (`dev-up-gemini.sh:1172`): a get that fails counts as a missing path (line 1190) |
| `PlatformSecrets_race` | `CredentialsAreKept` | the same: get and put are not atomic, and a put replaces the path (line 1228) |
| `PlatformSecrets_regenerated` | `GeneratedOnlyWhenLost` | "generated (no live value or backup)" (lines 1209, 1212): a path that is live but lacks a secret gets a new one although the backup has the old one |
| `Subject_label` | `LongLabelsDiffer` | "two long subjects with the same start still get different labels" (`accessgrant_controller.go:354`): the cut label of a subject with a character before it that is trimmed away is itself a long subject, and gets that same label (line 367) |

`AccessGrant_two` is a larger instance that passes: two grants in one target namespace.

Two corner cases of AccessGrant recover only through the resync: an update to Expired that fails is
neither retried nor requeued (line 245), and a reconcile in the very instant of expiry may return
`RequeueAfter` 0.

Disagreements that need no model: the platform config's Keycloak OIDC URL is read by nothing, though
`ENTERPRISE_PLATFORM_GUIDE.md:122` lists it; an ExternalSecret named in
`OPERATOR_IMPLEMENTATION_GUIDE.md:284` and in the scaffolding pull request is never created; a
comment at `resources.go:54` counts three NetworkPolicies where the code creates five.

## 5. Proofs

Each theorem holds for all values of the constants (any number of grants, AppDeployments, invocations
or paths, any bounds on faults, restarts and user actions, every environment the constants can
express) except where the last column restricts them.

| Module | Theorem | Says | Where |
|---|---|---|---|
| `AccessGrantProofs` | `TypeCorrect`, `InvariantHolds` | `TypeOK`, `IInv` | |
| | `ExpiryIsFixed`, `TerminalIsStable`, `ActivationIsWithinPolicy`, `BindingIsUnderFinalizer`, `ExpiredIsNotResurrected` | `ExpiryNeverExtended`, `TerminalStable`, `ActivationRespectsPolicy`, `BindingCreatedUnderFinalizer`, `NoResurrection` | |
| `LifecycleProofs` | `LifecycleImplemented` | `AccessGrant` implements `GrantLifecycle` | |
| | `ActiveIsWatched` | `ActiveGrantIsWatched` | |
| | `ActiveIsBound` | `BoundWhileActive` | one life; nobody deletes RoleBindings by hand |
| | `UnapprovedIsUnbound` | `UnapprovedHasNoBinding` | one life; approvals are not withdrawn |
| | `ExpiredIsUnbound` | `ExpiredHasNoBinding` | as for `ActiveIsBound`; prompt cache of the bindings; valid TTLs last at least a tick |
| `SubjectProofs` | `SubjectIsSpelled`, `OnlyTheSubjectIsBound` | `NobodyElseIsBound`, as a fact about `SubjectFromSpec` and as an invariant | any subject, any alphabet |
| | `SubjectsBindApart` | two subjects bind one identity only if one is the other with `user:` before it | the same |
| | `LabelsAreAccepted`, `LabelsAreValid` | `LabelIsValid` | the same |
| | `CutLabelsAreApart`, `CutLabelsTellApart` | `CutLabelsDiffer`: labels that are cut are the same only if the digests collide | the same |
| `OidcProofs` | `OidcTypeCorrect`, `OidcInvariantHolds`, `DeletedIsGone` | `OidcTypeOK`, `OidcInv`, `DeletedMeansGone` | any caller |
| | `RegisteredIsUsable` | `RegisteredMeansUsable` | any caller; no late DELETE, Keycloak loses no client |
| | `CookiesSurvive` | `CookiePreserved` | any caller; reads of Vault do not fail, no late write |
| `AppDeploymentProofs` | `AppDeploymentTypeCorrect` | `TypeOK` | |
| | `ReportsAreFresh` | `NoStaleReport` | |
| | `EditsAreKept` | no step of the controller changes spec, generation or uid, or removes what is not being deleted | |
| | `StatusSettles` | `SettledMeansReconciled` | |
| `ResourceProofs` | `OneSpecIsServedAndGated` | children built from one spec serve the application and, with OIDC, expose the proxy only | for the gate: port is not 4180; without OIDC: not 2020 |
| | `WorkloadSettles` | `SettledMeansPresent` | sole tenants |
| | `WorkloadIsItsOwn` | `SettledMeansCurrent` | sole tenants; no edits |
| | `SettledIsServed` | `SettledMeansServed` | the same; the children in question exist; port is not 4180 |
| | `PodsAreAlwaysGated` | `PodsAreGated` | sole tenants; no edits, nobody deletes children; port is not 4180 |
| | `AllChildrenArePresent` | `SettledMeansAllPresent`: the unwatched ConfigMap, too | sole tenants; no name is used again, nobody deletes children |
| | `CredentialsStayWhole`, `DeletionIsTrue` | `OidcInv`, `DeletedMeansGone` | |
| | `CookiesStay` | `CookiePreserved` | reads of Vault do not fail, no late write |
| | `RegistrationIsUsable` | `RegisteredMeansUsable` | no late DELETE, Keycloak loses no client |
| | `CredentialsStay` | `CredentialsInPlace` | an application for each AppDeployment; nothing lost; only creations arrive late |
| | `ClientsAreOwned` | `NoOrphanClient` | requests of the cleanup are answered; no late creation; no edit, no removal of the platform config |
| `ScaffoldProofs` | `ScaffoldTypeCorrect`, `DoneIsOpened` | `TypeOK`, `DoneMeansOpened` | |
| | `ReviewedCommitsStay`, `MainWasReviewed`, `MainWasGenerated` | `ReviewedIsMerged`; every commit of main was reviewed; every one is some invocation's | |
| `SecretsProofs` | `SecretsTypeCorrect` | `TypeOK` | |
| | `HealthyIsAgreed` | `HealthyMeansAgreed` | nobody writes, nothing restarts during a run |
| | `BackupIsNotAhead` | `BackupIsLive` | nobody writes during a run |
| | `BackupRemembered` | `BackupRemembers` | the backup can be read |
| | `CredentialsKept` | `CredentialsAreKept` | nobody writes during a run; reads do not fail |

The assumptions on constants are those of the modules: types, nil values that are not values, bounds
that are naturals. A restriction in the last column describes an environment. Each contains the one
of the passing run that checks the property, if one does: more objects, more user actions, more kinds
of failures, late requests, losses and restarts, any number of them. `CookiePreserved`,
`SettledMeansAllPresent` and `CredentialsAreKept` have no passing run; `Oidc_cookie`,
`AppDeployment_configmap` and `PlatformSecrets_unread` violate them outside the environment of the
theorem. What the restrictions exclude is what breaks the
property: grants of one name (`AccessGrant_samename`), TTLs below a tick (`AccessGrant_short`), an
application of two AppDeployments (`AppDeployment_shared`), edits (`AppDeployment_edit`), a cleanup
that fails, or is skipped because the platform config is gone (`AppDeployment_orphan`), a name used
again while its old children wait for the garbage collector (`AppDeployment_configmap`), a read of
Vault that fails during a registration (`Oidc_cookie`), a request carried out after a newer one, others that write during a run (`PlatformSecrets_race`) and reads that
fail (`PlatformSecrets_unread`). "One life" means that grants have distinct names, that nobody edits
a spec and that no grant is created again under its old name (`DistinctNames`, `OneLife`):
RoleBindings are named after the grant alone and compared with nothing. "Sole tenants" means that no two AppDeployments share a
namespace: children are named after the application alone, so those of a namespace can be another's.
That is a real restriction: the scaffolding CLI puts every application into `sample-app`
(`scaffold.go:121`), so these theorems are about a namespace of applications of its own, not about
what `helmsman-cli scaffold` produces by default.
The application's port must differ from a sidecar's, which the CRD does not demand.

**AccessGrant.** The properties are about steps and none is inductive. They follow from `IInv`, four
facts about how the three copies of a grant relate:

* `FreshCopyIsStored`: if the update the worker is about to make would pass the conflict check, it is
  computed from the stored grant itself, which is still in the state that led to the update.
* `CacheIsPast`: the cache is the stored version or an event is on its way; a grant seen with the
  finalizer still has it, since only the worker takes it off; a grant that expired was seen active.
* `ActiveHasExpiry`: an active grant has an expiry, so the check of step 5 never falls through.
* `ActivationIsSound`: while the worker activates a grant, its copy is within policy and approved,
  the grant exists with its finalizer and is not expired.

`NextStatus` then classifies what one step may do to a status (keep it; reset it by removal or
creation; move it to Pending, PendingApproval or Revoked from a non-terminal state; expire an active
one; activate), and the theorems read their property off that list.

**Refinement.** `LifecycleProofs` adds `DecisionIsDue`: while the worker is about to write a
decision, its copy satisfies the condition under which that decision was taken, and for expiry the
clock has passed. With `FreshCopyIsStored` the copy is the stored grant whenever the write goes
through, so the write is one step of `GrantLifecycle`; all others are stutters.

**ActiveGrantIsWatched** needs `WatchInv`: every unexpired active grant has a timer, a queue entry,
an event on its way or the worker; and `StaleIsQueued`: a worker whose copy is out of date has an
event or a queue entry behind it, so its failing update loses nothing.

**RoleBindings.** The worker knows a RoleBinding from a cache, creates it in one call, records it in
another and deletes it in a third; the three theorems follow it through all of them. `LifeInv`: what
the worker or the cache holds of a grant has the spec of the stored one, and an approval only if that
has one. `OwnedInv`: a RoleBinding, stored or cached, was made for a grant that has existed, and if
that still exists, from its spec. With `ActivationIsSound` this is enough for `UnapprovedIsUnbound`.
`EndInv`: what is over (deleted, terminal or due) stays so, and the worker cleans up only what is
over; so nobody takes the RoleBinding of a running grant, and `BoundInv` can say that it is there
once the grant is active, about to be, or the cache has shown the RoleBinding: `ActiveIsBound`. For
the end, `DecidedInv` and `StillBoundInv` say that a cleanup starts only after the cache has shown
the activation, and that until then no second RoleBinding is created. By `SeenInv` the RoleBinding
of a grant that is due is in the cache, because the tick that made it due came after the creation;
hence `ExpiryInv`: a pending update to Expired that would pass the conflict check finds the
RoleBinding gone. None of the hypotheses can be dropped: without any one of them TLC finds a
violation of the property on a small instance.

**Subject.** What the two functions cut off and keep is given by the least and the greatest of a set
of positions, so no proof is by induction: that a set of naturals has a least element follows from
`<` being well-founded (`Least`), that a bounded one has a greatest from that (`Greatest`).
`SubjectIsSpelled` goes through the four ways out of `subjectFromSpec` and puts the subject together
again from what is bound. For `LabelsAreAccepted`, `Trim` yields nothing or a sequence of its
argument's characters with a letter at both ends, and the cut leaves room for the dash and the digest.
`CutLabelsAreApart` reads the digest off the end of a label: two equal labels have starts of one
length, so their digests stand at the same place.

**Oidc.** `OidcInv` consists of `CredentialsAreWhole`, the property, and `NumbersAreIssued`, its
strengthening over what the client holds in memory and what is still in flight: a late write can
only carry credentials that were whole when it was sent. `RegisteredIsUsable` adds `ClientIsHeld`
(from the answer that found or created the client to the end of the operation, the client is in
Keycloak and the secret in hand is its own) and `InFlightIsLate` (what is in flight is of the kinds
the instance lets arrive late). `CookiesSurvive` adds `CookieIsHeld`: when the client is about to
write, the cookie secret in hand is the one stored, if one is.

**AppDeployment.** `ControlInv` is the type invariant with what each step of the worker knows: which
object it holds, which child it is at, which HTTP request is open (`ClusterInv`, `WorkerInv`,
`CountersType`). Its `CopyInv` carries `ReportsAreFresh` and `EditsAreKept`: a copy that would pass
the conflict check differs from the stored object in its status at most. `StatusInv` is the
counterpart of `WatchInv`: an object whose status does not tell the truth about its generation is
queued (an event, a queue entry, a delayed requeue) or worked on; `QueuedStays`, `TakenIsWorkedOn`
and `WorkingMoves` say that no step drops it from both.

**Workload.** `PresentInv`: a watched child is in place, or it has changed and its owner will hear of
it, or the owner is to be looked at, or the worker still comes to it. `UidInv` and `BornInv` separate
a namesake's life from the next one: nothing left from before has the new uid, and without edits all
that has the uid of an AppDeployment is built from its spec. `GateInv`: during the first life of a
name, allow-ingress is there, or there are no pods, no worker on its way to them, and no cached
policy that `createOrSkip` could take for the real one. `AllChildrenArePresent` needs `OnceInv` (the
first AppDeployment of a name is the only one, and a child of it that the cache shows is there) and
`EnsuredInv`, which is `PresentInv` for children whose disappearance nobody hears of: they never
disappear.

**Credentials and clients.** Whoever is not calling leaves the services alone (`ClientMoves`): a step
of the controller is a request of the client, a step of Keycloak or Vault, or leaves both as they are.
With the lemmas of `OidcProofs` about single requests this gives `OidcInv`, `DeletedMeansGone`,
`RegisteredMeansUsable` and `CookiePreserved` for the controller, whose restarts stop the client
between any two requests. `CredentialsStay` takes a map `Home` from AppDeployments to applications,
one to one. `CredentialsInv(Home)` follows the claim "registered" through everyone who makes it, the
stored status, the worker's copy, the client's result (`SaidInStore`, `SaidInCopy`, `SaidByClient`);
while the claim is stored, no cleanup runs and no cached deletion could start one. For
`ClientsAreOwned`, `FinalizedInv` says that whatever looks alive with a finalizer in the cache is so
in the store, and that a registration is made for such an object only; `CleanedInv` says that the
cleanup has removed the client by the time the finalizer comes off.

**Scaffold.** `ScaffoldInv` describes how far each invocation has got (`Progress`) and that branches
and pull requests point to commits that exist (`HeadsExist`). Two invocations that share a branch
cannot hurt each other because the push of the second is refused unless it has the same commit.

**PlatformSecrets.** `PositionInv` and `AgreementInv`: for each path the loop has dealt with, what it
has noted for the backup is in Vault unless the put failed, and the secret given to Keycloak is the
noted one. `KeptInv`: the credentials about to be put are those of Vault or, failing it, of the
backup. `RememberInv`, for `BackupRemembered`, follows a credential of the backup through a run: under
a path no team has touched, Vault either lacks the path or has the credential, what is wanted for it
has it, and Vault holds what is wanted once the put is through; so neither a failed get nor a put
that is lost halfway, nor a team that writes elsewhere, takes it away.

**Only model-checked.** Liveness (`OverdueIsRemoved`, the two `DeletionCompletes`,
`DeservingIsActivated`, `Converges`): fairness and ENABLED are out of the prover's reach. Of
the properties that `orphan`, `oidc_cookie` and `app_edit` refute, `CookiePreserved` and
`SettledMeansServed` are proved for environments without what the run shows, `NoOrphanBinding` is not.

## 6. Plan

Done: all modules, and theorems for every component. Worth doing next: `CredentialsStay` for an
environment in which late writes of older credentials are excluded by something weaker than "only
creations arrive late".

## 7. Not modelled

* CRDs, RBAC rules and manifests are declarative; deepcopy code is generated; metrics, TLS and flags
  in `cmd/main.go` and the wiring in `internal/cli/root.go` are set-up without state.
* The bootstrap script apart from stage 10.5 installs charts and manifests, idempotent and without
  state of its own. Of stage 10.5, groups, mappers and users of Keycloak.
* Egress policies, volumes, probes, resources and images of the workload.
* Edits of `spec.appName`: children and client of the old name stay behind. Names made by suffixes
  may collide between applications (`x-headless`); children are keyed by application and kind here.
* Overlapping operator processes (a lost leader lease).
