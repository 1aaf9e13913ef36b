# Verification of service-provider-argocd

TLA+ models of the controller that installs Argo CD on managed control planes
(MCPs), TLC configurations that check them on small instances, and theorems
about them that TLAPS checks for every value of the constants. Paths are those
of the repository; every definition that models code is tied to its lines in
`PROJECT.json` ("map").

## 1. The system

`service-provider-argocd` is a Kubernetes controller. A framework
(openmcp-project's serviceprovider runtime, not in this tree) watches `ArgoCD`
resources on the *onboarding* cluster, adds a finalizer, calls the reconciler,
writes the status and releases the finalizer. The provider never installs
anything itself: it declares Flux objects (an `OCIRepository` and a
`HelmRelease`, and a second pair for the Reloader addon) in a tenant namespace
of the *platform* cluster, and Flux installs the chart on the *MCP*.

| Component | Source | State | Operations | Hard part |
|---|---|---|---|---|
| Reconciler | `internal/controller/provider_controller.go` | none of its own; status, annotation and finalizer of the `ArgoCD` resource | `CreateOrUpdate`, `Delete`, `handleOperationAnnotation`, `reconcileEndpoint`, `newProvisioner` | every API call may fail, the process may restart between any two, inputs change during a pass |
| Provisioner | `internal/argocd/provisioner.go` | four Flux objects, replicated Secrets (tenant namespace and MCP), a namespace | `Install`, `Uninstall`, `IsUninstalled`, `Ready`, `CountUserArgoCDResources`, `RemoveCABundle`, copy and prune per kind of Secret | order of writes, asynchronous deletion, label based ownership, deletion guard |
| Endpoint | `internal/argocd/endpoint.go` | reads TLS Secret and Service on the MCP | `Endpoint` | what it reads may belong to an earlier spec |
| Helm values | `internal/argocd/values.go` | none | `buildValues`, `deepMerge`, fragments, CA parsing | precedence, error cases |
| Exposure host | `provider_controller.go` 304-375 | none | `validateExposure`, `composeHost`, `deriveRootDomain` | string edge cases |
| API types | `api/v1alpha1` | spec, status, ProviderConfig | `SelectVersion`, defaults, nil tolerance | first match, defaults |
| Secret watch | `provider_controller.go` 256-293 | the work queue around it | `IsReferencedSecret`, results and errors that requeue | what is not watched waits for a poll |
| Start-up | `cmd/service-provider-argocd/main.go` | CRDs, registration, manager, leader lease | `init`, `run` | errors that are logged only, two processes at once |

How they interact: the framework calls the reconciler, which builds a
Provisioner from the resource and the ProviderConfig it was given; the
Provisioner issues one API call after the other. Flux, Argo CD, the Gardener
shoot extensions, the tenant and the operator act on the same objects at any
time. There are no locks and no transactions; all coordination is by object
existence, finalizers, conditions and labels. What has to be right:

* Reconciler: deletion waits for the user's workloads, completes afterwards and
  releases the finalizer only when everything is gone; Ready means that what was
  asked for is declared and, when exposed, reachable; a request ends Ready or
  Failed.
* Provisioner: Secrets are there before what references them and until nothing
  does; replicas follow their sources and vanish when unused; nobody else's
  Secrets are touched; the Reloader never endangers Argo CD.
* Endpoint: published only while valid.
* Watch and queue: every change that matters leads to another pass, every pass
  that is not conclusive as well.
* Values: four layers, each wins over the ones before it and loses nothing of
  them; what is rendered is complete.
* Host: what is validated is what is used.
* Start-up: a clean init job leaves nothing undone, the processes come to serve,
  and with leader election one at a time.

The hazards found in the code, each at its line, are in `PROJECT.json`
("hazards"), with the properties that would notice.

## 2. Modules

```
Clusters <- Provisioner <- ArgoCDReconciler <- Watches        <- MCWatches
                              |      |  ^
                              |      |  +-- MCReconciler <- MCLifecycle
                              |      +- INSTANCE ServiceLifecycle (refined)
                              +- twice INSTANCEd by Replicas  <- MCReplicas
HelmValues, ExposureHost <- Rendering <- NestedValues <- MCRendering
Startup

ArgoCDReconciler <- ArgoCDReconciler_proofs <- Lifecycle_proofs, Installation_proofs, Secrets_proofs
Watches, Installation_proofs, Secrets_proofs <- Watches_proofs
Replicas         <- Replicas_proofs, which INSTANCEs ArgoCDReconciler_proofs twice
Rendering        <- Rendering_proofs
Startup          <- Startup_proofs
```

Arrows are EXTENDS unless marked. `MCInstances` holds the configurations shared
by the three MC modules over `Clusters`.

**Clusters** holds the API objects and everybody but the controller. State: the
resource (`cr`: absent, fresh without finalizer, live, deleting; `spec`,
`annotation`, `status`), the operator's inputs (`config`, `source`), what the
controller writes (`secrets`, `repo`, `release`, `namespaces`), the MCP
(`deployed`, `cert`, `address`, `workloads`, `projects`) and the two budgets
`edits` and `faults`. Its actions are external to the repository and modelled
from how the code uses them:

| Action | Actor | Taken from |
|---|---|---|
| `EditSpec`, `Annotate`, `DeleteCR`, `CreateCR`, `CreateWorkload`, `DeleteWorkload` | tenant | API types, guard |
| `EditConfig`, `EditSource` | operator | ProviderConfig, Secrets of the provider's namespace |
| `HelmSucceeds`, `HelmFails`, `HelmUninstalled`, `RepoCollected` | Flux, Argo CD | `Ready`, `IsUninstalled`, comments on the release and on the default project |
| `IssueCertificate`, `AssignAddress`, `Withdraw` | shoot extensions, load balancer | `endpoint.go`, `exposureFragment` |
| `AddFinalizer`, `CascadeFailure` | framework | `Finalizer`, `constants.go` 46-57 |

**Provisioner** is one reconcile pass. `pc` names the API call that is due,
`pass` is the memory of the pass: the spec and ProviderConfig it was started
with, the loop variables of copy and prune, `caCert`, and the status it will
write. Every API call is one step, so the actions of `Clusters`, a failing call
or a crash may come between any two. `controllerutil.CreateOrUpdate` (a read and
a write with a resource version) is one step; a conflict is a failing call.
Image pull secrets, chart pull secrets and the CA bundle share their steps
(`ReadSource`, `EnsureNamespace`, `WriteReplica`, `ListReplicas`, `DropReplica`,
`ReplicasDone`); `Place`, `Named` and `Mark` say where a kind lives, what is
copied and by which label it is found again. `Begin` holds the difference
between Install (copy, then prune what is not kept), Uninstall (prune
everything) and `RemoveCABundle` (by name when configured, else by label).

| Code | Actions |
|---|---|
| `reconcileImagePullSecrets`, `reconcileChartPullSecrets`, `reconcileCABundle` | `Begin` and `Replicate` |
| `applyOCIRepository`, `applyHelmRelease` | `ApplyRepo`, `ApplyRelease`, `CannotBuild` |
| `reconcileReloader` | `ReloaderStep`, the Reloader's apply and delete steps |
| `Uninstall` | `DeleteRelease`, `DeleteRepo`, `Replicate` |
| `IsUninstalled` | `Checked`, four times |
| `Ready`, `Endpoint` | `Ready`, `ServerTLS`, `ServerService` |

**ArgoCDReconciler** adds the handlers and composes everything.
`StartCreate`, `ClearAnnotation` and `Admit` are `CreateOrUpdate` up to Install;
`StartDelete` and `CountUserArgoCDResources` are `Delete` up to Uninstall;
`WriteStatus` and `ReleaseFinalizer` are the framework's last step. `CallFails`
gives each call its error path (reason, swallowed, or returned without a status)
and `Crash` forgets the pass. An ambiguous failure, where the server acted but
the caller saw an error, is the call followed by `Crash` or by a failure of the
next call. `late` is a history variable: the kinds of workload created after the
running pass had listed them. `NeverOrphans`, `PublishedIsReachable` and
`DisabledHasNoEndpoint` state what comments promise. `DistinctNames`,
`OneBundleName`, `OneTargetNamespace` and `NobodysNames` say which configurations
the properties of the replicated Secrets need (section 4).

**ServiceLifecycle** is the abstract service, without passes, API calls, Secrets
or status: in which phase the Flux objects of an app may be declared, that a
release is retired before its source and Argo CD's only when the service
terminates, and that the service is forgotten only when nothing of it is left.
`ArgoCDReconciler` instantiates it: `ServiceState` is the phase (a create pass
that is still running when the resource is deleted is "withdrawn", not yet
"terminating"), `Stage` of an object says whether it is absent, wanted or on its
way out, and `deployed` gives the installed apps. `ImplementsService` is the
claim.

**Watches** says what makes a pass start. `queued` is the work queue (one bit:
it never holds an object twice). A pass needs an entry; entries come from
`Notified` (the resource, the ProviderConfig, a Secret for which
`IsReferencedSecret` holds), from `Retried` (an error that is returned, a result
that requeues, a restart) and from `Poll`. `Concluded` is the code's empty
result. Without this module the liveness properties would hold of any watch.
`QuietIsAnswered` and `QuietIsCopied` say what an empty queue means.

**Replicas** runs two instances of `ArgoCDReconciler` over one set of API
objects, because `--leader-elect` is off by default and a rolling update starts
the new process first. `stale` marks a pass whose resource is gone, so that its
own writes to it are refused (`FirstRefused`, `SecondRefused`); `overlap`
records that a create and a delete pass ever ran together.

**HelmValues** is `values.go`. A JSON value is a function from paths of keys to
nodes (`IsJSON`: whatever has a path is inside of objects). A node is an `Object`,
`Null`, a string (`Text`), a list of objects with names (`NameList`) or anything
else (`Leaf`); `deepMerge` only looks for objects, decoding the pull secrets
(`PullSecretsDecodable`) and reading the repository (`HasRepository`) at the kinds
of the others. `deepMerge` says in one piece what becomes of every path: objects are
merged, everything else of the later layer replaces what was at its path and below
it. The vault fragment has all keys of its bundle down to the first list or scalar,
with what became of names that the template puts into the YAML without quotes
(`Unquoted`: a version `3.10` is the number 3.1; `RendersYAML`: some are no YAML).
The exposure fragment has some of the server's annotations, and lists are cut down
to the parts that come from somewhere else. `Layered` is the reference definition,
path by path, and no merge.

**ExposureHost** is the host's way from a request to a qualified name, over
sequences of labels with lengths: `validateExposure`, `composeHost`,
`deriveRootDomain`, `ResolvedHost`.

**Rendering** takes a request and a ProviderConfig through both, in the order of
`CreateOrUpdate` and `Install`: `Select`, `Validate`,
`reconcileImagePullSecrets`, `applyHelmRelease`, with the reason where it stops.

**NestedValues** has the same values as nested maps, and `deepMerge` as the code
writes it, a recursion over them (`mergeMaps`). It ties the closed form, which the
proofs use, to the code (`MergesAsWritten`); the MC module writes its instance as
nested maps, too.

**Startup** is `main.go`: the init job (`initializePlatformCluster`,
`requestOnboardingClusterAccess`, `CreateOrUpdateCRDs`, `RegisterGVKs`) and the
run processes (the first two, then `NewManager`, `Elected`, `Start`), which meet
in the CRDs and the lease. With leader election the controllers are started, and
their caches filled (`Start`), only once the lease is won, so a process that gives
up on its caches leaves the lease behind. A failure that exits with status 1, or a
panic (`MustPatchClusterClient` in local debugging), leads to `Restart`; one that is
only logged goes on. Nothing orders job and run processes.

Modelling decisions:

* One `ArgoCD` resource. Every name the provider writes is fixed inside one
  tenant namespace and one MCP, so instances share nothing but the ProviderConfig.
* One pass at a time per process: the work queue never hands out one object
  twice. `Replicas` has two processes.
* In `ArgoCDReconciler` a pass may start whenever none runs, which is right for
  safety; `Watches` restricts it for liveness. Delays and poll intervals have no
  length.
* In `Startup`, going on with a missing onboarding cluster may end in an error or
  in a nil pointer, inside libraries that are not in this tree: both are choices.
* A pass sees the spec and the ProviderConfig as they were at its start; only
  the patch that clears the annotation refreshes the spec.
* Payloads, versions, hosts, charts and names are model values. What a spec is
  rejected for (`BadHosts`, a missing chart URL, `registry`, `BadCerts`) is an
  attribute of the value. Values that cannot be decoded count as a missing chart
  URL: both end in InstallFailed before any object is written.
* `ProvisionerCreationFailed` is left out: it depends only on the resource's
  name, which does not change.

## 3. What is checked

`MaxEdits` bounds the edits of tenant and operator over the whole behaviour,
`MaxFaults` the failed calls, failed Helm actions and crashes (in `Startup`:
failed calls and deaths). No other state is bounded; passes repeat without limit.
`CHECK_DEADLOCK FALSE` everywhere: with the resource gone and the edits used up,
with the values rendered, or with a process serving for good, the system rests.

| Run | Module | Edits/Faults | Instance | Distinct states |
|---|---|---|---|---|
| `Lifecycle` | `MCLifecycle` | 3/1 | two configurations that differ in chart, image and chart pull secrets, Reloader and CA bundle; a Secret of somebody else | 1.6 M |
| `Convergence` | `MCWatches` | 3/0 | chart, Reloader and CA bundle change, two Secrets are rotated | 500 k |
| `Outcomes` | `MCWatches` | 1/1 | exposure, vault plugin, six ways to be unacceptable | 570 k |
| `Values` | `MCRendering` | - | 402 trees of operator's values with every combination of fragments; 11 hosts with 6 apiserver addresses; 8 CA bundles; names that YAML does not survive unquoted | 100 k |
| `Startup` | `Startup` | -/3 | the job and two run processes | 43 k |
| `Replicas` | `MCReplicas` | 2/0 | two processes, one configuration | 300 k |

**Lifecycle**, safety: `FinalizerReleasedClean` (nothing is left when the
resource is gone), `NeverAdoptsTerminating` (a create pass never works on dying
objects of Argo CD's), `GuardHolds` (past the guard only workloads created behind
its back exist), `ReplicasRemoved`, `CAOutlivesRepositories`,
`ReloaderNeverCascades`, `ReadyMeansDeclared` (no Ready over a half-applied
Install), `ReferencesPresent` (Secrets first), `HandMadeUntouched`,
`ImplementsService`, and one type invariant. Three edits are what the longest
interesting story needs: delete, create again, and a configuration edit or a
workload in between; one fault suffices because the next pass starts from the
clusters alone, so faults in different passes do not add up to anything new. `MCLifecycle`
assumes what the theorems about Secrets assume, so TLC shows that the instance
satisfies it.

**Convergence** and **Outcomes**, liveness under `WatchSpec`: `PullSecretsFollow`
and `EventuallyReady`, `RejectedEventually`, `EventuallyGone` hold by watches,
results and errors alone. `BundleFollowsPolls`, `AddonFollowsPolls` and
`RejectedByPolls` have `Polls` (the resource is queued again and again) as a
premise and fail without it: the CA bundle's Secret is not watched, and a failure
of the Reloader is logged and forgotten. What polls are needed for is exactly
this. The budgets are smaller than in `Lifecycle` because every unfair choice is
covered by `<>[]` of the premise: after the last edit nothing depends on how many
there were, only on the state they left. The same runs check the safety that makes
the queue trustworthy, at every moment and with no premise about when edits stop:
an idle controller with an empty queue has answered the inputs as they are now
(`QuietIsAnswered`, in `Outcomes`, where a pass ends in every possible way) and, if
the answer is Ready, has copied the pull secrets as they are now (`QuietIsCopied`,
in `Convergence`, where Secrets are rotated). Both are about inputs that change in
the middle of a pass which read the old ones and then ends without a requeue.

**Values**: `MergesAsWritten` (merging the same layers as nested maps, by the
recursion of the code, gives the same document), `LayersAgree` (the rendered values
are what the layers say, path by path, in the documented order), `ExposedUnderFQDN`
(validated as requested, used as resolved, and still within DNS's limits),
`VaultImageComplete` (the API server's rule covers whatever the gate lets through),
`TrustsEveryName` (the bundle goes under every name of every certificate, and under
no other key). The instance gives the top-level keys of the fragments missing,
scalar, null, empty and nested values, pull secrets that decode and that do not, a
repository that is no string, host labels at and over their limits, and bundles
that mix certificates, keys and broken blocks.

**Startup**: `CleanInitServes` (once the job ended without logging an error, some
process comes to serve and stays), `CleanInitIsComplete`, `OneActiveManager`.
Three faults are one for the job and one for each process. What the run does
*not* show is that the system comes up after any init job: the job ends with
status 0 when it only logged a failure to get access, create the CRDs or register
the kind, is then not repeated, and run processes restart for ever on missing
CRDs. `logged` in the properties' premise marks precisely those attempts.

**Replicas**: two processes without a lock still converge (`BothServe`,
`BothDelete`), because every pass starts from the objects alone and declares
again what is missing. A clean release of the finalizer is lost, and
`CleanUnlessOverlap` says when: only if a create pass of one process was running
while the other one deleted. Then the first may write a Flux object after the
second has checked for it. Leader election rules it out; so does a process that
ends before the next one starts.

Each property has a mutant, a plausible bug in one mapped definition that makes
the run fail (`PROJECT.json`, "mutants"): a skipped check in `IsUninstalled`, a
prune by the wrong label, a Reloader with Argo CD's managed-by value, a
create-only copy, a watch that forgets the pull secrets inside the values, a merge
of the top level only, a length checked before composition, and so on.

### Fairness

`Watches` has weak fairness on the running pass and on starting a queued one
(API calls return, the queue hands out what it holds), on `Skip`, on
`AddFinalizer`, on `FluxWorks` (Flux gets on with something while it has
something to do; its controllers retry at intervals) and on `GardenerActs`.
`FairSpec` of `ArgoCDReconciler` is the same without the queue. Polls have none
and appear only as a premise. Tenant, operator, failures and crashes have none.
Weak fairness is enough: `Work` stays enabled until taken while a pass runs, and
each external action stays enabled until its object changes. An installation with
a permanently failing chart is excluded only in that a failed Helm action uses up
the fault budget. `Replicas` has the same for each process. `Startup` has weak
fairness on the job, on every process (scheduled, restarted after a failure) and
on the expiry of a lease that nobody renews.

### Disagreements between code and documentation

Six runs expect a violation; each checks one sentence of a comment or of the
README against what the code does. In short (details and quotations in
`PROJECT.json`, "findings"):

| Run | Property | What happens |
|---|---|---|
| `GuardRace` | `NeverOrphans` | a workload created after the count loses its Argo CD |
| `HostRenamed` | `PublishedIsReachable` | a changed host is Ready on the old host's release, certificate and address |
| `ExposureDropped` | `DisabledHasNoEndpoint` | the old endpoint stays while the pass is not ready or fails |
| `SecretAdopted` | `HandMadeUntouched` | a Secret of the same name is overwritten, labelled and later deleted |
| `ProjectLeftBehind` | `EventuallyGone` | the default project of a former namespace blocks the deletion |
| `PullSecretsDropped` | `PullSecretsReplicated` | the operator lists `regcred`, which is copied to the MCP; the vault bundle's list replaces hers, and the chart is told to use `artifactory` only |

The passing runs of `ArgoCDReconciler` keep to configurations without these: one
namespace, CA bundles under one name, pull secrets and bundle with names of their
own, none used by anybody else. The names matter: `RemoveCABundle` deletes by
name while one is configured and by label otherwise, so a renamed
`caBundleSecret` leaves its old copy behind (`ReplicasRemoved`), and clearing a
bundle whose Secret is also a chart pull secret takes that away from the
repository (`ReferencesPresent`). With two target namespaces the image pull
secrets of the former one outlive the resource, because they are pruned in the
current one only. And a missing chart pull secret that only the Reloader names
fails Argo CD's Install, although the Reloader is otherwise best-effort; the
model counts it among what a request needs (`Installable`). `ReplicasRemoved`,
`ReferencesPresent`, `HandMadeUntouched` and `EventuallyGone` hold there and only
there.

## 4. What is proved

For every value of the constants that satisfies the modules' assumptions (the
constants are of the declared types; `None` differs from every value; in
`Replicas`, from every memory of a pass), hence for any number of versions, hosts,
namespaces, Secrets, edits, faults and replicas, and for operator's values of any
shape and depth, certificate bundles of any length and hosts of any number of labels:

| Theorem | Module | Property | Premise | Argument |
|---|---|---|---|---|
| `TypeCorrect` | `ArgoCDReconciler_proofs` | `TypeOK` | | with `PassConsistent`, what a pass holds in memory at each call |
| `FinalizerSafe` | | `FinalizerReleasedClean` | | `DeletionInv` |
| `NeverAdopts` | | `NeverAdoptsTerminating` | | `DeletionInv`, its part `NoneLeaving` |
| `GuardSound` | | `GuardHolds` | | `GuardInv`: what the guard knows while it is still counting |
| `Refines` | `Lifecycle_proofs` | `ImplementsService` | | `DeletionInv` and `OrderInv` |
| `ReadyIsDeclared` | `Installation_proofs` | `ReadyMeansDeclared` | | `DeclaredInv` |
| `ReloaderHarmless` | | `ReloaderNeverCascades` | | `OwnInv` |
| `HandMadeSafe` | `Secrets_proofs` | `HandMadeUntouched` | `NobodysNames` | `NamesInv` |
| `BundleGoesLast` | | `CAOutlivesRepositories` | `DistinctNames` | `DeletionInv` and `NamesInv` |
| `ReferencesReplicated` | | `ReferencesPresent` | `DistinctNames` | `CopiedInv` |
| `RemovalComplete` | | `ReplicasRemoved` | `OneBundleName`, `OneTargetNamespace` | `RemovalInv` |
| `ChartSecretsGo` | | chart pull secrets only | | `RemovalInv` |
| `QuietAnswered` | `Watches_proofs` | `QuietIsAnswered` | | `QueueInv` |
| `QuietCopied` | | `QuietIsCopied` | `DistinctNames` | `FollowInv` |
| `CleanWithoutOverlap` | `Replicas_proofs` | `CleanUnlessOverlap` | | `ReplicasInv` |
| `RenderingTypeOK` | `Rendering_proofs` | `TypeOK` | | `IInv`, a merge of JSON values is one (`MergedIsJSON`) |
| `LayersAsDocumented` | | `LayersAgree` | | `IInv`, the leaves of a merge (`MergedLeaves`) |
| `VaultComplete` | | `VaultImageComplete` | | `IInv`, which top-level keys a layer speaks about |
| `NamesTrusted` | | `TrustsEveryName` | | `IInv`, what the bundle's layer has and the others lack |
| `ExposedQualified` | | `ExposedUnderFQDN` | `AddressesParsed` | `IInv`, `ExposedAsValidated` |
| `PullSecretsPassedOn` | | without the internal vault bundle: exactly the copied pull secrets are passed on, so `PullSecretsReplicated` | | `IInv`, the silence of all other layers about the list |
| `ExposedAsValidated` | | one call of `validateExposure` | | lemmas on `Trimmed`, `deriveRootDomain`, `composeHost` |
| `StartTypeOK` | `Startup_proofs` | `TypeOK` | | `Typed` |
| `OneManager` | | `OneActiveManager` | | who serves holds the lease |
| `CleanInit` | | `CleanInitIsComplete` | | what an attempt that logged nothing has done so far |

The premises are about the constants, and every one of them is needed, because the
code prunes by label or by name in the current namespace only (section 3 says what
happens without it): `DistinctNames`, no name is both a chart pull secret and a CA
bundle in some configuration; `OneBundleName`, all configurations that have a CA
bundle name it alike; `OneTargetNamespace`, `namespaceOverride` never changes;
`NobodysNames`, nobody made a Secret by hand where a copy would go. TLC evaluates
these four on the instance of `Lifecycle`, and `DistinctNames` on those of
`Convergence` and `Outcomes`. `AddressesParsed` is about the MCPs: an apiserver
address has a scheme or no port, since `url.Hostname` finds no port elsewhere and it
would stay in the host's last label. All addresses of the instance of `Values` are so.

* `PassConsistent` is needed because that the applied HelmRelease is well-typed
  rests on the selected version, which `Admit` established many steps earlier.
* `DeletionInv` is the conjunction of `PhaseOK` (who may run while the resource
  is in which phase), `ChecksPassed` (what each check of `IsUninstalled` has
  established stays true: nobody creates Flux objects while a delete pass runs),
  `InstalledDeclared` (what is installed still has its HelmRelease) and
  `NoneLeaving` (Argo CD's objects are deleted only after the resource).
* The refinement is one lemma per group: what the tenant, Flux and the resource's
  own life do (`EnvironmentSimulated`, `FluxActsSimulated`, `ResourceSimulated`)
  maps to the service's actions or to a stutter, and so do the calls of a pass
  (`StepSimulated`). `OrderInv` supplies what the guards of the abstract actions
  need and no single call shows: that a source is there when the release over it
  is applied (and, by `NoneLeaving`, not on its way out), and that a source goes
  after its release.
* `DeclaredInv` follows a create pass: past the apply of an object, the object
  asks for what the pass was started with. Tenant, operator and Flux never write
  the objects' specs, and nothing of Argo CD's is being deleted meanwhile
  (`DeletionInv`), so it holds until the pass ends. The theorem adds that no other
  step than the last calls of a create pass turns a report to Ready.
* `NamesInv`: whatever carries the label of a kind has a name some configuration
  uses for that kind, in a namespace where that kind goes; and so has everything
  that a running pass has still to read, to write or to drop. So a prune by label
  never reaches a name that is used for something else only, or by somebody else.
* `CopiedInv` follows the copying half of a create pass: of the names it wants,
  each is copied, or still on the list of those to be read, or being written.
  Prunes of the same kind keep what is wanted, prunes of the other kind cannot see
  it under `DistinctNames`; when the OCIRepository is due the list is empty.
* `RemovalInv` is the mirror image for a delete pass: what was pruned stays gone,
  because no create pass runs any more (`PhaseOK`), up to the release of the
  finalizer. `ChartSecretsGo` is what remains of it without premises.
* The work queue only decides when passes start (every step of `Watches` is one of
  the reconciler or leaves it alone), so the invariants above hold of the controller
  that is driven by it. `QueueInv` says that, with nothing queued, an idle controller has answered,
  a running create pass works on the inputs as they are now, and what it is about
  to report without a requeue answers them. `DeclaredInv` supplies that Ready
  answers; `ConcludedBy`, `Refuses` and `GoesOn` are the lemmas about the calls that
  end a pass, reject a request, or do neither.
* `FollowInv` is the same for the pull secrets: with nothing queued, every name the
  running pass wants is copied with the data its source has *now*, or is still on
  its list, and the kinds it has pruned hold nothing else; a rotation after the read queues the resource, which
  is where `IsReferencedSecret` enters (`ReferencedKept`, `WantedKept`).
* `CleanWithoutOverlap` takes from `ArgoCDReconciler_proofs` what each process does
  by itself, instantiated once for each. `Undisturbed` adds that, unless a create
  and a delete pass have met, what either process has checked is still so and a
  resource without finalizer has neither a create pass nor a Flux object behind it.
* `IInv` of `Rendering` says where its steps get what they rely on: the inputs are
  those of a ProviderConfig the API server admitted (`Chosen`), the entry is one of
  its versions (`Selected`, by `FirstOffered`: the first of that name exists), what is
  exposed was validated (`Validated`), the copied pull secrets are the operator's
  (`Copied`), what is rendered could be (`Faithful`). It is
  needed because the properties are about the last state and the checks lie
  several steps before it.
* What the values hold follows from one relation: `Over(d, v, m)`, m is what comes of
  laying v over d. A merge is one (`MergedOver`), a layer that is left out is one
  (`NothingOver`), and the rendered values are four layers one over the other
  (`Built`). `VaultFragment`, `ExposureFragment` and `CABundleFragment` say which
  paths each layer has; a layer is silent about the top-level keys it has not
  (`Silent`), so what a property is about survives the layers above.
* `PullSecretsPassedOn` bounds the disagreement that the run `PullSecretsDropped`
  shows: the internal vault bundle's own list is its only cause.
* `ExposedAsValidated` is about names of any length: `resolveExposure` swallows the
  error of a second composition, and what it then renders is still the name that
  was validated, qualified and within 253 characters.
* Each invariant is Init, one lemma per group of actions, and a temporal step. The
  properties named in the table are checked by the runs of section 3 as well.

Only model-checked:

* All liveness, which is beyond the prover.
* `MergesAsWritten`, that the closed form of `deepMerge` is what its recursion
  computes: recursion over data needs an induction the prover cannot instantiate,
  and it has no backend for modules with RECURSIVE operators. TLC compares the two
  on all 402 trees under all combinations of fragments.

## 5. Not modelled

* Several `ArgoCD` resources: instances share only the ProviderConfig.
* Flux's, Argo CD's and the framework's internals; the cluster access of the MCP,
  which the framework provides before it calls the reconciler.
* What is inside the lists of the bundled YAML files, apart from the names that come
  from the configuration; the exposure's annotations beyond host, class and
  certificate; the exact wording of values, URLs and conditions; the durations of
  polls, requeues and leases.
* `main.go`'s flags for metrics, certificates and probes, and the permissions it
  requests: constants of one process that nothing else reads.
* The Reloader's effect on Pods.
* Embedding of CRDs, scheme registration and generated deep copies: no behaviour.

## 6. Plan

1. Proofs: for two processes, the properties of the replicated Secrets under the
   premise of `CleanUnlessOverlap`; the safety half of what a Ready resource's
   addon looks like (`AddonInstalled` after a pass whose calls for the Reloader all
   succeeded).
2. `Replicas` with failing calls, if a smaller instance than the product of two
   full passes shows something that one process with faults does not.
