-------------------------- MODULE ArgoCDReconciler --------------------------
(***************************************************************************)
(* internal/controller: CreateOrUpdate and Delete, run by the framework    *)
(* for the ArgoCD resource, composed with the clusters around them.  A     *)
(* pass may start whenever none is running (watch events, requeueInterval, *)
(* the poll interval); it works on the spec and the ProviderConfig it was  *)
(* started with, and a crash forgets it.                                   *)
(***************************************************************************)
EXTENDS Provisioner

VARIABLE late  \* history: kinds created after the running pass counted them

vars == <<clusterVars, passVars, late>>

-----------------------------------------------------------------------------
(* CreateOrUpdate. *)

NewPass(path, report) ==
  [path |-> path, spec |-> spec, config |-> config, kind |-> "image", left |-> {},
   held |-> None, doomed |-> {}, found |-> FALSE, ca |-> None, report |-> report]

\* Mutant: any operation annotation suspends the reconcile.
ReconcilesPlain(a) == a = None

\* An "ignore" annotation makes CreateOrUpdate return at once: no step at all.
Reconciles(a) == a # "ignore"

StartCreate ==
  /\ pc = "idle" /\ cr = "live" /\ Reconciles(annotation)
  /\ pc' = IF annotation = "reconcile" THEN "annotation" ELSE "admit"
  /\ pass' = NewPass("create", status)
  /\ UNCHANGED clusterVars

\* The patch's answer refreshes the object, spec included.
ClearAnnotation ==
  /\ pc = "annotation" /\ pc' = "admit"
  /\ annotation' = None
  /\ pass' = [pass EXCEPT !.spec = spec]
  /\ UNCHANGED <<cr, spec, status, inputVars, objectVars, mcpVars, boundVars>>

\* The checks that need no API call: SelectVersion, validateExposure, ChartURL.
Admit ==
  /\ pc = "admit"
  /\ CASE Selected = None -> Fail("InvalidVersion")
       [] Selected # None /\ pass.spec.host \in BadHosts -> Fail("InvalidExposure")
       [] Selected # None /\ pass.spec.host \notin BadHosts /\ Selected.chart = None ->
            Fail("InstallFailed")
       [] OTHER ->
            Begin([pass EXCEPT !.report.phase = "Progressing",
                               !.report.reason = "Reconciling"], "image")
  /\ UNCHANGED clusterVars

-----------------------------------------------------------------------------
(* Delete. *)

StartDelete ==
  /\ pc = "idle" /\ cr = "deleting" /\ pc' = "Application"
  /\ pass' = NewPass("delete", [status EXCEPT !.phase = "Terminating",
                                              !.reason = "Terminating"])
  /\ UNCHANGED clusterVars

\* Mutants: AppProjects are no workload; every "default" project is one.
CountsApplications(k) == k \in workloads /\ k # "AppProject"
CountsDefault(k) == k \in workloads \/ (k = "AppProject" /\ projects # {})

\* Argo CD's own project in the target namespace is no user workload.
Counts(k) == k \in workloads \/ (k = "AppProject" /\ projects \ {Target} # {})

NextKind(k) == IF k = "Application" THEN "ApplicationSet" ELSE "AppProject"

CountUserArgoCDResources ==
  /\ pc \in Kinds
  /\ LET found == pass.found \/ Counts(pc) IN
       /\ pass' = [pass EXCEPT !.found = found]
       /\ pc' = CASE pc # "AppProject" -> NextKind(pc)
                  [] pc = "AppProject" /\ found -> "report"
                  [] pc = "AppProject" /\ ~found -> "deleteRelease"
  /\ UNCHANGED clusterVars

-----------------------------------------------------------------------------
(* The end of a pass: the framework writes the status or, when Delete is     *)
(* through, releases the finalizer.                                          *)

Rest == pc' = "idle" /\ pass' = None

WriteStatus ==
  /\ pc = "report" /\ Rest
  /\ status' = pass.report
  /\ UNCHANGED <<cr, spec, annotation, inputVars, objectVars, mcpVars, boundVars>>

ReleaseFinalizer ==
  /\ pc = "finalize" /\ Rest
  /\ cr' = "absent" /\ annotation' = None /\ status' = NoStatus
  /\ UNCHANGED <<spec, inputVars, objectVars, mcpVars, boundVars>>

\* Mutant: a failed apply of Argo CD's OCIRepository is swallowed as well.
SwallowedRepo == pass.path = "create" /\ pc \in ReloaderSteps \union {"repo"}

\* An API call fails.  Install swallows the Reloader's failures; three failures
\* are returned without StatusFailed; a status or finalizer update is retried.
Swallowed == pass.path = "create" /\ pc \in ReloaderSteps

Silent == \/ pc \in {"annotation", "tls", "service"}
          \/ (pass.path = "delete" /\ pc \in SecretSteps /\ pass.kind = "ca")

FailureReason ==
  IF pass.path = "create"
  THEN IF pc = "ready" THEN "ReadinessCheckFailed" ELSE "InstallFailed"
  ELSE IF pc \in Kinds THEN "FailedToListApplications" ELSE "Uninstalling"

Calls == pc \notin {"idle", "admit"} /\ ~(pc = "drop" /\ pass.doomed = {})

CallFails ==
  /\ Calls /\ faults < MaxFaults /\ faults' = faults + 1
  /\ CASE pc \in {"report", "finalize"} -> Rest
       [] pc \notin {"report", "finalize"} /\ Swallowed ->
            Go(CASE pc = "reloaderRepo" -> "reloaderRelease" [] pc # "reloaderRepo" -> "ready")
       [] pc \notin {"report", "finalize"} /\ ~Swallowed /\ Silent -> Go("report")
       [] OTHER -> Fail(FailureReason)
  /\ UNCHANGED <<crVars, inputVars, objectVars, mcpVars, edits>>

\* The process restarts: what it held in memory is lost.
Crash ==
  /\ pc # "idle" /\ Rest
  /\ faults < MaxFaults /\ faults' = faults + 1
  /\ UNCHANGED <<crVars, inputVars, objectVars, mcpVars, edits>>

-----------------------------------------------------------------------------
Work == StartCreate \/ ClearAnnotation \/ Admit \/ StartDelete \/ CountUserArgoCDResources
        \/ ProvisionerStep \/ WriteStatus \/ ReleaseFinalizer

\* The kinds whose list the guard of the running pass has already taken.
Counted ==
  CASE pc = "Application"    -> {}
    [] pc = "ApplicationSet" -> {"Application"}
    [] pc = "AppProject"     -> {"Application", "ApplicationSet"}
    [] OTHER                 -> Kinds

Witness ==
  late' = IF pass = None \/ pass' = None THEN {}
          ELSE (late \union ((workloads' \ workloads) \intersect Counted)) \intersect workloads'

Init == ClustersInit /\ pc = "idle" /\ pass = None /\ late = {}

Next ==
  /\ \/ Work \/ CallFails \/ Crash
     \/ Environment /\ UNCHANGED passVars
  /\ Witness

Spec == Init /\ [][Next]_vars

\* The controller keeps going; Flux, the finalizer and the shoot extensions are
\* retried by their own controllers, each of which gets on with something as
\* long as it has something to do.  No fairness for tenant and operator.
Alone(A) == A /\ UNCHANGED passVars /\ Witness

FluxWorks == \E r \in Releases : HelmSucceeds(r) \/ HelmUninstalled(r) \/ RepoCollected(r)

Fairness ==
  /\ WF_vars(Work /\ Witness)
  /\ WF_vars(Alone(AddFinalizer))
  /\ WF_vars(Alone(FluxWorks))
  /\ WF_vars(Alone(GardenerActs))

FairSpec == Spec /\ Fairness

TypeOK == ClustersTypeOK /\ ProvisionerTypeOK /\ late \subseteq Kinds

-----------------------------------------------------------------------------
(* What the Secret properties below ask of the configurations.  Copies are     *)
(* found by name and label alone, in the current target namespace, so nothing  *)
(* in the code makes up for names that coincide or change.                     *)

\* The names under which any configuration uses Secrets of a kind.
UsedAs(k) ==
  {n \in Names : \E cfg \in Configs :
     \/ k = "ca" /\ n = cfg.ca
     \/ \E v \in Versions : cfg.versions[v] # None /\ n \in Named(cfg.versions[v], cfg, k)}

Targets  == {s.ns : s \in Specs}
Homes(k) == IF k = "image" THEN Targets ELSE {Tenant}

DistinctNames      == UsedAs("chart") \intersect UsedAs("ca") = {}
OneBundleName      == \A m, n \in UsedAs("ca") : m = n
OneTargetNamespace == \A m, n \in Targets : m = n
NobodysNames       == \A k \in SecretKinds : (Homes(k) \X UsedAs(k)) \intersect HandMade = {}

-----------------------------------------------------------------------------
(* Deletion. *)

\* When the finalizer is released, no Flux object and no installation is left,
\* however passes, failures, restarts and re-creations were interleaved
\* (IsUninstalled: "must all be gone before the ArgoCD CR finalizer is released").
FinalizerReleasedClean ==
  cr = "absent" => \A r \in Releases : repo[r] = None /\ release[r] = None /\ deployed[r] = None

\* No create pass works on Argo CD's objects while they are being deleted: a
\* resource created again never adopts an object that is about to vanish.
NeverAdoptsTerminating ==
  pc # "idle" /\ pass.path = "create" =>
    /\ repo[Argo] # None => ~repo[Argo].terminating
    /\ release[Argo] # None => ~release[Argo].terminating

\* Past the guard, any workload the user still has was created after the guard
\* had listed its kind (CountUserArgoCDResources).
TearingDown == pc # "idle" /\ pass.path = "delete" /\ pc \notin Kinds \union {"report"}

GuardHolds == TearingDown => workloads \subseteq late

\* A delete pass removes a CA bundle only when no OCIRepository is left that
\* could reference it (Uninstall leaves it to RemoveCABundle for that reason).
CAOutlivesRepositories ==
  [][\A n \in Marked(Tenant, "ca") :
       pc # "idle" /\ pass.path = "delete" /\ secrets'[<<Tenant, n>>] = None
         => \A r \in Releases : repo[r] = None]_vars

\* With the resource, every replica of a pull secret and of the CA bundle goes.
ReplicasRemoved ==
  cr = "absent" => /\ Marked(Tenant, "chart") = {} /\ Marked(Tenant, "ca") = {}
                   /\ \A n \in Namespaces : Marked(n, "managed") = {}

\* Only a failing Argo CD release makes the framework delete the resource, never
\* the Reloader's (managedByReloaderValue).  The tenant's deletions are edits.
ReloaderNeverCascades ==
  [][cr = "live" /\ cr' = "deleting" /\ edits' = edits
       => release[Argo] # None /\ release[Argo].ready = "false"]_vars

-----------------------------------------------------------------------------
(* The abstract service.  A create pass that is still running when the       *)
(* resource is deleted is work begun before the withdrawal.                  *)

ServiceState ==
  CASE cr = "absent"            -> "absent"
    [] cr \in {"fresh", "live"} -> "requested"
    [] cr = "deleting"          -> IF pc # "idle" /\ pass.path = "create"
                                   THEN "withdrawn" ELSE "terminating"

Stage(obj) == IF obj = None THEN "none" ELSE IF obj.terminating THEN "leaving" ELSE "active"

Service == INSTANCE ServiceLifecycle WITH
  Apps <- Releases, Core <- Argo,
  service   <- ServiceState,
  sources   <- [r \in Releases |-> Stage(repo[r])],
  releases  <- [r \in Releases |-> Stage(release[r])],
  installed <- {r \in Releases : deployed[r] # None}

\* The reconciler and Flux implement the service's lifecycle: whatever fails,
\* restarts or is edited meanwhile, Flux objects come and go in its order only
\* (Install, Uninstall and IsUninstalled).
ImplementsService == Service!Spec

-----------------------------------------------------------------------------
(* Installation. *)

\* Ready is only reported by a pass after which both of Argo CD's Flux objects
\* ask for exactly the version, values and Secrets that pass was started with,
\* whatever failed in it (Install stops at the first error).
ReadyMeansDeclared ==
  [][pc # "idle" /\ pass.report.phase # "Ready" /\ pc' = "report" /\ pass'.report.phase = "Ready"
       => /\ repo[Argo] # None /\ repo[Argo].spec = RepoFor(Argo)
          /\ release[Argo] # None /\ release[Argo].spec = ReleaseFor(Argo)]_vars

\* Whenever an OCIRepository is applied, the Secrets it references are in the
\* tenant namespace already, under the label their kind is pruned by (Install
\* replicates them first because the references are same-namespace).
ReferencesPresent ==
  [][\A r \in Releases :
       repo'[r] # repo[r] /\ repo'[r] # None /\ ~repo'[r].terminating =>
         /\ repo'[r].spec.secret # None => repo'[r].spec.secret \in Marked(Tenant, "chart")
         /\ repo'[r].spec.ca # None => repo'[r].spec.ca \in Marked(Tenant, "ca")]_vars

\* Secrets people created beside the replicas, under names no configuration
\* uses, are never changed or deleted (prune looks for the labels only).
HandMadeUntouched ==
  [][\A k \in HandMade : secrets'[k] = secrets[k]]_vars

-----------------------------------------------------------------------------
(* Progress: the other actors stop, nothing they left is unacceptable. *)

Requested == config.versions[spec.version]

\* The current spec and configuration pass every check on the way to the
\* HelmRelease, and the Secrets they name exist.
Installable ==
  /\ Requested # None /\ Requested.chart # None /\ spec.host \notin BadHosts
  /\ config.vault /\ spec.vault => Requested.registry
  /\ \A k \in SecretKinds : \A n \in Named(Requested, config, k) : source[n] # None
  /\ config.ca # None => source[config.ca] \notin BadCerts

Settled == cr = "live" /\ annotation # "ignore"

Served ==
  /\ Requested # None /\ status.phase = "Ready" /\ status.endpoint = spec.host
  /\ deployed[Argo] # None /\ deployed[Argo].values = Requested.chart
  /\ deployed[Argo].host = spec.host /\ deployed[Argo].ns = spec.ns

\* A request that can be met is met: Argo CD runs with the requested version,
\* namespace and exposure, and the resource says so and names the endpoint,
\* after any finite number of edits, failures and restarts.
EventuallyReady == <>[](Settled /\ Installable) => <>[]Served

\* Deletion completes once the user's workloads are gone, whatever the
\* annotation says; Argo CD's own default project does not hold it up.
EventuallyGone == ~<>[](cr = "deleting" /\ workloads = {})

-----------------------------------------------------------------------------
(* What comments promise and the code does not keep. *)

\* "User workloads are never orphaned" (constants.go): Argo CD is not removed
\* from the MCP while the user has workloads there.
NeverOrphans ==
  [][deployed[Argo] # None /\ deployed'[Argo] = None => workloads = {}]_vars

\* The endpoint is published and Ready reported "only once it is actually
\* reachable" (CreateOrUpdate): the installed Argo CD serves the host with a
\* certificate for it.
PublishedIsReachable ==
  [][pc = "report" /\ pass.report.phase = "Ready" /\ pass.report.endpoint # None /\ status' # status
       => cert[Target] = pass.report.endpoint /\ deployed[Argo].host = pass.report.endpoint]_vars

\* status.endpoint "is empty when exposure is disabled" (api_types.go): a pass
\* for a spec without exposure never leaves one.
DisabledHasNoEndpoint ==
  [][pc = "report" /\ pass.path = "create" /\ pass.spec.host = None /\ status' # status
       => status'.endpoint = None]_vars

=============================================================================
