---------------------------- MODULE Provisioner ----------------------------
(***************************************************************************)
(* internal/argocd: what one reconcile pass does to the clusters.  Every   *)
(* API call is a step of its own, so the other actors, a failed call or a  *)
(* crash may come between any two of them.  pc names the call that is due, *)
(* pass holds what the pass keeps in memory: the spec and the              *)
(* ProviderConfig it was started with, its local variables and the status  *)
(* it is going to write.                                                   *)
(***************************************************************************)
EXTENDS Clusters

VARIABLES
  pc,   \* the API call that is due, "idle" between passes
  pass  \* the memory of the running pass, None between passes

clusterVars == <<crVars, inputVars, objectVars, mcpVars, boundVars>>
passVars    == <<pc, pass>>

SecretKinds == {"image", "chart", "ca"}

ReloaderSteps == {"reloaderRepo", "reloaderRelease",
                  "deleteReloaderRelease", "deleteReloaderRepo"}
CheckSteps    == {"checkRelease", "checkRepo",
                  "checkReloaderRelease", "checkReloaderRepo"}
SecretSteps   == {"read", "namespace", "write", "list", "drop"}
PassSteps     == Kinds \union SecretSteps \union ReloaderSteps \union CheckSteps
                 \union {"annotation", "admit", "repo", "release", "deleteRelease",
                         "deleteRepo", "ready", "tls", "service", "report", "finalize"}

Pass == [path   : {"create", "delete"},
         spec   : Specs,
         config : Configs,
         kind   : SecretKinds,               \* the replicas being worked on
         left   : SUBSET Names,              \* the names still to be copied
         held   : [name : Names, data : Contents] \union {None},
                                             \* the source Secret just read
         doomed : SUBSET Names,              \* the replicas to be deleted
         found  : BOOLEAN,                   \* the guard has seen a workload
         ca     : Contents \union {None},    \* caCert
         report : ArgoCDStatus]              \* the status to be written

ASSUME PassAssumption == None \notin Pass

ProvisionerTypeOK ==
  /\ pc \in PassSteps \union {"idle"}
  /\ IF pc = "idle" THEN pass = None ELSE pass \in Pass

-----------------------------------------------------------------------------
\* What the pass's inputs ask for.

Selected == pass.config.versions[pass.spec.version]

\* The target namespace; NewProvisioner's default is one of Namespaces.
Target == pass.spec.ns

Place(k) == IF k = "image" THEN Target ELSE Tenant

\* The Secrets a version entry and the ProviderConfig name: ImagePullSecretNames,
\* chartPullSecretNames and the CA bundle's name.
Named(offer, cfg, k) ==
  CASE k = "image" -> offer.image
    [] k = "chart" -> ({offer.secret} \union
                       IF cfg.reloader = None THEN {} ELSE {cfg.reloader.secret}) \ {None}
    [] k = "ca"    -> {cfg.ca} \ {None}

Wanted(k) == Named(Selected, pass.config, k)

\* The label by which replicas of a kind are found again.
Mark(k) == CASE k = "image" -> "managed" [] k = "chart" -> "chart" [] k = "ca" -> "ca"

\* Mutant: the Secret's name instead of its payload.
BundleName(data) == IF data \in NoCerts THEN None ELSE pass.held.name

\* ca.crt of the bundle that was read; the empty string when the key is missing.
CertOf(data) == IF data \in NoCerts THEN None ELSE data

VaultEnabled == pass.config.vault /\ pass.spec.vault

\* Mutants: the bundle is not parsed; a plugin without a registry is left out.
BuildableUnparsed == VaultEnabled => Selected.registry
BuildableWithout == pass.ca \notin BadCerts

\* buildValues fails without global.image.repository or on an unreadable bundle.
Buildable == (VaultEnabled => Selected.registry) /\ pass.ca \notin BadCerts

RepoFor(r) ==
  LET chart == IF r = Argo THEN Selected ELSE pass.config.reloader
  IN  [chart |-> chart.chart, secret |-> chart.secret, ca |-> pass.config.ca]

ReleaseFor(r) ==
  IF r = Argo
  THEN [values |-> Selected.chart, host |-> pass.spec.host,
        reload |-> pass.spec.host # None /\ pass.config.reloader # None,
        ca |-> pass.ca, vault |-> VaultEnabled, ns |-> Target]
  ELSE [values |-> pass.config.reloader.chart, host |-> None, reload |-> FALSE,
        ca |-> None, vault |-> FALSE, ns |-> Target]

\* Mutant: one managed-by value for everything.
OneOwner(r) == Argo

\* The managed-by label.  The Reloader's differs so that the framework's watch
\* does not take its failures for Argo CD's.
OwnerOf(r) == r

-----------------------------------------------------------------------------
\* Control flow of a pass.

Go(p) == pc' = p /\ pass' = pass

Finish(phase, reason, endpoint) ==
  /\ pc' = "report"
  /\ pass' = [pass EXCEPT !.report = [phase |-> phase, reason |-> reason,
                                      endpoint |-> endpoint]]

\* StatusFailed leaves the endpoint as it is.
Fail(reason) == Finish("Failed", reason, pass.report.endpoint)

\* Start on the replicas of a kind: Install copies, then prunes; Uninstall only
\* prunes.  RemoveCABundle deletes by name when the name is still configured.
ToCopy(k) == IF pass.path = "create" THEN Wanted(k) ELSE {}
ToDrop(k) == IF pass.path = "delete" /\ k = "ca" THEN {pass.config.ca} \ {None} ELSE {}

Begin(p, k) ==
  /\ pc' = IF ToCopy(k) # {} THEN "read" ELSE IF ToDrop(k) # {} THEN "drop" ELSE "list"
  /\ pass' = [p EXCEPT !.kind = k, !.left = ToCopy(k), !.doomed = ToDrop(k)]

\* Where Install and Uninstall go after the replicas of a kind.
AfterReplicas ==
  CASE pass.kind = "image" -> Begin(pass, "chart")
    [] pass.kind = "chart" -> IF pass.path = "create" THEN Begin(pass, "ca")
                              ELSE Go("deleteReloaderRelease")
    [] pass.kind = "ca"    -> Go(IF pass.path = "create" THEN "repo" ELSE "finalize")

-----------------------------------------------------------------------------
(* Replication of Secrets: image pull, chart pull, CA bundle. *)

\* Only image pull secrets leave the platform cluster, where the namespace may
\* not exist yet.
AfterRead(k) == IF k = "image" THEN "namespace" ELSE "write"

ReadSource ==
  /\ pc = "read"
  /\ \E n \in pass.left :
       IF source[n] = None THEN Fail("InstallFailed")
       ELSE /\ pc' = AfterRead(pass.kind)
            /\ pass' = [pass EXCEPT !.left = @ \ {n},
                                    !.held = [name |-> n, data |-> source[n]]]
  /\ UNCHANGED clusterVars

EnsureNamespace ==
  /\ pc = "namespace" /\ Go("write")
  /\ namespaces' = namespaces \union {Target}
  /\ UNCHANGED <<crVars, inputVars, secrets, fluxVars, mcpVars, boundVars>>

\* Mutant: create only, existing replicas are left as they are.
CreatedOnce(old, k, data) ==
  IF old = None THEN [data |-> data, labels |-> {"managed", Mark(k)}] ELSE old

\* The mutate function of CreateOrUpdate: labels of an existing object are kept.
Replica(old, k, data) ==
  [data |-> data, labels |-> {"managed", Mark(k)} \union
                             IF old = None THEN {} ELSE old.labels]

WriteReplica ==
  LET k == pass.kind
      key == <<Place(k), pass.held.name>>
  IN
  /\ pc = "write"
  /\ IF k = "image" /\ Target \notin namespaces
     THEN Fail("InstallFailed") /\ UNCHANGED secrets
     ELSE /\ secrets' = [secrets EXCEPT ![key] = Replica(@, k, pass.held.data)]
          /\ pc' = IF pass.left # {} THEN "read" ELSE IF k = "ca" THEN "drop" ELSE "list"
          /\ pass' = [pass EXCEPT !.held = None,
                                  !.ca = IF k = "ca" THEN CertOf(pass.held.data) ELSE @]
  /\ UNCHANGED <<crVars, inputVars, fluxVars, namespaces, mcpVars, boundVars>>

Marked(place, label) ==
  {n \in Names : secrets[<<place, n>>] # None /\ label \in secrets[<<place, n>>].labels}

\* Mutants: the prune goes by the managed-by value, or by the place alone.
FoundByManager(k) == Marked(Place(k), "managed")
FoundByPlace(k) == {n \in Names : secrets[<<Place(k), n>>] # None}

\* The replicas of a kind, found by its label.
Found(k) == Marked(Place(k), Mark(k))

\* Mutants: Uninstall keeps what is still configured; the Reloader's is forgotten.
KeptAlways(k) == Wanted(k)
KeptForArgo(k) == IF k = "chart" THEN ToCopy(k) \intersect {Selected.secret} ELSE ToCopy(k)

\* The replicas a prune keeps: those Install has just copied.
Kept(k) == ToCopy(k)

ListReplicas ==
  /\ pc = "list" /\ pc' = "drop"
  /\ pass' = [pass EXCEPT !.doomed = Found(pass.kind) \ Kept(pass.kind)]
  /\ UNCHANGED clusterVars

DropReplica ==
  /\ pc = "drop" /\ pc' = pc
  /\ \E n \in pass.doomed :
       /\ secrets' = [secrets EXCEPT ![<<Place(pass.kind), n>>] = None]
       /\ pass' = [pass EXCEPT !.doomed = @ \ {n}]
  /\ UNCHANGED <<crVars, inputVars, fluxVars, namespaces, mcpVars, boundVars>>

ReplicasDone ==
  /\ pc = "drop" /\ pass.doomed = {} /\ AfterReplicas
  /\ UNCHANGED clusterVars

-----------------------------------------------------------------------------
(* Install: the Flux objects. *)

\* CreateOrUpdate on an object that is being deleted leaves it being deleted.
ApplyRepo(r, here, next) ==
  /\ pc = here /\ Go(next)
  /\ repo' = [repo EXCEPT ![r] =
       [spec |-> RepoFor(r), terminating |-> @ # None /\ @.terminating]]
  /\ UNCHANGED <<crVars, inputVars, secrets, release, namespaces, mcpVars, boundVars>>

ApplyRelease(r, here, next) ==
  /\ pc = here /\ Go(next)
  /\ release' = [release EXCEPT ![r] =
       [spec |-> ReleaseFor(r), owner |-> OwnerOf(r),
        terminating |-> @ # None /\ @.terminating,
        ready |-> IF @ = None THEN "unknown" ELSE @.ready]]
  /\ UNCHANGED <<crVars, inputVars, secrets, repo, namespaces, mcpVars, boundVars>>

\* Absent resources are ignored.
DeleteRelease(r, here, next) ==
  /\ pc = here /\ Go(next)
  /\ release' = [release EXCEPT ![r] = Terminated(@)]
  /\ UNCHANGED <<crVars, inputVars, secrets, repo, namespaces, mcpVars, boundVars>>

\* Continue is where the pass goes next.
DeleteRepo(r, here, Continue) ==
  /\ pc = here /\ Continue
  /\ repo' = [repo EXCEPT ![r] = Terminated(@)]
  /\ UNCHANGED <<crVars, inputVars, secrets, release, namespaces, mcpVars, boundVars>>

\* Mutant: a Reloader that has been declared is left alone.
ReloaderStepOnce ==
  IF pass.config.reloader = None THEN "deleteReloaderRelease"
  ELSE IF release[Reloader] # None THEN "ready" ELSE "reloaderRepo"

ReloaderStep == IF pass.config.reloader # None THEN "reloaderRepo" ELSE "deleteReloaderRelease"

CannotBuild ==
  /\ pc = "release" /\ ~Buildable /\ Fail("InstallFailed")
  /\ UNCHANGED clusterVars

InstallFlux ==
  \/ ApplyRepo(Argo, "repo", "release")
  \/ pc = "release" /\ Buildable /\ ApplyRelease(Argo, "release", ReloaderStep)
  \/ CannotBuild
  \/ ApplyRepo(Reloader, "reloaderRepo", "reloaderRelease")
  \/ ApplyRelease(Reloader, "reloaderRelease", "ready")

(* Uninstall, and the Reloader's removal when it is switched off. *)

UninstallFlux ==
  \/ DeleteRelease(Argo, "deleteRelease", "deleteRepo")
  \/ DeleteRepo(Argo, "deleteRepo", Begin(pass, "image"))
  \/ DeleteRelease(Reloader, "deleteReloaderRelease", "deleteReloaderRepo")
  \/ DeleteRepo(Reloader, "deleteReloaderRepo",
                Go(IF pass.path = "create" THEN "ready" ELSE "checkRelease"))

\* Mutant: an object on its way out counts as gone.
GoneOrGoing(obj) == obj = None \/ obj.terminating

\* IsUninstalled: each object must be gone, one that is still being deleted is not.
Gone(obj) == obj = None

Checked(obj, here, Continue) ==
  /\ pc = here
  /\ IF Gone(obj) THEN Continue ELSE Go("report")
  /\ UNCHANGED clusterVars

\* Mutant: the Reloader's OCIRepository is not checked.
IsUninstalledPartly ==
  \/ Checked(release[Argo], "checkRelease", Go("checkRepo"))
  \/ Checked(repo[Argo], "checkRepo", Go("checkReloaderRelease"))
  \/ Checked(release[Reloader], "checkReloaderRelease", Begin(pass, "ca"))

\* RemoveCABundle follows the last check.
IsUninstalled ==
  \/ Checked(release[Argo], "checkRelease", Go("checkRepo"))
  \/ Checked(repo[Argo], "checkRepo", Go("checkReloaderRelease"))
  \/ Checked(release[Reloader], "checkReloaderRelease", Go("checkReloaderRepo"))
  \/ Checked(repo[Reloader], "checkReloaderRepo", Begin(pass, "ca"))

-----------------------------------------------------------------------------
(* Ready and Endpoint. *)

Ready ==
  /\ pc = "ready"
  /\ CASE release[Argo] = None -> Fail("ReadinessCheckFailed")
       [] release[Argo] # None /\ release[Argo].ready # "true" ->
            Finish("Progressing", "Reconciling", pass.report.endpoint)
       [] release[Argo] # None /\ release[Argo].ready = "true" ->
            IF pass.spec.host = None THEN Finish("Ready", "None", None) ELSE Go("tls")
  /\ UNCHANGED clusterVars

EndpointPending == Finish("Progressing", "EndpointPending", None)

ServerTLS ==
  /\ pc = "tls"
  /\ IF cert[Target] = None THEN EndpointPending ELSE Go("service")
  /\ UNCHANGED clusterVars

ServerService ==
  /\ pc = "service"
  /\ IF Target \notin address THEN EndpointPending ELSE Finish("Ready", "None", pass.spec.host)
  /\ UNCHANGED clusterVars

Replicate == ReadSource \/ EnsureNamespace \/ WriteReplica
             \/ ListReplicas \/ DropReplica \/ ReplicasDone
Observe   == Ready \/ ServerTLS \/ ServerService

ProvisionerStep == Replicate \/ InstallFlux \/ UninstallFlux \/ IsUninstalled \/ Observe

=============================================================================
