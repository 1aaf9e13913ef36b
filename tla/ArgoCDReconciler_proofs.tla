----------------------- MODULE ArgoCDReconciler_proofs -----------------------
(***************************************************************************)
(* Theorems about ArgoCDReconciler, for every value of its constants.      *)
(***************************************************************************)
EXTENDS ArgoCDReconciler, TLAPS

-----------------------------------------------------------------------------
\* The control state of a pass: which path each call belongs to, and what the
\* earlier calls have established about the pass's memory.
CreateOnly == {"annotation", "admit", "read", "namespace", "write", "repo", "release",
               "reloaderRepo", "reloaderRelease", "ready", "tls", "service"}
DeleteOnly == Kinds \union CheckSteps \union {"deleteRelease", "deleteRepo", "finalize"}

Admitted == pass.config.versions[pass.spec.version] \in Offer /\ Selected.chart \in Charts

PassConsistent ==
  pc # "idle" =>
    /\ pc \in CreateOnly => pass.path = "create"
    /\ pc \in DeleteOnly => pass.path = "delete"
    /\ pc \in {"namespace", "write"} => pass.held \in [name : Names, data : Contents]
    /\ pass.path = "create" /\ pc \notin {"annotation", "admit", "report"} => Admitted
    /\ pc \in {"reloaderRepo", "reloaderRelease"} => pass.config.reloader \in Addon

Typed == TypeOK /\ PassConsistent

-----------------------------------------------------------------------------
LEMMA TerminatedRepo ==
  ASSUME NEW obj \in Repo \union {None}
  PROVE  Terminated(obj) \in Repo \union {None}
BY NoneAssumption DEF Terminated, Repo

LEMMA TerminatedRelease ==
  ASSUME NEW obj \in Release \union {None}
  PROVE  Terminated(obj) \in Release \union {None}
BY NoneAssumption DEF Terminated, Release

\* Inputs of a pass have the types of the configuration they come from.
LEMMA NamedTyped ==
  ASSUME NEW offer \in Offer, NEW cfg \in Configs, NEW k \in SecretKinds
  PROVE  Named(offer, cfg, k) \subseteq Names
<1> USE ConstantsAssumption, NoneAssumption DEF Named, Offer, Addon, ProviderConfig
<1>0. cfg \in ProviderConfig OBVIOUS
<1>1. CASE k = "image" BY <1>1
<1>2. CASE k = "chart" BY <1>0, <1>2
<1>3. CASE k = "ca" BY <1>0, <1>3
<1> QED BY <1>1, <1>2, <1>3 DEF SecretKinds

\* Begin leads to one of the replication steps and keeps the pass well-formed.
LEMMA BeginTyped ==
  ASSUME NEW p \in Pass, pass \in Pass, NEW k \in SecretKinds,
         pass.path = "create" => Admitted, Begin(p, k)
  PROVE  /\ pass' = [p EXCEPT !.kind = k, !.left = ToCopy(k), !.doomed = ToDrop(k)]
         /\ pass' \in Pass
         /\ pc' \in {"read", "drop", "list"}
         /\ pass.path = "delete" => pc' \in {"drop", "list"}
<1>1. ToCopy(k) \in SUBSET Names
  BY NamedTyped DEF ToCopy, Wanted, Pass, Admitted, Selected
<1>2. ToDrop(k) \in SUBSET Names
  BY ConstantsAssumption DEF ToDrop, Pass, ProviderConfig
<1>3. pass' \in Pass
  BY <1>1, <1>2 DEF Begin, Pass
<1>4. pass.path = "delete" => ToCopy(k) = {}
  BY DEF ToCopy
<1> QED BY <1>3, <1>4 DEF Begin

-----------------------------------------------------------------------------
(* Type correctness, with the control state it depends on. *)

Core == ClustersTypeOK /\ ProvisionerTypeOK /\ PassConsistent

LEMMA CoreInit == Init => Core
<1> SUFFICES ASSUME Init PROVE Core OBVIOUS
<1> USE ConstantsAssumption DEF Init, ClustersInit
<1>1. secrets \in [Places \X Names -> Secret \union {None}]
  BY DEF Secret
<1>2. status \in ArgoCDStatus
  BY DEF NoStatus, ArgoCDStatus, Phases, Reasons
<1>3. /\ repo \in [Releases -> Repo \union {None}]
      /\ release \in [Releases -> Release \union {None}]
      /\ deployed \in [Releases -> ReleaseSpec \union {None}]
      /\ cert \in [Namespaces -> Hosts \union {None}]
  OBVIOUS
<1>4. edits \in 0..MaxEdits /\ faults \in 0..MaxFaults
  OBVIOUS
<1>5. ClustersTypeOK
  BY <1>1, <1>2, <1>3, <1>4 DEF ClustersTypeOK
<1>6. ProvisionerTypeOK /\ PassConsistent
  BY DEF ProvisionerTypeOK, PassConsistent
<1> QED BY <1>5, <1>6 DEF Core

LEMMA EnvironmentTyped ==
  ASSUME ClustersTypeOK, Environment
  PROVE  ClustersTypeOK'
<1> USE ConstantsAssumption, NoneAssumption
    DEF ClustersTypeOK, crVars, inputVars, objectVars, mcpVars, boundVars
<1>1. CASE TenantActs
  <2>1. CASE EditSpec BY <2>1 DEF EditSpec, Edit
  <2>2. CASE Annotate BY <2>2 DEF Annotate, Edit
  <2>3. CASE DeleteCR BY <2>3 DEF DeleteCR, Edit
  <2>4. CASE CreateCR
    BY <2>4 DEF CreateCR, Edit, NoStatus, ArgoCDStatus, Phases, Reasons
  <2>5. CASE CreateWorkload BY <2>5 DEF CreateWorkload, Edit
  <2>6. CASE DeleteWorkload BY <2>6 DEF DeleteWorkload
  <2> QED BY <1>1, <2>1, <2>2, <2>3, <2>4, <2>5, <2>6 DEF TenantActs
<1>2. CASE OperatorActs
  BY <1>2 DEF OperatorActs, EditConfig, EditSource, Edit
<1>3. ASSUME NEW r \in Releases, HelmSucceeds(r) PROVE ClustersTypeOK'
  <2>1. release[r] \in Release BY <1>3 DEF HelmSucceeds, Active
  <2> QED BY <1>3, <2>1 DEF HelmSucceeds, Release, ReleaseSpec
<1>4. ASSUME NEW r \in Releases, HelmFails(r) PROVE ClustersTypeOK'
  <2>1. release[r] \in Release BY <1>4 DEF HelmFails, Active
  <2> QED BY <1>4, <2>1 DEF HelmFails, Release
<1>5. ASSUME NEW r \in Releases, HelmUninstalled(r) PROVE ClustersTypeOK'
  BY <1>5 DEF HelmUninstalled
<1>6. ASSUME NEW r \in Releases, RepoCollected(r) PROVE ClustersTypeOK'
  BY <1>6 DEF RepoCollected
<1>7. CASE GardenerActs
  BY <1>7 DEF GardenerActs, IssueCertificate, AssignAddress, Withdraw
<1>8. CASE AddFinalizer BY <1>8 DEF AddFinalizer
<1>9. CASE CascadeFailure BY <1>9 DEF CascadeFailure
<1> QED
  BY <1>1, <1>2, <1>3, <1>4, <1>5, <1>6, <1>7, <1>8, <1>9 DEF Environment, FluxActs

\* What the steps of a pass have in common: the well-formedness of the pass is
\* kept by reporting, by going on to a call of the same path, by turning to the
\* next kind of replicas and by ending the pass.
PassOK == ProvisionerTypeOK /\ PassConsistent

Controls == {"annotation", "admit", "namespace", "write", "reloaderRepo", "reloaderRelease"}

LEMMA FinishOK ==
  ASSUME pc # "idle", PassOK, NEW phase \in Phases, NEW reason \in Reasons,
         NEW endpoint \in Hosts \union {None}, Finish(phase, reason, endpoint)
  PROVE  PassOK'
BY DEF PassOK, Finish, ProvisionerTypeOK, PassConsistent, Pass, ArgoCDStatus, CreateOnly,
       DeleteOnly, Kinds, CheckSteps, PassSteps

LEMMA FailOK ==
  ASSUME pc # "idle", PassOK, NEW reason \in Reasons, Fail(reason)
  PROVE  PassOK'
<1>1. pass.report.endpoint \in Hosts \union {None}
  BY DEF PassOK, ProvisionerTypeOK, Pass, ArgoCDStatus
<1> QED BY <1>1, FinishOK DEF Fail, Phases

LEMMA GoOK ==
  ASSUME pc # "idle", PassOK, NEW p \in PassSteps \ Controls, Go(p),
         p \in CreateOnly => pass.path = "create",
         p \in DeleteOnly => pass.path = "delete",
         pass.path = "create" /\ p # "report" => Admitted
  PROVE  PassOK'
<1>1. pc' # "idle" /\ pc' = p /\ pass' = pass
  BY DEF Go, PassSteps, Kinds, SecretSteps, ReloaderSteps, CheckSteps
<1>2. Admitted' = Admitted
  BY <1>1 DEF Admitted, Selected
<1> QED BY <1>1, <1>2 DEF PassOK, ProvisionerTypeOK, PassConsistent, Controls

LEMMA BeginOK ==
  ASSUME pc # "idle", PassOK, NEW p \in Pass, NEW k \in SecretKinds,
         p.path = pass.path, p.spec = pass.spec, p.config = pass.config,
         pass.path = "create" => Admitted, Begin(p, k)
  PROVE  PassOK'
<1>1. pass \in Pass BY DEF PassOK, ProvisionerTypeOK
<1>2. /\ pass' = [p EXCEPT !.kind = k, !.left = ToCopy(k), !.doomed = ToDrop(k)]
      /\ pass' \in Pass
      /\ pc' \in {"read", "drop", "list"}
      /\ pass.path = "delete" => pc' \in {"drop", "list"}
  BY <1>1, BeginTyped
<1>3. pass'.path = pass.path /\ pass'.spec = pass.spec /\ pass'.config = pass.config
  BY <1>2 DEF Pass
<1>4. Admitted' = Admitted
  BY <1>3 DEF Admitted, Selected
<1>5. pass.path \in {"create", "delete"} BY <1>1 DEF Pass
<1> QED
  BY <1>2, <1>3, <1>4, <1>5
  DEF PassOK, ProvisionerTypeOK, PassConsistent, CreateOnly, DeleteOnly, Kinds, CheckSteps,
      PassSteps, SecretSteps

LEMMA RestOK == Rest => PassOK'
BY DEF Rest, PassOK, ProvisionerTypeOK, PassConsistent

\* A step that changes neither path nor inputs of the pass and goes on to another
\* call of the replication.
LEMMA CopyStepOK ==
  ASSUME pc \in SecretSteps, PassOK, pc' \in SecretSteps, pass' \in Pass,
         pass'.path = pass.path, pass'.spec = pass.spec, pass'.config = pass.config,
         pc' \in CreateOnly => pc \in CreateOnly,
         pc' \in {"namespace", "write"} => pass'.held \in [name : Names, data : Contents]
  PROVE  PassOK'
<1>1. Admitted' = Admitted BY DEF Admitted, Selected
<1> QED
  BY <1>1 DEF PassOK, ProvisionerTypeOK, PassConsistent, CreateOnly, DeleteOnly, Kinds,
              CheckSteps, PassSteps, SecretSteps

-----------------------------------------------------------------------------
LEMMA ReplicateTyped ==
  ASSUME Core, Replicate
  PROVE  Core'
<1> USE DEF crVars, inputVars, objectVars, mcpVars, boundVars, fluxVars, clusterVars, SecretSteps
<1>0. /\ pc \in SecretSteps /\ pc # "idle" /\ pass \in Pass
      /\ PassConsistent /\ ClustersTypeOK /\ PassOK
      /\ pass.kind \in SecretKinds
  BY DEF Core, PassOK, Replicate, ReadSource, EnsureNamespace, WriteReplica, ListReplicas,
         DropReplica, ReplicasDone, ProvisionerTypeOK, Pass
<1>1. CASE ReadSource
  <2>1. ClustersTypeOK' BY <1>0, <1>1 DEF ReadSource, ClustersTypeOK
  <2>2. PICK n \in pass.left :
          IF source[n] = None THEN Fail("InstallFailed")
          ELSE /\ pc' = AfterRead(pass.kind)
               /\ pass' = [pass EXCEPT !.left = @ \ {n},
                                       !.held = [name |-> n, data |-> source[n]]]
    BY <1>1 DEF ReadSource
  <2>3. n \in Names /\ source[n] \in Contents \union {None}
    BY <1>0, ConstantsAssumption DEF Pass, ClustersTypeOK
  <2>4. CASE source[n] = None
    BY <1>0, <2>1, <2>2, <2>4, FailOK DEF Reasons, Core, PassOK
  <2>5. CASE source[n] # None
    <3>1. pc = "read" /\ pc' \in {"namespace", "write"}
      BY <1>1, <2>2, <2>5 DEF ReadSource, AfterRead
    <3>2. pass' = [pass EXCEPT !.left = @ \ {n}, !.held = [name |-> n, data |-> source[n]]]
      BY <2>2, <2>5
    <3>3. /\ pass' \in Pass /\ pass'.path = pass.path /\ pass'.spec = pass.spec
          /\ pass'.config = pass.config /\ pass'.held \in [name : Names, data : Contents]
      BY <1>0, <2>3, <2>5, <3>2 DEF Pass
    <3> QED BY <1>0, <2>1, <3>1, <3>3, CopyStepOK DEF Core, PassOK, CreateOnly
  <2> QED BY <2>4, <2>5
<1>2. CASE EnsureNamespace
  <2>1. ClustersTypeOK'
    <3>1. Target \in Namespaces
      BY <1>0, ConstantsAssumption DEF Target, Pass, ArgoCDSpec
    <3> QED BY <1>0, <1>2, <3>1 DEF EnsureNamespace, ClustersTypeOK
  <2>2. pc = "namespace" /\ pc' = "write" /\ pass' = pass
    BY <1>2 DEF EnsureNamespace, Go
  <2> QED BY <1>0, <2>1, <2>2, CopyStepOK DEF Core, PassOK, CreateOnly, PassConsistent
<1>3. CASE WriteReplica
  <2>1. pass.held \in [name : Names, data : Contents] /\ pc = "write"
    BY <1>0, <1>3 DEF PassConsistent, WriteReplica
  <2>2. CASE pass.kind = "image" /\ Target \notin namespaces
    <3>1. ClustersTypeOK' /\ Fail("InstallFailed")
      BY <1>0, <1>3, <2>2 DEF WriteReplica, ClustersTypeOK
    <3> QED BY <1>0, <3>1, FailOK DEF Reasons, Core, PassOK
  <2>3. CASE ~(pass.kind = "image" /\ Target \notin namespaces)
    <3> DEFINE key == <<Place(pass.kind), pass.held.name>>
    <3>1. /\ secrets' = [secrets EXCEPT ![key] = Replica(@, pass.kind, pass.held.data)]
          /\ pc' = IF pass.left # {} THEN "read" ELSE IF pass.kind = "ca" THEN "drop" ELSE "list"
          /\ pass' = [pass EXCEPT !.held = None,
                                  !.ca = IF pass.kind = "ca" THEN CertOf(pass.held.data) ELSE @]
          /\ UNCHANGED <<crVars, inputVars, fluxVars, namespaces, mcpVars, boundVars>>
      BY <1>3, <2>3 DEF WriteReplica
    <3>2. key \in Places \X Names
      BY <1>0, <2>1, ConstantsAssumption DEF Place, Places, Target, Pass, ArgoCDSpec
    <3>3. Replica(secrets[key], pass.kind, pass.held.data) \in Secret
      <4>1. secrets[key] \in Secret \union {None} BY <1>0, <3>2 DEF ClustersTypeOK
      <4>2. Mark(pass.kind) \in Labels BY <1>0 DEF Mark, SecretKinds, Labels
      <4>3. (IF secrets[key] = None THEN {} ELSE secrets[key].labels) \subseteq Labels
        BY <4>1 DEF Secret
      <4> QED BY <2>1, <4>2, <4>3 DEF Replica, Secret, Labels
    <3>4. secrets' \in [Places \X Names -> Secret \union {None}]
      BY <1>0, <3>1, <3>2, <3>3 DEF ClustersTypeOK
    <3>5. ClustersTypeOK' BY <1>0, <3>1, <3>4 DEF ClustersTypeOK
    <3>6. /\ pass' \in Pass /\ pass'.path = pass.path /\ pass'.spec = pass.spec
          /\ pass'.config = pass.config
      BY <1>0, <2>1, <3>1 DEF Pass, CertOf
    <3> QED BY <1>0, <2>1, <3>1, <3>5, <3>6, CopyStepOK DEF Core, PassOK, CreateOnly
  <2> QED BY <2>2, <2>3
<1>4. CASE ListReplicas
  <2>1. ClustersTypeOK' BY <1>0, <1>4 DEF ListReplicas, ClustersTypeOK
  <2>2. Found(pass.kind) \in SUBSET Names BY DEF Found, Marked
  <2>3. /\ pass' \in Pass /\ pass'.path = pass.path /\ pass'.spec = pass.spec
        /\ pass'.config = pass.config /\ pc' = "drop"
    BY <1>0, <1>4, <2>2 DEF ListReplicas, Pass
  <2> QED BY <1>0, <2>1, <2>3, CopyStepOK DEF Core, PassOK, CreateOnly
<1>5. CASE DropReplica
  <2>1. PICK n \in pass.doomed :
          /\ secrets' = [secrets EXCEPT ![<<Place(pass.kind), n>>] = None]
          /\ pass' = [pass EXCEPT !.doomed = @ \ {n}]
    BY <1>5 DEF DropReplica
  <2>2. secrets' \in [Places \X Names -> Secret \union {None}]
    BY <1>0, <2>1 DEF ClustersTypeOK
  <2>3. ClustersTypeOK' BY <1>0, <1>5, <2>2 DEF DropReplica, ClustersTypeOK
  <2>4. /\ pass' \in Pass /\ pass'.path = pass.path /\ pass'.spec = pass.spec
        /\ pass'.config = pass.config /\ pc = "drop" /\ pc' = "drop"
    BY <1>0, <1>5, <2>1 DEF DropReplica, Pass
  <2> QED BY <1>0, <2>3, <2>4, CopyStepOK DEF Core, PassOK, CreateOnly
<1>6. CASE ReplicasDone
  <2>1. ClustersTypeOK' BY <1>0, <1>6 DEF ReplicasDone, ClustersTypeOK
  <2>2. pc = "drop" /\ (pass.path = "create" => Admitted) /\ pass.path \in {"create", "delete"}
    BY <1>0, <1>6 DEF ReplicasDone, PassConsistent, Pass
  <2>3. AfterReplicas BY <1>6 DEF ReplicasDone
  <2>4. CASE Begin(pass, "chart")
    BY <1>0, <2>1, <2>2, <2>4, BeginOK DEF SecretKinds, Core, PassOK
  <2>5. CASE Begin(pass, "ca")
    BY <1>0, <2>1, <2>2, <2>5, BeginOK DEF SecretKinds, Core, PassOK
  <2>6. CASE pass.path = "create" /\ Go("repo")
    BY <1>0, <2>1, <2>2, <2>6, GoOK
    DEF Core, PassOK, PassSteps, Controls, DeleteOnly, Kinds, CheckSteps
  <2>7. CASE pass.path = "delete" /\ (Go("finalize") \/ Go("deleteReloaderRelease"))
    BY <1>0, <2>1, <2>2, <2>7, GoOK
    DEF Core, PassOK, PassSteps, Controls, DeleteOnly, CreateOnly, Kinds, CheckSteps,
        ReloaderSteps
  <2> QED BY <1>0, <2>2, <2>3, <2>4, <2>5, <2>6, <2>7 DEF AfterReplicas, SecretKinds
<1> QED BY <1>1, <1>2, <1>3, <1>4, <1>5, <1>6 DEF Replicate

-----------------------------------------------------------------------------
LEMMA RepoForTyped ==
  ASSUME pass \in Pass, Admitted, NEW r \in Releases, r = Reloader => pass.config.reloader \in Addon
  PROVE  RepoFor(r) \in RepoSpec
<1>1. pass.config.ca \in Names \union {None}
  BY ConstantsAssumption DEF Pass, ProviderConfig
<1> QED BY <1>1 DEF RepoFor, RepoSpec, Admitted, Selected, Offer, Addon, Releases

LEMMA ReleaseForTyped ==
  ASSUME pass \in Pass, Admitted, NEW r \in Releases, r = Reloader => pass.config.reloader \in Addon
  PROVE  ReleaseFor(r) \in ReleaseSpec
<1>1. /\ pass.spec.host \in Hosts \union {None} /\ pass.spec.ns \in Namespaces
      /\ pass.ca \in Contents \union {None}
      /\ pass.config.vault \in BOOLEAN /\ pass.spec.vault \in BOOLEAN
  BY ConstantsAssumption DEF Pass, ProviderConfig, ArgoCDSpec
<1>2. VaultEnabled \in BOOLEAN /\ Target \in Namespaces
  BY <1>1 DEF VaultEnabled, Target
<1>3. CASE r = Argo
  BY <1>1, <1>2, <1>3 DEF ReleaseFor, ReleaseSpec, Admitted, Selected
<1>4. CASE r = Reloader /\ r # Argo
  BY <1>2, <1>4 DEF ReleaseFor, ReleaseSpec, Addon
<1> QED BY <1>3, <1>4 DEF Releases

LEMMA FluxTyped ==
  ASSUME Core, InstallFlux \/ UninstallFlux \/ IsUninstalled \/ Observe
  PROVE  Core'
<1> USE DEF crVars, inputVars, objectVars, mcpVars, boundVars, fluxVars, clusterVars, Core
<1>0. pc # "idle" /\ pass \in Pass /\ PassOK
  BY DEF InstallFlux, UninstallFlux, IsUninstalled, Observe, ApplyRepo, ApplyRelease,
         CannotBuild, DeleteRelease, DeleteRepo, Checked, Ready, ServerTLS, ServerService,
         ProvisionerTypeOK, PassOK
<1>1. pass.path \in {"create", "delete"} /\ pass.report.endpoint \in Hosts \union {None}
  BY <1>0 DEF Pass, ArgoCDStatus
<1>2. pass.config.reloader \in Addon \union {None}
  BY <1>0, ConstantsAssumption DEF Pass, ProviderConfig
<1>3. CASE pc = "repo" /\ ApplyRepo(Argo, "repo", "release")
  <2>1. pass.path = "create" /\ Admitted
    BY <1>0, <1>3 DEF PassOK, PassConsistent, CreateOnly
  <2>2. ClustersTypeOK'
    BY <1>0, <1>3, <2>1, RepoForTyped, NoneAssumption
    DEF ApplyRepo, ClustersTypeOK, Repo, Releases, Argo, Reloader
  <2> QED
    BY <1>0, <1>3, <2>1, <2>2, GoOK
    DEF ApplyRepo, PassOK, PassSteps, Controls, DeleteOnly, Kinds, CheckSteps
<1>4. CASE pc = "release" /\ Buildable /\ ApplyRelease(Argo, "release", ReloaderStep)
  <2>1. pass.path = "create" /\ Admitted
    BY <1>0, <1>4 DEF PassOK, PassConsistent, CreateOnly
  <2>2. ReleaseFor(Argo) \in ReleaseSpec
    BY <1>0, <2>1, ReleaseForTyped DEF Releases, Argo, Reloader
  <2>3. ClustersTypeOK'
    BY <1>4, <2>2, NoneAssumption
    DEF ApplyRelease, ClustersTypeOK, Release, Releases, OwnerOf
  <2>4. CASE pass.config.reloader = None
    BY <1>0, <1>4, <2>1, <2>3, <2>4, GoOK
    DEF ApplyRelease, ReloaderStep, PassOK, PassSteps, Controls, ReloaderSteps, DeleteOnly,
        Kinds, CheckSteps
  <2>5. CASE pass.config.reloader # None
    <3>1. pc' = "reloaderRepo" /\ pass' = pass /\ Admitted' = Admitted
      BY <1>4, <2>5 DEF ApplyRelease, ReloaderStep, Go, Admitted, Selected
    <3> QED
      BY <1>0, <1>2, <2>1, <2>3, <2>5, <3>1
      DEF PassOK, ProvisionerTypeOK, PassConsistent, PassSteps, ReloaderSteps, DeleteOnly,
          Kinds, CheckSteps
  <2> QED BY <2>4, <2>5
<1>5. CASE CannotBuild
  BY <1>0, <1>5, FailOK DEF CannotBuild, Reasons, PassOK, ClustersTypeOK
<1>6. CASE ApplyRepo(Reloader, "reloaderRepo", "reloaderRelease")
  <2>1. pc = "reloaderRepo" /\ pass.path = "create" /\ Admitted /\ pass.config.reloader \in Addon
    BY <1>0, <1>6 DEF ApplyRepo, PassOK, PassConsistent, CreateOnly
  <2>2. ClustersTypeOK'
    BY <1>0, <1>6, <2>1, RepoForTyped, NoneAssumption
    DEF ApplyRepo, ClustersTypeOK, Repo, Releases
  <2>3. pc' = "reloaderRelease" /\ pass' = pass /\ Admitted' = Admitted
    BY <1>6 DEF ApplyRepo, Go, Admitted, Selected
  <2> QED
    BY <1>0, <2>1, <2>2, <2>3
    DEF PassOK, ProvisionerTypeOK, PassConsistent, PassSteps, ReloaderSteps, DeleteOnly,
        Kinds, CheckSteps
<1>7. CASE ApplyRelease(Reloader, "reloaderRelease", "ready")
  <2>1. pc = "reloaderRelease" /\ pass.path = "create" /\ Admitted /\ pass.config.reloader \in Addon
    BY <1>0, <1>7 DEF ApplyRelease, PassOK, PassConsistent, CreateOnly
  <2>2. ReleaseFor(Reloader) \in ReleaseSpec
    BY <1>0, <2>1, ReleaseForTyped DEF Releases
  <2>3. ClustersTypeOK'
    BY <1>7, <2>2, NoneAssumption
    DEF ApplyRelease, ClustersTypeOK, Release, Releases, OwnerOf
  <2> QED
    BY <1>0, <1>7, <2>1, <2>3, GoOK
    DEF ApplyRelease, PassOK, PassSteps, Controls, DeleteOnly, Kinds, CheckSteps
<1>8. CASE DeleteRelease(Argo, "deleteRelease", "deleteRepo")
  <2>1. ClustersTypeOK' BY <1>8, TerminatedRelease DEF DeleteRelease, ClustersTypeOK, Releases
  <2> QED
    BY <1>0, <1>8, <2>1, GoOK
    DEF DeleteRelease, PassOK, PassConsistent, PassSteps, Controls, DeleteOnly, CreateOnly
<1>9. CASE DeleteRepo(Argo, "deleteRepo", Begin(pass, "image"))
  <2>1. ClustersTypeOK' BY <1>9, TerminatedRepo DEF DeleteRepo, ClustersTypeOK, Releases
  <2> QED
    BY <1>0, <1>9, <2>1, BeginOK
    DEF DeleteRepo, PassOK, PassConsistent, DeleteOnly, SecretKinds
<1>10. CASE DeleteRelease(Reloader, "deleteReloaderRelease", "deleteReloaderRepo")
  <2>1. ClustersTypeOK' BY <1>10, TerminatedRelease DEF DeleteRelease, ClustersTypeOK, Releases
  <2> QED
    BY <1>0, <1>10, <2>1, GoOK
    DEF DeleteRelease, PassOK, PassConsistent, PassSteps, ReloaderSteps, Controls, DeleteOnly,
        CreateOnly, Kinds, CheckSteps
<1>11. CASE DeleteRepo(Reloader, "deleteReloaderRepo",
                      Go(IF pass.path = "create" THEN "ready" ELSE "checkRelease"))
  <2>1. ClustersTypeOK' BY <1>11, TerminatedRepo DEF DeleteRepo, ClustersTypeOK, Releases
  <2>2. CASE pass.path = "create"
    BY <1>0, <1>11, <2>1, <2>2, GoOK
    DEF DeleteRepo, PassOK, PassConsistent, PassSteps, Controls, DeleteOnly, Kinds, CheckSteps
  <2>3. CASE pass.path = "delete"
    BY <1>0, <1>11, <2>1, <2>3, GoOK
    DEF DeleteRepo, PassOK, PassSteps, Controls, CheckSteps, CreateOnly
  <2> QED BY <1>1, <2>2, <2>3
<1>12. CASE IsUninstalled
  <2>1. ClustersTypeOK' BY <1>12 DEF IsUninstalled, Checked, ClustersTypeOK
  <2>2. pass.path = "delete"
    BY <1>0, <1>12 DEF IsUninstalled, Checked, PassOK, PassConsistent, DeleteOnly, CheckSteps
  <2>3. \/ Go("report") \/ Go("checkRepo") \/ Go("checkReloaderRelease")
        \/ Go("checkReloaderRepo") \/ Begin(pass, "ca")
    BY <1>12 DEF IsUninstalled, Checked
  <2>4. CASE Begin(pass, "ca")
    BY <1>0, <2>1, <2>2, <2>4, BeginOK DEF PassOK, SecretKinds
  <2>5. CASE Go("report") \/ Go("checkRepo") \/ Go("checkReloaderRelease") \/ Go("checkReloaderRepo")
    BY <1>0, <2>1, <2>2, <2>5, GoOK DEF PassOK, PassSteps, Controls, CheckSteps, CreateOnly
  <2> QED BY <2>3, <2>4, <2>5
<1>13. CASE Observe
  <2>1. ClustersTypeOK'
    BY <1>13 DEF Observe, Ready, ServerTLS, ServerService, ClustersTypeOK
  <2>2. pass.path = "create" /\ Admitted
    BY <1>0, <1>13
    DEF Observe, Ready, ServerTLS, ServerService, PassOK, PassConsistent, CreateOnly
  <2>3. pass.spec.host \in Hosts \union {None}
    BY <1>0, ConstantsAssumption DEF Pass, ArgoCDSpec
  <2>4. ASSUME NEW phase \in Phases, NEW reason \in Reasons,
               NEW endpoint \in Hosts \union {None}, Finish(phase, reason, endpoint)
        PROVE  Core'
    BY <1>0, <2>1, <2>4, FinishOK DEF PassOK
  <2>5. CASE Go("tls") \/ Go("service")
    BY <1>0, <2>1, <2>2, <2>5, GoOK
    DEF PassOK, PassSteps, Controls, DeleteOnly, Kinds, CheckSteps
  <2>6. CASE Fail("ReadinessCheckFailed")
    BY <1>0, <2>1, <2>6, FailOK DEF PassOK, Reasons
  <2>7. \/ Fail("ReadinessCheckFailed") \/ Go("tls") \/ Go("service")
        \/ Finish("Progressing", "Reconciling", pass.report.endpoint)
        \/ Finish("Ready", "None", None) \/ Finish("Progressing", "EndpointPending", None)
        \/ Finish("Ready", "None", pass.spec.host)
    <3>1. release[Argo] = None \/ release[Argo].ready = "true" \/ release[Argo].ready # "true"
      OBVIOUS
    <3> QED BY <1>13, <3>1 DEF Observe, Ready, ServerTLS, ServerService, EndpointPending
  <2> QED BY <1>1, <2>3, <2>4, <2>5, <2>6, <2>7 DEF Phases, Reasons
<1> QED
  BY <1>3, <1>4, <1>5, <1>6, <1>7, <1>8, <1>9, <1>10, <1>11, <1>12, <1>13
  DEF InstallFlux, UninstallFlux, ApplyRepo

-----------------------------------------------------------------------------
LEMMA NewPassTyped ==
  ASSUME ClustersTypeOK, NEW path \in {"create", "delete"}, NEW report \in ArgoCDStatus
  PROVE  NewPass(path, report) \in Pass
BY DEF NewPass, Pass, ClustersTypeOK, SecretKinds

LEMMA ReconcilerTyped ==
  ASSUME Core,
         \/ StartCreate \/ ClearAnnotation \/ Admit \/ StartDelete
         \/ CountUserArgoCDResources \/ WriteStatus \/ ReleaseFinalizer
         \/ CallFails \/ Crash
  PROVE  Core'
<1> USE DEF crVars, inputVars, objectVars, mcpVars, boundVars, clusterVars, Core
<1>0. ClustersTypeOK /\ PassOK /\ status \in ArgoCDStatus
      /\ (pc # "idle" => pass \in Pass /\ pass.report \in ArgoCDStatus)
  BY DEF PassOK, ClustersTypeOK, ProvisionerTypeOK, Pass
<1>1. CASE StartCreate
  <2>1. pass' \in Pass /\ pass'.path = "create" /\ pc' \in {"annotation", "admit"}
    BY <1>0, <1>1, NewPassTyped DEF StartCreate, NewPass
  <2> QED
    BY <1>0, <1>1, <2>1
    DEF StartCreate, ClustersTypeOK, ProvisionerTypeOK, PassConsistent, PassSteps, DeleteOnly,
        Kinds, CheckSteps
<1>2. CASE ClearAnnotation
  <2>1. pc = "annotation" /\ pass.path = "create" /\ pc' = "admit"
    BY <1>2 DEF ClearAnnotation, PassConsistent, CreateOnly
  <2>2. pass' \in Pass /\ pass'.path = "create"
    BY <1>0, <1>2, <2>1 DEF ClearAnnotation, Pass, ClustersTypeOK
  <2> QED
    BY <1>0, <1>2, <2>1, <2>2
    DEF ClearAnnotation, ClustersTypeOK, ProvisionerTypeOK, PassConsistent, PassSteps,
        DeleteOnly, Kinds, CheckSteps
<1>3. CASE Admit
  <2> DEFINE p == [pass EXCEPT !.report.phase = "Progressing", !.report.reason = "Reconciling"]
  <2>1. ClustersTypeOK' BY <1>0, <1>3 DEF Admit, ClustersTypeOK
  <2>2. pc = "admit" /\ pass \in Pass BY <1>0, <1>3 DEF Admit
  <2>3. CASE \/ Fail("InvalidVersion") \/ Fail("InvalidExposure") \/ Fail("InstallFailed")
    BY <1>0, <2>1, <2>2, <2>3, FailOK DEF Reasons, PassOK
  <2>4. CASE Selected # None /\ Selected.chart # None /\ Begin(p, "image")
    <3>1. Admitted
      <4>1. pass.config.versions[pass.spec.version] \in Offer \union {None}
        BY <2>2, ConstantsAssumption DEF Pass, ProviderConfig, ArgoCDSpec
      <4> QED BY <2>4, <4>1 DEF Admitted, Selected, Offer
    <3>2. p \in Pass /\ p.path = pass.path /\ p.spec = pass.spec /\ p.config = pass.config
      BY <1>0, <2>2 DEF Pass, ArgoCDStatus, Phases, Reasons
    <3> HIDE DEF p
    <3> QED BY <1>0, <2>1, <2>2, <2>4, <3>1, <3>2, BeginOK DEF SecretKinds, PassOK
  <2> QED BY <1>3, <2>3, <2>4 DEF Admit
<1>4. CASE StartDelete
  <2>1. [status EXCEPT !.phase = "Terminating", !.reason = "Terminating"] \in ArgoCDStatus
    BY <1>0 DEF ArgoCDStatus, Phases, Reasons
  <2>2. pass' \in Pass /\ pass'.path = "delete" /\ pc' = "Application"
    BY <1>0, <1>4, <2>1, NewPassTyped DEF StartDelete, NewPass
  <2> QED
    BY <1>0, <1>4, <2>2
    DEF StartDelete, ClustersTypeOK, ProvisionerTypeOK, PassConsistent, PassSteps, CreateOnly,
        Kinds
<1>5. CASE CountUserArgoCDResources
  <2>1. pc \in Kinds /\ pass.path = "delete" /\ pass \in Pass
    BY <1>0, <1>5
    DEF CountUserArgoCDResources, PassConsistent, DeleteOnly, ProvisionerTypeOK, Kinds
  <2>2. (pass.found \/ Counts(pc)) \in BOOLEAN BY <2>1 DEF Counts, Pass
  <2>3. pass' \in Pass /\ pass'.path = "delete"
    BY <1>5, <2>1, <2>2 DEF CountUserArgoCDResources, Pass
  <2>4. pc' \in {"ApplicationSet", "AppProject", "report", "deleteRelease"}
    BY <1>5, <2>1 DEF CountUserArgoCDResources, NextKind, Kinds
  <2> QED
    BY <1>0, <1>5, <2>3, <2>4
    DEF CountUserArgoCDResources, ClustersTypeOK, ProvisionerTypeOK, PassConsistent, PassSteps,
        CreateOnly, Kinds
<1>6. CASE WriteStatus
  BY <1>0, <1>6, RestOK DEF WriteStatus, ClustersTypeOK, PassOK
<1>7. CASE ReleaseFinalizer
  BY <1>0, <1>7, RestOK
  DEF ReleaseFinalizer, ClustersTypeOK, PassOK, NoStatus, ArgoCDStatus, Phases, Reasons
<1>8. CASE CallFails
  <2>1. ClustersTypeOK'
    BY <1>0, <1>8, ConstantsAssumption DEF CallFails, ClustersTypeOK
  <2>2. pc # "idle" /\ pc \notin {"idle", "admit"} BY <1>8 DEF CallFails, Calls
  <2>3. CASE Rest BY <2>1, <2>3, RestOK DEF PassOK
  <2>4. CASE Swallowed /\ ((Go("reloaderRelease") /\ pc = "reloaderRepo") \/ Go("ready"))
    <3>1. pass.path = "create" /\ Admitted
      BY <1>0, <2>2, <2>4 DEF Swallowed, PassConsistent, ReloaderSteps
    <3>2. CASE Go("ready")
      BY <1>0, <2>1, <2>2, <3>1, <3>2, GoOK
      DEF PassOK, PassSteps, Controls, DeleteOnly, Kinds, CheckSteps
    <3>3. CASE Go("reloaderRelease") /\ pc = "reloaderRepo"
      <4>1. pc' = "reloaderRelease" /\ pass' = pass /\ Admitted' = Admitted
        BY <3>3 DEF Go, Admitted, Selected
      <4> QED
        BY <1>0, <2>1, <3>1, <3>3, <4>1
        DEF PassOK, ProvisionerTypeOK, PassConsistent, PassSteps, ReloaderSteps, DeleteOnly,
            Kinds, CheckSteps
    <3> QED BY <2>4, <3>2, <3>3
  <2>5. CASE Go("report")
    BY <1>0, <2>1, <2>2, <2>5, GoOK
    DEF PassOK, PassSteps, Controls, CreateOnly, DeleteOnly, Kinds, CheckSteps
  <2>6. CASE Fail(FailureReason)
    <3>1. FailureReason \in Reasons BY DEF FailureReason, Reasons
    <3> QED BY <1>0, <2>1, <2>2, <2>6, <3>1, FailOK DEF PassOK
  <2>7. Rest \/ (Swallowed /\ ((Go("reloaderRelease") /\ pc = "reloaderRepo") \/ Go("ready")))
        \/ Go("report") \/ Fail(FailureReason)
    <3>1. CASE pc \in {"report", "finalize"} BY <1>8, <3>1 DEF CallFails
    <3>2. CASE pc \notin {"report", "finalize"} /\ Swallowed BY <1>8, <3>2 DEF CallFails
    <3>3. CASE pc \notin {"report", "finalize"} /\ ~Swallowed BY <1>8, <3>3 DEF CallFails
    <3> QED BY <3>1, <3>2, <3>3
  <2> QED BY <2>3, <2>4, <2>5, <2>6, <2>7
<1>9. CASE Crash
  BY <1>0, <1>9, RestOK, ConstantsAssumption DEF Crash, ClustersTypeOK, PassOK
<1> QED BY <1>1, <1>2, <1>3, <1>4, <1>5, <1>6, <1>7, <1>8, <1>9

LEMMA CoreStep == Core /\ [Next]_vars => Core'
<1> SUFFICES ASSUME Core, [Next]_vars PROVE Core' OBVIOUS
<1>1. CASE Work
  BY <1>1, ReplicateTyped, FluxTyped, ReconcilerTyped DEF Work, ProvisionerStep
<1>2. CASE CallFails \/ Crash BY <1>2, ReconcilerTyped
<1>3. CASE Environment /\ UNCHANGED passVars
  <2>1. ClustersTypeOK' BY <1>3, EnvironmentTyped DEF Core
  <2> QED
    BY <1>3, <2>1 DEF Core, passVars, ProvisionerTypeOK, PassConsistent, Admitted, Selected
<1>4. CASE UNCHANGED vars
  BY <1>4
  DEF vars, clusterVars, passVars, crVars, inputVars, objectVars, mcpVars, boundVars, Core,
      ClustersTypeOK, ProvisionerTypeOK, PassConsistent, Admitted, Selected
<1> QED BY <1>1, <1>2, <1>3, <1>4 DEF Next

CoreInv == Core /\ late \subseteq Kinds

LEMMA CoreInvStep == CoreInv /\ [Next]_vars => CoreInv'
<1> SUFFICES ASSUME CoreInv, [Next]_vars PROVE CoreInv' OBVIOUS
<1>1. Core' BY CoreStep DEF CoreInv
<1>2. workloads' \subseteq Kinds BY <1>1 DEF Core, ClustersTypeOK
<1>3. late' \subseteq Kinds
  <2>1. CASE Witness BY <1>2, <2>1 DEF Witness
  <2>2. CASE UNCHANGED vars BY <2>2 DEF vars, CoreInv
  <2> QED BY <2>1, <2>2 DEF Next
<1> QED BY <1>1, <1>3 DEF CoreInv

\* Every state of the specification is well-typed, and every call of a pass finds
\* in memory what the calls before it were to leave there: a selected version
\* with a chart, the source Secret that was read, the Reloader's configuration.
THEOREM TypeCorrect == Spec => [](TypeOK /\ PassConsistent)
<1>1. Init => CoreInv
  BY CoreInit DEF Init, CoreInv
<1>2. CoreInv /\ [Next]_vars => CoreInv'
  BY CoreInvStep
<1>3. CoreInv => TypeOK /\ PassConsistent
  BY DEF CoreInv, Core, TypeOK
<1> QED BY <1>1, <1>2, <1>3, PTL DEF Spec

-----------------------------------------------------------------------------
(* Deletion: the inductive invariant.  None of the properties is inductive:    *)
(* they rest on what the delete pass has seen so far and on who may run while  *)
(* the resource is in which phase.                                             *)

AllGone ==
  \A r \in Releases : repo[r] = None /\ release[r] = None

\* A pass runs only for a resource that has its finalizer, a delete pass only
\* after the deletion; without the finalizer there is nothing to clean up.
PhaseOK ==
  /\ cr \in {"absent", "fresh"} => pc = "idle" /\ AllGone
  /\ pc # "idle" => cr \in {"live", "deleting"}
  /\ pc # "idle" /\ pass.path = "delete" => cr = "deleting"

\* The calls of a delete pass that follow each check of IsUninstalled.
PastChecks ==
  /\ pc # "idle" /\ pass.path = "delete"
  /\ (pc = "finalize") \/ (pc \in SecretSteps /\ pass.kind = "ca")

ChecksPassed ==
  /\ PastChecks => AllGone
  /\ pc \in {"checkRepo", "checkReloaderRelease", "checkReloaderRepo"} => release[Argo] = None
  /\ pc \in {"checkReloaderRelease", "checkReloaderRepo"} => repo[Argo] = None
  /\ pc = "checkReloaderRepo" => release[Reloader] = None

\* Flux keeps a HelmRelease until its installation is removed.
InstalledDeclared == \A r \in Releases : deployed[r] # None => release[r] # None

Staying(obj) == obj # None => ~obj.terminating

\* Argo CD's objects are only deleted after the resource.
NoneLeaving ==
  cr = "live" \/ (pc # "idle" /\ pass.path = "create") =>
    Staying(repo[Argo]) /\ Staying(release[Argo])

DeletionInv == PhaseOK /\ ChecksPassed /\ InstalledDeclared /\ NoneLeaving

LEMMA DeletionInit == Init => DeletionInv
BY DEF Init, ClustersInit, DeletionInv, PhaseOK, AllGone, ChecksPassed, PastChecks, SecretSteps,
       InstalledDeclared, NoneLeaving, Staying, Releases

LEMMA BeginFields ==
  ASSUME NEW p \in Pass, NEW k, Begin(p, k)
  PROVE  pass'.path = p.path /\ pass'.kind = k /\ pc' \in {"read", "drop", "list"}
BY DEF Begin, Pass

\* What IsUninstalled has seen is kept by whatever a pass does next.
LEMMA NothingChecked ==
  ASSUME pc' \notin CheckSteps,
         \/ pass'.path = "create"
         \/ pc' \notin SecretSteps \union {"finalize"}
         \/ pc' \in SecretSteps /\ pass'.kind # "ca"
  PROVE  ChecksPassed'
BY DEF ChecksPassed, PastChecks, CheckSteps, SecretSteps

LEMMA ChecksReplicate ==
  ASSUME Core, ChecksPassed, Replicate
  PROVE  ChecksPassed' /\ pass'.path = pass.path /\ pc' # "idle"
<1> USE DEF crVars, inputVars, objectVars, mcpVars, boundVars, fluxVars, clusterVars
<1>0. pc \in SecretSteps /\ pass \in Pass /\ PassConsistent /\ UNCHANGED <<repo, release>>
  BY DEF Core, Replicate, ReadSource, EnsureNamespace, WriteReplica, ListReplicas,
         DropReplica, ReplicasDone, ProvisionerTypeOK, SecretSteps
<1>1. CASE ReadSource \/ EnsureNamespace \/ WriteReplica
  <2>1. pass.path = "create"
    BY <1>0, <1>1 DEF ReadSource, EnsureNamespace, WriteReplica, PassConsistent, CreateOnly
  <2>2. pc' \in SecretSteps \union {"report"} /\ pass'.path = "create"
    BY <1>0, <1>1, <2>1
    DEF ReadSource, EnsureNamespace, WriteReplica, Fail, Finish, Go, AfterRead, SecretSteps, Pass
  <2> QED BY <2>1, <2>2, NothingChecked DEF SecretSteps, CheckSteps
<1>2. CASE ListReplicas \/ DropReplica
  <2>1. pc' = "drop" /\ pass'.path = pass.path /\ pass'.kind = pass.kind
    BY <1>0, <1>2 DEF ListReplicas, DropReplica, Pass
  <2> QED BY <1>0, <2>1 DEF ChecksPassed, PastChecks, AllGone, SecretSteps
<1>3. CASE ReplicasDone
  <2>1. pass.kind \in {"image", "chart", "ca"} /\ pass.path \in {"create", "delete"}
    BY <1>0 DEF Pass, SecretKinds
  <2>2. \/ Begin(pass, "chart") \/ (Begin(pass, "ca") /\ pass.path = "create")
        \/ Go("deleteReloaderRelease") \/ Go("repo")
        \/ Go("finalize") /\ pass.path = "delete" /\ pass.kind = "ca"
    BY <1>3, <2>1 DEF ReplicasDone, AfterReplicas
  <2>3. CASE Begin(pass, "chart") \/ (Begin(pass, "ca") /\ pass.path = "create")
    <3>1. /\ pass'.path = pass.path /\ pc' \in {"read", "drop", "list"}
          /\ pass'.kind = "chart" \/ pass.path = "create"
      BY <1>0, <2>3, BeginFields
    <3> QED BY <3>1, NothingChecked DEF SecretSteps, CheckSteps
  <2>4. CASE Go("deleteReloaderRelease") \/ Go("repo")
    BY <2>4, NothingChecked DEF Go, SecretSteps, CheckSteps
  <2>5. CASE Go("finalize") /\ pass.path = "delete" /\ pass.kind = "ca"
    <3>1. AllGone BY <1>0, <2>5 DEF ChecksPassed, PastChecks, SecretSteps
    <3> QED BY <1>0, <2>5, <3>1 DEF Go, ChecksPassed, AllGone
  <2> QED BY <2>2, <2>3, <2>4, <2>5
<1> QED BY <1>1, <1>2, <1>3 DEF Replicate

LEMMA ChecksFlux ==
  ASSUME Core, ChecksPassed, InstallFlux \/ UninstallFlux \/ IsUninstalled \/ Observe
  PROVE  ChecksPassed' /\ pass'.path = pass.path /\ pc' # "idle"
<1> USE DEF crVars, inputVars, objectVars, mcpVars, boundVars, fluxVars, clusterVars
<1>0. pc # "idle" /\ pass \in Pass /\ PassConsistent
  BY DEF Core, InstallFlux, UninstallFlux, IsUninstalled, Observe, ApplyRepo, ApplyRelease,
         CannotBuild, DeleteRelease, DeleteRepo, Checked, Ready, ServerTLS, ServerService,
         ProvisionerTypeOK
<1>1. ASSUME NEW p \in ReloaderSteps \union {"release", "deleteRepo", "ready", "tls", "service",
                                             "checkRelease", "report"}, Go(p)
      PROVE  ChecksPassed' /\ pass'.path = pass.path /\ pc' # "idle"
  BY <1>1 DEF Go, ChecksPassed, PastChecks, SecretSteps, ReloaderSteps
<1>2. ASSUME NEW phase, NEW reason, NEW endpoint, Finish(phase, reason, endpoint)
      PROVE  ChecksPassed' /\ pass'.path = pass.path /\ pc' # "idle"
  BY <1>0, <1>2, NothingChecked DEF Finish, Pass, CheckSteps, SecretSteps
<1>3. CASE InstallFlux
  <2>1. \/ \E p \in ReloaderSteps \union {"release", "ready"} : Go(p)
        \/ Fail("InstallFailed")
    BY <1>3
    DEF InstallFlux, ApplyRepo, ApplyRelease, CannotBuild, ReloaderStep, ReloaderSteps
  <2> QED BY <1>1, <1>2, <2>1 DEF Fail
<1>4. CASE UninstallFlux
  <2>1. \/ \E p \in ReloaderSteps \union {"deleteRepo", "ready", "checkRelease"} : Go(p)
        \/ Begin(pass, "image")
    BY <1>4 DEF UninstallFlux, DeleteRelease, DeleteRepo, ReloaderSteps
  <2>2. CASE Begin(pass, "image")
    <3>1. pass'.path = pass.path /\ pass'.kind = "image" /\ pc' \in {"read", "drop", "list"}
      BY <1>0, <2>2, BeginFields
    <3> QED BY <3>1, NothingChecked DEF SecretSteps, CheckSteps
  <2> QED BY <1>1, <2>1, <2>2
<1>5. CASE IsUninstalled
  <2>1. UNCHANGED <<repo, release>> BY <1>5 DEF IsUninstalled, Checked
  <2>2. \/ Go("report")
        \/ Go("checkRepo") /\ release[Argo] = None
        \/ Go("checkReloaderRelease") /\ release[Argo] = None /\ repo[Argo] = None
        \/ /\ Go("checkReloaderRepo") /\ release[Argo] = None /\ repo[Argo] = None
           /\ release[Reloader] = None
        \/ Begin(pass, "ca") /\ AllGone
    BY <1>5 DEF IsUninstalled, Checked, Gone, ChecksPassed, AllGone, Releases
  <2>3. CASE Begin(pass, "ca") /\ AllGone
    <3>1. pass'.path = pass.path /\ pc' \in {"read", "drop", "list"}
      BY <1>0, <2>3, BeginFields DEF SecretKinds
    <3> QED BY <2>1, <2>3, <3>1 DEF ChecksPassed, AllGone
  <2>4. CASE ~(Begin(pass, "ca") /\ AllGone)
    BY <2>1, <2>2, <2>4 DEF Go, ChecksPassed, PastChecks, SecretSteps
  <2> QED BY <2>3, <2>4
<1>6. CASE Observe
  <2>1. \/ Fail("ReadinessCheckFailed") \/ Go("tls") \/ Go("service")
        \/ Finish("Progressing", "Reconciling", pass.report.endpoint)
        \/ Finish("Ready", "None", None) \/ Finish("Progressing", "EndpointPending", None)
        \/ Finish("Ready", "None", pass.spec.host)
    <3>1. release[Argo] = None \/ release[Argo].ready = "true" \/ release[Argo].ready # "true"
      OBVIOUS
    <3> QED BY <1>6, <3>1 DEF Observe, Ready, ServerTLS, ServerService, EndpointPending
  <2> QED BY <1>1, <1>2, <2>1 DEF Fail
<1> QED BY <1>3, <1>4, <1>5, <1>6

LEMMA ChecksReconciler ==
  ASSUME Core, ChecksPassed,
         \/ StartCreate \/ ClearAnnotation \/ Admit \/ StartDelete
         \/ CountUserArgoCDResources \/ WriteStatus \/ ReleaseFinalizer
         \/ CallFails \/ Crash
  PROVE  /\ ChecksPassed'
         /\ pc # "idle" /\ pc' # "idle" => pass'.path = pass.path
<1> USE DEF crVars, inputVars, objectVars, mcpVars, boundVars, fluxVars, clusterVars
<1>0. PassConsistent /\ (pc # "idle" => pass \in Pass)
  BY DEF Core, ProvisionerTypeOK
<1>1. CASE StartCreate \/ StartDelete
  <2>1. pc = "idle" /\ pc' \in {"annotation", "admit", "Application"}
    BY <1>1 DEF StartCreate, StartDelete
  <2> QED BY <2>1, NothingChecked DEF SecretSteps, CheckSteps
<1>2. CASE ClearAnnotation
  <2>1. pc # "idle" /\ pass'.path = pass.path /\ pc' = "admit"
    BY <1>0, <1>2 DEF ClearAnnotation, Pass
  <2> QED BY <2>1, NothingChecked DEF SecretSteps, CheckSteps
<1>3. CASE Admit
  <2> DEFINE p == [pass EXCEPT !.report.phase = "Progressing", !.report.reason = "Reconciling"]
  <2>1. pc = "admit" /\ pass \in Pass /\ pass.path = "create"
    BY <1>0, <1>3 DEF Admit, PassConsistent, CreateOnly
  <2>2. \/ Fail("InvalidVersion") \/ Fail("InvalidExposure") \/ Fail("InstallFailed")
        \/ Begin(p, "image")
    BY <1>3 DEF Admit
  <2>3. p \in Pass /\ p.path = "create"
    BY <2>1 DEF Pass, ArgoCDStatus, Phases, Reasons
  <2>4. pass'.path = "create" /\ pc' \in {"report", "read", "drop", "list"}
    <3>1. CASE Begin(p, "image")
      <4> HIDE DEF p
      <4> QED BY <2>3, <3>1, BeginFields
    <3>2. CASE ~Begin(p, "image")
      BY <2>1, <2>2, <3>2 DEF Fail, Finish, Pass
    <3> QED BY <3>1, <3>2
  <2> QED BY <2>1, <2>4, NothingChecked DEF CheckSteps
<1>4. CASE CountUserArgoCDResources
  <2>1. pc \in Kinds /\ pass \in Pass /\ pass'.path = pass.path
    BY <1>0, <1>4 DEF CountUserArgoCDResources, Pass, Kinds
  <2>2. pc' \in {"ApplicationSet", "AppProject", "report", "deleteRelease"}
    BY <1>4, <2>1 DEF CountUserArgoCDResources, NextKind, Kinds
  <2> QED BY <2>1, <2>2, NothingChecked DEF SecretSteps, CheckSteps
<1>5. CASE WriteStatus \/ ReleaseFinalizer \/ Crash
  BY <1>5, NothingChecked DEF WriteStatus, ReleaseFinalizer, Crash, Rest, SecretSteps, CheckSteps
<1>6. CASE CallFails
  <2>1. Rest \/ Go("reloaderRelease") \/ Go("ready") \/ Go("report") \/ Fail(FailureReason)
    <3>1. CASE pc \in {"report", "finalize"} BY <1>6, <3>1 DEF CallFails
    <3>2. CASE pc \notin {"report", "finalize"} /\ Swallowed BY <1>6, <3>2 DEF CallFails
    <3>3. CASE pc \notin {"report", "finalize"} /\ ~Swallowed BY <1>6, <3>3 DEF CallFails
    <3> QED BY <3>1, <3>2, <3>3
  <2>2. \/ pc' = "idle"
        \/ pc' \in {"reloaderRelease", "ready", "report"} /\ pass'.path = pass.path
    BY <1>0, <1>6, <2>1 DEF CallFails, Calls, Rest, Go, Fail, Finish, Pass
  <2> QED BY <2>2, NothingChecked DEF SecretSteps, CheckSteps
<1> QED BY <1>1, <1>2, <1>3, <1>4, <1>5, <1>6

\* A step within a pass that leaves the objects alone.
LEMMA WithinPass ==
  ASSUME DeletionInv, UNCHANGED <<cr, repo, release, deployed>>,
         pc # "idle", pc' # "idle", pass'.path = pass.path,
         ChecksPassed'
  PROVE  DeletionInv'
BY DEF DeletionInv, PhaseOK, AllGone, InstalledDeclared, NoneLeaving, Staying

LEMMA EndOfPass ==
  ASSUME DeletionInv, UNCHANGED <<cr, repo, release, deployed>>, Rest
  PROVE  DeletionInv'
BY DEF DeletionInv, PhaseOK, AllGone, InstalledDeclared, NoneLeaving, Staying, ChecksPassed,
       PastChecks, Rest, SecretSteps

LEMMA DeletionReplicate ==
  ASSUME Core, DeletionInv, Replicate
  PROVE  DeletionInv'
<1>1. pc # "idle" /\ UNCHANGED <<cr, repo, release, deployed>>
  BY DEF Replicate, ReadSource, EnsureNamespace, WriteReplica, ListReplicas, DropReplica,
         ReplicasDone, crVars, inputVars, objectVars, mcpVars, boundVars, fluxVars, clusterVars
<1>2. ChecksPassed' /\ pass'.path = pass.path /\ pc' # "idle"
  BY ChecksReplicate DEF DeletionInv
<1> QED BY <1>1, <1>2, WithinPass

LEMMA NotNone ==
  ASSUME NEW obj \in Release
  PROVE  obj # None /\ Terminated(obj) # None /\ [obj EXCEPT !.ready = "true"] # None
         /\ [obj EXCEPT !.ready = "false"] # None
BY NoneAssumption DEF Terminated, Release

LEMMA DeletionFlux ==
  ASSUME Core, DeletionInv, InstallFlux \/ UninstallFlux \/ IsUninstalled \/ Observe
  PROVE  DeletionInv'
<1> USE DEF crVars, inputVars, objectVars, mcpVars, boundVars, fluxVars, clusterVars
<1>0. /\ pc # "idle" /\ pass \in Pass /\ pass.path \in {"create", "delete"}
      /\ PassConsistent /\ cr \in {"live", "deleting"} /\ UNCHANGED <<cr, deployed>>
      /\ repo \in [Releases -> Repo \union {None}]
      /\ release \in [Releases -> Release \union {None}]
      /\ Argo \in Releases /\ Reloader \in Releases /\ Argo # Reloader
  BY DEF Core, InstallFlux, UninstallFlux, IsUninstalled, Observe, ApplyRepo, ApplyRelease,
         CannotBuild, DeleteRelease, DeleteRepo, Checked, Ready, ServerTLS, ServerService,
         ProvisionerTypeOK, Pass, DeletionInv, PhaseOK, ClustersTypeOK, Releases, Argo, Reloader
<1>c. ChecksPassed' /\ pass'.path = pass.path /\ pc' # "idle"
  BY ChecksFlux DEF DeletionInv
<1>1. ASSUME NEW r \in Releases, NEW here \in {"repo", "reloaderRepo"}, NEW next,
             ApplyRepo(r, here, next)
      PROVE  DeletionInv'
  <2>1. pass.path = "create" /\ release' = release
    BY <1>0, <1>1 DEF ApplyRepo, PassConsistent, CreateOnly
  <2>2. Staying(repo'[Argo])
    BY <1>0, <1>1, <2>1 DEF ApplyRepo, DeletionInv, NoneLeaving, Staying
  <2> QED
    BY <1>0, <1>c, <2>1, <2>2 DEF DeletionInv, PhaseOK, InstalledDeclared, NoneLeaving
<1>2. ASSUME NEW r \in Releases, NEW here \in {"release", "reloaderRelease"}, NEW next,
             here = "release" => r = Argo, ApplyRelease(r, here, next)
      PROVE  DeletionInv'
  <2>1. /\ pass.path = "create" /\ repo' = repo /\ Admitted
        /\ r = Reloader => pass.config.reloader \in Addon
    BY <1>0, <1>2 DEF ApplyRelease, PassConsistent, CreateOnly
  <2>2. Staying(release'[Argo])
    BY <1>0, <1>2, <2>1 DEF ApplyRelease, DeletionInv, NoneLeaving, Staying
  <2>3. release'[r] # None
    <3>1. ReleaseFor(r) \in ReleaseSpec BY <1>0, <2>1, ReleaseForTyped
    <3>2. release'[r] \in Release
      BY <1>0, <1>2, <3>1 DEF ApplyRelease, Release, OwnerOf
    <3> QED BY <3>2, NotNone
  <2>4. InstalledDeclared'
    BY <1>0, <1>2, <2>3 DEF ApplyRelease, DeletionInv, InstalledDeclared
  <2> QED BY <1>0, <1>c, <2>1, <2>2, <2>4 DEF DeletionInv, PhaseOK, NoneLeaving
<1>3. CASE UNCHANGED <<repo, release>>
  BY <1>0, <1>c, <1>3, WithinPass
<1>4. ASSUME NEW r \in Releases, NEW here, NEW next,
             here = "deleteRelease" \/ r = Reloader, DeleteRelease(r, here, next)
      PROVE  DeletionInv'
  <2>1. InstalledDeclared' /\ repo' = repo
    BY <1>0, <1>4, NotNone, NoneAssumption
    DEF DeleteRelease, DeletionInv, InstalledDeclared, Terminated
  <2>2. (pass.path = "delete" /\ cr = "deleting") \/ release'[Argo] = release[Argo]
    BY <1>0, <1>4 DEF DeleteRelease, PassConsistent, DeleteOnly, DeletionInv, PhaseOK
  <2> QED BY <1>0, <1>c, <2>1, <2>2 DEF DeletionInv, PhaseOK, NoneLeaving
<1>5. ASSUME NEW r \in Releases, NEW here,
             here = "deleteRepo" \/ r = Reloader,
             pc = here, repo' = [repo EXCEPT ![r] = Terminated(@)], release' = release
      PROVE  DeletionInv'
  <2>1. (pass.path = "delete" /\ cr = "deleting") \/ repo'[Argo] = repo[Argo]
    BY <1>0, <1>5 DEF PassConsistent, DeleteOnly, DeletionInv, PhaseOK
  <2> QED
    BY <1>0, <1>c, <1>5, <2>1 DEF DeletionInv, PhaseOK, NoneLeaving, InstalledDeclared
<1>6. CASE InstallFlux
  BY <1>0, <1>1, <1>2, <1>3, <1>6 DEF InstallFlux, CannotBuild
<1>7. CASE UninstallFlux
  BY <1>0, <1>4, <1>5, <1>7 DEF UninstallFlux, DeleteRepo
<1>8. CASE IsUninstalled \/ Observe
  BY <1>3, <1>8 DEF IsUninstalled, Checked, Observe, Ready, ServerTLS, ServerService
<1> QED BY <1>6, <1>7, <1>8

LEMMA DeletionReconciler ==
  ASSUME Core, DeletionInv,
         \/ StartCreate \/ ClearAnnotation \/ Admit \/ StartDelete
         \/ CountUserArgoCDResources \/ WriteStatus \/ ReleaseFinalizer
         \/ CallFails \/ Crash
  PROVE  DeletionInv'
<1> USE DEF crVars, inputVars, objectVars, mcpVars, boundVars, fluxVars, clusterVars
<1>1. ChecksPassed' /\ (pc # "idle" /\ pc' # "idle" => pass'.path = pass.path)
  BY ChecksReconciler DEF DeletionInv
<1>2. CASE StartCreate \/ StartDelete
  <2>1. /\ UNCHANGED <<cr, repo, release, deployed>>
        /\ \/ cr = "live" /\ pass'.path = "create"
           \/ cr = "deleting" /\ pass'.path = "delete"
    BY <1>2 DEF StartCreate, StartDelete, NewPass
  <2> QED
    BY <1>1, <2>1 DEF DeletionInv, PhaseOK, InstalledDeclared, NoneLeaving, Staying
<1>3. CASE ClearAnnotation \/ Admit \/ CountUserArgoCDResources \/ CallFails \/ Crash \/ WriteStatus
  <2>1. pc # "idle" /\ UNCHANGED <<cr, repo, release, deployed>>
    BY <1>3
    DEF ClearAnnotation, Admit, CountUserArgoCDResources, CallFails, Calls, Crash, WriteStatus,
        Kinds
  <2>2. Rest \/ pc' # "idle"
    <3>1. CASE Crash \/ WriteStatus BY <3>1 DEF Crash, WriteStatus
    <3>2. CASE ClearAnnotation \/ Admit
      BY <3>2 DEF ClearAnnotation, Admit, Fail, Finish, Begin
    <3>3. CASE CountUserArgoCDResources
      BY <3>3 DEF CountUserArgoCDResources, NextKind, Kinds
    <3>4. CASE CallFails
      <4>1. CASE pc \in {"report", "finalize"} BY <3>4, <4>1 DEF CallFails
      <4>2. CASE pc \notin {"report", "finalize"} /\ Swallowed
        BY <3>4, <4>2 DEF CallFails, Go
      <4>3. CASE pc \notin {"report", "finalize"} /\ ~Swallowed
        BY <3>4, <4>3 DEF CallFails, Go, Fail, Finish
      <4> QED BY <4>1, <4>2, <4>3
    <3> QED BY <1>3, <3>1, <3>2, <3>3, <3>4
  <2> QED BY <1>1, <2>1, <2>2, WithinPass, EndOfPass
<1>4. CASE ReleaseFinalizer
  <2>1. AllGone
    BY <1>4
    DEF ReleaseFinalizer, Core, PassConsistent, DeleteOnly, DeletionInv, ChecksPassed, PastChecks
  <2>2. cr' = "absent" /\ pc' = "idle" /\ UNCHANGED <<repo, release, deployed>>
    BY <1>4 DEF ReleaseFinalizer, Rest
  <2> QED
    BY <1>1, <2>1, <2>2 DEF DeletionInv, PhaseOK, AllGone, InstalledDeclared, NoneLeaving
<1> QED BY <1>2, <1>3, <1>4

LEMMA DeletionEnvironment ==
  ASSUME Core, DeletionInv, Environment, UNCHANGED passVars
  PROVE  DeletionInv'
<1> USE DEF crVars, inputVars, objectVars, mcpVars, boundVars, fluxVars
<1>0. /\ UNCHANGED <<pc, pass>>
      /\ repo \in [Releases -> Repo \union {None}]
      /\ release \in [Releases -> Release \union {None}]
      /\ deployed \in [Releases -> ReleaseSpec \union {None}]
  BY DEF passVars, Core, ClustersTypeOK
<1>1. CASE /\ UNCHANGED <<repo, release, deployed>>
           /\ \/ cr' = cr
              \/ cr = "fresh" /\ cr' \in {"absent", "live"}
              \/ cr = "live" /\ cr' = "deleting"
              \/ cr = "absent" /\ cr' = "fresh"
  BY <1>0, <1>1
  DEF DeletionInv, PhaseOK, AllGone, ChecksPassed, PastChecks, InstalledDeclared, NoneLeaving,
      Staying, Releases
<1>2. CASE TenantActs \/ OperatorActs \/ GardenerActs \/ AddFinalizer \/ CascadeFailure
  BY <1>1, <1>2
  DEF TenantActs, EditSpec, Annotate, DeleteCR, CreateCR, CreateWorkload, DeleteWorkload,
      OperatorActs, EditConfig, EditSource, GardenerActs, IssueCertificate, AssignAddress,
      Withdraw, AddFinalizer, CascadeFailure
<1>3. ASSUME NEW r \in Releases, HelmSucceeds(r) \/ HelmFails(r) PROVE DeletionInv'
  <2>1. /\ release[r] \in Release /\ ~release[r].terminating
        /\ UNCHANGED <<cr, repo>> /\ \A q \in Releases \ {r} : deployed'[q] = deployed[q]
    BY <1>0, <1>3 DEF HelmSucceeds, HelmFails, Active
  <2>2. /\ \A q \in Releases \ {r} : release'[q] = release[q]
        /\ release'[r] # None /\ ~release'[r].terminating
    BY <1>0, <1>3, <2>1, NotNone DEF HelmSucceeds, HelmFails, Release
  <2>3. release[r] # None BY <2>1, NotNone
  <2>4. PhaseOK' BY <1>0, <2>1, <2>3 DEF DeletionInv, PhaseOK, AllGone
  <2>5. ChecksPassed'
    BY <1>0, <2>1, <2>2, <2>3 DEF DeletionInv, ChecksPassed, PastChecks, AllGone, Releases
  <2>6. InstalledDeclared' BY <2>1, <2>2 DEF DeletionInv, InstalledDeclared
  <2>7. NoneLeaving'
    BY <1>0, <2>1, <2>2 DEF DeletionInv, NoneLeaving, Staying, Releases
  <2> QED BY <2>4, <2>5, <2>6, <2>7 DEF DeletionInv
<1>4. ASSUME NEW r \in Releases, HelmUninstalled(r) \/ RepoCollected(r) PROVE DeletionInv'
  <2>1. /\ UNCHANGED cr
        /\ \A q \in Releases : release'[q] \in {release[q], None}
        /\ \A q \in Releases : repo'[q] \in {repo[q], None}
        /\ \A q \in Releases : deployed'[q] = None
                               \/ (deployed'[q] = deployed[q] /\ release'[q] = release[q])
    BY <1>0, <1>4 DEF HelmUninstalled, RepoCollected
  <2>2. PhaseOK' BY <1>0, <2>1 DEF DeletionInv, PhaseOK, AllGone
  <2>3. ChecksPassed'
    BY <1>0, <2>1 DEF DeletionInv, ChecksPassed, PastChecks, AllGone, Releases
  <2>4. InstalledDeclared' BY <2>1 DEF DeletionInv, InstalledDeclared
  <2>5. NoneLeaving'
    BY <1>0, <2>1 DEF DeletionInv, NoneLeaving, Staying, Releases
  <2> QED BY <2>2, <2>3, <2>4, <2>5 DEF DeletionInv
<1> QED BY <1>2, <1>3, <1>4 DEF Environment, FluxActs

LEMMA DeletionStep == CoreInv /\ DeletionInv /\ [Next]_vars => DeletionInv'
<1> SUFFICES ASSUME Core, DeletionInv, [Next]_vars PROVE DeletionInv' BY DEF CoreInv
<1>1. CASE Work
  BY <1>1, DeletionReplicate, DeletionFlux, DeletionReconciler DEF Work, ProvisionerStep
<1>2. CASE CallFails \/ Crash BY <1>2, DeletionReconciler
<1>3. CASE Environment /\ UNCHANGED passVars BY <1>3, DeletionEnvironment
<1>4. CASE UNCHANGED vars
  BY <1>4
  DEF vars, clusterVars, passVars, crVars, objectVars, mcpVars, DeletionInv, PhaseOK, AllGone,
      ChecksPassed, PastChecks, InstalledDeclared, NoneLeaving, Staying
<1> QED BY <1>1, <1>2, <1>3, <1>4 DEF Next

LEMMA DeletionInvariant == Spec => [](CoreInv /\ DeletionInv)
<1>1. Init => CoreInv /\ DeletionInv
  BY CoreInit, DeletionInit DEF CoreInv, Init
<1>2. CoreInv /\ DeletionInv /\ [Next]_vars => CoreInv' /\ DeletionInv'
  BY CoreInvStep, DeletionStep
<1> QED BY <1>1, <1>2, PTL DEF Spec

\* When the ArgoCD resource is gone, nothing it declared and nothing Flux installed
\* is left, for any number of versions, Secrets, edits, failures and restarts.
THEOREM FinalizerSafe == Spec => []FinalizerReleasedClean
<1>1. DeletionInv => FinalizerReleasedClean
  BY DEF DeletionInv, PhaseOK, AllGone, InstalledDeclared, FinalizerReleasedClean
<1> QED BY <1>1, DeletionInvariant, PTL

\* Install never works on objects of Argo CD's that are being deleted.
THEOREM NeverAdopts == Spec => []NeverAdoptsTerminating
<1>1. DeletionInv => NeverAdoptsTerminating
  BY DEF DeletionInv, NoneLeaving, Staying, NeverAdoptsTerminating
<1> QED BY <1>1, DeletionInvariant, PTL

-----------------------------------------------------------------------------
(* Steps by themselves, whatever else is running: who declares Flux objects,   *)
(* and when the resource may be gone.                                          *)

\* A create pass is running.
Creating == pc # "idle" /\ pass.path = "create"

DeclaresNothing ==
  \A r \in Releases : /\ repo[r] = None => repo'[r] = None
                      /\ release[r] = None => release'[r] = None

LEMMA ChecksKept ==
  ASSUME ChecksPassed, DeclaresNothing, UNCHANGED <<pc, pass>>
  PROVE  ChecksPassed'
BY DEF ChecksPassed, PastChecks, AllGone, DeclaresNothing, Releases

LEMMA WorkTyped == ASSUME Core, Work PROVE Core'
BY ReplicateTyped, FluxTyped, ReconcilerTyped DEF Work, ProvisionerStep

\* Only a create pass declares, and it is started for a live resource only.
LEMMA WorkAlone ==
  ASSUME Core, ChecksPassed, InstalledDeclared, Work
  PROVE  /\ ChecksPassed' /\ InstalledDeclared'
         /\ DeclaresNothing \/ Creating
         /\ Creating' => Creating \/ (cr = "live" /\ cr' = "live")
         /\ cr' = cr \/ (PastChecks /\ pc' = "idle" /\ UNCHANGED <<repo, release>>)
<1> USE DEF crVars, inputVars, objectVars, mcpVars, boundVars, fluxVars, clusterVars
<1>0. /\ PassConsistent /\ (pc # "idle" => pass \in Pass)
      /\ repo \in [Releases -> Repo \union {None}]
      /\ release \in [Releases -> Release \union {None}]
  BY DEF Core, ProvisionerTypeOK, ClustersTypeOK
<1>1. CASE ProvisionerStep
  <2>1. ChecksPassed' /\ pass'.path = pass.path /\ pc' # "idle"
    BY <1>1, ChecksReplicate, ChecksFlux DEF ProvisionerStep
  <2>2. pc # "idle" /\ UNCHANGED <<cr, deployed>>
    BY <1>1
    DEF ProvisionerStep, Replicate, ReadSource, EnsureNamespace, WriteReplica, ListReplicas,
        DropReplica, ReplicasDone, InstallFlux, UninstallFlux, IsUninstalled, Observe, ApplyRepo,
        ApplyRelease, CannotBuild, DeleteRelease, DeleteRepo, Checked, Ready, ServerTLS,
        ServerService
  <2>3. InstalledDeclared' /\ (DeclaresNothing \/ Creating)
    <3>1. ASSUME UNCHANGED release PROVE InstalledDeclared'
      BY <2>2, <3>1 DEF InstalledDeclared
    <3>2. ASSUME NEW r \in Releases, NEW here \in {"release", "reloaderRelease"}, NEW next,
                 here = "release" => r = Argo, ApplyRelease(r, here, next)
          PROVE  InstalledDeclared' /\ Creating
      <4>1. pass.path = "create" /\ Admitted /\ (r = Reloader => pass.config.reloader \in Addon)
        BY <1>0, <3>2 DEF ApplyRelease, PassConsistent, CreateOnly, Argo, Reloader
      <4>2. ReleaseFor(r) \in ReleaseSpec BY <1>0, <2>2, <4>1, ReleaseForTyped
      <4>3. release'[r] \in Release
        BY <1>0, <3>2, <4>2 DEF ApplyRelease, Release, OwnerOf
      <4>4. InstalledDeclared'
        BY <1>0, <2>2, <3>2, <4>3, NotNone DEF ApplyRelease, InstalledDeclared
      <4> QED BY <2>2, <4>1, <4>4 DEF Creating
    <3>3. ASSUME NEW r \in Releases, NEW here \in {"repo", "reloaderRepo"}, NEW next,
                 ApplyRepo(r, here, next)
          PROVE  InstalledDeclared' /\ Creating
      BY <1>0, <2>2, <3>1, <3>3 DEF ApplyRepo, Creating, PassConsistent, CreateOnly
    <3>4. ASSUME NEW r \in Releases, NEW here, NEW next, DeleteRelease(r, here, next)
          PROVE  InstalledDeclared' /\ DeclaresNothing
      BY <1>0, <2>2, <3>4, NotNone, NoneAssumption
      DEF DeleteRelease, Terminated, InstalledDeclared, DeclaresNothing
    <3>5. ASSUME NEW r \in Releases, repo' = [repo EXCEPT ![r] = Terminated(@)], UNCHANGED release
          PROVE  InstalledDeclared' /\ DeclaresNothing
      BY <1>0, <3>1, <3>5 DEF Terminated, DeclaresNothing
    <3>6. ASSUME UNCHANGED <<repo, release>> PROVE InstalledDeclared' /\ DeclaresNothing
      BY <3>1, <3>6 DEF DeclaresNothing
    <3>7. CASE InstallFlux
      BY <3>2, <3>3, <3>6, <3>7 DEF InstallFlux, CannotBuild, Releases
    <3>8. CASE UninstallFlux
      BY <3>4, <3>5, <3>8 DEF UninstallFlux, DeleteRepo, Releases
    <3>9. CASE Replicate \/ IsUninstalled \/ Observe
      BY <3>6, <3>9
      DEF Replicate, ReadSource, EnsureNamespace, WriteReplica, ListReplicas, DropReplica,
          ReplicasDone, IsUninstalled, Checked, Observe, Ready, ServerTLS, ServerService
    <3> QED BY <1>1, <3>7, <3>8, <3>9 DEF ProvisionerStep
  <2> QED BY <2>1, <2>2, <2>3 DEF Creating
<1>2. CASE \/ StartCreate \/ ClearAnnotation \/ Admit \/ StartDelete
           \/ CountUserArgoCDResources \/ WriteStatus \/ ReleaseFinalizer
  <2>1. UNCHANGED <<repo, release, deployed>>
    BY <1>2 DEF StartCreate, ClearAnnotation, Admit, StartDelete, CountUserArgoCDResources,
                WriteStatus, ReleaseFinalizer
  <2>2. ChecksPassed' /\ (pc # "idle" /\ pc' # "idle" => pass'.path = pass.path)
    BY <1>2, ChecksReconciler
  <2>3. cr' = cr \/ (PastChecks /\ pc' = "idle")
    <3>1. CASE ReleaseFinalizer
      BY <1>0, <3>1 DEF ReleaseFinalizer, Rest, PastChecks, PassConsistent, DeleteOnly
    <3>2. CASE ~ReleaseFinalizer
      BY <1>2, <3>2 DEF StartCreate, ClearAnnotation, Admit, StartDelete,
                        CountUserArgoCDResources, WriteStatus
    <3> QED BY <3>1, <3>2
  <2>4. ASSUME pc = "idle", Creating' PROVE cr = "live" /\ cr' = "live"
    <3>1. CASE StartCreate BY <3>1 DEF StartCreate
    <3>2. CASE StartDelete BY <2>4, <3>2 DEF StartDelete, NewPass, Creating
    <3>3. CASE ~(StartCreate \/ StartDelete)
      BY <1>2, <2>4, <3>3 DEF ClearAnnotation, Admit, CountUserArgoCDResources, WriteStatus,
                              ReleaseFinalizer, Kinds
    <3> QED BY <3>1, <3>2, <3>3
  <2> QED
    BY <2>1, <2>2, <2>3, <2>4 DEF Creating, DeclaresNothing, InstalledDeclared
<1> QED BY <1>1, <1>2 DEF Work

LEMMA OthersAlone ==
  ASSUME ClustersTypeOK, InstalledDeclared, Environment
  PROVE  /\ DeclaresNothing /\ InstalledDeclared'
         /\ cr' \in {"absent", "fresh"} => cr \in {"absent", "fresh"}
<1> USE DEF crVars, inputVars, objectVars, mcpVars, boundVars, fluxVars
<1>0. /\ repo \in [Releases -> Repo \union {None}]
      /\ release \in [Releases -> Release \union {None}]
      /\ deployed \in [Releases -> ReleaseSpec \union {None}]
  BY DEF ClustersTypeOK
<1>1. cr' \in {"absent", "fresh"} => cr \in {"absent", "fresh"}
  BY DEF Environment, TenantActs, EditSpec, Annotate, DeleteCR, CreateCR, CreateWorkload,
         DeleteWorkload, OperatorActs, EditConfig, EditSource, FluxActs, HelmSucceeds, HelmFails,
         HelmUninstalled, RepoCollected, GardenerActs, IssueCertificate, AssignAddress, Withdraw,
         AddFinalizer, CascadeFailure
<1>2. CASE TenantActs \/ OperatorActs \/ GardenerActs \/ AddFinalizer \/ CascadeFailure
  <2>1. UNCHANGED <<repo, release, deployed>>
    BY <1>2
    DEF TenantActs, EditSpec, Annotate, DeleteCR, CreateCR, CreateWorkload, DeleteWorkload,
        OperatorActs, EditConfig, EditSource, GardenerActs, IssueCertificate, AssignAddress,
        Withdraw, AddFinalizer, CascadeFailure
  <2> QED BY <1>1, <2>1 DEF DeclaresNothing, InstalledDeclared
<1>3. ASSUME NEW r \in Releases, HelmSucceeds(r) \/ HelmFails(r)
      PROVE  DeclaresNothing /\ InstalledDeclared'
  <2>1. release[r] \in Release /\ UNCHANGED repo
    BY <1>0, <1>3 DEF HelmSucceeds, HelmFails, Active
  <2>2. /\ release[r] # None /\ release'[r] # None
        /\ \A q \in Releases \ {r} : release'[q] = release[q] /\ deployed'[q] = deployed[q]
    BY <1>0, <1>3, <2>1, NotNone DEF HelmSucceeds, HelmFails
  <2> QED BY <2>1, <2>2 DEF DeclaresNothing, InstalledDeclared
<1>4. ASSUME NEW r \in Releases, HelmUninstalled(r) \/ RepoCollected(r)
      PROVE  DeclaresNothing /\ InstalledDeclared'
  BY <1>0, <1>4 DEF HelmUninstalled, RepoCollected, DeclaresNothing, InstalledDeclared
<1> QED BY <1>1, <1>2, <1>3, <1>4 DEF Environment, FluxActs

-----------------------------------------------------------------------------
(* The deletion guard: what it has listed so far accounts for every workload   *)
(* but those created behind its back.                                          *)

GuardInv ==
  /\ late \subseteq workloads
  /\ GuardHolds
  /\ pc \in Kinds /\ ~pass.found => workloads \intersect Counted \subseteq late

\* A call of a pass after the guard stays after the guard, and leaves the
\* workloads alone.
PastGuard ==
  /\ pc \notin Kinds \union {"idle", "report"} /\ pc' \notin Kinds \union {"idle"}
  /\ pass'.path = pass.path /\ UNCHANGED workloads

LEMMA GuardReplicate ==
  ASSUME Core, Replicate
  PROVE  PastGuard
<1> USE DEF mcpVars, clusterVars, Kinds, PastGuard
<1>0. /\ pc \in SecretSteps /\ pass \in Pass /\ UNCHANGED workloads
      /\ pass.kind \in {"image", "chart", "ca"}
  BY DEF Core, Replicate, ReadSource, EnsureNamespace, WriteReplica, ListReplicas,
         DropReplica, ReplicasDone, ProvisionerTypeOK, SecretSteps, Pass, SecretKinds
<1>1. CASE ReadSource \/ EnsureNamespace \/ WriteReplica
  BY <1>0, <1>1
  DEF ReadSource, EnsureNamespace, WriteReplica, Fail, Finish, Go, AfterRead, SecretSteps, Pass
<1>2. CASE ListReplicas \/ DropReplica
  BY <1>0, <1>2 DEF ListReplicas, DropReplica, SecretSteps, Pass
<1>3. CASE ReplicasDone
  <2>1. \/ Begin(pass, "chart") \/ Begin(pass, "ca")
        \/ Go("deleteReloaderRelease") \/ Go("repo") \/ Go("finalize")
    BY <1>0, <1>3 DEF ReplicasDone, AfterReplicas
  <2>2. pass'.path = pass.path
        /\ pc' \in {"read", "drop", "list", "deleteReloaderRelease", "repo", "finalize"}
    BY <1>0, <2>1, BeginFields DEF Go
  <2> QED BY <1>0, <2>2 DEF SecretSteps
<1> QED BY <1>1, <1>2, <1>3 DEF Replicate

LEMMA GuardFlux ==
  ASSUME Core, InstallFlux \/ UninstallFlux \/ IsUninstalled \/ Observe
  PROVE  PastGuard
<1> USE DEF mcpVars, clusterVars, Kinds, PastGuard
<1>0. pass \in Pass /\ UNCHANGED workloads
  BY DEF Core, InstallFlux, UninstallFlux, IsUninstalled, Observe, ApplyRepo, ApplyRelease,
         CannotBuild, DeleteRelease, DeleteRepo, Checked, Ready, ServerTLS, ServerService,
         ProvisionerTypeOK
<1>1. CASE InstallFlux
  BY <1>0, <1>1
  DEF InstallFlux, ApplyRepo, ApplyRelease, CannotBuild, ReloaderStep, Go, Fail, Finish, Pass
<1>2. CASE UninstallFlux
  <2>1. \/ DeleteRelease(Argo, "deleteRelease", "deleteRepo")
        \/ DeleteRelease(Reloader, "deleteReloaderRelease", "deleteReloaderRepo")
        \/ pc = "deleteRepo" /\ Begin(pass, "image")
        \/ /\ pc = "deleteReloaderRepo"
           /\ Go(IF pass.path = "create" THEN "ready" ELSE "checkRelease")
    BY <1>2 DEF UninstallFlux, DeleteRepo
  <2>2. CASE pc = "deleteRepo" /\ Begin(pass, "image")
    <3>1. pass'.path = pass.path /\ pc' \in {"read", "drop", "list"} BY <1>0, <2>2, BeginFields
    <3> QED BY <1>0, <2>2, <3>1
  <2>3. CASE ~(pc = "deleteRepo" /\ Begin(pass, "image"))
    BY <1>0, <2>1, <2>3 DEF DeleteRelease, Go
  <2> QED BY <2>2, <2>3
<1>3. CASE IsUninstalled
  <2>1. \/ Go("report") \/ Go("checkRepo") \/ Go("checkReloaderRelease")
        \/ Go("checkReloaderRepo") \/ Begin(pass, "ca")
    BY <1>3 DEF IsUninstalled, Checked
  <2>2. pc \in CheckSteps BY <1>3 DEF IsUninstalled, Checked, CheckSteps
  <2>3. pass'.path = pass.path
        /\ pc' \in {"report", "read", "drop", "list"} \union CheckSteps
    BY <1>0, <2>1, BeginFields DEF Go, CheckSteps
  <2> QED BY <1>0, <2>2, <2>3 DEF CheckSteps
<1>4. CASE Observe
  <2>1. release[Argo] = None \/ release[Argo].ready = "true" \/ release[Argo].ready # "true"
    OBVIOUS
  <2> QED
    BY <1>0, <1>4, <2>1
    DEF Observe, Ready, ServerTLS, ServerService, EndpointPending, Fail, Finish, Go, Pass
<1> QED BY <1>1, <1>2, <1>3, <1>4

LEMMA GuardStep == CoreInv /\ GuardInv /\ [Next]_vars => GuardInv'
<1> SUFFICES ASSUME CoreInv, GuardInv, [Next]_vars PROVE GuardInv' OBVIOUS
<1>0. /\ Core /\ Core' /\ workloads \subseteq Kinds /\ workloads' \subseteq Kinds
      /\ (pc = "idle" <=> pass = None) /\ (pc' = "idle" <=> pass' = None)
  <2>1. Core /\ Core' BY CoreInvStep DEF CoreInv
  <2>2. workloads \subseteq Kinds /\ workloads' \subseteq Kinds
    BY <2>1 DEF Core, ClustersTypeOK
  <2>3. (pc = "idle" <=> pass = None) /\ (pc' = "idle" <=> pass' = None)
    BY <2>1, PassAssumption DEF Core, ProvisionerTypeOK
  <2> QED BY <2>1, <2>2, <2>3
<1>1. CASE UNCHANGED vars
  BY <1>1
  DEF vars, clusterVars, passVars, mcpVars, GuardInv, GuardHolds, TearingDown, Counted
<1>2. ASSUME Witness, UNCHANGED workloads
      PROVE  late' \subseteq workloads' /\ (pc # "idle" /\ pc' # "idle" => late' = late)
  BY <1>0, <1>2 DEF Witness, GuardInv
<1>3. CASE Witness /\ PastGuard
  <2>1. late' = late /\ late' \subseteq workloads' BY <1>2, <1>3 DEF PastGuard
  <2>2. GuardHolds' BY <1>3, <2>1 DEF PastGuard, GuardInv, GuardHolds, TearingDown
  <2> QED BY <1>3, <2>1, <2>2 DEF PastGuard, GuardInv
<1>4. CASE Witness /\ UNCHANGED workloads /\ (pc' = "idle" \/ pc' = "report")
  BY <1>2, <1>4 DEF GuardInv, GuardHolds, TearingDown, Kinds
<1>5. CASE Witness /\ (StartCreate \/ ClearAnnotation \/ Admit)
  <2>1. UNCHANGED workloads /\ pc' # "idle" /\ pass'.path = "create" /\ pc' \notin Kinds
    <3>1. CASE StartCreate
      BY <3>1 DEF StartCreate, NewPass, clusterVars, mcpVars, Kinds
    <3>2. CASE ClearAnnotation
      <4>1. pass \in Pass /\ pass.path = "create"
        BY <1>0, <3>2 DEF ClearAnnotation, Core, PassConsistent, CreateOnly, ProvisionerTypeOK
      <4> QED BY <3>2, <4>1 DEF ClearAnnotation, mcpVars, Kinds, Pass
    <3>3. CASE Admit
      <4> DEFINE p == [pass EXCEPT !.report.phase = "Progressing",
                                   !.report.reason = "Reconciling"]
      <4>1. /\ pass \in Pass /\ pass.path = "create" /\ UNCHANGED workloads
        BY <1>0, <3>3
        DEF Admit, Core, PassConsistent, CreateOnly, ProvisionerTypeOK, clusterVars, mcpVars
      <4>2. \/ Fail("InvalidVersion") \/ Fail("InvalidExposure") \/ Fail("InstallFailed")
            \/ Begin(p, "image")
        BY <3>3 DEF Admit
      <4>3. CASE Begin(p, "image")
        <5>1. p \in Pass /\ p.path = "create"
          BY <4>1 DEF Pass, ArgoCDStatus, Phases, Reasons
        <5> HIDE DEF p
        <5>2. pass'.path = "create" /\ pc' \in {"read", "drop", "list"}
          BY <4>3, <5>1, BeginFields
        <5> QED BY <4>1, <5>2 DEF Kinds
      <4>4. CASE ~Begin(p, "image")
        BY <4>1, <4>2, <4>4 DEF Fail, Finish, Pass, Kinds
      <4> QED BY <4>3, <4>4
    <3> QED BY <1>5, <3>1, <3>2, <3>3
  <2>2. late' \subseteq workloads' BY <1>2, <1>5, <2>1
  <2> QED BY <2>1, <2>2 DEF GuardInv, GuardHolds, TearingDown
<1>6. CASE Witness /\ StartDelete
  <2>1. UNCHANGED workloads /\ pc' = "Application"
    BY <1>6 DEF StartDelete, clusterVars, mcpVars
  <2>2. late' \subseteq workloads' BY <1>2, <1>6, <2>1
  <2> QED BY <2>1, <2>2 DEF GuardInv, GuardHolds, TearingDown, Kinds, Counted
<1>7. CASE Witness /\ CountUserArgoCDResources
  <2>1. /\ UNCHANGED workloads /\ pc \in Kinds /\ pass \in Pass
        /\ pass'.found = (pass.found \/ Counts(pc))
    BY <1>0, <1>7
    DEF CountUserArgoCDResources, clusterVars, mcpVars, Core, ProvisionerTypeOK, Kinds, Pass
  <2>2. pc' = CASE pc # "AppProject" -> NextKind(pc)
                [] pc = "AppProject" /\ pass'.found -> "report"
                [] pc = "AppProject" /\ ~pass'.found -> "deleteRelease"
    BY <1>7, <2>1 DEF CountUserArgoCDResources
  <2>3. ~pass'.found => pc \notin workloads /\ workloads \intersect Counted \subseteq late
    BY <2>1 DEF GuardInv, Counts
  <2>4. CASE pc = "Application"
    <3>1. pc' = "ApplicationSet" BY <2>2, <2>4 DEF NextKind
    <3>2. late' = late /\ late' \subseteq workloads' BY <1>2, <1>7, <2>1, <2>4, <3>1
    <3> QED
      BY <2>1, <2>3, <2>4, <3>1, <3>2 DEF GuardInv, GuardHolds, TearingDown, Kinds, Counted
  <2>5. CASE pc = "ApplicationSet"
    <3>1. pc' = "AppProject" BY <2>2, <2>5 DEF NextKind
    <3>2. late' = late /\ late' \subseteq workloads' BY <1>2, <1>7, <2>1, <2>5, <3>1
    <3> QED
      BY <2>1, <2>3, <2>5, <3>1, <3>2 DEF GuardInv, GuardHolds, TearingDown, Kinds, Counted
  <2>6. CASE pc = "AppProject" /\ ~pass'.found
    <3>1. pc' = "deleteRelease" BY <2>2, <2>6
    <3>2. late' = late /\ late' \subseteq workloads' BY <1>2, <1>7, <2>1, <2>6, <3>1
    <3>3. workloads' \subseteq late'
      BY <1>0, <2>1, <2>3, <2>6, <3>2 DEF Kinds, Counted
    <3> QED BY <3>1, <3>2, <3>3 DEF GuardInv, GuardHolds, TearingDown, Kinds
  <2>7. CASE pc = "AppProject" /\ pass'.found
    BY <1>4, <1>7, <2>1, <2>2, <2>7
  <2> QED BY <2>1, <2>4, <2>5, <2>6, <2>7 DEF Kinds
<1>8. CASE Witness /\ (WriteStatus \/ ReleaseFinalizer \/ Crash)
  BY <1>4, <1>8 DEF WriteStatus, ReleaseFinalizer, Crash, Rest, mcpVars
<1>9. CASE Witness /\ CallFails
  <2>1. UNCHANGED workloads BY <1>9 DEF CallFails, mcpVars
  <2>2. \/ Rest \/ Go("report") \/ Fail(FailureReason)
        \/ (Swallowed /\ (Go("reloaderRelease") \/ Go("ready")))
    <3>1. CASE pc \in {"report", "finalize"} BY <1>9, <3>1 DEF CallFails
    <3>2. CASE pc \notin {"report", "finalize"} /\ Swallowed BY <1>9, <3>2 DEF CallFails
    <3>3. CASE pc \notin {"report", "finalize"} /\ ~Swallowed BY <1>9, <3>3 DEF CallFails
    <3> QED BY <3>1, <3>2, <3>3
  <2>3. CASE Rest \/ Go("report") \/ Fail(FailureReason)
    BY <1>4, <1>9, <2>1, <2>3 DEF Rest, Go, Fail, Finish
  <2>4. CASE Swallowed /\ (Go("reloaderRelease") \/ Go("ready"))
    BY <1>3, <1>9, <2>1, <2>4 DEF Swallowed, ReloaderSteps, Go, PastGuard, Kinds
  <2> QED BY <2>2, <2>3, <2>4
<1>10. CASE Witness /\ Environment /\ UNCHANGED passVars
  <2>1. UNCHANGED <<pc, pass>> BY <1>10 DEF passVars
  <2>2. CASE pass = None
    BY <1>0, <1>10, <2>1, <2>2 DEF Witness, GuardInv, GuardHolds, TearingDown, Kinds
  <2>3. CASE pass # None
    <3>1. late' = (late \union ((workloads' \ workloads) \intersect Counted))
                  \intersect workloads'
      BY <1>10, <2>1, <2>3 DEF Witness
    <3>2. Counted' = Counted /\ TearingDown' = TearingDown
      BY <2>1 DEF Counted, TearingDown
    <3>3. TearingDown => Counted = Kinds
      BY DEF TearingDown, Counted, Kinds
    <3>4. GuardHolds' BY <1>0, <3>1, <3>2, <3>3 DEF GuardInv, GuardHolds
    <3> QED BY <2>1, <3>1, <3>2, <3>4 DEF GuardInv
  <2> QED BY <2>2, <2>3
<1>11. CASE Witness /\ ProvisionerStep
  BY <1>0, <1>3, <1>11, GuardReplicate, GuardFlux DEF ProvisionerStep
<1> QED
  BY <1>1, <1>5, <1>6, <1>7, <1>8, <1>9, <1>10, <1>11 DEF Next, Work

\* Nothing is torn down over a workload the guard could have seen.
THEOREM GuardSound == Spec => []GuardHolds
<1>1. Init => CoreInv /\ GuardInv
  BY CoreInit
  DEF CoreInv, Init, ClustersInit, GuardInv, GuardHolds, TearingDown, Kinds
<1>2. CoreInv /\ GuardInv /\ [Next]_vars => CoreInv' /\ GuardInv'
  BY CoreInvStep, GuardStep
<1>3. GuardInv => GuardHolds BY DEF GuardInv
<1> QED BY <1>1, <1>2, <1>3, PTL DEF Spec

=============================================================================
