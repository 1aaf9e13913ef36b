-------------------------- MODULE Lifecycle_proofs --------------------------
(***************************************************************************)
(* The reconciler, Flux and the tenant implement ServiceLifecycle, for     *)
(* every value of the constants.                                           *)
(***************************************************************************)
EXTENDS ArgoCDReconciler_proofs

-----------------------------------------------------------------------------
(* What the order of calls guarantees when the second object of a pair is    *)
(* touched: a repository is deleted after its release, Argo CD's release is  *)
(* applied after its repository.                                             *)

OrderInv ==
  /\ pc = "deleteRepo" => Stage(release[Argo]) # "active"
  /\ pc = "deleteReloaderRepo" => Stage(release[Reloader]) # "active"
  /\ pc = "release" => repo[Argo] # None

Ordered == {"deleteRepo", "deleteReloaderRepo", "release"}

LEMMA OrderElsewhere == ASSUME pc' \notin Ordered PROVE OrderInv'
BY DEF OrderInv, Ordered

LEMMA OrderReplicate ==
  ASSUME Core, DeletionInv, Replicate
  PROVE  pc' \notin Ordered
<1>0. pc # "idle" /\ pass \in Pass
  BY DEF Core, Replicate, ReadSource, EnsureNamespace, WriteReplica, ListReplicas,
         DropReplica, ReplicasDone, ProvisionerTypeOK
<1>1. CASE ReadSource \/ EnsureNamespace \/ WriteReplica \/ ListReplicas \/ DropReplica
  BY <1>1 DEF ReadSource, EnsureNamespace, WriteReplica, ListReplicas, DropReplica, Fail, Finish,
              Go, AfterRead, Ordered
<1>2. CASE ReplicasDone
  <2>1. pass.kind \in {"image", "chart", "ca"} BY <1>0 DEF Pass, SecretKinds
  <2>2. \/ Begin(pass, "chart") \/ Begin(pass, "ca")
        \/ Go("deleteReloaderRelease") \/ Go("repo") \/ Go("finalize")
    BY <1>2, <2>1 DEF ReplicasDone, AfterReplicas
  <2> QED BY <2>2 DEF Begin, Go, Ordered
<1> QED BY <1>1, <1>2 DEF Replicate

LEMMA OrderReconciler ==
  ASSUME Core, \/ StartCreate \/ ClearAnnotation \/ Admit \/ StartDelete
               \/ CountUserArgoCDResources \/ WriteStatus \/ ReleaseFinalizer
               \/ CallFails \/ Crash
  PROVE  pc' \notin Ordered
<1>1. CASE StartCreate \/ ClearAnnotation \/ StartDelete \/ WriteStatus \/ ReleaseFinalizer \/ Crash
  BY <1>1 DEF StartCreate, ClearAnnotation, StartDelete, WriteStatus, ReleaseFinalizer, Crash, Rest,
              Ordered
<1>2. CASE Admit
  BY <1>2 DEF Admit, Fail, Finish, Begin, Ordered
<1>3. CASE CountUserArgoCDResources
  BY <1>3 DEF CountUserArgoCDResources, NextKind, Kinds, Ordered
<1>4. CASE CallFails
  <2>1. CASE pc \in {"report", "finalize"}
    BY <1>4, <2>1 DEF CallFails, Rest, Ordered
  <2>2. CASE pc \notin {"report", "finalize"} /\ Swallowed
    BY <1>4, <2>2 DEF CallFails, Go, Ordered
  <2>3. CASE pc \notin {"report", "finalize"} /\ ~Swallowed
    BY <1>4, <2>3 DEF CallFails, Go, Fail, Finish, Ordered
  <2> QED BY <2>1, <2>2, <2>3
<1> QED BY <1>1, <1>2, <1>3, <1>4

LEMMA OrderFlux ==
  ASSUME Core, DeletionInv, InstallFlux \/ UninstallFlux \/ IsUninstalled \/ Observe
  PROVE  OrderInv'
<1>0. /\ pc # "idle" /\ pass \in Pass /\ PassConsistent
      /\ repo \in [Releases -> Repo \union {None}]
      /\ release \in [Releases -> Release \union {None}]
      /\ Argo \in Releases /\ Reloader \in Releases
  BY DEF Core, InstallFlux, UninstallFlux, IsUninstalled, Observe, ApplyRepo, ApplyRelease,
         CannotBuild, DeleteRelease, DeleteRepo, Checked, Ready, ServerTLS, ServerService,
         ProvisionerTypeOK, ClustersTypeOK, Releases
<1>1. CASE ApplyRepo(Argo, "repo", "release")
  <2>1. pc' = "release" /\ RepoFor(Argo) \in RepoSpec
    BY <1>0, <1>1, RepoForTyped DEF ApplyRepo, Go, PassConsistent, CreateOnly, Argo, Reloader
  <2>2. repo'[Argo] = [spec |-> RepoFor(Argo),
                       terminating |-> repo[Argo] # None /\ repo[Argo].terminating]
    BY <1>0, <1>1 DEF ApplyRepo
  <2>3. (repo[Argo] # None /\ repo[Argo].terminating) \in BOOLEAN
    BY <1>0 DEF Repo
  <2>4. repo'[Argo] \in Repo BY <2>1, <2>2, <2>3 DEF Repo
  <2>5. repo'[Argo] # None BY <2>4, NoneAssumption
  <2> QED BY <2>1, <2>5 DEF OrderInv
<1>2. CASE \/ pc = "release" /\ Buildable /\ ApplyRelease(Argo, "release", ReloaderStep)
           \/ CannotBuild
           \/ ApplyRepo(Reloader, "reloaderRepo", "reloaderRelease")
           \/ ApplyRelease(Reloader, "reloaderRelease", "ready")
  <2>1. pc' \notin Ordered
    BY <1>2 DEF ApplyRelease, ApplyRepo, CannotBuild, Go, Fail, Finish, ReloaderStep, Ordered
  <2> QED BY <2>1, OrderElsewhere
<1>3. ASSUME NEW r \in Releases, NEW here, NEW next \in {"deleteRepo", "deleteReloaderRepo"},
             next = "deleteRepo" => r = Argo, next = "deleteReloaderRepo" => r = Reloader,
             DeleteRelease(r, here, next)
      PROVE  OrderInv'
  <2>1. pc' = next /\ release'[r] = Terminated(release[r])
    BY <1>0, <1>3 DEF DeleteRelease, Go
  <2>2. Stage(release'[r]) # "active"
    <3>1. CASE release[r] = None BY <2>1, <3>1 DEF Terminated, Stage
    <3>2. CASE release[r] # None
      <4>1. release[r] \in Release BY <1>0, <3>2
      <4>2. release'[r] = [release[r] EXCEPT !.terminating = TRUE]
        BY <2>1, <3>2 DEF Terminated
      <4>3. release'[r].terminating = TRUE BY <4>1, <4>2 DEF Release
      <4> QED BY <4>3 DEF Stage
    <3> QED BY <3>1, <3>2
  <2> QED BY <1>3, <2>1, <2>2 DEF OrderInv
<1>4. CASE \/ DeleteRepo(Argo, "deleteRepo", Begin(pass, "image"))
           \/ DeleteRepo(Reloader, "deleteReloaderRepo",
                         Go(IF pass.path = "create" THEN "ready" ELSE "checkRelease"))
  <2>1. pc' \notin Ordered BY <1>4 DEF DeleteRepo, Begin, Go, Ordered
  <2> QED BY <2>1, OrderElsewhere
<1>5. CASE IsUninstalled
  <2>1. pc' \notin Ordered BY <1>5 DEF IsUninstalled, Checked, Begin, Go, Ordered
  <2> QED BY <2>1, OrderElsewhere
<1>6. CASE Observe
  <2>1. pc' \notin Ordered
    <3>1. release[Argo] = None \/ release[Argo].ready = "true" \/ release[Argo].ready # "true"
      OBVIOUS
    <3> QED
      BY <1>6, <3>1
      DEF Observe, Ready, ServerTLS, ServerService, EndpointPending, Fail, Finish, Go, Ordered
  <2> QED BY <2>1, OrderElsewhere
<1> QED BY <1>0, <1>1, <1>2, <1>3, <1>4, <1>5, <1>6 DEF InstallFlux, UninstallFlux

LEMMA OrderEnvironment ==
  ASSUME Core, DeletionInv, OrderInv, Environment, UNCHANGED passVars
  PROVE  OrderInv'
<1> USE DEF crVars, inputVars, objectVars, mcpVars, boundVars, fluxVars
<1>0. /\ pc' = pc
      /\ repo \in [Releases -> Repo \union {None}]
      /\ release \in [Releases -> Release \union {None}]
      /\ Argo \in Releases /\ Reloader \in Releases
  BY DEF Core, ClustersTypeOK, passVars, Releases
<1>1. CASE UNCHANGED <<repo, release>>
  BY <1>0, <1>1 DEF OrderInv, Stage
<1>2. ASSUME NEW r \in Releases,
             \/ HelmSucceeds(r) \/ HelmFails(r) \/ HelmUninstalled(r)
      PROVE  OrderInv'
  <2>1. repo' = repo BY <1>2 DEF HelmSucceeds, HelmFails, HelmUninstalled
  <2>2. ASSUME NEW q \in Releases PROVE Stage(release[q]) # "active" => Stage(release'[q]) # "active"
    <3>1. CASE HelmUninstalled(r) BY <1>0, <3>1 DEF HelmUninstalled, Stage
    <3>2. CASE HelmSucceeds(r) \/ HelmFails(r)
      <4>1. release[r] \in Release BY <1>0, <3>2 DEF HelmSucceeds, HelmFails, Active
      <4>2. \/ release' = [release EXCEPT ![r].ready = "true"]
            \/ release' = [release EXCEPT ![r].ready = "false"]
        BY <3>2 DEF HelmSucceeds, HelmFails
      <4>3. CASE q = r
        BY <1>0, <3>2, <4>3 DEF HelmSucceeds, HelmFails, Active, Stage
      <4>4. CASE q # r BY <1>0, <4>2, <4>4
      <4> QED BY <4>3, <4>4
    <3> QED BY <1>2, <3>1, <3>2
  <2> QED BY <1>0, <2>1, <2>2 DEF OrderInv
<1>3. ASSUME NEW r \in Releases, RepoCollected(r) PROVE OrderInv'
  <2>1. release' = release /\ repo[r] # None /\ repo[r].terminating /\ repo' = [repo EXCEPT ![r] = None]
    BY <1>3 DEF RepoCollected
  <2>2. pc = "release" => r # Argo
    BY <2>1 DEF Core, PassConsistent, CreateOnly, DeletionInv, NoneLeaving, Staying
  <2> QED BY <1>0, <2>1, <2>2 DEF OrderInv, Stage
<1>4. CASE TenantActs \/ OperatorActs \/ GardenerActs \/ AddFinalizer \/ CascadeFailure
  <2>1. UNCHANGED <<repo, release>>
    BY <1>4 DEF TenantActs, OperatorActs, GardenerActs, AddFinalizer, CascadeFailure, EditSpec,
                Annotate, DeleteCR, CreateCR, CreateWorkload, DeleteWorkload, EditConfig, EditSource,
                IssueCertificate, AssignAddress, Withdraw
  <2> QED BY <1>1, <2>1
<1> QED BY <1>2, <1>3, <1>4 DEF Environment, FluxActs

ServiceInv == CoreInv /\ DeletionInv /\ OrderInv

LEMMA ServiceInvStep == ServiceInv /\ [Next]_vars => ServiceInv'
<1> SUFFICES ASSUME ServiceInv, [Next]_vars PROVE ServiceInv' OBVIOUS
<1>1. CoreInv' /\ DeletionInv' BY CoreInvStep, DeletionStep DEF ServiceInv
<1>2. OrderInv'
  <2>0. Core /\ DeletionInv /\ OrderInv BY DEF ServiceInv, CoreInv
  <2>1. CASE Replicate BY <2>0, <2>1, OrderReplicate, OrderElsewhere
  <2>2. CASE InstallFlux \/ UninstallFlux \/ IsUninstalled \/ Observe BY <2>0, <2>2, OrderFlux
  <2>3. CASE \/ StartCreate \/ ClearAnnotation \/ Admit \/ StartDelete
             \/ CountUserArgoCDResources \/ WriteStatus \/ ReleaseFinalizer
             \/ CallFails \/ Crash
    BY <2>0, <2>3, OrderReconciler, OrderElsewhere
  <2>4. CASE Environment /\ UNCHANGED passVars BY <2>0, <2>4, OrderEnvironment
  <2>5. CASE UNCHANGED vars
    BY <2>0, <2>5 DEF vars, clusterVars, passVars, objectVars, fluxVars, OrderInv, Stage
  <2> QED BY <2>1, <2>2, <2>3, <2>4, <2>5 DEF Next, Work, ProvisionerStep
<1> QED BY <1>1, <1>2 DEF ServiceInv

-----------------------------------------------------------------------------
(* The mapping: what a step does to the abstract service.                    *)

Stages(f) == [r \in Releases |-> Stage(f[r])]

Installed == {r \in Releases : deployed[r] # None}

Simulated == [Service!Next]_<<ServiceState, Stages(repo), Stages(release), Installed>>

\* Only the stage of r changes.
LEMMA OneStage ==
  ASSUME NEW f, NEW g, NEW r \in Releases, \A q \in Releases \ {r} : Stage(g[q]) = Stage(f[q])
  PROVE  Stages(g) = [Stages(f) EXCEPT ![r] = Stage(g[r])]
BY DEF Stages

LEMMA SameStages ==
  ASSUME NEW f, NEW g, \A q \in Releases : Stage(g[q]) = Stage(f[q])
  PROVE  Stages(g) = Stages(f)
BY DEF Stages

LEMMA StageValues ==
  ASSUME NEW f, NEW r \in Releases
  PROVE  Stages(f)[r] = Stage(f[r])
BY DEF Stages

\* A step that leaves the Flux objects alone and the service where it is.
LEMMA Quiet ==
  ASSUME UNCHANGED <<repo, release, deployed>>, ServiceState' = ServiceState
  PROVE  Simulated
BY DEF Simulated, Stages, Installed, Stage

LEMMA GoesOn ==
  ASSUME UNCHANGED <<cr, repo, release, deployed>>, pc # "idle", pc' # "idle",
         pass'.path = pass.path
  PROVE  Simulated
<1>1. ServiceState' = ServiceState BY DEF ServiceState
<1> QED BY <1>1, Quiet

LEMMA PassEnds ==
  ASSUME UNCHANGED <<cr, repo, release, deployed>>, Rest, cr \in {"live", "deleting"}
  PROVE  Simulated
<1>1. CASE ServiceState' = ServiceState BY <1>1, Quiet
<1>2. CASE ServiceState' # ServiceState
  <2>1. ServiceState = "withdrawn" /\ ServiceState' = "terminating"
    BY <1>2 DEF ServiceState, Rest
  <2> QED
    BY <2>1 DEF Simulated, Service!Next, Service!Notice, Stages, Installed, Stage
<1> QED BY <1>1, <1>2

-----------------------------------------------------------------------------
(* The steps of a pass. *)

LEMMA ReplicateSimulated ==
  ASSUME Core, DeletionInv, Replicate
  PROVE  Simulated
<1> USE DEF crVars, inputVars, objectVars, mcpVars, boundVars, fluxVars, clusterVars
<1>0. pc # "idle" /\ pass \in Pass /\ UNCHANGED <<cr, repo, release, deployed>>
  BY DEF Core, Replicate, ReadSource, EnsureNamespace, WriteReplica, ListReplicas,
         DropReplica, ReplicasDone, ProvisionerTypeOK
<1>1. CASE ReadSource \/ EnsureNamespace \/ WriteReplica \/ ListReplicas \/ DropReplica
  <2>1. pc' # "idle" /\ pass'.path = pass.path
    BY <1>0, <1>1 DEF ReadSource, EnsureNamespace, WriteReplica, ListReplicas, DropReplica, Fail,
                      Finish, Go, AfterRead, Pass
  <2> QED BY <1>0, <2>1, GoesOn
<1>2. CASE ReplicasDone
  <2>1. pass.kind \in {"image", "chart", "ca"} BY <1>0 DEF Pass, SecretKinds
  <2>2. \/ Begin(pass, "chart") \/ Begin(pass, "ca")
        \/ Go("deleteReloaderRelease") \/ Go("repo") \/ Go("finalize")
    BY <1>2, <2>1 DEF ReplicasDone, AfterReplicas
  <2>3. pc' # "idle" /\ pass'.path = pass.path
    BY <1>0, <2>2, BeginFields DEF Go
  <2> QED BY <1>0, <2>3, GoesOn
<1> QED BY <1>1, <1>2 DEF Replicate

LEMMA ReconcilerSimulated ==
  ASSUME Core, DeletionInv,
         \/ StartCreate \/ ClearAnnotation \/ Admit \/ StartDelete
         \/ CountUserArgoCDResources \/ WriteStatus \/ ReleaseFinalizer
         \/ CallFails \/ Crash
  PROVE  Simulated
<1> USE DEF crVars, inputVars, objectVars, mcpVars, boundVars, fluxVars, clusterVars
<1>0. /\ PassConsistent
      /\ pc # "idle" => pass \in Pass /\ cr \in {"live", "deleting"}
  BY DEF Core, ProvisionerTypeOK, DeletionInv, PhaseOK
<1>1. CASE StartCreate
  <2>1. UNCHANGED <<cr, repo, release, deployed>> /\ ServiceState' = ServiceState
    BY <1>1 DEF StartCreate, ServiceState
  <2> QED BY <2>1, Quiet
<1>2. CASE StartDelete
  <2>1. UNCHANGED <<cr, repo, release, deployed>> /\ ServiceState' = ServiceState
    BY <1>2 DEF StartDelete, NewPass, ServiceState
  <2> QED BY <2>1, Quiet
<1>3. CASE ClearAnnotation
  <2>1. /\ UNCHANGED <<cr, repo, release, deployed>>
        /\ pc # "idle" /\ pc' # "idle" /\ pass'.path = pass.path
    BY <1>0, <1>3 DEF ClearAnnotation, Pass
  <2> QED BY <2>1, GoesOn
<1>4. CASE Admit
  <2> DEFINE p == [pass EXCEPT !.report.phase = "Progressing", !.report.reason = "Reconciling"]
  <2>1. pc = "admit" /\ pass \in Pass /\ UNCHANGED <<cr, repo, release, deployed>>
    BY <1>0, <1>4 DEF Admit
  <2>2. p \in Pass /\ p.path = pass.path
    BY <2>1 DEF Pass, ArgoCDStatus, Phases, Reasons
  <2>3. CASE Begin(p, "image")
    <3> HIDE DEF p
    <3>1. pc' # "idle" /\ pass'.path = pass.path BY <2>2, <2>3, BeginFields
    <3> QED BY <2>1, <3>1, GoesOn
  <2>4. CASE Fail("InvalidVersion") \/ Fail("InvalidExposure") \/ Fail("InstallFailed")
    <3>1. pc' # "idle" /\ pass'.path = pass.path BY <2>1, <2>4 DEF Fail, Finish, Pass
    <3> QED BY <2>1, <3>1, GoesOn
  <2> QED BY <1>4, <2>3, <2>4 DEF Admit
<1>5. CASE CountUserArgoCDResources
  <2>1. /\ UNCHANGED <<cr, repo, release, deployed>>
        /\ pc # "idle" /\ pc' # "idle" /\ pass'.path = pass.path
    BY <1>0, <1>5 DEF CountUserArgoCDResources, NextKind, Kinds, Pass
  <2> QED BY <2>1, GoesOn
<1>6. CASE WriteStatus \/ Crash
  <2>1. UNCHANGED <<cr, repo, release, deployed>> /\ Rest /\ cr \in {"live", "deleting"}
    BY <1>0, <1>6 DEF WriteStatus, Crash
  <2> QED BY <2>1, PassEnds
<1>7. CASE ReleaseFinalizer
  <2>1. /\ pc = "finalize" /\ pass.path = "delete" /\ cr = "deleting" /\ cr' = "absent"
        /\ UNCHANGED <<repo, release, deployed>>
    BY <1>0, <1>7 DEF ReleaseFinalizer, PassConsistent, DeleteOnly, DeletionInv, PhaseOK
  <2>2. ServiceState = "terminating" /\ ServiceState' = "absent"
    BY <2>1 DEF ServiceState
  <2>3. AllGone /\ \A r \in Releases : deployed[r] = None
    BY <2>1 DEF DeletionInv, ChecksPassed, PastChecks, InstalledDeclared, AllGone
  <2>4. /\ Stages(repo) = [r \in Releases |-> "none"]
        /\ Stages(release) = [r \in Releases |-> "none"] /\ Installed = {}
    BY <2>3 DEF AllGone, Stages, Stage, Installed
  <2> QED
    BY <2>1, <2>2, <2>4
    DEF Simulated, Service!Next, Service!Forget, Service!Nothing, Stages, Installed, Stage
<1>8. CASE CallFails
  <2>1. UNCHANGED <<cr, repo, release, deployed>> /\ pc # "idle" /\ pass \in Pass
    BY <1>0, <1>8 DEF CallFails, Calls
  <2>2. CASE Rest BY <1>0, <2>1, <2>2, PassEnds
  <2>3. CASE Go("reloaderRelease") \/ Go("ready") \/ Go("report") \/ Fail(FailureReason)
    <3>1. pc' # "idle" /\ pass'.path = pass.path BY <2>1, <2>3 DEF Go, Fail, Finish, Pass
    <3> QED BY <2>1, <3>1, GoesOn
  <2>4. Rest \/ Go("reloaderRelease") \/ Go("ready") \/ Go("report") \/ Fail(FailureReason)
    <3>1. CASE pc \in {"report", "finalize"} BY <1>8, <3>1 DEF CallFails
    <3>2. CASE pc \notin {"report", "finalize"} /\ Swallowed BY <1>8, <3>2 DEF CallFails
    <3>3. CASE pc \notin {"report", "finalize"} /\ ~Swallowed BY <1>8, <3>3 DEF CallFails
    <3> QED BY <3>1, <3>2, <3>3
  <2> QED BY <2>2, <2>3, <2>4
<1> QED BY <1>1, <1>2, <1>3, <1>4, <1>5, <1>6, <1>7, <1>8

\* What a declared or deleted object looks like afterwards.
LEMMA ReleaseStages ==
  ASSUME NEW obj \in Release \union {None}
  PROVE  /\ Stage(obj) \in {"none", "active", "leaving"}
         /\ Stage(obj) = "none" <=> obj = None
         /\ Stage(obj) = "active" <=> Active(obj)
         /\ Stage(obj) = "active" => Stage(Terminated(obj)) = "leaving"
         /\ Stage(obj) # "active" => Stage(Terminated(obj)) = Stage(obj)
<1>1. CASE obj = None BY <1>1 DEF Stage, Terminated, Active
<1>2. CASE obj \in Release
  <2>1. obj # None BY <1>2, NoneAssumption
  <2>2. [obj EXCEPT !.terminating = TRUE] \in Release BY <1>2 DEF Release
  <2>3. [obj EXCEPT !.terminating = TRUE] # None BY <2>2, NoneAssumption
  <2>4. [obj EXCEPT !.terminating = TRUE].terminating = TRUE BY <1>2 DEF Release
  <2>5. Terminated(obj) = [obj EXCEPT !.terminating = TRUE] BY <2>1 DEF Terminated
  <2>6. Stage(Terminated(obj)) = "leaving" BY <2>3, <2>4, <2>5 DEF Stage
  <2> QED BY <2>1, <2>6 DEF Stage, Active
<1> QED BY <1>1, <1>2

LEMMA RepoStages ==
  ASSUME NEW obj \in Repo \union {None}
  PROVE  /\ Stage(obj) \in {"none", "active", "leaving"}
         /\ Stage(obj) = "none" <=> obj = None
         /\ Stage(obj) = "active" <=> Active(obj)
         /\ Stage(obj) = "active" => Stage(Terminated(obj)) = "leaving"
         /\ Stage(obj) # "active" => Stage(Terminated(obj)) = Stage(obj)
<1>1. CASE obj = None BY <1>1 DEF Stage, Terminated, Active
<1>2. CASE obj \in Repo
  <2>1. obj # None BY <1>2, NoneAssumption
  <2>2. [obj EXCEPT !.terminating = TRUE] \in Repo BY <1>2 DEF Repo
  <2>3. [obj EXCEPT !.terminating = TRUE] # None BY <2>2, NoneAssumption
  <2>4. [obj EXCEPT !.terminating = TRUE].terminating = TRUE BY <1>2 DEF Repo
  <2>5. Terminated(obj) = [obj EXCEPT !.terminating = TRUE] BY <2>1 DEF Terminated
  <2>6. Stage(Terminated(obj)) = "leaving" BY <2>3, <2>4, <2>5 DEF Stage
  <2> QED BY <2>1, <2>6 DEF Stage, Active
<1> QED BY <1>1, <1>2

\* The states of the service in which the two kinds of pass run.
LEMMA ServiceOfPass ==
  ASSUME DeletionInv, pc # "idle"
  PROVE  /\ pass.path = "create" => ServiceState \in {"requested", "withdrawn"}
         /\ pass.path = "delete" => ServiceState = "terminating"
BY DEF DeletionInv, PhaseOK, ServiceState

\* Steps of a pass that declare or delete one object.
LEMMA FluxSimulated ==
  ASSUME Core, DeletionInv, OrderInv, InstallFlux \/ UninstallFlux \/ IsUninstalled \/ Observe
  PROVE  Simulated
<1> USE DEF crVars, inputVars, objectVars, mcpVars, boundVars, fluxVars, clusterVars
<1>0. /\ pc # "idle" /\ pass \in Pass /\ pass.path \in {"create", "delete"} /\ PassConsistent
      /\ repo \in [Releases -> Repo \union {None}]
      /\ release \in [Releases -> Release \union {None}]
      /\ Argo \in Releases /\ Reloader \in Releases /\ Argo # Reloader
  BY DEF Core, InstallFlux, UninstallFlux, IsUninstalled, Observe, ApplyRepo, ApplyRelease,
         CannotBuild, DeleteRelease, DeleteRepo, Checked, Ready, ServerTLS, ServerService,
         ProvisionerTypeOK, ClustersTypeOK, Releases, Argo, Reloader, Pass
<1>1. ASSUME NEW r \in Releases, NEW here \in {"repo", "reloaderRepo"},
             NEW next \in {"release", "reloaderRelease"}, r = Reloader => here = "reloaderRepo",
             ApplyRepo(r, here, next)
      PROVE  Simulated
  <2>1. /\ pass.path = "create" /\ pass' = pass /\ pc' = next /\ pc = here
        /\ UNCHANGED <<cr, release, deployed>>
    BY <1>0, <1>1 DEF ApplyRepo, Go, PassConsistent, CreateOnly
  <2>2. ServiceState' = ServiceState BY <1>0, <2>1 DEF ServiceState
  <2>3. ServiceState \in {"requested", "withdrawn"} BY <1>0, <2>1, ServiceOfPass
  <2>4. RepoFor(r) \in RepoSpec
    BY <1>0, <1>1, <2>1, RepoForTyped DEF PassConsistent, CreateOnly
  <2>5. repo' = [repo EXCEPT ![r] = [spec |-> RepoFor(r),
                                     terminating |-> repo[r] # None /\ repo[r].terminating]]
    BY <1>1 DEF ApplyRepo
  <2>6. repo'[r] \in Repo /\ (repo'[r].terminating <=> repo[r] # None /\ repo[r].terminating)
    <3>1. (repo[r] # None /\ repo[r].terminating) \in BOOLEAN BY <1>0, <1>1 DEF Repo
    <3> QED BY <1>0, <2>4, <2>5, <3>1 DEF Repo
  <2>7. repo'[r] # None BY <2>6, NoneAssumption
  <2>8. Stage(repo'[r]) = IF repo[r] = None THEN "active" ELSE Stage(repo[r])
    BY <2>6, <2>7 DEF Stage
  <2>9. Stages(repo)' = [Stages(repo) EXCEPT ![r] = Stage(repo'[r])]
    BY <1>0, <2>5, OneStage DEF Stages
  <2>10. Stages(release)' = Stages(release) /\ Installed' = Installed
    BY <2>1 DEF Stages, Stage, Installed
  <2>11. CASE repo[r] = None
    <3>1. Stages(repo)[r] = "none" BY <2>11, StageValues DEF Stage
    <3>2. Service!DeclareSource(r)
      BY <2>2, <2>3, <2>8, <2>9, <2>10, <2>11, <3>1
      DEF Service!DeclareSource, Service!Serving, Stages, Installed
    <3> QED BY <3>2 DEF Simulated, Service!Next
  <2>12. CASE repo[r] # None
    <3>1. Stages(repo)' = Stages(repo) BY <2>8, <2>9, <2>12 DEF Stages
    <3> QED BY <2>2, <2>10, <3>1 DEF Simulated
  <2> QED BY <2>11, <2>12
<1>2. ASSUME NEW r \in Releases, NEW here \in {"release", "reloaderRelease"},
             NEW next \in {"reloaderRepo", "deleteReloaderRelease", "ready"},
             r = Argo => here = "release", r = Reloader => here = "reloaderRelease",
             ApplyRelease(r, here, next)
      PROVE  Simulated
  <2>1. /\ pass.path = "create" /\ pass' = pass /\ pc' = next /\ pc = here
        /\ UNCHANGED <<cr, repo, deployed>>
    BY <1>0, <1>2 DEF ApplyRelease, Go, PassConsistent, CreateOnly
  <2>2. ServiceState' = ServiceState BY <1>0, <2>1 DEF ServiceState
  <2>3. ServiceState \in {"requested", "withdrawn"} BY <1>0, <2>1, ServiceOfPass
  <2>4. ReleaseFor(r) \in ReleaseSpec
    BY <1>0, <1>2, <2>1, ReleaseForTyped DEF PassConsistent, CreateOnly
  <2>5. release' = [release EXCEPT ![r] =
          [spec |-> ReleaseFor(r), owner |-> OwnerOf(r),
           terminating |-> release[r] # None /\ release[r].terminating,
           ready |-> IF release[r] = None THEN "unknown" ELSE release[r].ready]]
    BY <1>2 DEF ApplyRelease
  <2>6. release'[r] \in Release
        /\ (release'[r].terminating <=> release[r] # None /\ release[r].terminating)
    <3>1. /\ (release[r] # None /\ release[r].terminating) \in BOOLEAN
          /\ (IF release[r] = None THEN "unknown" ELSE release[r].ready) \in {"unknown", "true", "false"}
      BY <1>0, <1>2 DEF Release
    <3> QED BY <1>0, <2>4, <2>5, <3>1 DEF Release, OwnerOf
  <2>7. release'[r] # None BY <2>6, NoneAssumption
  <2>8. Stage(release'[r]) = IF release[r] = None THEN "active" ELSE Stage(release[r])
    BY <2>6, <2>7 DEF Stage
  <2>9. Stages(release)' = [Stages(release) EXCEPT ![r] = Stage(release'[r])]
    BY <1>0, <2>5, OneStage DEF Stages
  <2>10. Stages(repo)' = Stages(repo) /\ Installed' = Installed
    BY <2>1 DEF Stages, Stage, Installed
  <2>11. CASE release[r] = None
    <3>1. Stages(release)[r] = "none" BY <2>11, StageValues DEF Stage
    <3>2. r = Argo => Stages(repo)[r] = "active"
      <4> SUFFICES ASSUME r = Argo PROVE Stage(repo[Argo]) = "active" BY StageValues
      <4>1. repo[Argo] # None BY <1>2, <2>1 DEF OrderInv
      <4>2. ~repo[Argo].terminating
        BY <1>0, <2>1, <4>1 DEF DeletionInv, NoneLeaving, Staying
      <4> QED BY <4>1, <4>2 DEF Stage
    <3>3. Service!DeclareRelease(r)
      BY <2>2, <2>3, <2>8, <2>9, <2>10, <2>11, <3>1, <3>2
      DEF Service!DeclareRelease, Service!Serving, Stages, Installed
    <3> QED BY <3>3 DEF Simulated, Service!Next
  <2>12. CASE release[r] # None
    <3>1. Stages(release)' = Stages(release) BY <2>8, <2>9, <2>12 DEF Stages
    <3> QED BY <2>2, <2>10, <3>1 DEF Simulated
  <2> QED BY <2>11, <2>12
<1>3. ASSUME NEW r \in Releases, NEW here \in {"deleteRelease", "deleteReloaderRelease"},
             NEW next \in {"deleteRepo", "deleteReloaderRepo"},
             r = Argo => here = "deleteRelease", DeleteRelease(r, here, next)
      PROVE  Simulated
  <2>1. pass' = pass /\ pc' = next /\ pc = here /\ UNCHANGED <<cr, repo, deployed>>
        /\ release' = [release EXCEPT ![r] = Terminated(release[r])]
    BY <1>3 DEF DeleteRelease, Go
  <2>2. ServiceState' = ServiceState BY <1>0, <2>1 DEF ServiceState
  <2>3. Service!MayRetire(r)
    <3>1. r = Argo => pass.path = "delete" BY <1>0, <1>3, <2>1 DEF PassConsistent, DeleteOnly
    <3> QED BY <1>0, <3>1, ServiceOfPass DEF Service!MayRetire, Service!Serving
  <2>4. Stages(release)' = [Stages(release) EXCEPT ![r] = Stage(Terminated(release[r]))]
    BY <1>0, <2>1, OneStage DEF Stages
  <2>5. Stages(repo)' = Stages(repo) /\ Installed' = Installed
    BY <2>1 DEF Stages, Stage, Installed
  <2>6. release[r] \in Release \union {None} BY <1>0
  <2>7. CASE Stage(release[r]) = "active"
    <3>1. Service!RetireRelease(r)
      BY <2>2, <2>3, <2>4, <2>5, <2>6, <2>7, ReleaseStages, StageValues
      DEF Service!RetireRelease, Service!MayRetire, Service!Serving, Stages, Installed
    <3> QED BY <3>1 DEF Simulated, Service!Next
  <2>8. CASE Stage(release[r]) # "active"
    <3>1. Stages(release)' = Stages(release)
      BY <2>4, <2>6, <2>8, ReleaseStages DEF Stages
    <3> QED BY <2>2, <2>5, <3>1 DEF Simulated
  <2> QED BY <2>7, <2>8
<1>4. ASSUME NEW r \in Releases, NEW here \in {"deleteRepo", "deleteReloaderRepo"},
             r = Argo => here = "deleteRepo", r = Reloader => here = "deleteReloaderRepo",
             pc = here, UNCHANGED <<cr, release, deployed>>,
             repo' = [repo EXCEPT ![r] = Terminated(repo[r])],
             pc' # "idle", pass'.path = pass.path
      PROVE  Simulated
  <2>2. ServiceState' = ServiceState BY <1>0, <1>4 DEF ServiceState
  <2>3. Service!MayRetire(r)
    <3>1. r = Argo => pass.path = "delete" BY <1>0, <1>4 DEF PassConsistent, DeleteOnly
    <3> QED BY <1>0, <3>1, ServiceOfPass DEF Service!MayRetire, Service!Serving
  <2>4. Stages(repo)' = [Stages(repo) EXCEPT ![r] = Stage(Terminated(repo[r]))]
    BY <1>0, <1>4, OneStage DEF Stages
  <2>5. Stages(release)' = Stages(release) /\ Installed' = Installed
    BY <1>4 DEF Stages, Stage, Installed
  <2>6. repo[r] \in Repo \union {None} BY <1>0
  <2>7. Stages(release)[r] # "active" BY <1>4, StageValues DEF OrderInv, Releases
  <2>8. CASE Stage(repo[r]) = "active"
    <3>1. Service!RetireSource(r)
      BY <2>2, <2>3, <2>4, <2>5, <2>6, <2>7, <2>8, RepoStages, StageValues
      DEF Service!RetireSource, Service!MayRetire, Service!Serving, Stages, Installed
    <3> QED BY <3>1 DEF Simulated, Service!Next
  <2>9. CASE Stage(repo[r]) # "active"
    <3>1. Stages(repo)' = Stages(repo)
      BY <2>4, <2>6, <2>9, RepoStages DEF Stages
    <3> QED BY <2>2, <2>5, <3>1 DEF Simulated
  <2> QED BY <2>8, <2>9
<1>5. CASE DeleteRepo(Argo, "deleteRepo", Begin(pass, "image"))
  <2>1. /\ pc' # "idle" /\ pass'.path = pass.path /\ pc = "deleteRepo"
        /\ UNCHANGED <<cr, release, deployed>>
        /\ repo' = [repo EXCEPT ![Argo] = Terminated(repo[Argo])]
    BY <1>0, <1>5, BeginFields DEF DeleteRepo
  <2> QED BY <1>0, <1>4, <2>1
<1>6. CASE DeleteRepo(Reloader, "deleteReloaderRepo",
                      Go(IF pass.path = "create" THEN "ready" ELSE "checkRelease"))
  <2>1. /\ pc' # "idle" /\ pass'.path = pass.path /\ pc = "deleteReloaderRepo"
        /\ UNCHANGED <<cr, release, deployed>>
        /\ repo' = [repo EXCEPT ![Reloader] = Terminated(repo[Reloader])]
    BY <1>0, <1>6 DEF DeleteRepo, Go
  <2> QED BY <1>0, <1>4, <2>1
<1>7. CASE CannotBuild
  <2>1. UNCHANGED <<cr, repo, release, deployed>> /\ pc' # "idle" /\ pass'.path = pass.path
    BY <1>0, <1>7 DEF CannotBuild, Fail, Finish, Pass
  <2> QED BY <1>0, <2>1, GoesOn
<1>8. CASE IsUninstalled
  <2>1. UNCHANGED <<cr, repo, release, deployed>>
    BY <1>8 DEF IsUninstalled, Checked
  <2>2. \/ Go("report") \/ Go("checkRepo") \/ Go("checkReloaderRelease")
        \/ Go("checkReloaderRepo") \/ Begin(pass, "ca")
    BY <1>8 DEF IsUninstalled, Checked
  <2>3. pc' # "idle" /\ pass'.path = pass.path BY <1>0, <2>2, BeginFields DEF Go
  <2> QED BY <1>0, <2>1, <2>3, GoesOn
<1>9. CASE Observe
  <2>1. UNCHANGED <<cr, repo, release, deployed>>
    BY <1>9 DEF Observe, Ready, ServerTLS, ServerService
  <2>2. pc' # "idle" /\ pass'.path = pass.path
    <3>1. release[Argo] = None \/ release[Argo].ready = "true" \/ release[Argo].ready # "true"
      OBVIOUS
    <3> QED
      BY <1>0, <1>9, <3>1
      DEF Observe, Ready, ServerTLS, ServerService, EndpointPending, Fail, Finish, Go, Pass
  <2> QED BY <1>0, <2>1, <2>2, GoesOn
<1>10. ReloaderStep \in {"reloaderRepo", "deleteReloaderRelease"} BY DEF ReloaderStep
<1>11. CASE InstallFlux
  <2>1. CASE ApplyRepo(Argo, "repo", "release") BY <1>0, <1>1, <2>1
  <2>2. CASE ApplyRelease(Argo, "release", ReloaderStep) BY <1>0, <1>2, <1>10, <2>2
  <2>3. CASE ApplyRepo(Reloader, "reloaderRepo", "reloaderRelease") BY <1>0, <1>1, <2>3
  <2>4. CASE ApplyRelease(Reloader, "reloaderRelease", "ready") BY <1>0, <1>2, <2>4
  <2> QED BY <1>7, <1>11, <2>1, <2>2, <2>3, <2>4 DEF InstallFlux
<1>12. CASE UninstallFlux
  <2>1. CASE DeleteRelease(Argo, "deleteRelease", "deleteRepo") BY <1>0, <1>3, <2>1
  <2>2. CASE DeleteRelease(Reloader, "deleteReloaderRelease", "deleteReloaderRepo")
    BY <1>0, <1>3, <2>2
  <2> QED BY <1>5, <1>6, <1>12, <2>1, <2>2 DEF UninstallFlux
<1> QED BY <1>8, <1>9, <1>11, <1>12

-----------------------------------------------------------------------------
(* The other actors. *)

\* The tenant, the framework: the resource comes and goes, Flux's objects stay.
LEMMA ResourceSimulated ==
  ASSUME DeletionInv, UNCHANGED <<pc, pass, repo, release, deployed>>,
         \/ cr' = cr
         \/ cr = "fresh" /\ cr' \in {"absent", "live"}
         \/ cr = "live" /\ cr' = "deleting"
         \/ cr = "absent" /\ cr' = "fresh"
  PROVE  Simulated
<1>1. CASE cr' = cr \/ (cr = "fresh" /\ cr' = "live")
  <2>1. ServiceState' = ServiceState BY <1>1 DEF ServiceState
  <2> QED BY <2>1, Quiet
<1>2. UNCHANGED <<Stages(repo), Stages(release), Installed>> BY DEF Stages, Stage, Installed
<1>3. CASE cr = "fresh" /\ cr' = "absent"
  <2>1. ServiceState = "requested" /\ ServiceState' = "absent" BY <1>3 DEF ServiceState
  <2>2. AllGone /\ \A r \in Releases : deployed[r] = None
    BY <1>3 DEF DeletionInv, PhaseOK, InstalledDeclared, AllGone
  <2>3. /\ Stages(repo) = [r \in Releases |-> "none"]
        /\ Stages(release) = [r \in Releases |-> "none"] /\ Installed = {}
    BY <2>2 DEF AllGone, Stages, Stage, Installed
  <2>4. Service!Forget
    BY <1>2, <2>1, <2>3 DEF Service!Forget, Service!Nothing, Stages, Installed
  <2> QED BY <2>4 DEF Simulated, Service!Next
<1>4. CASE cr = "live" /\ cr' = "deleting"
  <2>1. ServiceState = "requested" /\ ServiceState' \in {"withdrawn", "terminating"}
    BY <1>4 DEF ServiceState
  <2>2. Service!Withdraw BY <1>2, <2>1 DEF Service!Withdraw, Stages, Installed
  <2> QED BY <2>2 DEF Simulated, Service!Next
<1>5. CASE cr = "absent" /\ cr' = "fresh"
  <2>1. ServiceState = "absent" /\ ServiceState' = "requested" BY <1>5 DEF ServiceState
  <2>2. Service!Request BY <1>2, <2>1 DEF Service!Request, Stages, Installed
  <2> QED BY <2>2 DEF Simulated, Service!Next
<1> QED BY <1>1, <1>3, <1>4, <1>5

\* Flux installs, gives up, uninstalls and collects.
LEMMA FluxActsSimulated ==
  ASSUME Core, UNCHANGED <<pc, pass>>, NEW r \in Releases,
         HelmSucceeds(r) \/ HelmFails(r) \/ HelmUninstalled(r) \/ RepoCollected(r)
  PROVE  Simulated
<1> USE DEF crVars, inputVars, objectVars, mcpVars, boundVars, fluxVars
<1>0. /\ repo \in [Releases -> Repo \union {None}]
      /\ release \in [Releases -> Release \union {None}]
      /\ deployed \in [Releases -> ReleaseSpec \union {None}]
  BY DEF Core, ClustersTypeOK
<1>1. ServiceState' = ServiceState
  <2>1. cr' = cr BY DEF HelmSucceeds, HelmFails, HelmUninstalled, RepoCollected
  <2> QED BY <2>1 DEF ServiceState
<1>2. ASSUME HelmSucceeds(r) \/ HelmFails(r)
      PROVE  /\ Stages(release)' = Stages(release) /\ Stages(repo)' = Stages(repo)
             /\ Active(release[r]) /\ release[r] \in Release
  <2>1. /\ repo' = repo /\ Active(release[r]) /\ release[r] \in Release
        /\ \A q \in Releases \ {r} : release'[q] = release[q]
    BY <1>0, <1>2 DEF HelmSucceeds, HelmFails, Active
  <2>2. release'[r] \in Release /\ release'[r].terminating = release[r].terminating
    BY <1>0, <1>2, <2>1 DEF HelmSucceeds, HelmFails, Release
  <2>3. release[r] # None /\ release'[r] # None BY <2>1, <2>2, NoneAssumption
  <2> QED BY <2>1, <2>2, <2>3 DEF Stages, Stage
<1>3. CASE HelmSucceeds(r)
  <2>1. repo[r] # None /\ deployed' = [deployed EXCEPT ![r] = release[r].spec]
    BY <1>3 DEF HelmSucceeds
  <2>2. release[r].spec \in ReleaseSpec BY <1>2, <1>3 DEF Release
  <2>3. release[r].spec # None BY <2>2, NoneAssumption
  <2>4. Installed' = Installed \union {r} BY <1>0, <2>1, <2>3 DEF Installed
  <2>5. Stages(release)[r] = "active" /\ Stages(repo)[r] # "none"
    BY <1>2, <1>3, <2>1, StageValues DEF Active, Stage
  <2>6. Service!Install(r)
    BY <1>1, <1>2, <1>3, <2>4, <2>5 DEF Service!Install, Stages, Installed
  <2> QED BY <2>6 DEF Simulated, Service!Next
<1>4. CASE HelmFails(r)
  <2>1. deployed' = deployed BY <1>4 DEF HelmFails
  <2> QED BY <1>1, <1>2, <1>4, <2>1 DEF Simulated, Installed
<1>5. CASE HelmUninstalled(r)
  <2>1. /\ release[r] # None /\ release[r].terminating /\ repo' = repo
        /\ release' = [release EXCEPT ![r] = None] /\ deployed' = [deployed EXCEPT ![r] = None]
    BY <1>5 DEF HelmUninstalled
  <2>2. Stages(release)[r] = "leaving" BY <2>1, StageValues DEF Stage
  <2>3. release'[r] = None /\ \A q \in Releases \ {r} : Stage(release'[q]) = Stage(release[q])
    BY <1>0, <2>1
  <2>4. Stages(release)' = [Stages(release) EXCEPT ![r] = "none"]
    BY <2>3, OneStage DEF Stages, Stage
  <2>5. Installed' = Installed \ {r} BY <1>0, <2>1 DEF Installed
  <2>6. Stages(repo)' = Stages(repo) BY <2>1 DEF Stages, Stage
  <2>7. Service!ReleaseCollected(r)
    BY <1>1, <2>2, <2>4, <2>5, <2>6 DEF Service!ReleaseCollected, Stages, Installed
  <2> QED BY <2>7 DEF Simulated, Service!Next
<1>6. CASE RepoCollected(r)
  <2>1. /\ repo[r] # None /\ repo[r].terminating /\ UNCHANGED <<release, deployed>>
        /\ repo' = [repo EXCEPT ![r] = None]
    BY <1>6 DEF RepoCollected
  <2>2. Stages(repo)[r] = "leaving" BY <2>1, StageValues DEF Stage
  <2>3. repo'[r] = None /\ \A q \in Releases \ {r} : Stage(repo'[q]) = Stage(repo[q])
    BY <1>0, <2>1
  <2>4. Stages(repo)' = [Stages(repo) EXCEPT ![r] = "none"]
    BY <2>3, OneStage DEF Stages, Stage
  <2>5. Stages(release)' = Stages(release) /\ Installed' = Installed
    BY <2>1 DEF Stages, Stage, Installed
  <2>6. Service!SourceCollected(r)
    BY <1>1, <2>2, <2>4, <2>5 DEF Service!SourceCollected, Stages, Installed
  <2> QED BY <2>6 DEF Simulated, Service!Next
<1> QED BY <1>3, <1>4, <1>5, <1>6

LEMMA EnvironmentSimulated ==
  ASSUME Core, DeletionInv, Environment, UNCHANGED passVars
  PROVE  Simulated
<1> USE DEF crVars, inputVars, objectVars, mcpVars, boundVars, fluxVars
<1>0. UNCHANGED <<pc, pass>> BY DEF passVars
<1>1. CASE TenantActs \/ OperatorActs \/ GardenerActs \/ AddFinalizer \/ CascadeFailure
  <2>1. /\ UNCHANGED <<repo, release, deployed>>
        /\ \/ cr' = cr
           \/ cr = "fresh" /\ cr' \in {"absent", "live"}
           \/ cr = "live" /\ cr' = "deleting"
           \/ cr = "absent" /\ cr' = "fresh"
    BY <1>1
    DEF TenantActs, EditSpec, Annotate, DeleteCR, CreateCR, CreateWorkload, DeleteWorkload,
        OperatorActs, EditConfig, EditSource, GardenerActs, IssueCertificate, AssignAddress,
        Withdraw, AddFinalizer, CascadeFailure
  <2> QED BY <1>0, <2>1, ResourceSimulated
<1>2. CASE FluxActs BY <1>0, <1>2, FluxActsSimulated DEF FluxActs
<1> QED BY <1>1, <1>2 DEF Environment

-----------------------------------------------------------------------------
LEMMA ServiceInvInit == Init => ServiceInv
<1>1. Init => CoreInv /\ DeletionInv BY CoreInit, DeletionInit DEF CoreInv, Init
<1>2. Init => OrderInv BY DEF Init, OrderInv
<1> QED BY <1>1, <1>2 DEF ServiceInv

LEMMA StepSimulated == ServiceInv /\ [Next]_vars => Simulated
<1> SUFFICES ASSUME Core, DeletionInv, OrderInv, [Next]_vars PROVE Simulated
  BY DEF ServiceInv, CoreInv
<1>1. CASE Replicate BY <1>1, ReplicateSimulated
<1>2. CASE InstallFlux \/ UninstallFlux \/ IsUninstalled \/ Observe BY <1>2, FluxSimulated
<1>3. CASE \/ StartCreate \/ ClearAnnotation \/ Admit \/ StartDelete
           \/ CountUserArgoCDResources \/ WriteStatus \/ ReleaseFinalizer
           \/ CallFails \/ Crash
  BY <1>3, ReconcilerSimulated
<1>4. CASE Environment /\ UNCHANGED passVars BY <1>4, EnvironmentSimulated
<1>5. CASE UNCHANGED vars
  <2>1. UNCHANGED <<cr, pc, pass, repo, release, deployed>>
    BY <1>5 DEF vars, clusterVars, passVars, crVars, objectVars, fluxVars, mcpVars
  <2> QED BY <2>1, ResourceSimulated
<1> QED BY <1>1, <1>2, <1>3, <1>4, <1>5 DEF Next, Work, ProvisionerStep

\* Every behaviour of the reconciler, its environment and its faults is one of the
\* abstract service (Install, Uninstall and IsUninstalled keep its order of declaring
\* and retiring), whatever versions, Secrets, edits and failures there are.
THEOREM Refines == Spec => ImplementsService
<1>1. Init => Service!Init
  BY DEF Init, ClustersInit, Service!Init, Service!Nothing, ServiceState, Stage
<1>2. ServiceInv /\ [Next]_vars => [Service!Next]_(Service!serviceVars)
  BY StepSimulated DEF Simulated, Service!serviceVars, Stages, Installed
<1> QED
  BY <1>1, <1>2, ServiceInvInit, ServiceInvStep, PTL DEF Spec, ImplementsService, Service!Spec

=============================================================================
