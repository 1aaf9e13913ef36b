------------------------ MODULE Installation_proofs -------------------------
(***************************************************************************)
(* Theorems about installation: what Ready stands for, and whose failures  *)
(* make the resource go.  Both are action properties: an invariant says    *)
(* what holds before the step, the step does the rest.                     *)
(***************************************************************************)
EXTENDS ArgoCDReconciler_proofs

-----------------------------------------------------------------------------
(* Once a create pass is past the apply of an object, the object asks for    *)
(* what the pass was started with, until the pass ends.                      *)

PastRelease == ReloaderSteps \union {"ready", "tls", "service"}
PastRepo    == PastRelease \union {"release"}

RepoDeclared    == repo[Argo] # None /\ repo[Argo].spec = RepoFor(Argo)
ReleaseDeclared == release[Argo] # None /\ release[Argo].spec = ReleaseFor(Argo)

DeclaredInv ==
  /\ Creating /\ pc \in PastRepo => RepoDeclared
  /\ Creating /\ pc \in PastRelease => ReleaseDeclared

\* A step that does not lead past the applies.
LEMMA DeclaredBefore ==
  ASSUME ~(Creating' /\ pc' \in PastRepo)
  PROVE  DeclaredInv'
BY DEF DeclaredInv, PastRepo

\* A step that does, in the middle of a pass and without touching Argo CD's objects.
LEMMA DeclaredAfter ==
  ASSUME DeclaredInv, Creating, pc \in PastRelease, pass' = pass,
         repo'[Argo] = repo[Argo], release'[Argo] = release[Argo]
  PROVE  DeclaredInv'
<1>1. RepoDeclared /\ ReleaseDeclared BY DEF DeclaredInv, PastRepo
<1>2. RepoDeclared' /\ ReleaseDeclared'
  BY <1>1
  DEF RepoDeclared, ReleaseDeclared, RepoFor, ReleaseFor, Selected, Target, VaultEnabled
<1> QED BY <1>2 DEF DeclaredInv

LEMMA DeclaredReplicate ==
  ASSUME Core, Replicate
  PROVE  DeclaredInv'
<1>0. pc # "idle" /\ pass \in Pass
  BY DEF Core, Replicate, ReadSource, EnsureNamespace, WriteReplica, ListReplicas,
         DropReplica, ReplicasDone, ProvisionerTypeOK
<1>1. CASE ReadSource \/ EnsureNamespace \/ WriteReplica \/ ListReplicas \/ DropReplica
  <2>1. pc' \notin PastRepo
    BY <1>1 DEF ReadSource, EnsureNamespace, WriteReplica, ListReplicas, DropReplica, Fail, Finish,
                Go, AfterRead, PastRepo, PastRelease, ReloaderSteps
  <2> QED BY <2>1, DeclaredBefore
<1>2. CASE ReplicasDone
  <2>1. pass.kind \in {"image", "chart", "ca"} BY <1>0 DEF Pass, SecretKinds
  <2>2. \/ Begin(pass, "chart") \/ Begin(pass, "ca") \/ Go("repo") \/ Go("finalize")
        \/ pass.path # "create" /\ Go("deleteReloaderRelease")
    BY <1>2, <2>1 DEF ReplicasDone, AfterReplicas
  <2>3. ~(Creating' /\ pc' \in PastRepo)
    BY <1>0, <2>2, BeginFields DEF Go, Creating, PastRepo, PastRelease, ReloaderSteps
  <2> QED BY <2>3, DeclaredBefore
<1> QED BY <1>1, <1>2 DEF Replicate

LEMMA DeclaredReconciler ==
  ASSUME Core, DeclaredInv,
         \/ StartCreate \/ ClearAnnotation \/ Admit \/ StartDelete
         \/ CountUserArgoCDResources \/ WriteStatus \/ ReleaseFinalizer
         \/ CallFails \/ Crash
  PROVE  DeclaredInv'
<1> USE DEF objectVars, fluxVars, clusterVars
<1>1. CASE \/ StartCreate \/ ClearAnnotation \/ Admit \/ StartDelete
           \/ WriteStatus \/ ReleaseFinalizer \/ Crash
  <2>1. pc' \notin PastRepo
    BY <1>1 DEF StartCreate, ClearAnnotation, Admit, Fail, Finish, Begin, StartDelete, WriteStatus,
                ReleaseFinalizer, Crash, Rest, PastRepo, PastRelease, ReloaderSteps
  <2> QED BY <2>1, DeclaredBefore
<1>2. CASE CountUserArgoCDResources
  <2>1. pc' \notin PastRepo
    BY <1>2 DEF CountUserArgoCDResources, NextKind, Kinds, PastRepo, PastRelease, ReloaderSteps
  <2> QED BY <2>1, DeclaredBefore
<1>3. CASE CallFails
  <2>1. CASE pc \in {"report", "finalize"}
    <3>1. pc' = "idle" BY <1>3, <2>1 DEF CallFails, Rest
    <3> QED BY <3>1, DeclaredBefore DEF Creating
  <2>2. CASE pc \notin {"report", "finalize"} /\ Swallowed
    <3>1. /\ Creating /\ pc \in PastRelease /\ pass' = pass
          /\ UNCHANGED <<repo, release>>
      BY <1>3, <2>2 DEF CallFails, Calls, Swallowed, Go, Creating, PastRelease
    <3> QED BY <3>1, DeclaredAfter
  <2>3. CASE pc \notin {"report", "finalize"} /\ ~Swallowed
    <3>1. pc' = "report" BY <1>3, <2>3 DEF CallFails, Go, Fail, Finish
    <3> QED BY <3>1, DeclaredBefore DEF PastRepo, PastRelease, ReloaderSteps
  <2> QED BY <2>1, <2>2, <2>3
<1> QED BY <1>1, <1>2, <1>3

LEMMA DeclaredInstall ==
  ASSUME Core, DeclaredInv, InstallFlux
  PROVE  DeclaredInv'
<1> USE DEF objectVars, fluxVars, clusterVars
<1>0. /\ pc # "idle" /\ pass \in Pass /\ pass.path = "create" /\ PassConsistent
      /\ repo \in [Releases -> Repo \union {None}]
      /\ release \in [Releases -> Release \union {None}]
      /\ Argo \in Releases /\ Reloader \in Releases /\ Argo # Reloader
  BY DEF Core, InstallFlux, ApplyRepo, ApplyRelease, CannotBuild, PassConsistent, CreateOnly,
         ProvisionerTypeOK, ClustersTypeOK, Releases, Argo, Reloader
<1>1. CASE ApplyRepo(Argo, "repo", "release")
  <2>1. pc' = "release" /\ pass' = pass /\ repo'[Argo].spec = RepoFor(Argo)
    BY <1>0, <1>1 DEF ApplyRepo, Go
  <2>2. RepoFor(Argo) \in RepoSpec
    BY <1>0, <1>1, RepoForTyped DEF ApplyRepo, PassConsistent, Argo, Reloader
  <2>3. (repo[Argo] # None /\ repo[Argo].terminating) \in BOOLEAN BY <1>0 DEF Repo
  <2>4. repo'[Argo] \in Repo BY <1>0, <1>1, <2>2, <2>3 DEF ApplyRepo, Repo
  <2>5. repo'[Argo] # None BY <2>4, NoneAssumption
  <2>6. RepoFor(Argo)' = RepoFor(Argo) BY <2>1 DEF RepoFor, Selected
  <2> QED BY <2>1, <2>5, <2>6 DEF DeclaredInv, RepoDeclared, PastRelease, ReloaderSteps
<1>2. CASE pc = "release" /\ ApplyRelease(Argo, "release", ReloaderStep)
  <2>1. pass' = pass /\ repo' = repo /\ release'[Argo].spec = ReleaseFor(Argo)
    BY <1>0, <1>2 DEF ApplyRelease, Go
  <2>2. RepoDeclared BY <1>0, <1>2 DEF DeclaredInv, Creating, PastRepo
  <2>3. ReleaseFor(Argo) \in ReleaseSpec
    BY <1>0, <1>2, ReleaseForTyped DEF PassConsistent, Argo, Reloader
  <2>4. /\ (release[Argo] # None /\ release[Argo].terminating) \in BOOLEAN
        /\ (IF release[Argo] = None THEN "unknown" ELSE release[Argo].ready)
             \in {"unknown", "true", "false"}
    BY <1>0 DEF Release
  <2>5. release'[Argo] \in Release BY <1>0, <1>2, <2>3, <2>4 DEF ApplyRelease, Release, OwnerOf
  <2>6. release'[Argo] # None BY <2>5, NoneAssumption
  <2>7. RepoDeclared' /\ ReleaseDeclared'
    BY <2>1, <2>2, <2>6
    DEF RepoDeclared, ReleaseDeclared, RepoFor, ReleaseFor, Selected, Target, VaultEnabled
  <2> QED BY <2>7 DEF DeclaredInv
<1>3. CASE CannotBuild
  <2>1. pc' = "report" BY <1>3 DEF CannotBuild, Fail, Finish
  <2> QED BY <2>1, DeclaredBefore DEF PastRepo, PastRelease, ReloaderSteps
<1>4. CASE \/ ApplyRepo(Reloader, "reloaderRepo", "reloaderRelease")
           \/ ApplyRelease(Reloader, "reloaderRelease", "ready")
  <2>1. /\ Creating /\ pc \in PastRelease /\ pass' = pass
        /\ repo'[Argo] = repo[Argo] /\ release'[Argo] = release[Argo]
    BY <1>0, <1>4 DEF ApplyRepo, ApplyRelease, Go, Creating, PastRelease, ReloaderSteps
  <2> QED BY <2>1, DeclaredAfter
<1> QED BY <1>1, <1>2, <1>3, <1>4 DEF InstallFlux

LEMMA DeclaredOtherFlux ==
  ASSUME Core, DeclaredInv, UninstallFlux \/ IsUninstalled \/ Observe
  PROVE  DeclaredInv'
<1> USE DEF objectVars, fluxVars, clusterVars
<1>0. /\ pc # "idle" /\ pass \in Pass /\ PassConsistent
      /\ repo \in [Releases -> Repo \union {None}]
      /\ release \in [Releases -> Release \union {None}]
      /\ Argo \in Releases /\ Reloader \in Releases /\ Argo # Reloader
  BY DEF Core, UninstallFlux, IsUninstalled, Observe, DeleteRelease, DeleteRepo, Checked, Ready,
         ServerTLS, ServerService, ProvisionerTypeOK, ClustersTypeOK, Releases, Argo, Reloader
<1>1. CASE \/ DeleteRelease(Argo, "deleteRelease", "deleteRepo")
           \/ DeleteRepo(Argo, "deleteRepo", Begin(pass, "image"))
           \/ IsUninstalled
  <2>1. pass.path # "create"
    BY <1>0, <1>1
    DEF PassConsistent, DeleteOnly, CheckSteps, DeleteRelease, DeleteRepo, IsUninstalled, Checked
  <2>2. pass'.path = pass.path
    BY <1>0, <1>1, BeginFields DEF DeleteRelease, DeleteRepo, IsUninstalled, Checked, Go
  <2> QED BY <2>1, <2>2, DeclaredBefore DEF Creating
<1>2. CASE \/ DeleteRelease(Reloader, "deleteReloaderRelease", "deleteReloaderRepo")
           \/ DeleteRepo(Reloader, "deleteReloaderRepo",
                         Go(IF pass.path = "create" THEN "ready" ELSE "checkRelease"))
  <2>1. /\ pc \in PastRelease /\ pass' = pass
        /\ repo'[Argo] = repo[Argo] /\ release'[Argo] = release[Argo]
    BY <1>0, <1>2 DEF DeleteRelease, DeleteRepo, Go, PastRelease, ReloaderSteps
  <2>2. CASE Creating BY <2>1, <2>2, DeclaredAfter
  <2>3. CASE ~Creating BY <1>0, <2>1, <2>3, DeclaredBefore DEF Creating
  <2> QED BY <2>2, <2>3
<1>3. CASE Observe
  <2>1. \/ pc' = "report"
        \/ /\ Creating /\ pc \in PastRelease /\ pass' = pass
           /\ repo' = repo /\ release' = release
    <3>1. release[Argo] = None \/ release[Argo].ready = "true" \/ release[Argo].ready # "true"
      OBVIOUS
    <3> QED
      BY <1>0, <1>3, <3>1
      DEF Observe, Ready, ServerTLS, ServerService, EndpointPending, Fail, Finish, Go, Creating,
          PastRelease, PassConsistent, CreateOnly
  <2>2. CASE pc' = "report"
    BY <2>2, DeclaredBefore DEF PastRepo, PastRelease, ReloaderSteps
  <2> QED BY <2>1, <2>2, DeclaredAfter
<1> QED BY <1>1, <1>2, <1>3 DEF UninstallFlux

\* While they are not being deleted, nobody else touches what Argo CD's objects
\* ask for.
LEMMA OthersKeep ==
  ASSUME Core, Environment, Staying(repo[Argo]), Staying(release[Argo])
  PROVE  /\ repo'[Argo] = repo[Argo]
         /\ release[Argo] # None => release'[Argo] # None /\ release'[Argo].spec = release[Argo].spec
<1> USE DEF objectVars, fluxVars
<1>0. /\ Argo \in Releases
      /\ repo \in [Releases -> Repo \union {None}]
      /\ release \in [Releases -> Release \union {None}]
  BY DEF Core, ClustersTypeOK, Releases
<1>1. repo'[Argo] = repo[Argo]
  BY <1>0
  DEF Staying, Environment, TenantActs, EditSpec, Annotate, DeleteCR, CreateCR, CreateWorkload,
      DeleteWorkload, OperatorActs, EditConfig, EditSource, FluxActs, HelmSucceeds, HelmFails,
      HelmUninstalled, RepoCollected, GardenerActs, IssueCertificate, AssignAddress, Withdraw,
      AddFinalizer, CascadeFailure
<1>2. \/ release'[Argo] = release[Argo]
      \/ /\ release[Argo] \in Release
         /\ release'[Argo] \in {[release[Argo] EXCEPT !.ready = "true"],
                                [release[Argo] EXCEPT !.ready = "false"]}
  <2>1. ASSUME NEW r \in Releases, HelmSucceeds(r) \/ HelmFails(r)
        PROVE  \/ release'[Argo] = release[Argo]
               \/ /\ release[Argo] \in Release
                  /\ release'[Argo] \in {[release[Argo] EXCEPT !.ready = "true"],
                                         [release[Argo] EXCEPT !.ready = "false"]}
    BY <1>0, <2>1 DEF HelmSucceeds, HelmFails, Active
  <2>2. ASSUME NEW r \in Releases, HelmUninstalled(r) \/ RepoCollected(r)
        PROVE  release'[Argo] = release[Argo]
    BY <1>0, <2>2 DEF HelmUninstalled, RepoCollected, Staying
  <2>3. CASE TenantActs \/ OperatorActs \/ GardenerActs \/ AddFinalizer \/ CascadeFailure
    BY <2>3
    DEF TenantActs, EditSpec, Annotate, DeleteCR, CreateCR, CreateWorkload, DeleteWorkload,
        OperatorActs, EditConfig, EditSource, GardenerActs, IssueCertificate, AssignAddress,
        Withdraw, AddFinalizer, CascadeFailure
  <2> QED BY <2>1, <2>2, <2>3 DEF Environment, FluxActs
<1> QED BY <1>1, <1>2, NotNone DEF Release

LEMMA DeclaredEnvironment ==
  ASSUME Core, DeletionInv, DeclaredInv, Environment, UNCHANGED passVars
  PROVE  DeclaredInv'
<1>0. pc' = pc /\ pass' = pass BY DEF passVars
<1>1. CASE ~Creating BY <1>0, <1>1, DeclaredBefore DEF Creating
<1>2. CASE Creating
  <2>1. Staying(repo[Argo]) /\ Staying(release[Argo])
    BY <1>2 DEF Creating, DeletionInv, NoneLeaving
  <2>2. /\ RepoDeclared => RepoDeclared'
        /\ ReleaseDeclared => ReleaseDeclared'
    BY <1>0, <2>1, OthersKeep
    DEF RepoDeclared, ReleaseDeclared, RepoFor, ReleaseFor, Selected, Target, VaultEnabled
  <2> QED BY <1>0, <1>2, <2>2 DEF DeclaredInv, Creating
<1> QED BY <1>1, <1>2

InstallInv == CoreInv /\ DeletionInv /\ DeclaredInv

LEMMA InstallInvariant == Spec => []InstallInv
<1>1. Init => InstallInv
  <2>1. Init => CoreInv /\ DeletionInv BY CoreInit, DeletionInit DEF CoreInv, Init
  <2>2. Init => DeclaredInv BY DEF Init, DeclaredInv, Creating
  <2> QED BY <2>1, <2>2 DEF InstallInv
<1>2. InstallInv /\ [Next]_vars => InstallInv'
  <2> SUFFICES ASSUME InstallInv, [Next]_vars PROVE InstallInv' OBVIOUS
  <2>1. CoreInv' /\ DeletionInv' BY CoreInvStep, DeletionStep DEF InstallInv
  <2>2. Core /\ DeletionInv /\ DeclaredInv BY DEF InstallInv, CoreInv
  <2>3. CASE Work
    BY <2>1, <2>2, <2>3, DeclaredReplicate, DeclaredReconciler, DeclaredInstall, DeclaredOtherFlux
    DEF InstallInv, Work, ProvisionerStep
  <2>4. CASE CallFails \/ Crash BY <2>1, <2>2, <2>4, DeclaredReconciler DEF InstallInv
  <2>5. CASE Environment /\ UNCHANGED passVars
    BY <2>1, <2>2, <2>5, DeclaredEnvironment DEF InstallInv
  <2>6. CASE UNCHANGED vars
    <3>1. UNCHANGED <<pc, pass, repo, release>>
      BY <2>6 DEF vars, clusterVars, passVars, objectVars, fluxVars
    <3>2. DeclaredInv'
      BY <2>2, <3>1
      DEF DeclaredInv, Creating, RepoDeclared, ReleaseDeclared, RepoFor, ReleaseFor, Selected,
          Target, VaultEnabled
    <3> QED BY <2>1, <3>2 DEF InstallInv
  <2> QED BY <2>1, <2>3, <2>4, <2>5, <2>6 DEF Next, InstallInv
<1> QED BY <1>1, <1>2, PTL DEF Spec

-----------------------------------------------------------------------------
(* Only the last calls of a create pass turn its report to Ready. *)

TurnsReady == /\ pc # "idle" /\ pass.report.phase # "Ready"
              /\ pc' = "report" /\ pass'.report.phase = "Ready"

\* A step that ends the pass Failed or Progressing, leaves its report alone, or
\* goes on with the pass does not.
LEMMA KeepsReport ==
  ASSUME Core, pc # "idle",
         \/ \E reason \in Reasons : Fail(reason)
         \/ \E p \in PassSteps : Go(p)
         \/ pc' # "report"
  PROVE  ~TurnsReady
<1>1. pass \in Pass BY DEF Core, ProvisionerTypeOK
<1>2. CASE \E reason \in Reasons : Fail(reason)
  <2>1. pass'.report.phase = "Failed" BY <1>1, <1>2 DEF Fail, Finish, Pass
  <2> QED BY <2>1 DEF TurnsReady
<1>3. CASE \E p \in PassSteps : Go(p)
  BY <1>3 DEF Go, TurnsReady
<1>4. CASE pc' # "report" BY <1>4 DEF TurnsReady
<1> QED BY <1>2, <1>3, <1>4

LEMMA ReadyProvisioner ==
  ASSUME Core, ProvisionerStep, TurnsReady
  PROVE  pass.path = "create" /\ pc \in PastRelease
<1>0. pc # "idle" /\ pass \in Pass /\ PassConsistent
  BY DEF TurnsReady, Core, ProvisionerTypeOK
<1>1. CASE Replicate
  <2>1. CASE ReadSource
    <3>1. Fail("InstallFailed") \/ pc' # "report" BY <2>1 DEF ReadSource, AfterRead
    <3> QED BY <1>0, <3>1, KeepsReport DEF Reasons
  <2>2. CASE EnsureNamespace BY <2>2 DEF EnsureNamespace, Go, TurnsReady
  <2>3. CASE WriteReplica
    <3>1. Fail("InstallFailed") \/ pc' # "report" BY <2>3 DEF WriteReplica
    <3> QED BY <1>0, <3>1, KeepsReport DEF Reasons
  <2>4. CASE ListReplicas \/ DropReplica
    BY <2>4 DEF ListReplicas, DropReplica, TurnsReady
  <2>5. CASE ReplicasDone
    <3>1. pass.kind \in {"image", "chart", "ca"} BY <1>0 DEF Pass, SecretKinds
    <3>2. \/ Begin(pass, "chart") \/ Begin(pass, "ca")
          \/ \E p \in PassSteps : Go(p)
      BY <2>5, <3>1 DEF ReplicasDone, AfterReplicas, PassSteps, ReloaderSteps
    <3>3. (\E p \in PassSteps : Go(p)) \/ pc' # "report" BY <3>2 DEF Begin
    <3> QED BY <1>0, <3>3, KeepsReport
  <2> QED BY <1>1, <2>1, <2>2, <2>3, <2>4, <2>5 DEF Replicate
<1>2. CASE InstallFlux
  <2>1. Fail("InstallFailed") \/ pc' # "report"
    BY <1>2
    DEF InstallFlux, ApplyRepo, ApplyRelease, CannotBuild, Go, ReloaderStep
  <2> QED BY <1>0, <2>1, KeepsReport DEF Reasons
<1>3. CASE UninstallFlux
  <2>1. pc' # "report" BY <1>3 DEF UninstallFlux, DeleteRelease, DeleteRepo, Go, Begin
  <2> QED BY <2>1 DEF TurnsReady
<1>4. CASE IsUninstalled
  <2>1. pc' # "report" \/ Go("report") BY <1>4 DEF IsUninstalled, Checked, Go, Begin
  <2> QED BY <1>0, <2>1, KeepsReport DEF PassSteps
<1>5. CASE Observe
  <2>1. pc \in {"ready", "tls", "service"} BY <1>5 DEF Observe, Ready, ServerTLS, ServerService
  <2> QED BY <1>0, <2>1 DEF PassConsistent, CreateOnly, PastRelease
<1> QED BY <1>1, <1>2, <1>3, <1>4, <1>5 DEF ProvisionerStep

LEMMA ReadyReconciler ==
  ASSUME Core, TurnsReady,
         \/ StartCreate \/ ClearAnnotation \/ Admit \/ StartDelete
         \/ CountUserArgoCDResources \/ WriteStatus \/ ReleaseFinalizer
         \/ CallFails \/ Crash
  PROVE  FALSE
<1>0. pc # "idle" /\ pass \in Pass BY DEF TurnsReady, Core, ProvisionerTypeOK
<1>1. CASE StartCreate \/ StartDelete \/ ClearAnnotation \/ WriteStatus
           \/ ReleaseFinalizer \/ Crash
  BY <1>1
  DEF StartCreate, StartDelete, ClearAnnotation, WriteStatus, ReleaseFinalizer, Crash, Rest,
      TurnsReady
<1>2. CASE Admit
  <2>1. (\E reason \in Reasons : Fail(reason)) \/ pc' # "report"
    BY <1>2 DEF Admit, Begin, Reasons
  <2> QED BY <1>0, <2>1, KeepsReport
<1>3. CASE CountUserArgoCDResources
  <2>1. pass'.report = pass.report BY <1>0, <1>3 DEF CountUserArgoCDResources, Pass
  <2> QED BY <2>1 DEF TurnsReady
<1>4. CASE CallFails
  <2>1. FailureReason \in Reasons BY DEF FailureReason, Reasons
  <2>2. pc' # "report" \/ Go("report") \/ Fail(FailureReason)
    BY <1>4 DEF CallFails, Rest, Go
  <2> QED BY <1>0, <2>1, <2>2, KeepsReport DEF PassSteps
<1> QED BY <1>1, <1>2, <1>3, <1>4

\* Ready stands for a complete declaration: the pass that reports it found, or
\* left, both of Argo CD's Flux objects asking for what it was started with,
\* for any configuration and whatever else was going on.
THEOREM ReadyIsDeclared == Spec => ReadyMeansDeclared
<1>1. InstallInv /\ Next /\ TurnsReady => RepoDeclared /\ ReleaseDeclared
  <2> SUFFICES ASSUME InstallInv, Next, TurnsReady PROVE RepoDeclared /\ ReleaseDeclared
    OBVIOUS
  <2>1. Core BY DEF InstallInv, CoreInv
  <2>2. ~UNCHANGED passVars BY DEF TurnsReady, passVars
  <2>3. pass.path = "create" /\ pc \in PastRelease
    BY <2>1, <2>2, ReadyProvisioner, ReadyReconciler DEF Next, Work
  <2> QED BY <2>3 DEF InstallInv, DeclaredInv, Creating, TurnsReady, PastRepo
<1>2. UNCHANGED vars => ~TurnsReady
  BY DEF vars, passVars, TurnsReady
<1>3. InstallInv /\ [Next]_vars =>
        [pc # "idle" /\ pass.report.phase # "Ready" /\ pc' = "report" /\ pass'.report.phase = "Ready"
           => /\ repo[Argo] # None /\ repo[Argo].spec = RepoFor(Argo)
              /\ release[Argo] # None /\ release[Argo].spec = ReleaseFor(Argo)]_vars
  BY <1>1, <1>2 DEF RepoDeclared, ReleaseDeclared, TurnsReady
<1> QED BY <1>3, InstallInvariant, PTL DEF Spec, ReadyMeansDeclared

-----------------------------------------------------------------------------
(* Every HelmRelease carries the managed-by value of its own release. *)

OwnInv == \A r \in Releases : release[r] # None => release[r].owner = r

LEMMA OwnStep == Core /\ OwnInv /\ [Next]_vars => OwnInv'
<1> SUFFICES ASSUME Core, OwnInv, [Next]_vars PROVE OwnInv' OBVIOUS
<1> USE DEF objectVars, fluxVars, clusterVars
<1>0. release \in [Releases -> Release \union {None}] BY DEF Core, ClustersTypeOK
<1>1. ASSUME NEW r \in Releases, NEW obj \in Release \union {None},
             release' = [release EXCEPT ![r] = obj], obj # None => obj.owner = r
      PROVE  OwnInv'
  BY <1>0, <1>1 DEF OwnInv
<1>2. CASE release' = release BY <1>2 DEF OwnInv
<1>3. ASSUME NEW r \in Releases, HelmSucceeds(r) \/ HelmFails(r) \/ HelmUninstalled(r) PROVE OwnInv'
  <2>1. release[r] \in Release \union {None} BY <1>0
  <2>2. CASE HelmUninstalled(r) BY <1>1, <2>2 DEF HelmUninstalled
  <2>3. CASE HelmSucceeds(r) \/ HelmFails(r)
    <3>1. PICK o \in {"true", "false"} : release' = [release EXCEPT ![r].ready = o]
      BY <2>3 DEF HelmSucceeds, HelmFails
    <3>2. release[r] \in Release BY <2>1, <2>3 DEF HelmSucceeds, HelmFails, Active
    <3>3. release' = [release EXCEPT ![r] = [release[r] EXCEPT !.ready = o]] BY <1>0, <3>1
    <3>4. [release[r] EXCEPT !.ready = o] \in Release /\ [release[r] EXCEPT !.ready = o].owner = r
      BY <3>1, <3>2, NotNone DEF OwnInv, Release
    <3> QED BY <1>1, <3>3, <3>4
  <2> QED BY <1>3, <2>2, <2>3
<1>4. ASSUME NEW r \in Releases, NEW here, NEW next, DeleteRelease(r, here, next) PROVE OwnInv'
  <2>1. release[r] \in Release \union {None} BY <1>0
  <2>2. Terminated(release[r]) \in Release \union {None} BY <2>1, TerminatedRelease
  <2>3. Terminated(release[r]) # None => Terminated(release[r]).owner = r
    BY <2>1 DEF Terminated, OwnInv, Release
  <2> QED BY <1>1, <1>4, <2>2, <2>3 DEF DeleteRelease
<1>5. ASSUME NEW r \in Releases, NEW here, NEW next, ApplyRelease(r, here, next) PROVE OwnInv'
  BY <1>0, <1>5 DEF ApplyRelease, OwnInv, OwnerOf
<1>6. Argo \in Releases /\ Reloader \in Releases BY DEF Releases
<1>7. CASE Work
  <2>1. CASE ProvisionerStep
    <3>1. CASE Replicate \/ IsUninstalled \/ Observe
      <4>1. release' = release
        BY <3>1
        DEF Replicate, ReadSource, EnsureNamespace, WriteReplica, ListReplicas, DropReplica,
            ReplicasDone, IsUninstalled, Checked, Observe, Ready, ServerTLS, ServerService
      <4> QED BY <4>1, <1>2
    <3>2. CASE InstallFlux
      BY <1>2, <1>5, <1>6, <3>2 DEF InstallFlux, ApplyRepo, CannotBuild
    <3>3. CASE UninstallFlux BY <1>2, <1>4, <1>6, <3>3 DEF UninstallFlux, DeleteRepo
    <3> QED BY <2>1, <3>1, <3>2, <3>3 DEF ProvisionerStep
  <2>2. CASE ~ProvisionerStep
    <3>1. release' = release
      BY <1>7, <2>2
      DEF Work, StartCreate, ClearAnnotation, Admit, StartDelete, CountUserArgoCDResources,
          WriteStatus, ReleaseFinalizer
    <3> QED BY <3>1, <1>2
  <2> QED BY <2>1, <2>2
<1>8. CASE CallFails \/ Crash BY <1>2, <1>8 DEF CallFails, Crash
<1>9. CASE Environment
  <2>1. CASE FluxActs
    <3>1. ASSUME NEW r \in Releases, RepoCollected(r) PROVE OwnInv'
      BY <1>2, <3>1 DEF RepoCollected
    <3> QED BY <1>3, <2>1, <3>1 DEF FluxActs
  <2>2. CASE ~FluxActs
    <3>1. release' = release
      BY <1>9, <2>2
      DEF Environment, TenantActs, EditSpec, Annotate, DeleteCR, CreateCR, CreateWorkload,
          DeleteWorkload, OperatorActs, EditConfig, EditSource, GardenerActs, IssueCertificate,
          AssignAddress, Withdraw, AddFinalizer, CascadeFailure
    <3> QED BY <3>1, <1>2
  <2> QED BY <2>1, <2>2
<1>10. CASE UNCHANGED vars BY <1>2, <1>10 DEF vars
<1> QED BY <1>7, <1>8, <1>9, <1>10 DEF Next

\* The framework never deletes the resource on account of the Reloader: a
\* deletion that is not the tenant's needs a failed HelmRelease of Argo CD's own.
THEOREM ReloaderHarmless == Spec => ReloaderNeverCascades
<1>1. Init => OwnInv BY DEF Init, ClustersInit, OwnInv
<1>2. Core /\ OwnInv /\ [Next]_vars =>
        [cr = "live" /\ cr' = "deleting" /\ edits' = edits
           => release[Argo] # None /\ release[Argo].ready = "false"]_vars
  <2> SUFFICES ASSUME Core, OwnInv, Next, cr = "live", cr' = "deleting", edits' = edits
               PROVE  release[Argo] # None /\ release[Argo].ready = "false"
    OBVIOUS
  <2>1. ~DeleteCR
    <3>1. edits \in Nat /\ MaxEdits \in Nat
      BY ConstantsAssumption DEF Core, ClustersTypeOK
    <3> QED BY <3>1 DEF DeleteCR, Edit
  <2>2. CascadeFailure
    <3>1. CASE Work
      <4>1. cr' = cr \/ cr' = "absent"
        BY <3>1
        DEF Work, StartCreate, ClearAnnotation, Admit, StartDelete, CountUserArgoCDResources,
            ProvisionerStep, Replicate, ReadSource, EnsureNamespace, WriteReplica, ListReplicas,
            DropReplica, ReplicasDone, InstallFlux, ApplyRepo, ApplyRelease, CannotBuild,
            UninstallFlux, DeleteRelease, DeleteRepo, IsUninstalled, Checked, Observe, Ready,
            ServerTLS, ServerService, WriteStatus, ReleaseFinalizer, clusterVars, crVars
      <4> QED BY <4>1
    <3>2. CASE CallFails \/ Crash BY <3>2 DEF CallFails, Crash, crVars
    <3>3. CASE Environment
      BY <2>1, <3>3
      DEF Environment, TenantActs, EditSpec, Annotate, CreateCR, CreateWorkload, DeleteWorkload,
          OperatorActs, EditConfig, EditSource, FluxActs, HelmSucceeds, HelmFails,
          HelmUninstalled, RepoCollected, GardenerActs, IssueCertificate, AssignAddress,
          Withdraw, AddFinalizer, crVars
    <3> QED BY <3>1, <3>2, <3>3 DEF Next
  <2> QED BY <2>2 DEF CascadeFailure, OwnInv
<1>3. CoreInv => Core BY DEF CoreInv
<1> QED BY <1>1, <1>2, <1>3, OwnStep, DeletionInvariant, PTL DEF Spec, ReloaderNeverCascades

=============================================================================
