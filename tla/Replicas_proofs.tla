-------------------------- MODULE Replicas_proofs --------------------------
(***************************************************************************)
(* Theorems about Replicas, for every value of its constants: two          *)
(* reconcilers without a lock release the finalizer over a clean control   *)
(* plane unless a create and a delete pass overlapped.  What one process   *)
(* does by itself is taken from ArgoCDReconciler_proofs, once for each.    *)
(***************************************************************************)
EXTENDS Replicas, TLAPS

P1 == INSTANCE ArgoCDReconciler_proofs WITH pc <- pc1, pass <- pass1, late <- {}
P2 == INSTANCE ArgoCDReconciler_proofs WITH pc <- pc2, pass <- pass2, late <- {}

-----------------------------------------------------------------------------
(* The lemmas of the instances speak of their own copies of the definitions. *)

LEMMA Assumed1 == P1!ConstantsAssumption /\ P1!NoneAssumption /\ P1!PassAssumption
<1>1. P1!ConstantsAssumption
  BY ConstantsAssumption
  DEF P1!ConstantsAssumption, P1!ArgoCDSpec, ArgoCDSpec, P1!ProviderConfig, ProviderConfig,
      P1!Offer, Offer, P1!Addon, Addon, P1!Places, Places, P1!Tenant, Tenant
<1>2. P1!NoneAssumption
  BY NoneAssumption
  DEF P1!NoneAssumption, P1!Offer, Offer, P1!Addon, Addon, P1!Secret, Secret, P1!Repo, Repo,
      P1!Release, Release, P1!ReleaseSpec, ReleaseSpec, P1!RepoSpec, RepoSpec, P1!Labels, Labels,
      P1!Releases, Releases, P1!Argo, Argo, P1!Reloader, Reloader, P1!Tenant, Tenant
<1>3. P1!PassAssumption
  BY PairAssumption
  DEF P1!PassAssumption, First!Pass, P1!Pass, First!SecretKinds, P1!SecretKinds,
      First!ArgoCDStatus, P1!ArgoCDStatus, First!Phases, P1!Phases, First!Reasons, P1!Reasons
<1> QED BY <1>1, <1>2, <1>3

LEMMA Assumed2 == P2!ConstantsAssumption /\ P2!NoneAssumption /\ P2!PassAssumption
<1>1. P2!ConstantsAssumption
  BY ConstantsAssumption
  DEF P2!ConstantsAssumption, P2!ArgoCDSpec, ArgoCDSpec, P2!ProviderConfig, ProviderConfig,
      P2!Offer, Offer, P2!Addon, Addon, P2!Places, Places, P2!Tenant, Tenant
<1>2. P2!NoneAssumption
  BY NoneAssumption
  DEF P2!NoneAssumption, P2!Offer, Offer, P2!Addon, Addon, P2!Secret, Secret, P2!Repo, Repo,
      P2!Release, Release, P2!ReleaseSpec, ReleaseSpec, P2!RepoSpec, RepoSpec, P2!Labels, Labels,
      P2!Releases, Releases, P2!Argo, Argo, P2!Reloader, Reloader, P2!Tenant, Tenant
<1>3. P2!PassAssumption
  BY PairAssumption
  DEF P2!PassAssumption, First!Pass, P2!Pass, First!SecretKinds, P2!SecretKinds,
      First!ArgoCDStatus, P2!ArgoCDStatus, First!Phases, P2!Phases, First!Reasons, P2!Reasons
<1> QED BY <1>1, <1>2, <1>3

LEMMA SameWork == (First!Work <=> P1!Work) /\ (Second!Work <=> P2!Work)
<1>1. First!Work <=> P1!Work
  BY DEF
      First!Admit, P1!Admit, First!AfterRead, P1!AfterRead, First!AfterReplicas,
      P1!AfterReplicas, First!ApplyRelease, P1!ApplyRelease, First!ApplyRepo,
      P1!ApplyRepo, First!Argo, P1!Argo, First!Begin, P1!Begin, First!Buildable,
      P1!Buildable, First!CannotBuild, P1!CannotBuild, First!CertOf, P1!CertOf,
      First!Checked, P1!Checked, First!ClearAnnotation, P1!ClearAnnotation,
      First!CountUserArgoCDResources, P1!CountUserArgoCDResources, First!Counts,
      P1!Counts, First!DeleteRelease, P1!DeleteRelease, First!DeleteRepo, P1!DeleteRepo,
      First!DropReplica, P1!DropReplica, First!EndpointPending, P1!EndpointPending,
      First!EnsureNamespace, P1!EnsureNamespace, First!Fail, P1!Fail, First!Finish,
      P1!Finish, First!Found, P1!Found, First!Go, P1!Go, First!Gone, P1!Gone,
      First!InstallFlux, P1!InstallFlux, First!IsUninstalled, P1!IsUninstalled,
      First!Kept, P1!Kept, First!Kinds, P1!Kinds, First!ListReplicas, P1!ListReplicas,
      First!Mark, P1!Mark, First!Marked, P1!Marked, First!Named, P1!Named, First!NewPass,
      P1!NewPass, First!NextKind, P1!NextKind, First!NoStatus, P1!NoStatus,
      First!Observe, P1!Observe, First!OwnerOf, P1!OwnerOf, First!Place, P1!Place,
      First!ProvisionerStep, P1!ProvisionerStep, First!ReadSource, P1!ReadSource,
      First!Ready, P1!Ready, First!Reconciles, P1!Reconciles, First!ReleaseFinalizer,
      P1!ReleaseFinalizer, First!ReleaseFor, P1!ReleaseFor, First!Reloader, P1!Reloader,
      First!ReloaderStep, P1!ReloaderStep, First!Replica, P1!Replica, First!ReplicasDone,
      P1!ReplicasDone, First!Replicate, P1!Replicate, First!RepoFor, P1!RepoFor,
      First!Rest, P1!Rest, First!Selected, P1!Selected, First!ServerService,
      P1!ServerService, First!ServerTLS, P1!ServerTLS, First!StartCreate, P1!StartCreate,
      First!StartDelete, P1!StartDelete, First!Target, P1!Target, First!Tenant,
      P1!Tenant, First!Terminated, P1!Terminated, First!ToCopy, P1!ToCopy, First!ToDrop,
      P1!ToDrop, First!UninstallFlux, P1!UninstallFlux, First!VaultEnabled,
      P1!VaultEnabled, First!Wanted, P1!Wanted, First!Work, P1!Work, First!WriteReplica,
      P1!WriteReplica, First!WriteStatus, P1!WriteStatus, First!boundVars, P1!boundVars,
      First!clusterVars, P1!clusterVars, First!crVars, P1!crVars, First!fluxVars,
      P1!fluxVars, First!inputVars, P1!inputVars, First!mcpVars, P1!mcpVars,
      First!objectVars, P1!objectVars
<1>2. Second!Work <=> P2!Work
  BY DEF
      Second!Admit, P2!Admit, Second!AfterRead, P2!AfterRead, Second!AfterReplicas,
      P2!AfterReplicas, Second!ApplyRelease, P2!ApplyRelease, Second!ApplyRepo,
      P2!ApplyRepo, Second!Argo, P2!Argo, Second!Begin, P2!Begin, Second!Buildable,
      P2!Buildable, Second!CannotBuild, P2!CannotBuild, Second!CertOf, P2!CertOf,
      Second!Checked, P2!Checked, Second!ClearAnnotation, P2!ClearAnnotation,
      Second!CountUserArgoCDResources, P2!CountUserArgoCDResources, Second!Counts,
      P2!Counts, Second!DeleteRelease, P2!DeleteRelease, Second!DeleteRepo,
      P2!DeleteRepo, Second!DropReplica, P2!DropReplica, Second!EndpointPending,
      P2!EndpointPending, Second!EnsureNamespace, P2!EnsureNamespace, Second!Fail,
      P2!Fail, Second!Finish, P2!Finish, Second!Found, P2!Found, Second!Go, P2!Go,
      Second!Gone, P2!Gone, Second!InstallFlux, P2!InstallFlux, Second!IsUninstalled,
      P2!IsUninstalled, Second!Kept, P2!Kept, Second!Kinds, P2!Kinds,
      Second!ListReplicas, P2!ListReplicas, Second!Mark, P2!Mark, Second!Marked,
      P2!Marked, Second!Named, P2!Named, Second!NewPass, P2!NewPass, Second!NextKind,
      P2!NextKind, Second!NoStatus, P2!NoStatus, Second!Observe, P2!Observe,
      Second!OwnerOf, P2!OwnerOf, Second!Place, P2!Place, Second!ProvisionerStep,
      P2!ProvisionerStep, Second!ReadSource, P2!ReadSource, Second!Ready, P2!Ready,
      Second!Reconciles, P2!Reconciles, Second!ReleaseFinalizer, P2!ReleaseFinalizer,
      Second!ReleaseFor, P2!ReleaseFor, Second!Reloader, P2!Reloader,
      Second!ReloaderStep, P2!ReloaderStep, Second!Replica, P2!Replica,
      Second!ReplicasDone, P2!ReplicasDone, Second!Replicate, P2!Replicate,
      Second!RepoFor, P2!RepoFor, Second!Rest, P2!Rest, Second!Selected, P2!Selected,
      Second!ServerService, P2!ServerService, Second!ServerTLS, P2!ServerTLS,
      Second!StartCreate, P2!StartCreate, Second!StartDelete, P2!StartDelete,
      Second!Target, P2!Target, Second!Tenant, P2!Tenant, Second!Terminated,
      P2!Terminated, Second!ToCopy, P2!ToCopy, Second!ToDrop, P2!ToDrop,
      Second!UninstallFlux, P2!UninstallFlux, Second!VaultEnabled, P2!VaultEnabled,
      Second!Wanted, P2!Wanted, Second!Work, P2!Work, Second!WriteReplica,
      P2!WriteReplica, Second!WriteStatus, P2!WriteStatus, Second!boundVars,
      P2!boundVars, Second!clusterVars, P2!clusterVars, Second!crVars, P2!crVars,
      Second!fluxVars, P2!fluxVars, Second!inputVars, P2!inputVars, Second!mcpVars,
      P2!mcpVars, Second!objectVars, P2!objectVars
<1> QED BY <1>1, <1>2

LEMMA SameEnvironment == Environment <=> P1!Environment
BY DEF
      Environment, P1!Environment, TenantActs, P1!TenantActs, EditSpec, P1!EditSpec,
      Annotate, P1!Annotate, DeleteCR, P1!DeleteCR, CreateCR, P1!CreateCR,
      CreateWorkload, P1!CreateWorkload, DeleteWorkload, P1!DeleteWorkload, OperatorActs,
      P1!OperatorActs, EditConfig, P1!EditConfig, EditSource, P1!EditSource, FluxActs,
      P1!FluxActs, HelmSucceeds, P1!HelmSucceeds, HelmFails, P1!HelmFails,
      HelmUninstalled, P1!HelmUninstalled, RepoCollected, P1!RepoCollected, GardenerActs,
      P1!GardenerActs, IssueCertificate, P1!IssueCertificate, AssignAddress,
      P1!AssignAddress, Withdraw, P1!Withdraw, Exposes, P1!Exposes, Active, P1!Active,
      Edit, P1!Edit, AddFinalizer, P1!AddFinalizer, CascadeFailure, P1!CascadeFailure,
      NoStatus, P1!NoStatus, Releases, P1!Releases, Argo, P1!Argo, Reloader, P1!Reloader,
      Kinds, P1!Kinds, crVars, P1!crVars, inputVars, P1!inputVars, fluxVars, P1!fluxVars,
      mcpVars, P1!mcpVars, boundVars, P1!boundVars, objectVars, P1!objectVars

LEMMA SameTypes == /\ P1!ClustersTypeOK <=> P2!ClustersTypeOK
                   /\ P1!ClustersTypeOK' <=> P2!ClustersTypeOK'
BY DEF
    P1!ClustersTypeOK, P2!ClustersTypeOK, P1!ArgoCDStatus, P2!ArgoCDStatus, P1!Phases,
    P2!Phases, P1!Reasons, P2!Reasons, P1!Places, P2!Places, P1!Tenant, P2!Tenant,
    P1!Secret, P2!Secret, P1!Labels, P2!Labels, P1!Repo, P2!Repo, P1!RepoSpec, P2!RepoSpec,
    P1!Release, P2!Release, P1!ReleaseSpec, P2!ReleaseSpec, P1!Releases, P2!Releases,
    P1!Argo, P2!Argo, P1!Reloader, P2!Reloader, P1!Kinds, P2!Kinds

LEMMA SameFlux ==
  /\ P1!AllGone <=> P2!AllGone
  /\ P1!AllGone' <=> P2!AllGone'
  /\ P1!InstalledDeclared <=> P2!InstalledDeclared
  /\ P1!InstalledDeclared' <=> P2!InstalledDeclared'
  /\ P1!DeclaresNothing <=> P2!DeclaresNothing
BY DEF P1!AllGone, P2!AllGone, P1!InstalledDeclared, P2!InstalledDeclared,
       P1!DeclaresNothing, P2!DeclaresNothing, P1!Releases, P2!Releases, P1!Argo, P2!Argo,
       P1!Reloader, P2!Reloader

-----------------------------------------------------------------------------
(* The inductive invariant. *)

Cores == P1!Core /\ P2!Core

\* Unless the paths of two passes have met, what either process has checked is
\* still so, and a resource without a finalizer has no create pass and no Flux
\* object behind it.
Undisturbed ==
  /\ ~Opposed(pass1, pass2)
  /\ cr \in {"absent", "fresh"} => P1!AllGone /\ ~P1!Creating /\ ~P2!Creating
  /\ P1!ChecksPassed /\ P2!ChecksPassed
  /\ P1!InstalledDeclared

ReplicasInv == Cores /\ (~overlap => Undisturbed)

LEMMA IdleOrPass ==
  ASSUME Cores
  PROVE  /\ (pc1 = "idle" <=> pass1 = None) /\ (pc2 = "idle" <=> pass2 = None)
         /\ P1!Creating /\ ~Opposed(pass1, pass2) => pc2 = "idle" \/ pass2.path = "create"
         /\ P2!Creating /\ ~Opposed(pass1, pass2) => pc1 = "idle" \/ pass1.path = "create"
<1>1. (pc1 = "idle" <=> pass1 = None) /\ (pc2 = "idle" <=> pass2 = None)
  BY Assumed1, Assumed2
  DEF Cores, P1!Core, P2!Core, P1!ProvisionerTypeOK, P2!ProvisionerTypeOK, P1!PassAssumption,
      P2!PassAssumption
<1> QED BY <1>1 DEF Opposed, P1!Creating, P2!Creating

LEMMA InvInit == Init => ReplicasInv
<1> SUFFICES ASSUME Init PROVE ReplicasInv OBVIOUS
<1>1. P1!Init /\ P2!Init
  BY DEF Init, ClustersInit, P1!Init, P2!Init, P1!ClustersInit, P2!ClustersInit, Places,
         P1!Places, P2!Places, Tenant, P1!Tenant, P2!Tenant, Releases, P1!Releases, P2!Releases,
         Argo, P1!Argo, P2!Argo, Reloader, P1!Reloader, P2!Reloader, NoStatus, P1!NoStatus,
         P2!NoStatus
<1>2. Cores BY <1>1, P1!CoreInit, P2!CoreInit, Assumed1, Assumed2 DEF Cores
<1>3. Undisturbed
  BY DEF Init, ClustersInit, Undisturbed, Opposed, P1!AllGone, P1!Releases, Releases, P1!Argo,
         Argo, P1!Reloader, Reloader, P1!Creating, P2!Creating, P1!ChecksPassed, P2!ChecksPassed,
         P1!PastChecks, P2!PastChecks, P1!InstalledDeclared
<1> QED BY <1>2, <1>3 DEF ReplicasInv

LEMMA FirstInv ==
  ASSUME ReplicasInv, FirstStep
  PROVE  ReplicasInv'
<1>0. /\ Cores /\ UNCHANGED <<pc2, pass2>>
      /\ ~overlap' => ~overlap /\ ~Opposed(pass1', pass2')
  BY DEF ReplicasInv, FirstStep, Record, secondVars
<1>1. CASE FirstRefused
  <2>1. /\ pc1 # "idle" /\ UNCHANGED apiVars
        /\ \/ pc1' = "idle" /\ pass1' = None
           \/ pc1' = "report" /\ pass1' = pass1 /\ pass1.path = "create"
    BY <1>0, <1>1
    DEF FirstRefused, OwnWrites, First!Go, First!Rest, Cores, P1!Core, P1!PassConsistent,
        P1!CreateOnly
  <2>2. UNCHANGED <<cr, repo, release, deployed>>
    BY <2>1 DEF apiVars, crVars, objectVars, mcpVars
  <2>3. P1!ClustersTypeOK' /\ P2!ClustersTypeOK'
    BY <1>0, <2>1
    DEF apiVars, crVars, inputVars, objectVars, mcpVars, boundVars, Cores, P1!Core, P2!Core,
        P1!ClustersTypeOK, P2!ClustersTypeOK
  <2>4. P1!PassConsistent' /\ P1!ProvisionerTypeOK'
    BY <1>0, <2>1
    DEF Cores, P1!Core, P1!PassConsistent, P1!ProvisionerTypeOK, P1!CreateOnly, P1!DeleteOnly,
        P1!PassSteps, P1!Kinds, P1!CheckSteps
  <2>5. Cores'
    BY <1>0, <2>3, <2>4
    DEF Cores, P1!Core, P2!Core, P2!ProvisionerTypeOK, P2!PassConsistent, P2!Admitted, P2!Selected
  <2>6. ASSUME ~overlap' PROVE Undisturbed'
    <3>1. Undisturbed /\ ~Opposed(pass1', pass2') BY <1>0, <2>6 DEF ReplicasInv
    <3>2. P1!DeclaresNothing /\ P1!InstalledDeclared' /\ P1!AllGone' = P1!AllGone
      BY <2>2, <3>1 DEF P1!DeclaresNothing, Undisturbed, P1!InstalledDeclared, P1!AllGone
    <3>3. P2!ChecksPassed'
      BY <1>0, <3>1, <3>2, SameFlux, P2!ChecksKept, Assumed2 DEF Undisturbed
    <3>4. P1!ChecksPassed' /\ (P1!Creating' => P1!Creating) /\ (P2!Creating' => P2!Creating)
      BY <1>0, <2>1 DEF P1!ChecksPassed, P1!PastChecks, P1!SecretSteps, P1!Creating, P2!Creating
    <3> QED BY <2>2, <3>1, <3>2, <3>3, <3>4 DEF Undisturbed
  <2> QED BY <2>5, <2>6 DEF ReplicasInv
<1>2. CASE First!Work
  <2>1. P1!Work BY <1>2, SameWork
  <2>2. P1!Core' BY <1>0, <2>1, P1!WorkTyped, Assumed1 DEF Cores
  <2>3. Cores'
    <3>1. P2!ClustersTypeOK' BY <2>2, SameTypes DEF P1!Core
    <3>2. P2!ProvisionerTypeOK' /\ P2!PassConsistent'
      BY <1>0
      DEF Cores, P2!Core, P2!ProvisionerTypeOK, P2!PassConsistent, P2!Admitted, P2!Selected
    <3> QED BY <2>2, <3>1, <3>2 DEF Cores, P2!Core
  <2>4. ASSUME ~overlap' PROVE Undisturbed'
    <3>0. Undisturbed /\ ~Opposed(pass1, pass2) /\ ~Opposed(pass1', pass2')
      BY <1>0, <2>4 DEF ReplicasInv, Undisturbed
    <3>1. /\ P1!ChecksPassed' /\ P1!InstalledDeclared'
          /\ P1!DeclaresNothing \/ P1!Creating
          /\ P1!Creating' => P1!Creating \/ (cr = "live" /\ cr' = "live")
          /\ cr' = cr \/ (P1!PastChecks /\ pc1' = "idle" /\ UNCHANGED <<repo, release>>)
      BY <1>0, <2>1, <3>0, P1!WorkAlone, Assumed1 DEF Cores, Undisturbed
    <3>2. P2!ChecksPassed'
      <4>1. CASE P1!DeclaresNothing
        BY <1>0, <3>0, <4>1, SameFlux, P2!ChecksKept, Assumed2 DEF Undisturbed
      <4>2. CASE P1!Creating
        <5>1. pc2 = "idle" \/ pass2.path = "create" BY <1>0, <3>0, <4>2, IdleOrPass
        <5>2. P2!PassConsistent' BY <2>3 DEF Cores, P2!Core
        <5> QED
          BY <1>0, <5>1, <5>2
          DEF P2!PassConsistent, P2!ChecksPassed, P2!PastChecks, P2!DeleteOnly, P2!CheckSteps
      <4> QED BY <3>1, <4>1, <4>2
    <3>3. cr' \in {"absent", "fresh"} => P1!AllGone' /\ ~P1!Creating' /\ ~P2!Creating'
      <4>1. CASE cr' = cr
        BY <1>0, <3>0, <3>1, <4>1
        DEF Undisturbed, P1!AllGone, P1!DeclaresNothing, P2!Creating
      <4>2. CASE P1!PastChecks /\ pc1' = "idle" /\ UNCHANGED <<repo, release>>
        <5>1. P1!AllGone' BY <3>0, <4>2 DEF Undisturbed, P1!ChecksPassed, P1!AllGone
        <5>2. pc1 # "idle" /\ pass1.path = "delete" BY <4>2 DEF P1!PastChecks
        <5>3. ~P2!Creating' BY <1>0, <3>0, <5>2, IdleOrPass DEF P2!Creating
        <5> QED BY <4>2, <5>1, <5>3 DEF P1!Creating
      <4> QED BY <3>1, <4>1, <4>2
    <3> QED BY <3>0, <3>1, <3>2, <3>3 DEF Undisturbed
  <2> QED BY <2>3, <2>4 DEF ReplicasInv
<1> QED BY <1>1, <1>2 DEF FirstStep, FirstWorks

LEMMA SecondInv ==
  ASSUME ReplicasInv, SecondStep
  PROVE  ReplicasInv'
<1>0. /\ Cores /\ UNCHANGED <<pc1, pass1>>
      /\ ~overlap' => ~overlap /\ ~Opposed(pass1', pass2')
  BY DEF ReplicasInv, SecondStep, Record, firstVars
<1>1. CASE SecondRefused
  <2>1. /\ pc2 # "idle" /\ UNCHANGED apiVars
        /\ \/ pc2' = "idle" /\ pass2' = None
           \/ pc2' = "report" /\ pass2' = pass2 /\ pass2.path = "create"
    BY <1>0, <1>1
    DEF SecondRefused, OwnWrites, Second!Go, Second!Rest, Cores, P2!Core, P2!PassConsistent,
        P2!CreateOnly
  <2>2. UNCHANGED <<cr, repo, release, deployed>>
    BY <2>1 DEF apiVars, crVars, objectVars, mcpVars
  <2>3. P2!ClustersTypeOK' /\ P1!ClustersTypeOK'
    BY <1>0, <2>1
    DEF apiVars, crVars, inputVars, objectVars, mcpVars, boundVars, Cores, P2!Core, P1!Core,
        P2!ClustersTypeOK, P1!ClustersTypeOK
  <2>4. P2!PassConsistent' /\ P2!ProvisionerTypeOK'
    BY <1>0, <2>1
    DEF Cores, P2!Core, P2!PassConsistent, P2!ProvisionerTypeOK, P2!CreateOnly, P2!DeleteOnly,
        P2!PassSteps, P2!Kinds, P2!CheckSteps
  <2>5. Cores'
    BY <1>0, <2>3, <2>4
    DEF Cores, P2!Core, P1!Core, P1!ProvisionerTypeOK, P1!PassConsistent, P1!Admitted, P1!Selected
  <2>6. ASSUME ~overlap' PROVE Undisturbed'
    <3>1. Undisturbed /\ ~Opposed(pass1', pass2') BY <1>0, <2>6 DEF ReplicasInv
    <3>2. P2!DeclaresNothing /\ P2!InstalledDeclared' /\ P2!AllGone' = P2!AllGone
      BY <2>2, <3>1, SameFlux DEF P2!DeclaresNothing, Undisturbed, P2!InstalledDeclared, P2!AllGone
    <3>3. P1!ChecksPassed'
      BY <1>0, <3>1, <3>2, SameFlux, P1!ChecksKept, Assumed1 DEF Undisturbed
    <3>4. P2!ChecksPassed' /\ (P2!Creating' => P2!Creating) /\ (P1!Creating' => P1!Creating)
      BY <1>0, <2>1 DEF P2!ChecksPassed, P2!PastChecks, P2!SecretSteps, P2!Creating, P1!Creating
    <3> QED BY <2>2, <3>1, <3>2, <3>3, <3>4, SameFlux DEF Undisturbed
  <2> QED BY <2>5, <2>6 DEF ReplicasInv
<1>2. CASE Second!Work
  <2>1. P2!Work BY <1>2, SameWork
  <2>2. P2!Core' BY <1>0, <2>1, P2!WorkTyped, Assumed2 DEF Cores
  <2>3. Cores'
    <3>1. P1!ClustersTypeOK' BY <2>2, SameTypes DEF P2!Core
    <3>2. P1!ProvisionerTypeOK' /\ P1!PassConsistent'
      BY <1>0
      DEF Cores, P1!Core, P1!ProvisionerTypeOK, P1!PassConsistent, P1!Admitted, P1!Selected
    <3> QED BY <2>2, <3>1, <3>2 DEF Cores, P1!Core
  <2>4. ASSUME ~overlap' PROVE Undisturbed'
    <3>0. Undisturbed /\ ~Opposed(pass1, pass2) /\ ~Opposed(pass1', pass2')
      BY <1>0, <2>4 DEF ReplicasInv, Undisturbed
    <3>1. /\ P2!ChecksPassed' /\ P2!InstalledDeclared'
          /\ P2!DeclaresNothing \/ P2!Creating
          /\ P2!Creating' => P2!Creating \/ (cr = "live" /\ cr' = "live")
          /\ cr' = cr \/ (P2!PastChecks /\ pc2' = "idle" /\ UNCHANGED <<repo, release>>)
      BY <1>0, <2>1, <3>0, P2!WorkAlone, Assumed2, SameFlux DEF Cores, Undisturbed
    <3>2. P1!ChecksPassed'
      <4>1. CASE P2!DeclaresNothing
        BY <1>0, <3>0, <4>1, SameFlux, P1!ChecksKept, Assumed1 DEF Undisturbed
      <4>2. CASE P2!Creating
        <5>1. pc1 = "idle" \/ pass1.path = "create" BY <1>0, <3>0, <4>2, IdleOrPass
        <5>2. P1!PassConsistent' BY <2>3 DEF Cores, P1!Core
        <5> QED
          BY <1>0, <5>1, <5>2
          DEF P1!PassConsistent, P1!ChecksPassed, P1!PastChecks, P1!DeleteOnly, P1!CheckSteps
      <4> QED BY <3>1, <4>1, <4>2
    <3>3. cr' \in {"absent", "fresh"} => P2!AllGone' /\ ~P2!Creating' /\ ~P1!Creating'
      <4>1. CASE cr' = cr
        BY <1>0, <3>0, <3>1, <4>1, SameFlux
        DEF Undisturbed, P2!AllGone, P2!DeclaresNothing, P1!Creating
      <4>2. CASE P2!PastChecks /\ pc2' = "idle" /\ UNCHANGED <<repo, release>>
        <5>1. P2!AllGone' BY <3>0, <4>2 DEF Undisturbed, P2!ChecksPassed, P2!AllGone
        <5>2. pc2 # "idle" /\ pass2.path = "delete" BY <4>2 DEF P2!PastChecks
        <5>3. ~P1!Creating' BY <1>0, <3>0, <5>2, IdleOrPass DEF P1!Creating
        <5> QED BY <4>2, <5>1, <5>3 DEF P2!Creating
      <4> QED BY <3>1, <4>1, <4>2
    <3> QED BY <3>0, <3>1, <3>2, <3>3, SameFlux DEF Undisturbed
  <2> QED BY <2>3, <2>4 DEF ReplicasInv
<1> QED BY <1>1, <1>2 DEF SecondStep, SecondWorks

LEMMA OthersInv ==
  ASSUME ReplicasInv, Others(Environment)
  PROVE  ReplicasInv'
<1>0. /\ Cores /\ UNCHANGED <<pc1, pass1, pc2, pass2>> /\ P1!Environment
      /\ ~overlap' => ~overlap /\ ~Opposed(pass1', pass2')
  BY SameEnvironment DEF ReplicasInv, Others, Record, firstVars, secondVars
<1>1. P1!ClustersTypeOK' /\ P2!ClustersTypeOK'
  BY <1>0, P1!EnvironmentTyped, Assumed1, SameTypes DEF Cores, P1!Core
<1>2. Cores'
  BY <1>0, <1>1
  DEF Cores, P1!Core, P2!Core, P1!ProvisionerTypeOK, P2!ProvisionerTypeOK, P1!PassConsistent,
      P2!PassConsistent, P1!Admitted, P2!Admitted, P1!Selected, P2!Selected
<1>3. ASSUME ~overlap' PROVE Undisturbed'
  <2>1. Undisturbed /\ ~Opposed(pass1', pass2') BY <1>0, <1>3 DEF ReplicasInv
  <2>2. /\ P1!DeclaresNothing /\ P1!InstalledDeclared'
        /\ cr' \in {"absent", "fresh"} => cr \in {"absent", "fresh"}
    BY <1>0, <2>1, P1!OthersAlone, Assumed1 DEF Cores, P1!Core, Undisturbed
  <2>3. P1!ChecksPassed' /\ P2!ChecksPassed'
    BY <1>0, <2>1, <2>2, SameFlux, P1!ChecksKept, P2!ChecksKept, Assumed1, Assumed2
    DEF Undisturbed
  <2> QED
    BY <1>0, <2>1, <2>2, <2>3
    DEF Undisturbed, P1!AllGone, P1!DeclaresNothing, P1!Creating, P2!Creating
<1> QED BY <1>2, <1>3 DEF ReplicasInv

LEMMA InvStep == ReplicasInv /\ [Next]_replicaVars => ReplicasInv'
<1> SUFFICES ASSUME ReplicasInv, [Next]_replicaVars PROVE ReplicasInv' OBVIOUS
<1>1. CASE UNCHANGED replicaVars
  <2>1. UNCHANGED <<crVars, inputVars, objectVars, mcpVars, boundVars,
                    pc1, pass1, pc2, pass2, overlap>>
    BY <1>1 DEF replicaVars, apiVars, firstVars, secondVars
  <2>2. Cores'
    BY <2>1
    DEF ReplicasInv, crVars, inputVars, objectVars, mcpVars, boundVars, Cores, P1!Core, P2!Core,
        P1!ClustersTypeOK, P2!ClustersTypeOK, P1!ProvisionerTypeOK, P2!ProvisionerTypeOK,
        P1!PassConsistent, P2!PassConsistent, P1!Admitted, P2!Admitted, P1!Selected, P2!Selected
  <2>3. UNCHANGED <<cr, repo, release, deployed>>
    BY <2>1 DEF crVars, objectVars, mcpVars
  <2>4. /\ P1!ChecksPassed => P1!ChecksPassed'
        /\ P2!ChecksPassed => P2!ChecksPassed'
    BY <2>1, <2>3
    DEF P1!AllGone, P1!ChecksPassed, P1!PastChecks, P2!AllGone, P2!ChecksPassed, P2!PastChecks
  <2>5. Undisturbed => Undisturbed'
    BY <2>1, <2>3, <2>4
    DEF Undisturbed, P1!AllGone, P1!Creating, P2!Creating, P1!InstalledDeclared, Opposed
  <2> QED BY <2>1, <2>2, <2>5 DEF ReplicasInv
<1> QED BY <1>1, FirstInv, SecondInv, OthersInv DEF Next

\* Two reconcilers without a lock between them: the resource is released over a
\* clean control plane (Delete, IsUninstalled) unless a create pass of one and
\* a delete pass of the other have run at the same time.
THEOREM CleanWithoutOverlap == Spec => []CleanUnlessOverlap
<1>1. ReplicasInv => CleanUnlessOverlap
  BY DEF ReplicasInv, Cores, P1!Core, Undisturbed, CleanUnlessOverlap, P1!AllGone,
         P1!InstalledDeclared, P1!Releases, Releases, P1!Argo, Argo, P1!Reloader, Reloader
<1> QED BY <1>1, InvInit, InvStep, PTL DEF Spec

=============================================================================
