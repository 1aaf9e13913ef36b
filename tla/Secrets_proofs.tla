--------------------------- MODULE Secrets_proofs ---------------------------
(***************************************************************************)
(* Theorems about the replicated Secrets: they are there before what       *)
(* references them and until nothing does, they vanish with the resource,  *)
(* and nobody else's Secrets are touched.                                  *)
(***************************************************************************)
EXTENDS ArgoCDReconciler_proofs

-----------------------------------------------------------------------------
(* How a pass moves.  Seen from the Secrets, every step is one of a few.       *)

\* A pass begins, with nothing copied or pruned.
PassBegins ==
  /\ pc = "idle" /\ pc' \in {"annotation", "admit", "Application"}
  /\ pass' \in Pass /\ pass'.kind = "image" /\ pass'.left = {} /\ pass'.doomed = {}

SameInputs == pass'.path = pass.path /\ pass'.spec = pass.spec /\ pass'.config = pass.config

SameLists == pass'.kind = pass.kind /\ pass'.left = pass.left /\ pass'.doomed = pass.doomed

\* A call that has nothing to do with Secrets, or one that failed.  Only the
\* patch that clears the annotation gives the pass another spec.
Moves ==
  /\ pc \notin {"idle", "report"} /\ SameLists /\ pass'.path = pass.path
  /\ pass'.config = pass.config
  /\ \/ pc = "annotation" /\ pc' = "admit"
     \/ /\ SameInputs
        /\ \/ pc' = "report"
           \/ /\ pc \in PassSteps \ (SecretSteps \union {"annotation", "admit"})
              /\ pc' \in PassSteps \ (SecretSteps \union {"annotation", "admit", "finalize"})
              /\ pc' \in ReloaderSteps \union CheckSteps =>
                   pass.path = "create" \/ pc \in ReloaderSteps \union CheckSteps

\* The pass turns to the replicas of a kind.
Turns(k) ==
  /\ SameInputs /\ pass'.kind = k /\ pass'.left = ToCopy(k) /\ pass'.doomed = ToDrop(k)
  /\ pc' = IF ToCopy(k) # {} THEN "read" ELSE IF ToDrop(k) # {} THEN "drop" ELSE "list"
  /\ \/ k = "image" /\ pc \in {"admit", "deleteRepo"}
     \/ k = "chart" /\ pc = "drop" /\ pass.kind = "image" /\ pass.doomed = {}
     \/ k = "ca" /\ pc = "drop" /\ pass.kind = "chart" /\ pass.doomed = {} /\ pass.path = "create"
     \/ k = "ca" /\ pc = "checkReloaderRepo"

\* The pass is through with the replicas.
Leaves ==
  /\ pc = "drop" /\ pass.doomed = {} /\ pass' = pass
  /\ \/ pass.kind = "chart" /\ pass.path = "delete" /\ pc' = "deleteReloaderRelease"
     \/ pass.kind = "ca" /\ pc' = IF pass.path = "create" THEN "repo" ELSE "finalize"

Reads ==
  /\ pc = "read" /\ pc' \in {"namespace", "write"}
  /\ SameInputs /\ pass'.kind = pass.kind /\ pass'.doomed = pass.doomed
  /\ \E n \in pass.left : /\ pass'.left = pass.left \ {n}
                          /\ pass'.held.name = n /\ pass'.held.data = source[n]

Waits == pc = "namespace" /\ pc' = "write" /\ pass' = pass

Writes ==
  /\ pc = "write" /\ SameInputs /\ SameLists
  /\ pc' = IF pass.left # {} THEN "read" ELSE IF pass.kind = "ca" THEN "drop" ELSE "list"
  /\ secrets' = [secrets EXCEPT ![<<Place(pass.kind), pass.held.name>>] =
                   Replica(@, pass.kind, pass.held.data)]

Lists ==
  /\ pc = "list" /\ pc' = "drop" /\ SameInputs
  /\ pass'.kind = pass.kind /\ pass'.left = pass.left
  /\ pass'.doomed = Found(pass.kind) \ Kept(pass.kind)

Drops(n) ==
  /\ pc = "drop" /\ pc' = "drop" /\ n \in pass.doomed /\ SameInputs
  /\ pass'.kind = pass.kind /\ pass'.left = pass.left /\ pass'.doomed = pass.doomed \ {n}
  /\ secrets' = [secrets EXCEPT ![<<Place(pass.kind), n>>] = None]

NoWrite ==
  /\ UNCHANGED secrets
  /\ \/ UNCHANGED <<pc, pass>> \/ Rest \/ PassBegins \/ Moves \/ Leaves \/ Reads \/ Waits \/ Lists
     \/ \E k \in SecretKinds : Turns(k)

Moved == NoWrite \/ Writes \/ \E n \in Names : Drops(n)

LEMMA TurnsFrom ==
  ASSUME NEW p \in Pass, NEW k \in SecretKinds, Begin(p, k),
         p.path = pass.path, p.spec = pass.spec, p.config = pass.config
  PROVE  /\ SameInputs /\ pass'.kind = k /\ pass'.left = ToCopy(k) /\ pass'.doomed = ToDrop(k)
         /\ pc' = IF ToCopy(k) # {} THEN "read" ELSE IF ToDrop(k) # {} THEN "drop" ELSE "list"
BY DEF Begin, Pass, SameInputs

LEMMA FinishMoves ==
  ASSUME pass \in Pass, pc \notin {"idle", "report"}, NEW phase, NEW reason, NEW endpoint,
         Finish(phase, reason, endpoint)
  PROVE  Moves
BY DEF Finish, Moves, SameInputs, SameLists, Pass

LEMMA ReplicateMoved ==
  ASSUME Core, Replicate
  PROVE  Moved
<1> USE DEF crVars, inputVars, objectVars, mcpVars, boundVars, fluxVars, clusterVars
<1>0. pc \in SecretSteps /\ pass \in Pass /\ PassConsistent /\ pass.kind \in SecretKinds
  BY DEF Core, Replicate, ReadSource, EnsureNamespace, WriteReplica, ListReplicas,
         DropReplica, ReplicasDone, ProvisionerTypeOK, SecretSteps, Pass
<1>1. ASSUME Fail("InstallFailed") PROVE Moves
  BY <1>0, <1>1, FinishMoves DEF Fail, SecretSteps
<1>2. CASE ReadSource
  <2>1. UNCHANGED secrets BY <1>2 DEF ReadSource
  <2>2. PICK n \in pass.left :
          IF source[n] = None THEN Fail("InstallFailed")
          ELSE /\ pc' = AfterRead(pass.kind)
               /\ pass' = [pass EXCEPT !.left = @ \ {n},
                                       !.held = [name |-> n, data |-> source[n]]]
    BY <1>2 DEF ReadSource
  <2>3. CASE source[n] = None BY <1>1, <2>1, <2>2, <2>3 DEF Moved, NoWrite
  <2>4. CASE source[n] # None
    <3>1. pass' = [pass EXCEPT !.left = @ \ {n}, !.held = [name |-> n, data |-> source[n]]]
      BY <2>2, <2>4
    <3>2. /\ pass'.left = pass.left \ {n}
          /\ pass'.held.name = n /\ pass'.held.data = source[n]
      BY <1>0, <3>1 DEF Pass
    <3>3. SameInputs /\ pass'.kind = pass.kind /\ pass'.doomed = pass.doomed
      BY <1>0, <3>1 DEF SameInputs, Pass
    <3>4. pc = "read" /\ pc' \in {"namespace", "write"}
      BY <1>2, <2>2, <2>4 DEF ReadSource, AfterRead
    <3>5. Reads BY <3>2, <3>3, <3>4 DEF Reads
    <3> QED BY <2>1, <3>5 DEF Moved, NoWrite
  <2> QED BY <2>3, <2>4
<1>3. CASE EnsureNamespace
  BY <1>3 DEF EnsureNamespace, Go, Waits, Moved, NoWrite
<1>4. CASE WriteReplica
  <2>1. CASE pass.kind = "image" /\ Target \notin namespaces
    BY <1>1, <1>4, <2>1 DEF WriteReplica, Moved, NoWrite
  <2>2. CASE ~(pass.kind = "image" /\ Target \notin namespaces)
    <3>1. /\ pc = "write"
          /\ secrets' = [secrets EXCEPT ![<<Place(pass.kind), pass.held.name>>] =
                           Replica(@, pass.kind, pass.held.data)]
          /\ pc' = IF pass.left # {} THEN "read" ELSE IF pass.kind = "ca" THEN "drop" ELSE "list"
          /\ pass' = [pass EXCEPT !.held = None,
                                  !.ca = IF pass.kind = "ca" THEN CertOf(pass.held.data) ELSE @]
      BY <1>4, <2>2 DEF WriteReplica
    <3>2. SameInputs /\ SameLists BY <1>0, <3>1 DEF SameInputs, SameLists, Pass
    <3> QED BY <3>1, <3>2 DEF Writes, Moved
  <2> QED BY <2>1, <2>2
<1>5. CASE ListReplicas
  BY <1>0, <1>5 DEF ListReplicas, Lists, SameInputs, Pass, Moved, NoWrite
<1>6. CASE DropReplica
  <2>1. PICK n \in pass.doomed :
          /\ secrets' = [secrets EXCEPT ![<<Place(pass.kind), n>>] = None]
          /\ pass' = [pass EXCEPT !.doomed = @ \ {n}]
    BY <1>6 DEF DropReplica
  <2>2. n \in Names BY <1>0 DEF Pass
  <2>3. Drops(n)
    BY <1>0, <1>6, <2>1 DEF DropReplica, Drops, SameInputs, Pass
  <2> QED BY <2>2, <2>3 DEF Moved
<1>7. CASE ReplicasDone
  <2>1. pc = "drop" /\ pass.doomed = {} /\ AfterReplicas /\ UNCHANGED secrets
    BY <1>7 DEF ReplicasDone
  <2>2. pass.path \in {"create", "delete"} BY <1>0 DEF Pass
  <2>3. CASE pass.kind = "image"
    <3>1. Begin(pass, "chart") BY <2>1, <2>3 DEF AfterReplicas
    <3>2. Turns("chart") BY <1>0, <2>1, <2>3, <3>1, TurnsFrom DEF Turns, SecretKinds
    <3> QED BY <2>1, <3>2 DEF Moved, NoWrite, SecretKinds
  <2>4. CASE pass.kind = "chart" /\ pass.path = "create"
    <3>1. Begin(pass, "ca") BY <2>1, <2>4 DEF AfterReplicas
    <3>2. Turns("ca") BY <1>0, <2>1, <2>4, <3>1, TurnsFrom DEF Turns, SecretKinds
    <3> QED BY <2>1, <3>2 DEF Moved, NoWrite, SecretKinds
  <2>5. CASE (pass.kind = "chart" /\ pass.path = "delete") \/ pass.kind = "ca"
    <3>1. Leaves BY <2>1, <2>2, <2>5 DEF AfterReplicas, Go, Leaves
    <3> QED BY <2>1, <3>1 DEF Moved, NoWrite
  <2> QED BY <1>0, <2>2, <2>3, <2>4, <2>5 DEF SecretKinds
<1> QED BY <1>2, <1>3, <1>4, <1>5, <1>6, <1>7 DEF Replicate

\* A call that goes on to another one, neither of them about Secrets.
LEMMA GoMoves ==
  ASSUME pc \in PassSteps \ (SecretSteps \union {"annotation", "admit", "report"}),
         NEW p \in PassSteps \ (SecretSteps \union {"annotation", "admit", "finalize"}), Go(p),
         p \in ReloaderSteps \union CheckSteps =>
           pass.path = "create" \/ pc \in ReloaderSteps \union CheckSteps
  PROVE  Moves
BY DEF Go, Moves, SameInputs, SameLists, PassSteps, Kinds, SecretSteps, ReloaderSteps, CheckSteps

LEMMA FluxMoved ==
  ASSUME Core, InstallFlux \/ UninstallFlux \/ IsUninstalled \/ Observe
  PROVE  Moved
<1> USE DEF crVars, inputVars, objectVars, mcpVars, boundVars, fluxVars, clusterVars
<1>0. /\ pass \in Pass /\ PassConsistent /\ UNCHANGED secrets
      /\ pc \in PassSteps \ (SecretSteps \union {"annotation", "admit", "report"})
  BY DEF Core, InstallFlux, UninstallFlux, IsUninstalled, Observe, ApplyRepo, ApplyRelease,
         CannotBuild, DeleteRelease, DeleteRepo, Checked, Ready, ServerTLS, ServerService,
         ProvisionerTypeOK, PassSteps, Kinds, SecretSteps, ReloaderSteps, CheckSteps
<1>1. ASSUME Moves PROVE Moved BY <1>0, <1>1 DEF Moved, NoWrite
<1>2. ASSUME NEW phase, NEW reason, NEW endpoint, Finish(phase, reason, endpoint) PROVE Moved
  BY <1>0, <1>1, <1>2, FinishMoves DEF PassSteps, Kinds, SecretSteps, ReloaderSteps, CheckSteps
<1>3. CASE InstallFlux
  <2>1. \/ pc = "repo" /\ Go("release")
        \/ pc = "release" /\ Go(ReloaderStep)
        \/ Fail("InstallFailed")
        \/ pc = "reloaderRepo" /\ Go("reloaderRelease")
        \/ pc = "reloaderRelease" /\ Go("ready")
    BY <1>3 DEF InstallFlux, ApplyRepo, ApplyRelease, CannotBuild
  <2>2. pc = "release" => pass.path = "create"
    BY <1>0 DEF PassConsistent, CreateOnly
  <2>3. ReloaderStep \in {"reloaderRepo", "deleteReloaderRelease"} BY DEF ReloaderStep
  <2>4. CASE Fail("InstallFailed") BY <1>2, <2>4 DEF Fail
  <2>5. CASE \/ pc = "repo" /\ Go("release")
             \/ pc = "release" /\ Go(ReloaderStep)
             \/ pc = "reloaderRepo" /\ Go("reloaderRelease")
             \/ pc = "reloaderRelease" /\ Go("ready")
    BY <1>0, <1>1, <2>2, <2>3, <2>5, GoMoves DEF PassSteps, SecretSteps, ReloaderSteps, CheckSteps
  <2> QED BY <2>1, <2>4, <2>5
<1>4. CASE UninstallFlux
  <2>1. \/ pc = "deleteRelease" /\ Go("deleteRepo")
        \/ pc = "deleteRepo" /\ Begin(pass, "image")
        \/ pc = "deleteReloaderRelease" /\ Go("deleteReloaderRepo")
        \/ /\ pc = "deleteReloaderRepo"
           /\ Go(IF pass.path = "create" THEN "ready" ELSE "checkRelease")
    BY <1>4 DEF UninstallFlux, DeleteRelease, DeleteRepo
  <2>2. CASE pc = "deleteRepo" /\ Begin(pass, "image")
    <3>1. Turns("image") BY <1>0, <2>2, TurnsFrom DEF Turns, SecretKinds
    <3> QED BY <1>0, <3>1 DEF Moved, NoWrite, SecretKinds
  <2>3. CASE \/ pc = "deleteRelease" /\ Go("deleteRepo")
             \/ pc = "deleteReloaderRelease" /\ Go("deleteReloaderRepo")
             \/ /\ pc = "deleteReloaderRepo"
                /\ Go(IF pass.path = "create" THEN "ready" ELSE "checkRelease")
    BY <1>0, <1>1, <2>3, GoMoves DEF PassSteps, SecretSteps, ReloaderSteps, CheckSteps
  <2> QED BY <2>1, <2>2, <2>3
<1>5. CASE IsUninstalled
  <2>1. \/ pc \in CheckSteps /\ (\/ Go("report") \/ Go("checkRepo") \/ Go("checkReloaderRelease")
                                 \/ Go("checkReloaderRepo"))
        \/ pc = "checkReloaderRepo" /\ Begin(pass, "ca")
    BY <1>5 DEF IsUninstalled, Checked, CheckSteps
  <2>2. CASE pc = "checkReloaderRepo" /\ Begin(pass, "ca")
    <3>1. Turns("ca") BY <1>0, <2>2, TurnsFrom DEF Turns, SecretKinds
    <3> QED BY <1>0, <3>1 DEF Moved, NoWrite, SecretKinds
  <2>3. CASE pc \in CheckSteps /\ (\/ Go("report") \/ Go("checkRepo")
                                   \/ Go("checkReloaderRelease") \/ Go("checkReloaderRepo"))
    BY <1>0, <1>1, <2>3, GoMoves DEF PassSteps, SecretSteps, ReloaderSteps, CheckSteps
  <2> QED BY <2>1, <2>2, <2>3
<1>6. CASE Observe
  <2>1. \/ Fail("ReadinessCheckFailed") \/ Go("tls") \/ Go("service")
        \/ Finish("Progressing", "Reconciling", pass.report.endpoint)
        \/ Finish("Ready", "None", None) \/ Finish("Progressing", "EndpointPending", None)
        \/ Finish("Ready", "None", pass.spec.host)
    <3>1. release[Argo] = None \/ release[Argo].ready = "true" \/ release[Argo].ready # "true"
      OBVIOUS
    <3> QED BY <1>6, <3>1 DEF Observe, Ready, ServerTLS, ServerService, EndpointPending
  <2>2. CASE Go("tls") \/ Go("service")
    BY <1>0, <1>1, <2>2, GoMoves DEF PassSteps, SecretSteps, ReloaderSteps, CheckSteps
  <2>3. CASE ~(Go("tls") \/ Go("service"))
    BY <1>2, <2>1, <2>3 DEF Fail
  <2> QED BY <2>2, <2>3
<1> QED BY <1>3, <1>4, <1>5, <1>6

LEMMA ReconcilerMoved ==
  ASSUME Core,
         \/ StartCreate \/ ClearAnnotation \/ Admit \/ StartDelete
         \/ CountUserArgoCDResources \/ WriteStatus \/ ReleaseFinalizer
         \/ CallFails \/ Crash
  PROVE  Moved
<1> USE DEF crVars, inputVars, objectVars, mcpVars, boundVars, clusterVars
<1>0. /\ ClustersTypeOK /\ PassConsistent /\ (pc # "idle" => pass \in Pass)
      /\ pc \in PassSteps \union {"idle"} /\ UNCHANGED secrets
  BY DEF Core, ProvisionerTypeOK, StartCreate, ClearAnnotation, Admit, StartDelete,
         CountUserArgoCDResources, WriteStatus, ReleaseFinalizer, CallFails, Crash
<1>1. ASSUME Moves PROVE Moved BY <1>0, <1>1 DEF Moved, NoWrite
<1>2. ASSUME NEW reason, Fail(reason), pc \notin {"idle", "report"} PROVE Moved
  BY <1>0, <1>1, <1>2, FinishMoves DEF Fail
<1>3. CASE StartCreate
  <2>1. pass' = NewPass("create", status) /\ NewPass("create", status) \in Pass
    BY <1>0, <1>3, NewPassTyped DEF StartCreate, ClustersTypeOK
  <2>2. PassBegins BY <1>3, <2>1 DEF StartCreate, PassBegins, NewPass
  <2> QED BY <1>0, <2>2 DEF Moved, NoWrite
<1>4. CASE StartDelete
  <2> DEFINE last == [status EXCEPT !.phase = "Terminating", !.reason = "Terminating"]
  <2>1. last \in ArgoCDStatus
    BY <1>0 DEF ClustersTypeOK, ArgoCDStatus, Phases, Reasons
  <2>2. pass' = NewPass("delete", last) BY <1>4 DEF StartDelete
  <2> HIDE DEF last
  <2>3. NewPass("delete", last) \in Pass
    BY <1>0, <2>1, NewPassTyped DEF ClustersTypeOK
  <2>4. pass' \in Pass /\ pass'.kind = "image" /\ pass'.left = {} /\ pass'.doomed = {}
    <3>1. pass' \in Pass BY <2>2, <2>3
    <3>2. pass'.kind = "image" /\ pass'.left = {} /\ pass'.doomed = {} BY <2>2 DEF NewPass
    <3> QED BY <3>1, <3>2
  <2>5. PassBegins BY <1>4, <2>4 DEF StartDelete, PassBegins
  <2> QED BY <1>0, <2>5 DEF Moved, NoWrite
<1>5. CASE ClearAnnotation
  <2>1. Moves BY <1>0, <1>5 DEF ClearAnnotation, Moves, SameLists, Pass
  <2> QED BY <1>1, <2>1
<1>6. CASE Admit
  <2> DEFINE p == [pass EXCEPT !.report.phase = "Progressing", !.report.reason = "Reconciling"]
  <2>1. pc = "admit" /\ pass \in Pass BY <1>0, <1>6 DEF Admit
  <2>2. \/ Fail("InvalidVersion") \/ Fail("InvalidExposure") \/ Fail("InstallFailed")
        \/ Begin(p, "image")
    BY <1>6 DEF Admit
  <2>3. CASE Begin(p, "image")
    <3>1. p \in Pass /\ p.path = pass.path /\ p.spec = pass.spec /\ p.config = pass.config
      BY <2>1 DEF Pass, ArgoCDStatus, Phases, Reasons
    <3> HIDE DEF p
    <3>2. Turns("image") BY <2>1, <2>3, <3>1, TurnsFrom DEF Turns, SecretKinds
    <3> QED BY <1>0, <3>2 DEF Moved, NoWrite, SecretKinds
  <2>4. CASE ~Begin(p, "image") BY <1>2, <2>1, <2>2, <2>4
  <2> QED BY <2>3, <2>4
<1>7. CASE CountUserArgoCDResources
  <2>1. /\ pc \in Kinds /\ pass \in Pass
        /\ pass' = [pass EXCEPT !.found = pass.found \/ Counts(pc)]
    BY <1>0, <1>7 DEF CountUserArgoCDResources, Kinds
  <2>2. pc' \in {"ApplicationSet", "AppProject", "report", "deleteRelease"}
    BY <1>7, <2>1 DEF CountUserArgoCDResources, NextKind, Kinds
  <2>3. Moves
    BY <2>1, <2>2
    DEF Moves, SameInputs, SameLists, Pass, Kinds, PassSteps, SecretSteps, ReloaderSteps, CheckSteps
  <2> QED BY <1>1, <2>3
<1>8. CASE WriteStatus \/ ReleaseFinalizer \/ Crash
  BY <1>0, <1>8 DEF WriteStatus, ReleaseFinalizer, Crash, Moved, NoWrite
<1>9. CASE CallFails
  <2>1. \/ Rest
        \/ /\ pc \notin {"idle", "report"}
           /\ \/ Swallowed /\ ((Go("reloaderRelease") /\ pc = "reloaderRepo") \/ Go("ready"))
              \/ Go("report") \/ Fail(FailureReason)
    <3>1. CASE pc \in {"report", "finalize"} BY <1>9, <3>1 DEF CallFails
    <3>2. CASE pc \notin {"report", "finalize"} /\ Swallowed
      BY <1>9, <3>2 DEF CallFails, Calls
    <3>3. CASE pc \notin {"report", "finalize"} /\ ~Swallowed
      BY <1>9, <3>3 DEF CallFails, Calls
    <3> QED BY <3>1, <3>2, <3>3
  <2>2. CASE Rest BY <1>0, <2>2 DEF Moved, NoWrite
  <2>3. CASE Swallowed /\ ((Go("reloaderRelease") /\ pc = "reloaderRepo") \/ Go("ready"))
    BY <1>0, <1>1, <2>3, GoMoves
    DEF Swallowed, PassSteps, SecretSteps, ReloaderSteps, CheckSteps
  <2>4. CASE pc \notin {"idle", "report"} /\ Go("report")
    BY <1>0, <1>1, <2>4 DEF Go, Moves, SameInputs, SameLists
  <2>5. CASE pc \notin {"idle", "report"} /\ Fail(FailureReason) BY <1>2, <2>5
  <2> QED BY <2>1, <2>2, <2>3, <2>4, <2>5
<1> QED BY <1>3, <1>4, <1>5, <1>6, <1>7, <1>8, <1>9

LEMMA EverythingMoves ==
  ASSUME Core, [Next]_vars
  PROVE  Moved
<1>1. CASE Work
  BY <1>1, ReplicateMoved, FluxMoved, ReconcilerMoved DEF Work, ProvisionerStep
<1>2. CASE CallFails \/ Crash BY <1>2, ReconcilerMoved
<1>3. CASE Environment /\ UNCHANGED passVars
  <2>1. UNCHANGED secrets
    BY <1>3
    DEF Environment, TenantActs, EditSpec, Annotate, DeleteCR, CreateCR, CreateWorkload,
        DeleteWorkload, OperatorActs, EditConfig, EditSource, FluxActs, HelmSucceeds, HelmFails,
        HelmUninstalled, RepoCollected, GardenerActs, IssueCertificate, AssignAddress, Withdraw,
        AddFinalizer, CascadeFailure, objectVars
  <2> QED BY <1>3, <2>1 DEF passVars, Moved, NoWrite
<1>4. CASE UNCHANGED vars
  BY <1>4 DEF vars, clusterVars, passVars, objectVars, Moved, NoWrite
<1> QED BY <1>1, <1>2, <1>3, <1>4 DEF Next

-----------------------------------------------------------------------------
(* The replicas of a kind, wherever they are, and what a call does to them.    *)

ReplicasOf(k) ==
  IF k = "image" THEN {n \in Names : \E p \in Namespaces : n \in Marked(p, "managed")}
  ELSE Marked(Tenant, k)

LEMMA TargetTyped ==
  ASSUME pass \in Pass
  PROVE  Target \in Targets /\ Target \in Namespaces /\ Target # Tenant
BY ConstantsAssumption, NoneAssumption DEF Target, Targets, Pass, ArgoCDSpec

\* One Secret less.
LEMMA MarkedDropped ==
  ASSUME ClustersTypeOK, NEW p \in Places, NEW n \in Names,
         secrets' = [secrets EXCEPT ![<<p, n>>] = None]
  PROVE  \A q \in Places, label \in Labels :
           Marked(q, label)' = IF q # p THEN Marked(q, label) ELSE Marked(q, label) \ {n}
<1>1. \A q \in Places, m \in Names :
        secrets'[<<q, m>>] = IF q = p /\ m = n THEN None ELSE secrets[<<q, m>>]
  BY DEF ClustersTypeOK
<1> QED BY <1>1 DEF Marked

\* A copy adds its name to the replicas of its kind and to no other.
LEMMA WriteEffect ==
  ASSUME Core, Writes
  PROVE  /\ \A k \in SecretKinds :
              ReplicasOf(k)' = ReplicasOf(k)
                               \union (IF k = pass.kind THEN {pass.held.name} ELSE {})
         /\ \A p \in Namespaces \ {Target} : Marked(p, "managed")' = Marked(p, "managed")
         /\ \A p \in Places, label \in Labels :
              Marked(p, label)' =
                IF p = Place(pass.kind) /\ label \in {"managed", Mark(pass.kind)}
                THEN Marked(p, label) \union {pass.held.name} ELSE Marked(p, label)
<1>1. /\ pass \in Pass /\ pass.kind \in SecretKinds /\ ClustersTypeOK
      /\ pass.held.name \in Names /\ pass.held.data \in Contents
  BY DEF Core, Writes, PassConsistent, ProvisionerTypeOK, Pass
<1>2. Target \in Namespaces /\ Target # Tenant /\ Tenant \notin Namespaces
  BY <1>1, TargetTyped, NoneAssumption
<1>3. Place(pass.kind) \in Places /\ Tenant \in Places /\ Namespaces \subseteq Places
  BY <1>1, <1>2 DEF Place, Places
<1>4. PICK j \in SecretKinds, p \in Places, n \in Names, data \in Contents :
        j = pass.kind /\ p = Place(j) /\ n = pass.held.name /\ data = pass.held.data
  BY <1>1, <1>3
<1> DEFINE old == secrets[<<p, n>>]
           new == Replica(old, j, data)
<1>5. old \in Secret \union {None} BY <1>1 DEF ClustersTypeOK
<1>6. new.labels = {"managed", Mark(j)} \union (IF old = None THEN {} ELSE old.labels)
  BY DEF Replica
<1>7. new \in Secret
  <2>1. Mark(j) \in Labels BY DEF Mark, SecretKinds, Labels
  <2>2. (IF old = None THEN {} ELSE old.labels) \subseteq Labels BY <1>5 DEF Secret
  <2> QED BY <2>1, <2>2 DEF Replica, Secret, Labels
<1>8. secrets' = [secrets EXCEPT ![<<p, n>>] = new] BY <1>4 DEF Writes
<1>9. \A label \in Labels : label \in new.labels <=>
        label \in {"managed", Mark(j)} \/ n \in Marked(p, label)
  BY <1>6 DEF Marked
<1> HIDE DEF old, new
<1>10. PICK s \in Secret : s = new BY <1>7
<1>11. \A q \in Places, label \in Labels :
         Marked(q, label)' = IF q # p THEN Marked(q, label)
                             ELSE (Marked(q, label) \ {n})
                                  \union (IF label \in s.labels THEN {n} ELSE {})
  <2>1. \A q \in Places, m \in Names :
          secrets'[<<q, m>>] = IF q = p /\ m = n THEN s ELSE secrets[<<q, m>>]
    BY <1>1, <1>8, <1>10 DEF ClustersTypeOK
  <2>2. s # None BY NoneAssumption
  <2> QED BY <2>1, <2>2 DEF Marked
<1>12. \A q \in Places, label \in Labels :
         Marked(q, label)' = IF q = p /\ label \in {"managed", Mark(j)}
                             THEN Marked(q, label) \union {n} ELSE Marked(q, label)
  BY <1>9, <1>10, <1>11
<1>13. \A k \in SecretKinds :
         ReplicasOf(k)' = ReplicasOf(k) \union (IF k = j THEN {n} ELSE {})
  <2>1. CASE j = "image"
    <3>1. p = Target /\ p \in Namespaces BY <1>2, <1>4, <2>1 DEF Place
    <3>2. \A q \in Namespaces :
            Marked(q, "managed")' = IF q = p THEN Marked(q, "managed") \union {n}
                                    ELSE Marked(q, "managed")
      BY <1>3, <1>12 DEF Labels
    <3>3. ReplicasOf("image")' = ReplicasOf("image") \union {n}
      BY <3>1, <3>2 DEF ReplicasOf
    <3>4. \A k \in {"chart", "ca"} : ReplicasOf(k)' = ReplicasOf(k)
      BY <1>2, <1>3, <1>12, <3>1 DEF ReplicasOf, Labels
    <3> QED BY <2>1, <3>3, <3>4 DEF SecretKinds
  <2>2. CASE j # "image"
    <3>1. p = Tenant /\ Mark(j) = j /\ j \in {"chart", "ca"}
      BY <1>4, <2>2 DEF Place, Mark, SecretKinds
    <3>2. \A q \in Namespaces : Marked(q, "managed")' = Marked(q, "managed")
      BY <1>2, <1>3, <1>12, <3>1 DEF Labels
    <3>3. ReplicasOf("image")' = ReplicasOf("image")
      BY <3>2 DEF ReplicasOf
    <3>4. \A k \in {"chart", "ca"} :
            ReplicasOf(k)' = ReplicasOf(k) \union (IF k = j THEN {n} ELSE {})
      BY <1>3, <1>12, <3>1 DEF ReplicasOf, Labels
    <3> QED BY <2>2, <3>3, <3>4 DEF SecretKinds
  <2> QED BY <2>1, <2>2
<1>14. \A q \in Namespaces \ {Target} : Marked(q, "managed")' = Marked(q, "managed")
  <2>1. p \in {Target, Tenant} BY <1>4 DEF Place
  <2> QED BY <1>2, <1>3, <1>12, <2>1 DEF Labels
<1> QED BY <1>4, <1>12, <1>13, <1>14

\* A deletion takes its name from the replicas at its place.
LEMMA DropEffect ==
  ASSUME Core, NEW n \in Names, Drops(n)
  PROVE  /\ \A k \in SecretKinds : ReplicasOf(k)' \subseteq ReplicasOf(k)
         /\ \A k \in {"chart", "ca"} :
              ReplicasOf(k)' = IF pass.kind = "image" THEN ReplicasOf(k) ELSE ReplicasOf(k) \ {n}
         /\ \A p \in Namespaces :
              Marked(p, "managed")' = IF pass.kind = "image" /\ p = Target
                                      THEN Marked(p, "managed") \ {n} ELSE Marked(p, "managed")
<1>1. pass \in Pass /\ pass.kind \in SecretKinds /\ ClustersTypeOK
  BY DEF Core, Drops, ProvisionerTypeOK, Pass
<1>2. Target \in Namespaces /\ Target # Tenant /\ Tenant \notin Namespaces
  BY <1>1, TargetTyped, NoneAssumption
<1>3. /\ Place(pass.kind) = IF pass.kind = "image" THEN Target ELSE Tenant
      /\ Place(pass.kind) \in Places /\ Tenant \in Places /\ Namespaces \subseteq Places
  BY <1>2 DEF Place, Places
<1>4. \A q \in Places, label \in Labels :
        Marked(q, label)' = IF q # Place(pass.kind) THEN Marked(q, label)
                            ELSE Marked(q, label) \ {n}
  BY <1>1, <1>3, MarkedDropped DEF Drops
<1>5. \A p \in Namespaces :
        Marked(p, "managed")' = IF pass.kind = "image" /\ p = Target
                                THEN Marked(p, "managed") \ {n} ELSE Marked(p, "managed")
  BY <1>2, <1>3, <1>4 DEF Labels
<1>6. \A k \in {"chart", "ca"} :
        ReplicasOf(k)' = IF pass.kind = "image" THEN ReplicasOf(k) ELSE ReplicasOf(k) \ {n}
  BY <1>2, <1>3, <1>4 DEF ReplicasOf, Labels
<1>7. ReplicasOf("image")' \subseteq ReplicasOf("image")
  BY <1>5 DEF ReplicasOf
<1> QED BY <1>5, <1>6, <1>7 DEF SecretKinds

LEMMA NoEffect ==
  ASSUME UNCHANGED secrets
  PROVE  /\ \A k \in SecretKinds : ReplicasOf(k)' = ReplicasOf(k)
         /\ \A p \in Places, label \in Labels : Marked(p, label)' = Marked(p, label)
BY DEF ReplicasOf, Marked

-----------------------------------------------------------------------------
(* Names: a pass works on Secrets whose names some configuration uses for      *)
(* their kind, because only such Secrets ever get the label of that kind.      *)

LabelsInv ==
  /\ \A k \in SecretKinds : ReplicasOf(k) \subseteq UsedAs(k)
  /\ \A p \in Namespaces \ Targets : Marked(p, "managed") = {}

Reading == IF pc \in {"namespace", "write"} THEN {pass.held.name} ELSE {}

PassNames == pc # "idle" => pass.left \union pass.doomed \union Reading \subseteq UsedAs(pass.kind)

NamesInv == LabelsInv /\ PassNames

\* What a prune lists are replicas of its kind; in the tenant namespace all of them.
LEMMA FoundReplicas ==
  ASSUME pass \in Pass
  PROVE  /\ \A k \in SecretKinds : Found(k) \subseteq ReplicasOf(k)
         /\ \A k \in {"chart", "ca"} : Found(k) = ReplicasOf(k)
         /\ (\A p \in Namespaces \ {Target} : Marked(p, "managed") = {})
              => Found("image") = ReplicasOf("image")
<1>1. Target \in Namespaces BY TargetTyped
<1>2. Found("image") = Marked(Target, "managed") BY DEF Found, Place, Mark
<1>3. \A k \in {"chart", "ca"} : Found(k) = ReplicasOf(k)
  BY DEF Found, Place, Mark, ReplicasOf
<1>4. \A p : Marked(p, "managed") \subseteq Names BY DEF Marked
<1>5. Found("image") \subseteq ReplicasOf("image") BY <1>1, <1>2, <1>4 DEF ReplicasOf
<1>6. (\A p \in Namespaces \ {Target} : Marked(p, "managed") = {})
        => ReplicasOf("image") \subseteq Found("image")
  BY <1>2 DEF ReplicasOf
<1> QED BY <1>3, <1>5, <1>6 DEF SecretKinds

LEMMA WantedUsed ==
  ASSUME pass \in Pass, Admitted, NEW k \in SecretKinds
  PROVE  Wanted(k) \subseteq UsedAs(k)
<1>1. pass.config \in Configs /\ pass.spec.version \in Versions /\ Selected \in Offer
  BY ConstantsAssumption DEF Pass, ArgoCDSpec, Admitted, Selected
<1>2. Selected # None BY <1>1, NoneAssumption
<1>3. Wanted(k) \subseteq Names BY <1>1, NamedTyped DEF Wanted
<1> QED BY <1>1, <1>2, <1>3 DEF Wanted, UsedAs, Selected

LEMMA DropUsed ==
  ASSUME pass \in Pass, NEW k \in SecretKinds
  PROVE  ToDrop(k) \subseteq UsedAs(k)
<1>1. pass.config \in Configs /\ pass.config.ca \in Names \union {None}
  BY ConstantsAssumption DEF Pass, ProviderConfig
<1> QED BY <1>1 DEF ToDrop, UsedAs

\* A pass that turns to a kind has passed the checks, or deletes.
LEMMA TurnsUsed ==
  ASSUME Core', pass \in Pass, NEW k \in SecretKinds, Turns(k)
  PROVE  /\ pass.path = "create" => Admitted
         /\ ToCopy(k) \subseteq UsedAs(k) /\ ToDrop(k) \subseteq UsedAs(k)
<1>1. pc' \in {"read", "drop", "list"} BY DEF Turns
<1>2. pass.path = "create" => Admitted'
  BY <1>1 DEF Core, PassConsistent, Turns, SameInputs
<1>3. Admitted' = Admitted BY DEF Turns, SameInputs, Admitted, Selected
<1> QED BY <1>2, <1>3, WantedUsed, DropUsed DEF ToCopy

LEMMA NamesInit == Init => NamesInv
<1> SUFFICES ASSUME Init PROVE NamesInv OBVIOUS
<1>1. \A p \in Places, label \in Labels : Marked(p, label) = {}
  BY DEF Init, ClustersInit, Marked
<1>2. LabelsInv
  BY <1>1 DEF LabelsInv, ReplicasOf, SecretKinds, Labels, Places
<1> QED BY <1>2 DEF NamesInv, PassNames, Init

LEMMA NamesStep == CoreInv /\ NamesInv /\ [Next]_vars => NamesInv'
<1> SUFFICES ASSUME CoreInv, NamesInv, [Next]_vars PROVE NamesInv' OBVIOUS
<1>0. /\ Core /\ Core' /\ Moved /\ (pc # "idle" => pass \in Pass /\ pass.kind \in SecretKinds)
      /\ (pc' # "idle" => pass' \in Pass)
  BY CoreInvStep, EverythingMoves DEF CoreInv, Core, ProvisionerTypeOK, Pass
<1>1. CASE NoWrite
  <2>1. LabelsInv'
    <3>1. /\ \A k \in SecretKinds : ReplicasOf(k)' = ReplicasOf(k)
          /\ \A p \in Namespaces : Marked(p, "managed")' = Marked(p, "managed")
      BY <1>1, NoEffect DEF NoWrite, Places, Labels
    <3> QED BY <3>1 DEF NamesInv, LabelsInv
  <2>2. CASE UNCHANGED <<pc, pass>> \/ Rest \/ PassBegins
    BY <2>1, <2>2 DEF NamesInv, PassNames, Reading, Rest, PassBegins
  <2>3. CASE Moves
    <3>1. Reading' = {} /\ pc # "idle"
      BY <2>3 DEF Moves, Reading, SecretSteps
    <3> QED BY <2>1, <2>3, <3>1 DEF Moves, SameLists, NamesInv, PassNames
  <2>4. CASE Leaves
    BY <2>1, <2>4 DEF Leaves, NamesInv, PassNames, Reading
  <2>5. CASE Reads
    BY <2>1, <2>5 DEF Reads, NamesInv, PassNames, Reading
  <2>6. CASE Waits
    BY <2>1, <2>6 DEF Waits, NamesInv, PassNames, Reading
  <2>7. CASE Lists
    <3>1. pass \in Pass /\ pass.kind \in SecretKinds /\ pc # "idle" BY <1>0, <2>7 DEF Lists
    <3>2. Found(pass.kind) \subseteq UsedAs(pass.kind)
      BY <3>1, FoundReplicas DEF NamesInv, LabelsInv
    <3> QED BY <2>1, <2>7, <3>1, <3>2 DEF Lists, NamesInv, PassNames, Reading
  <2>8. ASSUME NEW k \in SecretKinds, Turns(k) PROVE NamesInv'
    <3>1. pass \in Pass BY <1>0, <2>8 DEF Turns
    <3>2. ToCopy(k) \subseteq UsedAs(k) /\ ToDrop(k) \subseteq UsedAs(k)
      BY <1>0, <2>8, <3>1, TurnsUsed
    <3> QED BY <2>1, <2>8, <3>2 DEF Turns, NamesInv, PassNames, Reading
  <2> QED BY <1>1, <2>2, <2>3, <2>4, <2>5, <2>6, <2>7, <2>8 DEF NoWrite
<1>2. CASE Writes
  <2>1. pass \in Pass /\ pass.kind \in SecretKinds /\ pc = "write" BY <1>0, <1>2 DEF Writes
  <2>2. pass.held.name \in UsedAs(pass.kind)
    BY <2>1 DEF NamesInv, PassNames, Reading
  <2>3. Target \in Targets BY <2>1, TargetTyped
  <2>4. LabelsInv'
    BY <1>0, <1>2, <2>1, <2>2, <2>3, WriteEffect DEF NamesInv, LabelsInv
  <2>5. PassNames'
    BY <1>2, <2>1 DEF Writes, SameLists, NamesInv, PassNames, Reading
  <2> QED BY <2>4, <2>5 DEF NamesInv
<1>3. ASSUME NEW n \in Names, Drops(n) PROVE NamesInv'
  <2>1. LabelsInv'
    BY <1>0, <1>3, DropEffect DEF NamesInv, LabelsInv
  <2>2. PassNames'
    BY <1>3 DEF Drops, NamesInv, PassNames, Reading
  <2> QED BY <2>1, <2>2 DEF NamesInv
<1> QED BY <1>0, <1>1, <1>2, <1>3 DEF Moved

LEMMA NamesInvariant == Spec => [](CoreInv /\ NamesInv)
<1>1. Init => CoreInv /\ NamesInv
  BY CoreInit, NamesInit DEF CoreInv, Init
<1>2. CoreInv /\ NamesInv /\ [Next]_vars => CoreInv' /\ NamesInv'
  BY CoreInvStep, NamesStep
<1> QED BY <1>1, <1>2, PTL DEF Spec

\* Where nobody else uses the names of the configurations, neither copies nor
\* prunes touch a Secret that somebody else made, whatever labels are found.
THEOREM HandMadeSafe == NobodysNames => (Spec => HandMadeUntouched)
<1> SUFFICES ASSUME NobodysNames PROVE Spec => HandMadeUntouched OBVIOUS
<1>1. ASSUME CoreInv, NamesInv, [Next]_vars
      PROVE  [\A k \in HandMade : secrets'[k] = secrets[k]]_vars
  <2>0. /\ Core /\ Moved /\ (pc # "idle" => pass \in Pass /\ pass.kind \in SecretKinds)
        /\ HandMade \subseteq Places \X Names
        /\ secrets \in [Places \X Names -> Secret \union {None}]
    BY <1>1, EverythingMoves, ConstantsAssumption
    DEF CoreInv, Core, ProvisionerTypeOK, ClustersTypeOK, Pass
  <2>1. ASSUME pc # "idle", NEW n \in UsedAs(pass.kind)
        PROVE  <<Place(pass.kind), n>> \notin HandMade
    <3>1. Target \in Targets BY <2>0, <2>1, TargetTyped
    <3>2. Place(pass.kind) \in Homes(pass.kind) BY <3>1 DEF Place, Homes
    <3> QED BY <2>0, <2>1, <3>2 DEF NobodysNames
  <2>2. CASE NoWrite BY <2>2 DEF NoWrite
  <2>3. CASE Writes
    <3>1. pc = "write" /\ pass.held.name \in UsedAs(pass.kind)
      BY <1>1, <2>3 DEF Writes, NamesInv, PassNames, Reading
    <3>2. <<Place(pass.kind), pass.held.name>> \notin HandMade BY <2>1, <3>1
    <3> QED BY <2>0, <2>3, <3>2 DEF Writes
  <2>4. ASSUME NEW n \in Names, Drops(n) PROVE \A k \in HandMade : secrets'[k] = secrets[k]
    <3>1. pc # "idle" /\ n \in UsedAs(pass.kind)
      BY <1>1, <2>4 DEF Drops, NamesInv, PassNames
    <3>2. <<Place(pass.kind), n>> \notin HandMade BY <2>1, <3>1
    <3> QED BY <2>0, <2>4, <3>2 DEF Drops
  <2> QED BY <2>0, <2>2, <2>3, <2>4 DEF Moved
<1> QED BY <1>1, NamesInvariant, PTL DEF Spec, HandMadeUntouched

-----------------------------------------------------------------------------
(* Deletion: what the OCIRepositories reference goes last. *)

LEMMA DeletesInvariant == Spec => [](CoreInv /\ DeletionInv /\ NamesInv)
BY DeletionInvariant, NamesInvariant, PTL

\* A delete pass deletes copies of the CA bundle only after its checks have found
\* no Flux object, as long as no name serves as chart pull secret and as bundle:
\* the chart pull secrets are pruned before the checks.
THEOREM BundleGoesLast == DistinctNames => (Spec => CAOutlivesRepositories)
<1> SUFFICES ASSUME DistinctNames PROVE Spec => CAOutlivesRepositories OBVIOUS
<1>1. ASSUME CoreInv, DeletionInv, NamesInv, [Next]_vars
      PROVE  [\A n \in Marked(Tenant, "ca") :
                pc # "idle" /\ pass.path = "delete" /\ secrets'[<<Tenant, n>>] = None
                  => \A r \in Releases : repo[r] = None]_vars
  <2> SUFFICES ASSUME NEW n \in Marked(Tenant, "ca"), pc # "idle", pass.path = "delete",
                      secrets'[<<Tenant, n>>] = None
               PROVE  AllGone
    BY DEF AllGone
  <2>1. /\ Moved /\ PassConsistent /\ pass \in Pass /\ pass.kind \in SecretKinds
        /\ secrets \in [Places \X Names -> Secret \union {None}]
    BY <1>1, EverythingMoves
    DEF CoreInv, Core, ProvisionerTypeOK, ClustersTypeOK, Pass
  <2>2. n \in Names /\ secrets[<<Tenant, n>>] # None BY DEF Marked
  <2>3. ~NoWrite BY <2>2 DEF NoWrite
  <2>4. ~Writes BY <2>1 DEF Writes, PassConsistent, CreateOnly
  <2>5. PICK m \in Names : Drops(m) BY <2>1, <2>3, <2>4 DEF Moved
  <2>6. Place(pass.kind) = Tenant /\ m = n
    BY <2>1, <2>2, <2>5 DEF Drops, Places
  <2>7. pass.kind # "image" BY <2>1, <2>6, TargetTyped DEF Place
  <2>8. n \in UsedAs(pass.kind)
    BY <1>1, <2>5, <2>6 DEF Drops, NamesInv, PassNames
  <2>9. n \in UsedAs("ca")
    BY <1>1 DEF NamesInv, LabelsInv, ReplicasOf, SecretKinds
  <2>10. pass.kind = "ca"
    BY <2>1, <2>7, <2>8, <2>9 DEF DistinctNames, SecretKinds
  <2>11. PastChecks BY <2>5, <2>10 DEF Drops, PastChecks, SecretSteps
  <2> QED BY <1>1, <2>11 DEF DeletionInv, ChecksPassed
<1> QED BY <1>1, DeletesInvariant, PTL DEF Spec, CAOutlivesRepositories

-----------------------------------------------------------------------------
(* Installation: what the OCIRepositories reference is there first. *)

Later(k) == CASE k = "image" -> {"chart", "ca"} [] k = "chart" -> {"ca"} [] k = "ca" -> {}

\* What the create pass still has to copy.
ToDo(k) ==
  IF k \in Later(pass.kind) THEN Wanted(k)
  ELSE IF k = pass.kind THEN pass.left \union Reading ELSE {}

CopiedInv ==
  pc \notin {"idle", "annotation", "admit", "report"} /\ pass.path = "create" =>
    /\ pc \notin SecretSteps => pass.kind = "ca"
    /\ pc \notin {"read", "namespace", "write"} => pass.left = {}
    /\ pc \in SecretSteps => pass.doomed \intersect Wanted(pass.kind) = {}
    /\ \A k \in {"chart", "ca"} : Wanted(k) \ ToDo(k) \subseteq ReplicasOf(k)

LEMMA SameWanted == ASSUME SameInputs, NEW k PROVE Wanted(k)' = Wanted(k)
BY DEF SameInputs, Wanted, Selected

\* A pass that turns to a kind has copied the kinds before.
LEMMA CopiedTurns ==
  ASSUME Core, Core', CopiedInv, UNCHANGED secrets, NEW k \in SecretKinds, Turns(k)
  PROVE  CopiedInv'
<1>1. CASE pass.path # "create" BY <1>1 DEF Turns, SameInputs, CopiedInv
<1>2. CASE pass.path = "create"
  <2>1. /\ pass'.path = "create" /\ pass'.kind = k /\ pass'.left = Wanted(k)
        /\ pass'.doomed = {} /\ pc' \in {"read", "list"}
        /\ (pc' # "read" => Wanted(k) = {})
    BY <1>2 DEF Turns, SameInputs, ToCopy, ToDrop
  <2>2. \A j \in SecretKinds : Wanted(j)' = Wanted(j) /\ ReplicasOf(j)' = ReplicasOf(j)
    BY SameWanted, NoEffect DEF Turns
  <2>3. ToDo(k)' = Wanted(k) /\ \A j \in Later(k) : ToDo(j)' = Wanted(j)
    BY <2>1, <2>2 DEF ToDo, Later, Reading, SecretKinds
  <2>4. \/ k = "image"
        \/ k = "chart"
        \/ k = "ca" /\ pass.kind = "chart" /\ pc = "drop"
    BY <1>2 DEF Turns, Core, PassConsistent, DeleteOnly, CheckSteps, SecretKinds
  <2>5. \A j \in {"chart", "ca"} : Wanted(j)' \ ToDo(j)' \subseteq ReplicasOf(j)'
    <3>1. CASE k = "image" BY <2>2, <2>3, <3>1 DEF Later, SecretKinds
    <3>2. CASE k = "chart" BY <2>2, <2>3, <3>2 DEF Later, SecretKinds
    <3>3. CASE k = "ca" /\ pass.kind = "chart" /\ pc = "drop"
      <4>1. pass.left = {} /\ Wanted("chart") \ ToDo("chart") \subseteq ReplicasOf("chart")
        BY <1>2, <3>3 DEF CopiedInv
      <4>2. ToDo("chart") = {} BY <3>3, <4>1 DEF ToDo, Later, Reading
      <4> QED BY <2>2, <2>3, <3>3, <4>1, <4>2 DEF SecretKinds
    <3> QED BY <2>4, <3>1, <3>2, <3>3
  <2> QED BY <2>1, <2>5 DEF CopiedInv, SecretSteps
<1> QED BY <1>1, <1>2

LEMMA CopiedNoWrite ==
  ASSUME Core, Core', CopiedInv, NoWrite
  PROVE  CopiedInv'
<1>0. \A j \in SecretKinds : ReplicasOf(j)' = ReplicasOf(j)
  BY NoEffect DEF NoWrite
<1>1. CASE UNCHANGED <<pc, pass>>
  <2>1. \A j : Wanted(j)' = Wanted(j) /\ ToDo(j)' = ToDo(j)
    BY <1>1 DEF Wanted, Selected, ToDo, Later, Reading
  <2> QED BY <1>0, <1>1, <2>1 DEF CopiedInv, SecretKinds
<1>2. CASE Rest BY <1>2 DEF Rest, CopiedInv
<1>3. CASE PassBegins
  BY <1>3 DEF PassBegins, CopiedInv, Core, PassConsistent, DeleteOnly, Kinds
<1>4. ASSUME pass.path = "create" /\ pc \notin {"idle", "annotation", "admit", "report"},
             SameInputs, pass'.kind = pass.kind,
             ToDo("chart")' = ToDo("chart"), ToDo("ca")' = ToDo("ca")
      PROVE  \A k \in {"chart", "ca"} : Wanted(k)' \ ToDo(k)' \subseteq ReplicasOf(k)'
  <2>1. \A j : Wanted(j)' = Wanted(j) BY <1>4, SameWanted
  <2> QED BY <1>0, <1>4, <2>1 DEF CopiedInv, SecretKinds
<1>5. CASE Moves
  <2>1. CASE pc' \in {"admit", "report"} BY <2>1 DEF CopiedInv
  <2>2. CASE pc' \notin {"admit", "report"} /\ pass'.path = "create"
    <3>1. /\ SameInputs /\ SameLists /\ pass.path = "create"
          /\ pc \in PassSteps \ (SecretSteps \union {"annotation", "admit", "report"})
          /\ pc' \in PassSteps \ (SecretSteps \union {"annotation", "admit", "report"})
      BY <1>5, <2>2 DEF Moves
    <3>2. Reading = {} /\ Reading' = {} BY <3>1 DEF Reading, SecretSteps
    <3>3. \A j : Wanted(j)' = Wanted(j) BY <3>1, SameWanted
    <3>4. ToDo("chart")' = ToDo("chart") /\ ToDo("ca")' = ToDo("ca")
      BY <3>1, <3>2, <3>3 DEF ToDo, Later, SameLists
    <3>5. pc \notin {"idle", "annotation", "admit", "report"} BY <3>1 DEF PassSteps, Kinds,
        SecretSteps, ReloaderSteps, CheckSteps
    <3>6. pass.kind = "ca" /\ pass.left = {} BY <3>1, <3>5 DEF CopiedInv, SecretSteps
    <3>7. \A k \in {"chart", "ca"} : Wanted(k)' \ ToDo(k)' \subseteq ReplicasOf(k)'
      BY <1>4, <3>1, <3>4, <3>5 DEF SameLists
    <3> QED BY <3>1, <3>6, <3>7 DEF CopiedInv, SameLists
  <2> QED BY <2>1, <2>2 DEF CopiedInv
<1>6. CASE Leaves
  <2>1. CASE pass.path = "create"
    <3>1. pc = "drop" /\ pass' = pass /\ pass.kind = "ca" /\ pc' = "repo"
      BY <1>6, <2>1 DEF Leaves
    <3>2. SameInputs /\ Reading' = Reading BY <3>1 DEF SameInputs, Reading
    <3>3. ToDo("chart")' = ToDo("chart") /\ ToDo("ca")' = ToDo("ca")
      BY <3>1, <3>2, SameWanted DEF ToDo, Later
    <3>4. \A k \in {"chart", "ca"} : Wanted(k)' \ ToDo(k)' \subseteq ReplicasOf(k)'
      BY <1>4, <2>1, <3>1, <3>2, <3>3
    <3>5. pass.left = {} BY <2>1, <3>1 DEF CopiedInv
    <3> QED BY <3>1, <3>4, <3>5 DEF CopiedInv, SecretSteps
  <2>2. CASE pass.path # "create" BY <1>6, <2>2 DEF Leaves, CopiedInv
  <2> QED BY <2>1, <2>2
<1>7. CASE Reads \/ Waits
  <2>1. /\ pass.path = "create" /\ SameInputs /\ pass'.kind = pass.kind
        /\ pass'.doomed = pass.doomed /\ pc \in {"read", "namespace"}
        /\ pc' \in {"namespace", "write"}
    BY <1>7 DEF Reads, Waits, SameInputs, Core, PassConsistent, CreateOnly
  <2>2. pass'.left \union Reading' = pass.left \union Reading
    BY <1>7 DEF Reads, Waits, Reading
  <2>3. \A j : Wanted(j)' = Wanted(j) BY <2>1, SameWanted
  <2>4. ToDo("chart")' = ToDo("chart") /\ ToDo("ca")' = ToDo("ca")
    BY <2>1, <2>2, <2>3 DEF ToDo, Later
  <2>5. \A k \in {"chart", "ca"} : Wanted(k)' \ ToDo(k)' \subseteq ReplicasOf(k)'
    BY <1>4, <2>1, <2>4
  <2>6. pass.doomed \intersect Wanted(pass.kind) = {} BY <2>1 DEF CopiedInv, SecretSteps
  <2>7. (pass.doomed \intersect Wanted(pass.kind))' = {}
    BY <2>1, <2>6 DEF Wanted, Selected, SameInputs
  <2> QED BY <2>1, <2>5, <2>7 DEF CopiedInv, SecretSteps
<1>8. CASE Lists
  <2>1. CASE pass.path = "create"
    <3>1. /\ pc = "list" /\ pc' = "drop" /\ SameInputs /\ pass'.kind = pass.kind
          /\ pass'.left = pass.left /\ pass'.doomed = Found(pass.kind) \ Wanted(pass.kind)
      BY <1>8, <2>1 DEF Lists, Kept, ToCopy
    <3>2. \A j : Wanted(j)' = Wanted(j) BY <3>1, SameWanted
    <3>3. Reading = {} /\ Reading' = {} BY <3>1 DEF Reading
    <3>4. ToDo("chart")' = ToDo("chart") /\ ToDo("ca")' = ToDo("ca")
      BY <3>1, <3>2, <3>3 DEF ToDo, Later
    <3>5. \A k \in {"chart", "ca"} : Wanted(k)' \ ToDo(k)' \subseteq ReplicasOf(k)'
      BY <1>4, <2>1, <3>1, <3>4
    <3>6. pass.left = {} BY <2>1, <3>1 DEF CopiedInv
    <3>7. (pass.doomed \intersect Wanted(pass.kind))' = {}
      BY <3>1 DEF Wanted, Selected, SameInputs
    <3> QED BY <3>1, <3>5, <3>6, <3>7 DEF CopiedInv, SecretSteps
  <2>2. CASE pass.path # "create" BY <1>8, <2>2 DEF Lists, SameInputs, CopiedInv
  <2> QED BY <2>1, <2>2
<1> QED BY <1>1, <1>2, <1>3, <1>5, <1>6, <1>7, <1>8, CopiedTurns DEF NoWrite

LEMMA CopiedWrites ==
  ASSUME Core, CopiedInv, Writes
  PROVE  CopiedInv'
<1>1. /\ pc = "write" /\ pass.path = "create" /\ SameInputs /\ SameLists
      /\ pass.kind \in SecretKinds /\ pc' \in {"read", "drop", "list"}
      /\ (pc' # "read" => pass.left = {})
  BY DEF Writes, Core, PassConsistent, CreateOnly, ProvisionerTypeOK, Pass
<1>2. \A j : Wanted(j)' = Wanted(j) BY <1>1, SameWanted
<1>3. \A k \in SecretKinds :
        ReplicasOf(k)' = ReplicasOf(k) \union (IF k = pass.kind THEN {pass.held.name} ELSE {})
  BY WriteEffect
<1>4. Reading = {pass.held.name} /\ Reading' = {} BY <1>1 DEF Reading
<1>5. \A k \in {"chart", "ca"} :
        ToDo(k) \subseteq ToDo(k)' \union (IF k = pass.kind THEN {pass.held.name} ELSE {})
  BY <1>1, <1>2, <1>4 DEF ToDo, Later, SameLists
<1>6. \A k \in {"chart", "ca"} : Wanted(k) \ ToDo(k) \subseteq ReplicasOf(k)
  BY <1>1 DEF CopiedInv
<1>7. \A k \in {"chart", "ca"} : Wanted(k)' \ ToDo(k)' \subseteq ReplicasOf(k)'
  BY <1>2, <1>3, <1>5, <1>6 DEF SecretKinds
<1>8. pass.doomed \intersect Wanted(pass.kind) = {}
  BY <1>1 DEF CopiedInv, SecretSteps
<1>9. (pass.doomed \intersect Wanted(pass.kind))' = {}
  BY <1>1, <1>8 DEF Wanted, Selected, SameInputs, SameLists
<1> QED BY <1>1, <1>7, <1>9 DEF CopiedInv, SecretSteps, SameInputs, SameLists

LEMMA CopiedDrops ==
  ASSUME Core, NamesInv, DistinctNames, CopiedInv, NEW n \in Names, Drops(n)
  PROVE  CopiedInv'
<1>1. CASE pass.path # "create" BY <1>1 DEF Drops, SameInputs, CopiedInv
<1>2. CASE pass.path = "create"
  <2>1. /\ pc = "drop" /\ pc' = "drop" /\ SameInputs /\ n \in pass.doomed
        /\ pass'.kind = pass.kind /\ pass'.left = pass.left
        /\ pass'.doomed = pass.doomed \ {n} /\ pass \in Pass /\ pass.kind \in SecretKinds
        /\ Admitted
    BY <1>2 DEF Drops, Core, ProvisionerTypeOK, Pass, PassConsistent
  <2>2. \A j : Wanted(j)' = Wanted(j) BY <2>1, SameWanted
  <2>3. Reading = {} /\ Reading' = {} BY <2>1 DEF Reading
  <2>4. ToDo("chart")' = ToDo("chart") /\ ToDo("ca")' = ToDo("ca")
    BY <2>1, <2>2, <2>3 DEF ToDo, Later
  <2>5. /\ pass.left = {} /\ pass.doomed \intersect Wanted(pass.kind) = {}
        /\ \A k \in {"chart", "ca"} : Wanted(k) \ ToDo(k) \subseteq ReplicasOf(k)
    BY <1>2, <2>1 DEF CopiedInv, SecretSteps
  <2>6. n \in UsedAs(pass.kind) BY <2>1 DEF NamesInv, PassNames
  <2>7. \A k \in {"chart", "ca"} : pass.kind # "image" => n \notin Wanted(k)
    <3> SUFFICES ASSUME NEW k \in {"chart", "ca"}, pass.kind # "image", n \in Wanted(k)
                 PROVE  FALSE
      OBVIOUS
    <3>1. n \in UsedAs(k) BY <2>1, WantedUsed DEF SecretKinds
    <3>2. k = pass.kind BY <2>1, <2>6, <3>1 DEF DistinctNames, SecretKinds
    <3> QED BY <2>1, <2>5, <3>2
  <2>8. \A k \in {"chart", "ca"} :
          ReplicasOf(k)' = IF pass.kind = "image" THEN ReplicasOf(k) ELSE ReplicasOf(k) \ {n}
    BY DropEffect
  <2>9. \A k \in {"chart", "ca"} : Wanted(k)' \ ToDo(k)' \subseteq ReplicasOf(k)'
    BY <2>2, <2>4, <2>5, <2>7, <2>8
  <2>10. (pass.doomed \intersect Wanted(pass.kind))' = {}
    BY <2>1, <2>5 DEF Wanted, Selected, SameInputs
  <2> QED BY <2>1, <2>5, <2>9, <2>10 DEF CopiedInv, SecretSteps
<1> QED BY <1>1, <1>2

LEMMA CopiedInvariant == DistinctNames => (Spec => [](CoreInv /\ NamesInv /\ CopiedInv))
<1> SUFFICES ASSUME DistinctNames PROVE Spec => [](CoreInv /\ NamesInv /\ CopiedInv) OBVIOUS
<1>1. Init => CopiedInv BY DEF Init, CopiedInv
<1>2. CoreInv /\ CoreInv' /\ NamesInv /\ CopiedInv /\ [Next]_vars => CopiedInv'
  BY EverythingMoves, CopiedNoWrite, CopiedWrites, CopiedDrops DEF CoreInv, Moved
<1> QED BY <1>1, <1>2, NamesInvariant, PTL DEF Spec

\* An OCIRepository that is not on its way out changes only when it is applied.
LEMMA RepoApplied ==
  ASSUME Core, [Next]_vars, NEW r \in Releases,
         repo'[r] # repo[r], repo'[r] # None, ~repo'[r].terminating
  PROVE  \/ r = Argo /\ ApplyRepo(Argo, "repo", "release")
         \/ r = Reloader /\ ApplyRepo(Reloader, "reloaderRepo", "reloaderRelease")
<1> USE DEF crVars, inputVars, objectVars, mcpVars, boundVars, fluxVars, clusterVars
<1>0. repo \in [Releases -> Repo \union {None}] /\ Argo # Reloader
  BY DEF Core, ClustersTypeOK, Argo, Reloader
<1>1. repo' # repo OBVIOUS
<1>2. ASSUME NEW q \in Releases, repo' = [repo EXCEPT ![q] = Terminated(@)] PROVE FALSE
  <2>1. r = q /\ repo'[r] = Terminated(repo[r]) BY <1>0, <1>2
  <2>2. repo[r] \in Repo BY <1>0, <2>1 DEF Terminated
  <2>3. repo'[r] = [repo[r] EXCEPT !.terminating = TRUE]
    BY <2>1, <2>2, NoneAssumption DEF Terminated
  <2> QED BY <2>2, <2>3 DEF Repo
<1>3. ASSUME NEW q \in Releases, RepoCollected(q) PROVE FALSE
  BY <1>0, <1>3 DEF RepoCollected
<1>4. ~(Environment /\ UNCHANGED passVars)
  BY <1>1, <1>3
  DEF Environment, TenantActs, EditSpec, Annotate, DeleteCR, CreateCR, CreateWorkload,
      DeleteWorkload, OperatorActs, EditConfig, EditSource, FluxActs, HelmSucceeds, HelmFails,
      HelmUninstalled, GardenerActs, IssueCertificate, AssignAddress, Withdraw, AddFinalizer,
      CascadeFailure
<1>5. ~(Replicate \/ IsUninstalled \/ Observe \/ CallFails \/ Crash \/ UNCHANGED vars)
  BY <1>1
  DEF Replicate, ReadSource, EnsureNamespace, WriteReplica, ListReplicas, DropReplica,
      ReplicasDone, IsUninstalled, Checked, Observe, Ready, ServerTLS, ServerService, CallFails,
      Crash, vars
<1>6. ~(\/ StartCreate \/ ClearAnnotation \/ Admit \/ StartDelete
        \/ CountUserArgoCDResources \/ WriteStatus \/ ReleaseFinalizer)
  BY <1>1
  DEF StartCreate, ClearAnnotation, Admit, StartDelete, CountUserArgoCDResources, WriteStatus,
      ReleaseFinalizer
<1>7. ~UninstallFlux
  BY <1>1, <1>2 DEF UninstallFlux, DeleteRelease, DeleteRepo, Releases
<1>8. InstallFlux
  BY <1>4, <1>5, <1>6, <1>7 DEF Next, Work, ProvisionerStep
<1>9. ApplyRepo(Argo, "repo", "release") \/ ApplyRepo(Reloader, "reloaderRepo", "reloaderRelease")
  BY <1>1, <1>8 DEF InstallFlux, CannotBuild, ApplyRelease
<1> QED BY <1>0, <1>9 DEF ApplyRepo, Releases

\* As long as no name serves both as chart pull secret and as CA bundle, what an
\* applied OCIRepository references is in its namespace: the copies of a pass are
\* not dropped again before it, whatever it prunes.
THEOREM ReferencesReplicated == DistinctNames => (Spec => ReferencesPresent)
<1> SUFFICES ASSUME DistinctNames PROVE Spec => ReferencesPresent OBVIOUS
<1>1. ASSUME CoreInv, CopiedInv, [Next]_vars
      PROVE  [\A r \in Releases :
                repo'[r] # repo[r] /\ repo'[r] # None /\ ~repo'[r].terminating =>
                  /\ repo'[r].spec.secret # None => repo'[r].spec.secret \in Marked(Tenant, "chart")
                  /\ repo'[r].spec.ca # None => repo'[r].spec.ca \in Marked(Tenant, "ca")]_vars
  <2> SUFFICES ASSUME NEW r \in Releases, repo'[r] # repo[r], repo'[r] # None,
                      ~repo'[r].terminating
               PROVE  /\ repo'[r].spec.secret # None =>
                           repo'[r].spec.secret \in Marked(Tenant, "chart")
                      /\ repo'[r].spec.ca # None => repo'[r].spec.ca \in Marked(Tenant, "ca")
    OBVIOUS
  <2>1. \/ r = Argo /\ ApplyRepo(Argo, "repo", "release")
        \/ r = Reloader /\ ApplyRepo(Reloader, "reloaderRepo", "reloaderRelease")
    BY <1>1, RepoApplied DEF CoreInv
  <2>2. /\ pc \in {"repo", "reloaderRepo"} /\ pass.path = "create"
        /\ pc = "repo" => r = Argo
        /\ pc = "reloaderRepo" => r = Reloader /\ pass.config.reloader \in Addon
    BY <1>1, <2>1 DEF ApplyRepo, CoreInv, Core, PassConsistent, CreateOnly, Argo, Reloader
  <2>3. repo'[r].spec = RepoFor(r)
    <3>1. repo \in [Releases -> Repo \union {None}]
      BY <1>1 DEF CoreInv, Core, ClustersTypeOK
    <3>2. repo' = [repo EXCEPT ![r] = [spec |-> RepoFor(r),
                                       terminating |-> @ # None /\ @.terminating]]
      BY <2>1 DEF ApplyRepo
    <3> QED BY <3>1, <3>2
  <2>4. pass.kind = "ca" /\ pass.left = {}
    BY <1>1, <2>2 DEF CopiedInv, SecretSteps
  <2>5. ToDo("chart") = {} /\ ToDo("ca") = {}
    BY <2>2, <2>4 DEF ToDo, Later, Reading
  <2>6. Wanted("chart") \subseteq Marked(Tenant, "chart") /\ Wanted("ca") \subseteq Marked(Tenant, "ca")
    BY <1>1, <2>2, <2>5 DEF CopiedInv, ReplicasOf
  <2>7. /\ RepoFor(r).secret # None => RepoFor(r).secret \in Wanted("chart")
        /\ RepoFor(r).ca # None => RepoFor(r).ca \in Wanted("ca")
    <3>1. pc = "reloaderRepo" => pass.config.reloader # None
      BY <2>2, NoneAssumption
    <3> QED BY <2>2, <3>1 DEF RepoFor, Wanted, Named, Argo, Reloader
  <2> QED BY <2>3, <2>6, <2>7
<1> QED BY <1>1, CopiedInvariant, PTL DEF Spec, ReferencesPresent

-----------------------------------------------------------------------------
(* Removal: a delete pass prunes one kind after the other, and nothing copies  *)
(* again before the finalizer is released.                                     *)

\* The kinds of which the running delete pass has pruned all it found.
Pruned(k) ==
  \/ k # pass.kind /\ k \notin Later(pass.kind)
  \/ k = pass.kind /\ k # "image" /\ pc \notin SecretSteps \union {"report"}

\* A prune misses nothing of a kind: it lists by label, but image pull secrets in
\* the current target namespace only, and deletes the bundle by its current name.
PrunesAll(k) ==
  /\ k = "image" => OneTargetNamespace
  /\ k = "ca" => OneBundleName

Removed(k) ==
  /\ cr \in {"absent", "fresh"} => ReplicasOf(k) = {}
  /\ pc # "idle" /\ pass.path = "delete" =>
       /\ Pruned(k) => ReplicasOf(k) = {}
       /\ pc = "drop" /\ pass.kind = k => ReplicasOf(k) \subseteq pass.doomed

RemovalInv ==
  /\ pc # "idle" /\ pass.path = "delete" =>
       /\ pc \in CheckSteps \union ReloaderSteps => pass.kind = "chart"
       /\ pc = "finalize" => pass.kind = "ca"
  /\ \A k \in SecretKinds : PrunesAll(k) => Removed(k)

LEMMA AllFound ==
  ASSUME pass \in Pass, LabelsInv, OneTargetNamespace
  PROVE  \A p \in Namespaces \ {Target} : Marked(p, "managed") = {}
BY TargetTyped DEF LabelsInv, OneTargetNamespace

\* The resource is gone or not yet handled only where it was, or after a pass
\* that released the finalizer.
LEMMA BeforeFinalizer ==
  ASSUME [Next]_vars, cr' \in {"absent", "fresh"}
  PROVE  \/ cr \in {"absent", "fresh"}
         \/ pc = "finalize" /\ pc' = "idle"
<1> USE DEF crVars, inputVars, objectVars, mcpVars, boundVars, clusterVars
<1>1. CASE cr' = cr BY <1>1
<1>2. CASE ReleaseFinalizer BY <1>2 DEF ReleaseFinalizer, Rest
<1>3. CASE Environment
  BY <1>3
  DEF Environment, TenantActs, EditSpec, Annotate, DeleteCR, CreateCR, CreateWorkload,
      DeleteWorkload, OperatorActs, EditConfig, EditSource, FluxActs, HelmSucceeds, HelmFails,
      HelmUninstalled, RepoCollected, GardenerActs, IssueCertificate, AssignAddress, Withdraw,
      AddFinalizer, CascadeFailure
<1>4. ProvisionerStep => cr' = cr
  BY DEF ProvisionerStep, Replicate, ReadSource, EnsureNamespace, WriteReplica, ListReplicas,
     DropReplica, ReplicasDone, InstallFlux, UninstallFlux, ApplyRepo, ApplyRelease, CannotBuild,
     DeleteRelease, DeleteRepo, IsUninstalled, Checked, Observe, Ready, ServerTLS, ServerService
<1>5. (\/ StartCreate \/ ClearAnnotation \/ Admit \/ StartDelete
       \/ CountUserArgoCDResources \/ WriteStatus \/ CallFails \/ Crash) => cr' = cr
  BY DEF StartCreate, ClearAnnotation, Admit, StartDelete, CountUserArgoCDResources, WriteStatus,
     CallFails, Crash
<1>6. UNCHANGED vars => cr' = cr BY DEF vars
<1> QED BY <1>1, <1>2, <1>3, <1>4, <1>5, <1>6 DEF Next, Work

LEMMA RemovalInit == Init => RemovalInv
<1> SUFFICES ASSUME Init PROVE RemovalInv OBVIOUS
<1>1. \A p \in Places, label \in Labels : Marked(p, label) = {}
  BY DEF Init, ClustersInit, Marked
<1>2. \A k \in SecretKinds : ReplicasOf(k) = {}
  BY <1>1 DEF ReplicasOf, SecretKinds, Labels, Places
<1> QED BY <1>2 DEF RemovalInv, Removed, Init

\* Where a delete pass is, kind by kind.
LEMMA RemovalKinds ==
  ASSUME Core, Core', RemovalInv, Moved
  PROVE  pc' # "idle" /\ pass'.path = "delete" =>
           /\ pc' \in CheckSteps \union ReloaderSteps => pass'.kind = "chart"
           /\ pc' = "finalize" => pass'.kind = "ca"
<1> SUFFICES ASSUME pc' # "idle", pass'.path = "delete",
                    pc' \in CheckSteps \union ReloaderSteps \union {"finalize"}
             PROVE  /\ pc' \in CheckSteps \union ReloaderSteps => pass'.kind = "chart"
                    /\ pc' = "finalize" => pass'.kind = "ca"
  OBVIOUS
<1> USE DEF SecretSteps, CheckSteps, ReloaderSteps
<1>1. ~Writes /\ ~Rest /\ ~PassBegins /\ ~Reads /\ ~Waits /\ ~Lists /\ \A n \in Names : ~Drops(n)
  BY DEF Writes, Rest, PassBegins, Reads, Waits, Lists, Drops
<1>2. \A k \in SecretKinds : ~Turns(k) BY DEF Turns
<1>3. CASE UNCHANGED <<pc, pass>> BY <1>3 DEF RemovalInv
<1>4. CASE Leaves BY <1>4 DEF Leaves
<1>5. CASE Moves
  <2>1. /\ pass.path = "delete" /\ pass'.kind = pass.kind /\ pc # "idle"
        /\ pc \in ReloaderSteps \union CheckSteps /\ pc' # "finalize"
    BY <1>5 DEF Moves, SameLists, Core, PassConsistent, CreateOnly
  <2> QED BY <2>1 DEF RemovalInv
<1> QED BY <1>1, <1>2, <1>3, <1>4, <1>5 DEF Moved, NoWrite

LEMMA RemovalOfKind ==
  ASSUME CoreInv, CoreInv', DeletionInv, NamesInv, RemovalInv, [Next]_vars, Moved,
         NEW k \in SecretKinds, PrunesAll(k)
  PROVE  Removed(k)'
<1>0. /\ Core /\ Core' /\ Removed(k) /\ LabelsInv
      /\ (pc # "idle" => pass \in Pass /\ pass.kind \in SecretKinds)
      /\ (cr \in {"absent", "fresh"} => pc = "idle")
  BY DEF CoreInv, Core, ProvisionerTypeOK, Pass, RemovalInv, NamesInv, DeletionInv, PhaseOK
<1>1. cr' \in {"absent", "fresh"} => ReplicasOf(k)' = {}
  <2> SUFFICES ASSUME cr' \in {"absent", "fresh"} PROVE ReplicasOf(k)' = {} OBVIOUS
  <2>1. \/ cr \in {"absent", "fresh"} /\ pc = "idle"
        \/ pc = "finalize" /\ pass.path = "delete" /\ pass.kind = "ca"
    BY <1>0, BeforeFinalizer DEF RemovalInv, Core, PassConsistent, DeleteOnly
  <2>2. ReplicasOf(k)' = ReplicasOf(k)
    BY <2>1, NoEffect DEF Moved, NoWrite, Writes, Drops
  <2>3. ReplicasOf(k) = {}
    BY <1>0, <2>1 DEF Removed, Pruned, Later, SecretKinds, SecretSteps
  <2> QED BY <2>2, <2>3
<1>2. ASSUME pc' # "idle", pass'.path = "delete", pc # "idle", pass.path = "delete"
      PROVE  /\ Pruned(k)' => ReplicasOf(k)' = {}
             /\ pc' = "drop" /\ pass'.kind = k => ReplicasOf(k)' \subseteq pass'.doomed
  <2>0. /\ pass \in Pass /\ pass.kind \in SecretKinds
        /\ Pruned(k) => ReplicasOf(k) = {}
        /\ pc = "drop" /\ pass.kind = k => ReplicasOf(k) \subseteq pass.doomed
    BY <1>0, <1>2 DEF Removed
  <2>1. ~Writes /\ ~Reads /\ ~Waits /\ ~Rest /\ ~PassBegins
    BY <1>0, <1>2 DEF Writes, Reads, Waits, Rest, PassBegins, Core, PassConsistent, CreateOnly
  <2>2. CASE NoWrite
    <3>0. ReplicasOf(k)' = ReplicasOf(k) BY <2>2, NoEffect DEF NoWrite
    <3>1. CASE UNCHANGED <<pc, pass>>
      BY <2>0, <3>0, <3>1 DEF Pruned
    <3>2. CASE Moves
      BY <1>2, <2>0, <3>0, <3>2 DEF Moves, SameLists, Pruned, SecretSteps
    <3>3. CASE Leaves
      BY <1>2, <2>0, <3>0, <3>3 DEF Leaves, Pruned, Later, SecretSteps
    <3>4. CASE Lists
      <4>1. /\ pc = "list" /\ pc' = "drop" /\ pass'.kind = pass.kind
            /\ pass'.doomed = Found(pass.kind)
        BY <1>2, <3>4 DEF Lists, Kept, ToCopy
      <4>2. Found(k) = ReplicasOf(k)
        BY <1>0, <2>0, AllFound, FoundReplicas DEF PrunesAll, SecretKinds
      <4> QED BY <2>0, <3>0, <4>1, <4>2 DEF Pruned, SecretSteps
    <3>5. ASSUME NEW j \in SecretKinds, Turns(j)
          PROVE  /\ Pruned(k)' => ReplicasOf(k)' = {}
                 /\ pc' = "drop" /\ pass'.kind = k => ReplicasOf(k)' \subseteq pass'.doomed
      <4>1. /\ pass'.kind = j /\ pc' \in {"read", "drop", "list"}
            /\ (pc' = "drop" => ToDrop(j) # {}) /\ pass'.doomed = ToDrop(j)
            /\ \/ j = "image"
               \/ j = "chart" /\ pc = "drop" /\ pass.kind = "image" /\ pass.doomed = {}
               \/ j = "ca" /\ pc = "checkReloaderRepo"
        BY <1>2, <3>5 DEF Turns, SecretKinds
      <4>2. pc = "checkReloaderRepo" => pass.kind = "chart"
        BY <1>2 DEF RemovalInv, CheckSteps
      <4>3. Pruned(k)' => ReplicasOf(k) = {}
        BY <2>0, <4>1, <4>2 DEF Pruned, Later, SecretKinds, SecretSteps
      <4>4. ASSUME pc' = "drop", pass'.kind = k PROVE ReplicasOf(k) \subseteq pass'.doomed
        <5>1. k = "ca" /\ pass'.doomed = {pass.config.ca} /\ pass.config.ca \in UsedAs("ca")
          BY <2>0, <4>1, <4>4, DropUsed DEF ToDrop
        <5>2. ReplicasOf("ca") \subseteq UsedAs("ca") BY <1>0 DEF LabelsInv, SecretKinds
        <5> QED BY <5>1, <5>2 DEF PrunesAll, OneBundleName
      <4> QED BY <3>0, <4>3, <4>4
    <3> QED BY <2>1, <2>2, <3>1, <3>2, <3>3, <3>4, <3>5 DEF NoWrite
  <2>3. ASSUME NEW n \in Names, Drops(n)
        PROVE  /\ Pruned(k)' => ReplicasOf(k)' = {}
               /\ pc' = "drop" /\ pass'.kind = k => ReplicasOf(k)' \subseteq pass'.doomed
    <3>1. /\ pc = "drop" /\ pc' = "drop" /\ pass'.kind = pass.kind
          /\ pass'.doomed = pass.doomed \ {n} /\ ReplicasOf(k)' \subseteq ReplicasOf(k)
      BY <1>0, <2>3, DropEffect DEF Drops
    <3>2. Pruned(k)' => Pruned(k) BY <3>1 DEF Pruned
    <3>3. ASSUME pass.kind = k PROVE n \notin ReplicasOf(k)'
      <4>1. CASE k = "image"
        <5>1. Target \in Namespaces BY <2>0, TargetTyped
        <5>2. \A p \in Namespaces : n \notin Marked(p, "managed")'
          BY <1>0, <2>0, <2>3, <3>3, <4>1, AllFound, DropEffect DEF PrunesAll
        <5> QED BY <4>1, <5>2 DEF ReplicasOf
      <4>2. CASE k # "image"
        BY <1>0, <2>3, <3>3, <4>2, DropEffect DEF SecretKinds
      <4> QED BY <4>1, <4>2
    <3> QED BY <2>0, <3>1, <3>2, <3>3
  <2> QED BY <2>1, <2>2, <2>3 DEF Moved
<1>3. ASSUME pc' # "idle", pass'.path = "delete", ~(pc # "idle" /\ pass.path = "delete")
      PROVE  /\ ~Pruned(k)' /\ pc' # "drop"
  <2>1. PassBegins
    BY <1>3
    DEF Moved, NoWrite, Rest, PassBegins, Moves, Leaves, Reads, Waits, Lists, Turns, Writes, Drops,
        SameInputs
  <2> QED BY <2>1 DEF PassBegins, Pruned, Later, SecretKinds
<1> QED BY <1>1, <1>2, <1>3 DEF Removed

LEMMA RemovalInvariant == Spec => [](LabelsInv /\ RemovalInv)
<1>1. CoreInv /\ DeletionInv /\ NamesInv /\ RemovalInv /\ [Next]_vars => RemovalInv'
  <2> SUFFICES ASSUME CoreInv, DeletionInv, NamesInv, RemovalInv, [Next]_vars PROVE RemovalInv'
    OBVIOUS
  <2>1. CoreInv' /\ Moved BY CoreInvStep, EverythingMoves DEF CoreInv
  <2>2. \A k \in SecretKinds : PrunesAll(k) => Removed(k)' BY <2>1, RemovalOfKind
  <2>3. pc' # "idle" /\ pass'.path = "delete" =>
           /\ pc' \in CheckSteps \union ReloaderSteps => pass'.kind = "chart"
           /\ pc' = "finalize" => pass'.kind = "ca"
    BY <2>1, RemovalKinds DEF CoreInv
  <2> QED BY <2>2, <2>3 DEF RemovalInv, PrunesAll
<1>2. NamesInv => LabelsInv BY DEF NamesInv
<1> QED BY <1>1, <1>2, RemovalInit, DeletesInvariant, PTL DEF Spec

\* With the resource, every copy goes, however passes, failures and re-creations
\* were interleaved, provided the target namespace and the name of the CA bundle
\* cannot change: prunes look for the current ones only.
THEOREM RemovalComplete == OneBundleName /\ OneTargetNamespace => (Spec => []ReplicasRemoved)
<1> SUFFICES ASSUME OneBundleName, OneTargetNamespace PROVE Spec => []ReplicasRemoved OBVIOUS
<1>1. RemovalInv => ReplicasRemoved
  <2> SUFFICES ASSUME RemovalInv, cr = "absent"
               PROVE  /\ Marked(Tenant, "chart") = {} /\ Marked(Tenant, "ca") = {}
                      /\ \A n \in Namespaces : Marked(n, "managed") = {}
    BY DEF ReplicasRemoved
  <2>1. \A k \in SecretKinds : ReplicasOf(k) = {}
    BY DEF RemovalInv, Removed, PrunesAll
  <2>2. Marked(Tenant, "chart") = {} /\ Marked(Tenant, "ca") = {}
    BY <2>1 DEF ReplicasOf, SecretKinds
  <2>3. ReplicasOf("image") = {} BY <2>1 DEF SecretKinds
  <2>4. \A n \in Namespaces : Marked(n, "managed") \subseteq ReplicasOf("image")
    BY DEF ReplicasOf, Marked
  <2> QED BY <2>2, <2>3, <2>4
<1> QED BY <1>1, RemovalInvariant, PTL

\* The copies of chart pull secrets go with the resource whatever is reconfigured:
\* they are pruned by label in a namespace that never changes.
THEOREM ChartSecretsGo == Spec => [](cr = "absent" => Marked(Tenant, "chart") = {})
<1>1. RemovalInv => (cr = "absent" => Marked(Tenant, "chart") = {})
  BY DEF RemovalInv, Removed, PrunesAll, ReplicasOf, SecretKinds
<1> QED BY <1>1, RemovalInvariant, PTL

=============================================================================
