--------------------------- MODULE Watches_proofs ---------------------------
(***************************************************************************)
(* Theorems about Watches: the controller that is driven by its work queue *)
(* is one of those ArgoCDReconciler describes, and when its queue is empty *)
(* it has nothing left to do.                                              *)
(***************************************************************************)
EXTENDS Watches, Installation_proofs, Secrets_proofs

-----------------------------------------------------------------------------
(* Refinement. *)

LEMMA QueuedStep == [WatchNext]_watchVars => [Next]_vars
BY DEF WatchNext, watchVars, Skip, Poll

\* The queue only decides when passes start: every theorem about the safety of
\* ArgoCDReconciler holds of the controller that is driven by its watches.
LEMMA WatchesRefine == WatchSpec => Spec
<1>1. WatchInit => Init BY DEF WatchInit
<1> QED BY <1>1, QueuedStep, PTL DEF WatchSpec, Spec

-----------------------------------------------------------------------------
(* What the work queue owes. *)

Current == pass.spec = spec /\ pass.config = config /\ cr = "live"

\* What a concluded pass reports is so for the inputs of the pass.
ReportAnswers ==
  \/ /\ pass.report.phase = "Ready" /\ pass.report.endpoint = pass.spec.host
     /\ Selected # None /\ RepoDeclared /\ ReleaseDeclared
  \/ pass.report.reason = "InvalidVersion" /\ Selected = None
  \/ pass.report.reason = "InvalidExposure" /\ Selected # None /\ pass.spec.host \in BadHosts

Answered ==
  \/ status.phase = "Ready" /\ status.endpoint = spec.host /\ DeclaredAsRequested
  \/ status.reason = "InvalidVersion" /\ Requested = None
  \/ status.reason = "InvalidExposure" /\ Requested # None /\ spec.host \in BadHosts

\* With nothing queued, a running create pass works on what is asked for now,
\* and what it reports or what an earlier one has reported answers that.
QueueInv ==
  ~queued /\ cr # "absent" =>
    /\ pc = "idle" => cr = "live" /\ (annotation = "ignore" \/ Answered)
    /\ Creating => Current
    /\ Creating /\ pc = "report" /\ Concluded => ReportAnswers

\* What keeps the queue empty.
LEMMA NothingQueued ==
  ASSUME Queue, ~queued', ~Starts
  PROVE  ~queued /\ ~Notified /\ ~Retried
BY DEF Queue

\* A pass keeps its path and its inputs, but for the patch's answer.
LEMMA PassKept ==
  ASSUME Moved, pc # "idle", pc' # "idle"
  PROVE  /\ pass'.path = pass.path /\ pass'.config = pass.config
         /\ pass'.spec = pass.spec \/ (pc = "annotation" /\ pc' = "admit")
BY DEF Moved, NoWrite, Rest, PassBegins, Moves, SameInputs, Leaves, Reads, Waits, Writes, Lists,
       Drops, Turns

\* A pass that is through for another reason is tried again.
LEMMA NotConcluded ==
  ASSUME pass \in Pass, NEW phase \in {"Failed", "Progressing"}, NEW reason, NEW endpoint,
         Finish(phase, reason, endpoint), reason \notin {"InvalidVersion", "InvalidExposure"}
  PROVE  ~Concluded'
BY DEF Finish, Concluded, Pass

LEMMA ReportReady ==
  ASSUME pass \in Pass, RepoDeclared, ReleaseDeclared, Selected # None,
         Finish("Ready", "None", pass.spec.host), UNCHANGED <<repo, release>>
  PROVE  ReportAnswers'
<1>1. /\ pass'.spec = pass.spec /\ pass'.config = pass.config /\ pass'.ca = pass.ca
      /\ pass'.report.phase = "Ready" /\ pass'.report.endpoint = pass'.spec.host
  BY DEF Finish, Pass
<1> QED
  BY <1>1
  DEF ReportAnswers, RepoDeclared, ReleaseDeclared, RepoFor, ReleaseFor, Selected, Target,
      VaultEnabled

\* A create pass concludes only where it refuses or where it has observed.
LEMMA ConcludedBy ==
  ASSUME Core, Work, Creating, pc' = "report", Concluded'
  PROVE  Admit \/ Observe
<1>0. /\ pass \in Pass /\ PassConsistent /\ pc # "idle" /\ pass.path = "create"
  BY DEF Core, ProvisionerTypeOK, Creating
<1>1. ASSUME Fail("InstallFailed") PROVE FALSE
  BY <1>0, <1>1, NotConcluded DEF Fail
<1>2. CASE Replicate
  <2>1. CASE ReadSource BY <1>1, <2>1 DEF ReadSource, AfterRead
  <2>2. CASE WriteReplica BY <1>1, <2>2 DEF WriteReplica
  <2>3. CASE EnsureNamespace \/ ListReplicas \/ DropReplica
    BY <2>3 DEF EnsureNamespace, ListReplicas, DropReplica, Go
  <2>4. CASE ReplicasDone
    <3>1. pass.kind \in {"image", "chart", "ca"} BY <1>0 DEF Pass, SecretKinds
    <3>2. Begin(pass, "chart") \/ Begin(pass, "ca") \/ Go("repo")
      BY <1>0, <2>4, <3>1 DEF ReplicasDone, AfterReplicas
    <3> QED BY <1>0, <3>2 DEF Begin, Go
  <2> QED BY <1>2, <2>1, <2>2, <2>3, <2>4 DEF Replicate
<1>3. CASE InstallFlux
  BY <1>1, <1>3 DEF InstallFlux, ApplyRepo, ApplyRelease, CannotBuild, Go, ReloaderStep
<1>4. CASE UninstallFlux \/ IsUninstalled
  <2>1. pc \notin CheckSteps \union {"deleteRelease", "deleteRepo"}
    BY <1>0 DEF PassConsistent, DeleteOnly
  <2> QED
    BY <1>0, <1>4, <2>1
    DEF UninstallFlux, DeleteRelease, DeleteRepo, IsUninstalled, Checked, CheckSteps, Go
<1>5. CASE CountUserArgoCDResources
  BY <1>0, <1>5 DEF CountUserArgoCDResources, PassConsistent, DeleteOnly
<1>6. CASE StartCreate \/ ClearAnnotation \/ StartDelete \/ WriteStatus \/ ReleaseFinalizer
  BY <1>0, <1>6 DEF StartCreate, ClearAnnotation, StartDelete, WriteStatus, ReleaseFinalizer, Rest
<1> QED BY <1>2, <1>3, <1>4, <1>5, <1>6 DEF Work, ProvisionerStep

LEMMA Refuses ==
  ASSUME Core, Creating, Admit, pc' = "report"
  PROVE  /\ pass'.report.phase = "Failed" /\ pass'.spec = pass.spec /\ pass'.config = pass.config
         /\ \/ pass'.report.reason = "InvalidVersion" /\ Selected = None
            \/ /\ pass'.report.reason = "InvalidExposure"
               /\ Selected # None /\ pass.spec.host \in BadHosts
            \/ pass'.report.reason = "InstallFailed"
<1>1. \/ Selected = None /\ Fail("InvalidVersion")
      \/ Selected # None /\ pass.spec.host \in BadHosts /\ Fail("InvalidExposure")
      \/ Fail("InstallFailed")
  BY DEF Admit, Begin
<1>2. pass \in Pass BY DEF Core, ProvisionerTypeOK, Creating
<1>3. ASSUME NEW reason, Fail(reason)
      PROVE  /\ pass'.report.phase = "Failed" /\ pass'.report.reason = reason
             /\ pass'.spec = pass.spec /\ pass'.config = pass.config
  BY <1>2, <1>3 DEF Fail, Finish, Pass
<1> QED BY <1>1, <1>3

LEMMA ConcludedAnswers ==
  ASSUME Core, DeclaredInv, Work, Creating, pc' = "report", Concluded'
  PROVE  ReportAnswers'
<1>0. /\ pass \in Pass /\ PassConsistent /\ pc # "idle" /\ pass.path = "create"
  BY DEF Core, ProvisionerTypeOK, Creating
<1>1. CASE Observe
  <2>1. pc \in {"ready", "tls", "service"} /\ UNCHANGED <<repo, release>>
    BY <1>1 DEF Observe, Ready, ServerTLS, ServerService, clusterVars, objectVars, fluxVars
  <2>2. RepoDeclared /\ ReleaseDeclared
    BY <2>1, <1>0 DEF DeclaredInv, PastRepo, PastRelease, Creating
  <2>3. Selected # None
    BY <1>0, <2>1, NoneAssumption DEF PassConsistent, Admitted, Selected
  <2>4. \/ Fail("ReadinessCheckFailed")
        \/ Finish("Progressing", "Reconciling", pass.report.endpoint) \/ EndpointPending
        \/ Finish("Ready", "None", pass.spec.host)
    <3>1. release[Argo].ready = "true" \/ release[Argo].ready # "true" OBVIOUS
    <3> QED BY <1>1, <2>2, <3>1 DEF Observe, Ready, ServerTLS, ServerService, Go, ReleaseDeclared
  <2>5. ~(\/ Fail("ReadinessCheckFailed")
          \/ Finish("Progressing", "Reconciling", pass.report.endpoint) \/ EndpointPending)
    BY <1>0, NotConcluded DEF Fail, EndpointPending
  <2> QED BY <1>0, <2>1, <2>2, <2>3, <2>4, <2>5, ReportReady
<1>2. CASE Admit
  BY <1>2, Refuses DEF Concluded, ReportAnswers, Selected
<1> QED BY <1>1, <1>2, ConcludedBy

\* Between passes the controller can only begin one.
LEMMA IdleWork ==
  ASSUME pc = "idle", Work
  PROVE  StartCreate \/ StartDelete
<1>1. ~ProvisionerStep
  BY DEF ProvisionerStep, Replicate, ReadSource, EnsureNamespace, WriteReplica, ListReplicas,
         DropReplica, ReplicasDone, InstallFlux, ApplyRepo, ApplyRelease, CannotBuild,
         UninstallFlux, DeleteRelease, DeleteRepo, IsUninstalled, Checked, Observe, Ready,
         ServerTLS, ServerService
<1> QED
  BY <1>1
  DEF Work, ClearAnnotation, Admit, CountUserArgoCDResources, WriteStatus, ReleaseFinalizer, Kinds

LEMMA QueueStarts ==
  ASSUME Next, Starts
  PROVE  QueueInv'
<1>1. StartCreate \/ StartDelete
  BY IdleWork DEF Next, Starts, CallFails, Calls, Crash, passVars
<1>2. CASE StartCreate
  BY <1>2
  DEF StartCreate, NewPass, QueueInv, Current, Creating, clusterVars, crVars, inputVars
<1>3. CASE StartDelete BY <1>3 DEF StartDelete, NewPass, QueueInv, Creating
<1> QED BY <1>1, <1>2, <1>3

\* What an answer is about stays as it is while nothing is queued.
LEMMA AnsweredKept ==
  ASSUME Answered, UNCHANGED <<spec, config, status>>, Requested # None =>
         /\ repo'[Argo] = repo[Argo]
         /\ release[Argo] # None => release'[Argo] # None /\ release'[Argo].spec = release[Argo].spec
  PROVE  Answered'
BY DEF Answered, DeclaredAsRequested, Requested

LEMMA ReportKept ==
  ASSUME ReportAnswers, UNCHANGED pass, repo'[Argo] = repo[Argo],
         release[Argo] # None => release'[Argo] # None /\ release'[Argo].spec = release[Argo].spec
  PROVE  ReportAnswers'
BY DEF ReportAnswers, RepoDeclared, ReleaseDeclared, RepoFor, ReleaseFor, Selected, Target,
       VaultEnabled

\* The report becomes the status, of a resource that still asks for the same.
LEMMA AnswerWritten ==
  ASSUME Creating, Current, ReportAnswers, WriteStatus
  PROVE  Answered'
<1>1. /\ status' = pass.report /\ UNCHANGED <<spec, config, repo, release>>
      /\ pass.spec = spec /\ pass.config = config
  BY DEF WriteStatus, Current, inputVars, objectVars, fluxVars
<1>2. Requested' = Selected BY <1>1 DEF Requested, Selected
<1>3. RepoDeclared /\ ReleaseDeclared /\ Selected # None => DeclaredAsRequested'
  BY <1>1, <1>2
  DEF RepoDeclared, ReleaseDeclared, RepoFor, ReleaseFor, Target, VaultEnabled,
      DeclaredAsRequested, Argo, Reloader
<1> QED BY <1>1, <1>2, <1>3 DEF ReportAnswers, Answered

\* What may happen while nothing gets queued: the others do nothing that is
\* watched, a pass goes on, or it writes what it has concluded.
LEMMA GoesOn ==
  ASSUME Core, DeletionInv, Next, Queue, ~Starts, ~queued', cr' # "absent"
  PROVE  /\ ~queued /\ ~Notified /\ UNCHANGED <<cr, spec, annotation, config>>
         /\ \/ Environment /\ UNCHANGED passVars
            \/ pc # "idle" /\ pc' # "idle" /\ Work
            \/ CallFails /\ Creating /\ pc' \in {"reloaderRelease", "ready"}
            \/ WriteStatus /\ pc = "report" /\ Concluded /\ Creating /\ pc' = "idle"
<1>1. ~queued /\ ~Notified /\ ~Retried BY NothingQueued
<1>2. UNCHANGED <<cr, spec, annotation, config>>
  <2>1. <<cr, spec, annotation>>' = <<cr, spec, annotation>> /\ config' = config
    BY <1>1 DEF Notified
  <2> QED BY <2>1
<1>3. CASE CallFails
  <2>1. Swallowed BY <1>1, <1>3 DEF Retried
  <2>2. pc \notin {"idle", "report", "finalize"} /\ pass.path = "create"
    BY <2>1 DEF Swallowed, ReloaderSteps
  <2>3. Go(CASE pc = "reloaderRepo" -> "reloaderRelease" [] pc # "reloaderRepo" -> "ready")
    BY <1>3, <2>1, <2>2 DEF CallFails
  <2> QED BY <1>1, <1>2, <1>3, <2>2, <2>3 DEF Go, Creating
<1>4. CASE Work
  <2>1. pc # "idle" BY <1>4, IdleWork DEF Starts, StartCreate, StartDelete
  <2>2. CASE pc' = "idle"
    <3>1. ~ProvisionerStep
      BY <2>2, ChecksReplicate, ChecksFlux DEF ProvisionerStep, DeletionInv
    <3>2. WriteStatus
      BY <1>2, <1>4, <2>1, <2>2, <3>1
      DEF Work, StartCreate, ClearAnnotation, Admit, Fail, Finish, Begin, StartDelete,
          CountUserArgoCDResources, NextKind, ReleaseFinalizer
    <3>3. pc = "report" /\ Concluded BY <1>1, <2>2, <3>2 DEF WriteStatus, Retried
    <3>4. Creating BY <2>1, <3>3 DEF Concluded, Creating
    <3> QED BY <1>1, <1>2, <2>2, <3>2, <3>3, <3>4
  <2> QED BY <1>1, <1>2, <1>4, <2>1, <2>2
<1>5. CASE Environment /\ UNCHANGED passVars BY <1>1, <1>2, <1>5
<1>6. ~Crash BY <1>1 DEF Retried
<1> QED BY <1>3, <1>4, <1>5, <1>6 DEF Next

\* Only the resource's own status of what the others may change.
LEMMA StatusKept ==
  ASSUME Environment, UNCHANGED <<cr, spec, annotation>>
  PROVE  UNCHANGED <<status, secrets>>
BY DEF Environment, TenantActs, EditSpec, Annotate, DeleteCR, CreateCR, CreateWorkload,
       DeleteWorkload, OperatorActs, EditConfig, EditSource, FluxActs, HelmSucceeds, HelmFails,
       HelmUninstalled, RepoCollected, GardenerActs, IssueCertificate, AssignAddress, Withdraw,
       AddFinalizer, CascadeFailure, crVars, objectVars

LEMMA QueueGoesOn ==
  ASSUME InstallInv, QueueInv, Next, Queue, ~Starts
  PROVE  QueueInv'
<1> SUFFICES ASSUME ~queued', cr' # "absent"
             PROVE  /\ pc' = "idle" => cr' = "live" /\ (annotation' = "ignore" \/ Answered')
                    /\ Creating' => Current'
                    /\ Creating' /\ pc' = "report" /\ Concluded' => ReportAnswers'
  BY DEF QueueInv
<1>0. Core /\ DeletionInv /\ DeclaredInv /\ (pc # "idle" => pass \in Pass)
  BY DEF InstallInv, CoreInv, Core, ProvisionerTypeOK
<1>1. /\ ~queued /\ ~Notified /\ UNCHANGED <<cr, spec, annotation, config>>
      /\ \/ Environment /\ UNCHANGED passVars
         \/ pc # "idle" /\ pc' # "idle" /\ Work
         \/ CallFails /\ Creating /\ pc' \in {"reloaderRelease", "ready"}
         \/ WriteStatus /\ pc = "report" /\ Concluded /\ Creating /\ pc' = "idle"
  BY <1>0, GoesOn
<1>2. /\ pc = "idle" => cr = "live" /\ (annotation = "ignore" \/ Answered)
      /\ Creating => Current
      /\ Creating /\ pc = "report" /\ Concluded => ReportAnswers
  BY <1>1 DEF QueueInv
<1>3. CASE Environment /\ UNCHANGED passVars
  <2>1. pc' = pc /\ pass' = pass BY <1>3 DEF passVars
  <2>2. UNCHANGED status BY <1>1, <1>3, StatusKept
  <2>3. ASSUME cr = "live" \/ Creating
        PROVE  /\ repo'[Argo] = repo[Argo]
               /\ release[Argo] # None =>
                    release'[Argo] # None /\ release'[Argo].spec = release[Argo].spec
    <3>1. Staying(repo[Argo]) /\ Staying(release[Argo])
      BY <1>0, <2>3 DEF DeletionInv, NoneLeaving, Creating
    <3> QED BY <1>0, <1>3, <3>1, OthersKeep
  <2>4. pc' = "idle" => cr' = "live" /\ (annotation' = "ignore" \/ Answered')
    BY <1>1, <1>2, <2>1, <2>2, <2>3, AnsweredKept
  <2>5. (Creating' <=> Creating) /\ (Concluded' <=> Concluded) /\ (Current' <=> Current)
    BY <1>1, <2>1 DEF Creating, Concluded, Current
  <2>6. Creating' /\ pc' = "report" /\ Concluded' => ReportAnswers'
    BY <1>2, <2>1, <2>3, <2>5, ReportKept
  <2> QED BY <1>2, <2>4, <2>5, <2>6
<1>4. CASE WriteStatus /\ pc = "report" /\ Concluded /\ Creating /\ pc' = "idle"
  BY <1>1, <1>2, <1>4, AnswerWritten DEF Current, Creating
<1>5. CASE \/ pc # "idle" /\ pc' # "idle" /\ Work
           \/ CallFails /\ Creating /\ pc' \in {"reloaderRelease", "ready"}
  <2>1. pc # "idle" /\ pc' # "idle" /\ Moved
    <3>1. [Next]_vars OBVIOUS
    <3> QED BY <1>0, <1>5, <3>1, EverythingMoves DEF Creating
  <2>2. /\ pass'.path = pass.path /\ pass'.config = pass.config
        /\ pass'.spec = pass.spec \/ (pc = "annotation" /\ pc' = "admit")
    BY <2>1, PassKept
  <2>3. Creating' => Creating BY <2>1, <2>2 DEF Creating
  <2>4. Creating' => Current'
    <3>1. CASE pass'.spec = pass.spec
      BY <1>1, <1>2, <2>2, <2>3, <3>1 DEF Current
    <3>2. CASE pc = "annotation" /\ pc' = "admit"
      <4>1. Work BY <1>5, <3>2
      <4>2. ClearAnnotation
        BY <3>2, <4>1
        DEF Work, StartCreate, Admit, StartDelete, CountUserArgoCDResources, WriteStatus,
            ReleaseFinalizer, Kinds, ProvisionerStep, Replicate, ReadSource, EnsureNamespace,
            WriteReplica, ListReplicas, DropReplica, ReplicasDone, InstallFlux, ApplyRepo,
            ApplyRelease, CannotBuild, UninstallFlux, DeleteRelease, DeleteRepo, IsUninstalled,
            Checked, Observe, Ready, ServerTLS, ServerService
      <4>3. pass'.spec = spec BY <1>0, <2>1, <4>2 DEF ClearAnnotation, Pass
      <4> QED BY <1>1, <1>2, <2>2, <2>3, <4>3 DEF Current
    <3> QED BY <2>2, <3>1, <3>2
  <2>5. Creating' /\ pc' = "report" /\ Concluded' => ReportAnswers'
    BY <1>0, <1>5, <2>3, ConcludedAnswers
  <2> QED BY <2>1, <2>4, <2>5
<1> QED BY <1>1, <1>3, <1>4, <1>5

LEMMA QueueStep == InstallInv /\ QueueInv /\ [WatchNext]_watchVars => QueueInv'
<1> SUFFICES ASSUME InstallInv, QueueInv, [WatchNext]_watchVars PROVE QueueInv' OBVIOUS
<1>1. CASE Next /\ Queue BY <1>1, QueueStarts, QueueGoesOn
<1>2. CASE Skip
  <2>1. pc' = "idle" /\ cr' = "live" /\ annotation' = "ignore"
    BY <1>2 DEF Skip, vars, clusterVars, passVars, crVars, Reconciles
  <2> QED BY <2>1 DEF QueueInv, Creating
<1>3. CASE Poll BY <1>3 DEF Poll, QueueInv
<1>4. CASE UNCHANGED watchVars
  <2>1. UNCHANGED <<cr, spec, annotation, status>> /\ UNCHANGED <<config, repo, release>>
        /\ UNCHANGED <<pc, pass, queued>>
    BY <1>4
    DEF watchVars, vars, clusterVars, passVars, crVars, inputVars, objectVars, fluxVars
  <2>2. Answered => Answered' BY <2>1, AnsweredKept
  <2>3. ReportAnswers => ReportAnswers' BY <2>1, ReportKept
  <2>4. (Creating' <=> Creating) /\ (Concluded' <=> Concluded) /\ (Current' <=> Current)
    BY <2>1 DEF Creating, Concluded, Current
  <2> QED BY <2>1, <2>2, <2>3, <2>4 DEF QueueInv
<1> QED BY <1>1, <1>2, <1>3, <1>4 DEF WatchNext

LEMMA QueueInvariant == WatchSpec => []QueueInv
<1>1. WatchInit => QueueInv BY DEF WatchInit, QueueInv
<1>2. InstallInv /\ QueueInv /\ [WatchNext]_watchVars => QueueInv' BY QueueStep
<1> QED BY <1>1, <1>2, WatchesRefine, InstallInvariant, PTL DEF WatchSpec

\* An empty queue is a promise kept: no edit, failure, restart or deletion that
\* came between any two calls of a pass is left without another pass.
THEOREM QuietAnswered == WatchSpec => []QuietIsAnswered
<1>1. QueueInv => QuietIsAnswered
  BY DEF QueueInv, QuietIsAnswered, Quiet, Answered
<1> QED BY <1>1, QueueInvariant, PTL

-----------------------------------------------------------------------------
(* What an empty queue says about the copies of pull secrets. *)

Followed == {"image", "chart"}

Copying == Creating /\ pc \notin {"annotation", "admit", "report"}

Behind(k) == k # pass.kind /\ k \notin Later(pass.kind)

UpToDate(k, names) ==
  \A n \in names : n \in Found(k) /\ secrets[<<Place(k), n>>].data = source[n]

\* The copies a pass has made hold what their sources hold now, and the kinds it
\* has pruned hold nothing else.
FollowPass(k) ==
  /\ UpToDate(k, Wanted(k) \ ToDo(k))
  /\ Behind(k) => Found(k) \subseteq Wanted(k)
  /\ pass.kind = k =>
       /\ pc = "drop" => Found(k) \subseteq Wanted(k) \union pass.doomed
       /\ pass.left \union Reading \subseteq Wanted(k)
       /\ pc \in {"namespace", "write"} => pass.held.data = source[pass.held.name]

Delivered == \A k \in Followed : Found(k) \subseteq Wanted(k) /\ UpToDate(k, Wanted(k))

Following ==
  /\ pc = "idle" /\ annotation # "ignore" /\ status.phase = "Ready" =>
       Requested # None /\ InSync(spec.ns, "image") /\ InSync(Tenant, "chart")
  /\ Creating /\ pc = "report" /\ pass.report.phase = "Ready" => Selected # None /\ Delivered
  /\ Copying => \A k \in Followed : FollowPass(k)

FollowInv == ~queued /\ cr # "absent" => Following

\* Where the copies of a followed kind are.
LEMMA Where ==
  ASSUME pass \in Pass
  PROVE  /\ \A k \in SecretKinds : Place(k) \in Places /\ Mark(k) \in Labels
         /\ Followed \subseteq SecretKinds
         /\ Place("image") = Target /\ Place("chart") = Tenant /\ Place("ca") = Tenant
         /\ Target # Tenant /\ Target \in Namespaces /\ Tenant \in Places
         /\ Found("image") = Marked(Target, "managed") /\ Found("chart") = Marked(Tenant, "chart")
BY TargetTyped DEF Followed, Place, Places, Mark, Labels, SecretKinds, Found

\* What is read for a followed kind is watched.
LEMMA ReferencedKept ==
  ASSUME ~Notified, NEW v \in Versions, config.versions[v] # None, NEW k \in Followed,
         NEW n \in Names, n \in Named(config.versions[v], config, k)
  PROVE  source'[n] = source[n]
BY DEF Notified, IsReferencedSecret, versionReferencesSecret, Named, Followed

LEMMA WantedKept ==
  ASSUME ~Notified, pass \in Pass, Selected # None, pass.config = config, NEW k \in Followed
  PROVE  \A n \in Wanted(k) : n \in Names /\ source'[n] = source[n]
<1>1. /\ pass.config \in Configs /\ pass.spec.version \in Versions /\ Selected \in Offer
      /\ k \in SecretKinds
  BY ConstantsAssumption
  DEF Pass, ArgoCDSpec, ProviderConfig, Selected, Followed, SecretKinds
<1>2. Wanted(k) \subseteq Names BY <1>1, NamedTyped DEF Wanted
<1> QED BY <1>1, <1>2, ReferencedKept DEF Wanted, Selected

LEMMA FollowTurns ==
  ASSUME Core, Core', CopiedInv, UNCHANGED <<secrets, source>>, Creating,
         NEW j \in SecretKinds, Turns(j), NEW k \in Followed, Copying => FollowPass(k)
  PROVE  FollowPass(k)'
<1>1. /\ pass'.kind = j /\ pass'.left = Wanted(j) /\ pc' \in {"read", "list"}
      /\ pass.path = "create" /\ SameInputs
  BY DEF Turns, ToCopy, ToDrop, Creating
<1>2. /\ \A i : Wanted(i)' = Wanted(i) /\ Found(i)' = Found(i) /\ Place(i)' = Place(i)
      /\ Reading' = {}
  BY <1>1, SameWanted DEF SameInputs, Found, Marked, Place, Target, Reading
<1>3. \/ j = "image"
      \/ j = "chart" /\ pass.kind = "image" /\ pc = "drop" /\ pass.doomed = {}
      \/ j = "ca" /\ pass.kind = "chart" /\ pc = "drop" /\ pass.doomed = {}
  BY <1>1 DEF Turns, Core, PassConsistent, DeleteOnly, CheckSteps, SecretKinds, Creating
<1>4. CASE k = j \/ k \in Later(j)
  <2>1. ToDo(k)' = Wanted(k) /\ ~Behind(k)' BY <1>1, <1>2, <1>4 DEF ToDo, Behind
  <2>2. pass'.kind = k => k = j BY <1>1
  <2> QED BY <1>1, <1>2, <2>1, <2>2 DEF FollowPass, UpToDate
<1>5. CASE k # j /\ k \notin Later(j)
  <2>1. /\ pc = "drop" /\ pass.doomed = {} /\ (k = pass.kind \/ Behind(k)) /\ Copying
    BY <1>3, <1>5 DEF Followed, Later, Behind, Copying, Creating
  <2>2. ToDo(k) = {} /\ ToDo(k)' = {}
    <3>1. pass.left = {} /\ Reading = {} BY <2>1 DEF CopiedInv, Copying, Creating, Reading
    <3>2. k \notin Later(pass.kind) BY <2>1 DEF Behind, Later, Followed
    <3> QED BY <1>1, <1>5, <3>1, <3>2 DEF ToDo
  <2>3. Found(k) \subseteq Wanted(k) BY <2>1 DEF FollowPass
  <2>4. UpToDate(k, Wanted(k)) BY <2>1, <2>2 DEF FollowPass
  <2> QED BY <1>1, <1>2, <1>5, <2>2, <2>3, <2>4 DEF FollowPass, UpToDate
<1> QED BY <1>4, <1>5

LEMMA FollowNoWrite ==
  ASSUME Core, Core', CopiedInv, NoWrite, UNCHANGED source, Creating, Copying', pc # "idle",
         NEW k \in Followed, Copying => FollowPass(k)
  PROVE  FollowPass(k)'
<1>1. CASE \E j \in SecretKinds : Turns(j) BY <1>1, FollowTurns DEF NoWrite
<1>2. CASE Rest \/ PassBegins BY <1>2 DEF Rest, PassBegins, Copying, Creating
\* A step within the pass that keeps what is to be copied.
<1>3. ASSUME Copying, SameInputs, pass'.kind = pass.kind, ToDo(k)' = ToDo(k),
             pass.kind = k =>
               /\ pc' = "drop" => Found(k) \subseteq Wanted(k) \union pass'.doomed
               /\ pass'.left \union Reading' \subseteq pass.left \union Reading
               /\ pc' \in {"namespace", "write"} => pass'.held.data = source[pass'.held.name]
      PROVE  FollowPass(k)'
  <2>1. Wanted(k)' = Wanted(k) BY <1>3, SameWanted
  <2>2. Found(k)' = Found(k) /\ Place(k)' = Place(k)
    BY <1>3 DEF SameInputs, Found, Marked, Place, Target, NoWrite
  <2>3. Behind(k)' <=> Behind(k) BY <1>3 DEF Behind
  <2> QED BY <1>3, <2>1, <2>2, <2>3 DEF FollowPass, UpToDate, NoWrite
<1>4. CASE UNCHANGED <<pc, pass>>
  <2>1. Copying BY <1>4 DEF Copying, Creating
  <2>2. SameInputs /\ ToDo(k)' = ToDo(k) /\ Reading' = Reading
    BY <1>4 DEF SameInputs, ToDo, Later, Reading, Wanted, Selected
  <2> QED BY <1>3, <1>4, <2>1, <2>2 DEF FollowPass
<1>5. CASE Moves
  <2>1. /\ SameInputs /\ SameLists /\ Copying
        /\ pc \in PassSteps \ (SecretSteps \union {"annotation", "admit", "report"})
        /\ pc' \in PassSteps \ (SecretSteps \union {"annotation", "admit", "report"})
    BY <1>5 DEF Moves, Copying, Creating
  <2>2. pass.kind = "ca" BY <2>1 DEF CopiedInv, Copying, Creating
  <2>3. ToDo(k)' = ToDo(k) BY <2>1, <2>2 DEF ToDo, SameLists, Later, Followed
  <2> QED BY <1>3, <2>1, <2>2, <2>3 DEF SameLists, Followed
<1>6. CASE Leaves
  <2>1. pass.kind = "ca" /\ pass' = pass /\ Copying
    BY <1>6 DEF Leaves, Copying, Creating
  <2>2. SameInputs /\ ToDo(k)' = ToDo(k)
    BY <2>1 DEF SameInputs, ToDo, Later, Followed
  <2> QED BY <1>3, <2>1, <2>2 DEF Followed
<1>7. CASE Reads \/ Waits
  <2>1. /\ SameInputs /\ pass'.kind = pass.kind /\ Copying
        /\ pc \in {"read", "namespace"} /\ pc' \in {"namespace", "write"}
    BY <1>7 DEF Reads, Waits, SameInputs, Copying, Creating
  <2>2. pass'.left \union Reading' = pass.left \union Reading
    BY <1>7 DEF Reads, Waits, Reading
  <2>3. ToDo(k)' = ToDo(k) BY <2>1, <2>2, SameWanted DEF ToDo
  <2>4. pass.kind = k => pass'.held.data = source[pass'.held.name]
    BY <1>7, <2>1 DEF Reads, Waits, FollowPass
  <2> QED BY <1>3, <2>1, <2>2, <2>3, <2>4
<1>8. CASE Lists
  <2>1. /\ SameInputs /\ pass'.kind = pass.kind /\ Copying /\ pc = "list" /\ pc' = "drop"
        /\ pass'.left = pass.left /\ pass'.doomed = Found(pass.kind) \ Wanted(pass.kind)
    BY <1>8 DEF Lists, Kept, ToCopy, Copying, Creating
  <2>2. Reading' = Reading BY <2>1 DEF Reading
  <2>3. ToDo(k)' = ToDo(k) BY <2>1, <2>2, SameWanted DEF ToDo
  <2> QED BY <1>3, <2>1, <2>2, <2>3
<1> QED BY <1>1, <1>2, <1>4, <1>5, <1>6, <1>7, <1>8 DEF NoWrite

\* A copy refreshes one name of one kind; other followed kinds are elsewhere or
\* have other names.
LEMMA FollowWrites ==
  ASSUME Core, Core', NamesInv, DistinctNames, Writes, UNCHANGED source, Creating,
         NEW k \in Followed, FollowPass(k)
  PROVE  FollowPass(k)'
<1>1. /\ pass \in Pass /\ pass.kind \in SecretKinds /\ Admitted /\ PassConsistent
      /\ pass.held.name \in Names /\ pass.held.name \in UsedAs(pass.kind)
      /\ pc = "write" /\ SameInputs /\ SameLists /\ pc' \in {"read", "drop", "list"}
      /\ (pc' = "drop" => pass.kind = "ca")
      /\ secrets \in [Places \X Names -> Secret \union {None}]
  BY DEF Core, Writes, PassConsistent, ProvisionerTypeOK, ClustersTypeOK, Pass, Creating, NamesInv,
         PassNames, Reading
<1>2. PICK j \in SecretKinds, n \in Names :
        /\ j = pass.kind /\ n = pass.held.name /\ n \in UsedAs(j)
  BY <1>1
<1>3. /\ \A i : Wanted(i)' = Wanted(i) /\ Place(i)' = Place(i)
      /\ Reading = {n} /\ Reading' = {} /\ (Behind(k)' <=> Behind(k))
  BY <1>1, <1>2, SameWanted DEF SameInputs, SameLists, Place, Target, Reading, Behind
<1>4. ToDo(k) \subseteq ToDo(k)' \union (IF j = k THEN {n} ELSE {})
  BY <1>1, <1>2, <1>3 DEF ToDo, SameLists
<1>5. Found(k)' = IF j = k THEN Found(k) \union {n} ELSE Found(k)
  <2>1. \A p \in Places, label \in Labels :
          Marked(p, label)' = IF p = Place(j) /\ label \in {"managed", Mark(j)}
                              THEN Marked(p, label) \union {n} ELSE Marked(p, label)
    BY <1>2, WriteEffect
  <2>2. PICK p \in Places, label \in Labels : p = Place(k) /\ label = Mark(k)
    BY <1>1, Where
  <2>3. p = Place(j) /\ label \in {"managed", Mark(j)} <=> j = k
    BY <1>1, <1>2, <2>2, Where DEF Followed, SecretKinds, Mark
  <2>4. Found(k) = Marked(p, label) /\ Found(k)' = Marked(p, label)' BY <1>3, <2>2 DEF Found
  <2> QED BY <2>1, <2>3, <2>4
<1>6. \A m \in Wanted(k) \ ToDo(k)' :
        secrets'[<<Place(k), m>>].data = source[m]
  <2> SUFFICES ASSUME NEW m \in Wanted(k), m \notin ToDo(k)'
               PROVE  secrets'[<<Place(k), m>>].data = source[m]
    OBVIOUS
  <2>1. m \in UsedAs(k) /\ m \in Names /\ k \in SecretKinds
    BY <1>1, WantedUsed, Where DEF UsedAs
  <2>2. secrets' = [secrets EXCEPT ![<<Place(j), n>>] = Replica(@, j, pass.held.data)]
    BY <1>2 DEF Writes
  <2>3. Place(j) \in Places /\ Place(k) \in Places
    BY <1>1, <1>2, Where
  <2>4. CASE j = k /\ m = n
    <3>1. secrets'[<<Place(k), m>>] = Replica(secrets[<<Place(k), m>>], j, pass.held.data)
      BY <1>1, <2>1, <2>2, <2>3, <2>4
    <3>2. pass.held.data = source[m] BY <1>1, <1>2, <2>4 DEF FollowPass
    <3> QED BY <3>1, <3>2 DEF Replica
  <2>5. CASE ~(j = k /\ m = n)
    <3>1. Place(k) # Place(j) \/ m # n
      BY <1>1, <1>2, <2>1, <2>5, Where DEF DistinctNames, Followed, SecretKinds
    <3>2. secrets'[<<Place(k), m>>] = secrets[<<Place(k), m>>]
      BY <1>1, <1>2, <2>1, <2>2, <2>3, <3>1
    <3>3. m \notin ToDo(k) BY <1>4, <2>5
    <3> QED BY <3>2, <3>3 DEF FollowPass, UpToDate
  <2> QED BY <2>4, <2>5
<1>7. UpToDate(k, Wanted(k) \ ToDo(k))'
  <2>1. \A m \in Wanted(k) \ ToDo(k)' : m \in Found(k)'
    BY <1>4, <1>5 DEF FollowPass, UpToDate
  <2> QED BY <1>3, <1>6, <2>1 DEF UpToDate
<1>8. Behind(k)' => Found(k)' \subseteq Wanted(k)'
  BY <1>2, <1>3, <1>5 DEF FollowPass, Behind
<1>9. pass'.kind = k =>
        /\ ~(pc' = "drop") /\ pc' \notin {"namespace", "write"}
        /\ pass'.left \union Reading' \subseteq Wanted(k)'
  BY <1>1, <1>3 DEF FollowPass, SameLists, Followed
<1> QED BY <1>7, <1>8, <1>9 DEF FollowPass

\* A prune takes away what is not wanted.
LEMMA FollowDrops ==
  ASSUME Core, Core', NamesInv, DistinctNames, CopiedInv, NEW n \in Names, Drops(n),
         UNCHANGED source, Creating, NEW k \in Followed, FollowPass(k)
  PROVE  FollowPass(k)'
<1>1. /\ pass \in Pass /\ pass.kind \in SecretKinds /\ Admitted
      /\ pc = "drop" /\ pc' = "drop" /\ SameInputs /\ n \in pass.doomed
      /\ pass'.kind = pass.kind /\ pass'.left = pass.left /\ pass'.doomed = pass.doomed \ {n}
      /\ n \in UsedAs(pass.kind) /\ pass.doomed \intersect Wanted(pass.kind) = {}
      /\ secrets \in [Places \X Names -> Secret \union {None}]
      /\ secrets' = [secrets EXCEPT ![<<Place(pass.kind), n>>] = None]
  BY DEF Core, Drops, PassConsistent, ProvisionerTypeOK, ClustersTypeOK, Pass, Creating, NamesInv,
         PassNames, CopiedInv, SecretSteps
<1>2. PICK j \in SecretKinds : j = pass.kind BY <1>1
<1>3. /\ \A i : Wanted(i)' = Wanted(i) /\ Place(i)' = Place(i)
      /\ Reading = {} /\ Reading' = {} /\ (Behind(k)' <=> Behind(k))
  BY <1>1, SameWanted DEF SameInputs, Place, Target, Reading, Behind
<1>4. ToDo(k)' = ToDo(k) BY <1>1, <1>3 DEF ToDo
<1>5. \A m \in Wanted(k) : m \in Names /\ (Place(k) # Place(j) \/ m # n)
  <2> SUFFICES ASSUME NEW m \in Wanted(k), Place(k) = Place(j) PROVE m \in Names /\ m # n
    BY <1>1, WantedUsed, Where DEF UsedAs
  <2>1. m \in UsedAs(k) /\ m \in Names BY <1>1, WantedUsed, Where DEF UsedAs
  <2>2. CASE j = k BY <1>1, <1>2, <2>1, <2>2
  <2>3. CASE j # k
    <3>1. k = "chart" /\ j = "ca" BY <1>1, <2>3, Where DEF Followed, SecretKinds
    <3> QED BY <1>1, <1>2, <2>1, <3>1 DEF DistinctNames
  <2> QED BY <2>2, <2>3
<1>6. /\ Found(k)' \subseteq Found(k)
      /\ j = k => Found(k)' = Found(k) \ {n}
      /\ Found(k) \ {n} \subseteq Found(k)'
      /\ Place(k) # Place(j) => Found(k)' = Found(k)
  <2>1. \A q \in Places, label \in Labels :
          Marked(q, label)' = IF q # Place(j) THEN Marked(q, label) ELSE Marked(q, label) \ {n}
    <3>1. Place(j) \in Places BY <1>1, <1>2, Where
    <3> QED BY <1>1, <1>2, <3>1, MarkedDropped DEF Core
  <2>2. PICK p \in Places, label \in Labels : p = Place(k) /\ label = Mark(k)
    BY <1>1, Where
  <2>3. Found(k) = Marked(p, label) /\ Found(k)' = Marked(p, label)' BY <1>3, <2>2 DEF Found
  <2> QED BY <2>1, <2>2, <2>3
<1>7. UpToDate(k, Wanted(k) \ ToDo(k))'
  <2> SUFFICES ASSUME NEW m \in Wanted(k) \ ToDo(k)
               PROVE  m \in Found(k)' /\ secrets'[<<Place(k), m>>].data = source[m]
    BY <1>3, <1>4 DEF UpToDate
  <2>1. m \in Found(k) /\ secrets[<<Place(k), m>>].data = source[m] BY DEF FollowPass, UpToDate
  <2>2. m \in Names /\ (Place(k) # Place(j) \/ m # n) BY <1>5
  <2>3. m \in Found(k)' BY <1>6, <2>1, <2>2
  <2>4. Place(j) \in Places /\ Place(k) \in Places BY <1>1, <1>2, Where
  <2>5. secrets'[<<Place(k), m>>] = secrets[<<Place(k), m>>]
    BY <1>1, <1>2, <2>2, <2>4
  <2> QED BY <2>1, <2>3, <2>5
<1>8. Behind(k)' => Found(k)' \subseteq Wanted(k)' BY <1>3, <1>6 DEF FollowPass
<1>9. pass'.kind = k =>
        /\ Found(k)' \subseteq Wanted(k)' \union pass'.doomed
        /\ pass'.left \union Reading' \subseteq Wanted(k)'
        /\ pc' \notin {"namespace", "write"}
  BY <1>1, <1>2, <1>3, <1>6 DEF FollowPass
<1> QED BY <1>7, <1>8, <1>9 DEF FollowPass

\* A pass that reports Ready has all copies behind it.
LEMMA FollowReports ==
  ASSUME Core, CopiedInv, Work, Creating, \A k \in Followed : Copying => FollowPass(k),
         pc' = "report", pass'.path = "create", pass'.report.phase = "Ready"
  PROVE  (Selected # None /\ Delivered)'
<1>1. Observe
  <2>1. Concluded' BY DEF Concluded
  <2>2. ~Admit BY Refuses
  <2> QED BY <2>1, <2>2, ConcludedBy
<1>2. pc \in {"ready", "tls", "service"} /\ UNCHANGED <<secrets, source>>
  BY <1>1
  DEF Observe, Ready, ServerTLS, ServerService, clusterVars, inputVars, objectVars
<1>3. pass.kind = "ca" /\ pass.left = {} /\ Copying /\ pass \in Pass /\ Selected # None
  BY <1>2, NoneAssumption
  DEF CopiedInv, Creating, Copying, SecretSteps, Core, ProvisionerTypeOK, PassConsistent, Admitted,
      Selected
<1>4. \A k \in Followed : ToDo(k) = {} /\ Behind(k)
  BY <1>3 DEF ToDo, Behind, Later, Followed
<1>5. Delivered BY <1>3, <1>4 DEF FollowPass, Delivered
<1>6. SameInputs
  <2>1. ASSUME NEW phase, NEW reason, NEW endpoint, Finish(phase, reason, endpoint)
        PROVE  SameInputs
    BY <1>3, <2>1 DEF Finish, SameInputs, Pass
  <2> QED BY <1>1, <1>2, <2>1 DEF Observe, Ready, ServerTLS, ServerService, Fail, EndpointPending, Go
<1>7. /\ Selected' = Selected
      /\ \A k : Wanted(k)' = Wanted(k) /\ Found(k)' = Found(k) /\ Place(k)' = Place(k)
  BY <1>2, <1>6, SameWanted DEF SameInputs, Selected, Found, Marked, Place, Target
<1> QED BY <1>2, <1>3, <1>5, <1>7 DEF Delivered, UpToDate

\* What is in step stays so while nothing that is watched happens.
LEMMA FollowOthers ==
  ASSUME Core, Following, ~Notified, Creating => Current,
         UNCHANGED <<spec, annotation, config, status, secrets, pc, pass>>
  PROVE  Following'
<1>0. /\ pc # "idle" => pass \in Pass /\ (Copying => Selected # None)
      /\ spec.version \in Versions /\ config \in Configs /\ config.versions \in [Versions -> Offer \union {None}]
  BY ConstantsAssumption, NoneAssumption
  DEF Core, ProvisionerTypeOK, PassConsistent, Copying, Creating, Admitted, Selected,
      ClustersTypeOK, ArgoCDSpec, ProviderConfig
<1>1. ASSUME Requested # None, InSync(spec.ns, "image"), InSync(Tenant, "chart")
      PROVE  (Requested # None /\ InSync(spec.ns, "image") /\ InSync(Tenant, "chart"))'
  <2>1. \A k \in Followed : \A n \in Named(Requested, config, k) : source'[n] = source[n]
    <3> SUFFICES ASSUME NEW k \in Followed, NEW n \in Named(Requested, config, k)
                 PROVE  source'[n] = source[n]
      OBVIOUS
    <3>1. Requested \in Offer /\ k \in SecretKinds
      BY <1>0, <1>1 DEF Requested, Followed, SecretKinds
    <3>2. n \in Names BY <1>0, <3>1, NamedTyped
    <3> QED BY <1>0, <1>1, <3>2, ReferencedKept DEF Requested
  <2> QED BY <1>1, <2>1 DEF Requested, InSync, Marked, Followed
<1>2. ASSUME Creating, Selected # None
      PROVE  \A k \in Followed : \A n \in Wanted(k) : source'[n] = source[n]
  BY <1>0, <1>2, WantedKept DEF Creating, Current
<1>3. /\ Selected' = Selected /\ (Creating' <=> Creating) /\ (Copying' <=> Copying)
      /\ \A k : /\ Wanted(k)' = Wanted(k) /\ Found(k)' = Found(k) /\ Place(k)' = Place(k)
                /\ ToDo(k)' = ToDo(k) /\ (Behind(k)' <=> Behind(k))
      /\ Reading' = Reading
  BY DEF Selected, Creating, Copying, Wanted, Found, Marked, Place, Target, ToDo, Reading, Later,
         Behind
<1>4. ASSUME Creating, Selected # None, Delivered PROVE Delivered'
  BY <1>2, <1>3, <1>4 DEF Delivered, UpToDate
<1>5. ASSUME Copying, NEW k \in Followed, FollowPass(k) PROVE FollowPass(k)'
  <2>1. \A n \in Wanted(k) : source'[n] = source[n] BY <1>0, <1>2, <1>5 DEF Copying, Creating
  <2>2. pass.kind = k /\ pc \in {"namespace", "write"} =>
          pass.held.data = source'[pass.held.name]
    BY <1>5, <2>1 DEF FollowPass, Reading
  <2> QED BY <1>3, <1>5, <2>1, <2>2 DEF FollowPass, UpToDate
<1> QED BY <1>1, <1>3, <1>4, <1>5 DEF Following

LEMMA ControllerReads ==
  ASSUME Work \/ CallFails
  PROVE  UNCHANGED source
BY DEF Work, StartCreate, ClearAnnotation, Admit, StartDelete, CountUserArgoCDResources,
       WriteStatus, ReleaseFinalizer, ProvisionerStep, Replicate, ReadSource, EnsureNamespace,
       WriteReplica, ListReplicas, DropReplica, ReplicasDone, InstallFlux, ApplyRepo, ApplyRelease,
       CannotBuild, UninstallFlux, DeleteRelease, DeleteRepo, IsUninstalled, Checked, Observe,
       Ready, ServerTLS, ServerService, CallFails, clusterVars, inputVars

SyncInv == CoreInv /\ NamesInv /\ CopiedInv /\ InstallInv /\ QueueInv

LEMMA FollowGoesOn ==
  ASSUME DistinctNames, SyncInv, CoreInv', FollowInv, Next, Queue, ~Starts
  PROVE  FollowInv'
<1> SUFFICES ASSUME ~queued', cr' # "absent" PROVE Following'
  BY DEF FollowInv
<1>0. /\ Core /\ Core' /\ DeletionInv /\ NamesInv /\ CopiedInv /\ QueueInv
      /\ (pc # "idle" => pass \in Pass)
  BY DEF SyncInv, InstallInv, CoreInv, Core, ProvisionerTypeOK
<1>1. /\ ~queued /\ ~Notified /\ UNCHANGED <<cr, spec, annotation, config>>
      /\ \/ Environment /\ UNCHANGED passVars
         \/ pc # "idle" /\ pc' # "idle" /\ Work
         \/ CallFails /\ Creating /\ pc' \in {"reloaderRelease", "ready"}
         \/ WriteStatus /\ pc = "report" /\ Concluded /\ Creating /\ pc' = "idle"
  BY <1>0, GoesOn
<1>2. Following /\ (Creating => Current)
  BY <1>0, <1>1 DEF FollowInv, QueueInv
<1>3. CASE Environment /\ UNCHANGED passVars
  <2>1. UNCHANGED <<status, secrets>> /\ UNCHANGED <<pc, pass>>
    BY <1>1, <1>3, StatusKept DEF passVars
  <2> QED BY <1>0, <1>1, <1>2, <2>1, FollowOthers
<1>4. CASE WriteStatus /\ pc = "report" /\ Concluded /\ Creating /\ pc' = "idle"
  <2>1. /\ status' = pass.report /\ UNCHANGED <<source, secrets>>
        /\ pass.spec = spec /\ pass.config = config
    BY <1>2, <1>4 DEF WriteStatus, inputVars, objectVars, Current
  <2>2. /\ Requested' = Selected /\ spec'.ns = Target
        /\ \A k : Named(Requested, config, k)' = Wanted(k)
    BY <1>1, <2>1 DEF Requested, Selected, Target, Wanted, Named
  <2>3. Delivered => (InSync(spec.ns, "image") /\ InSync(Tenant, "chart"))'
    <3>1. /\ Found("image") = Marked(Target, "managed") /\ Found("chart") = Marked(Tenant, "chart")
          /\ Place("image") = Target /\ Place("chart") = Tenant
          /\ Mark("image") = "managed" /\ Mark("chart") = "chart"
      BY <1>0, <1>4, Where DEF Mark, Creating
    <3>3. Delivered => InSync(spec.ns, "image")'
      <4> SUFFICES ASSUME Delivered PROVE InSync(spec.ns, "image")' OBVIOUS
      <4>1. /\ Marked(Target, "managed") = Wanted("image")
            /\ \A n \in Wanted("image") : secrets[<<Target, n>>].data = source[n]
        BY <3>1 DEF Delivered, UpToDate, Followed
      <4>2. /\ Marked(spec.ns, "managed")' = Marked(Target, "managed")
            /\ Named(Requested, config, "image")' = Wanted("image")
        BY <2>1, <2>2 DEF Marked
      <4> QED BY <2>1, <2>2, <3>1, <4>1, <4>2 DEF InSync, Mark
    <3>4. Delivered => InSync(Tenant, "chart")'
      <4> SUFFICES ASSUME Delivered PROVE InSync(Tenant, "chart")' OBVIOUS
      <4>1. /\ Marked(Tenant, "chart") = Wanted("chart")
            /\ \A n \in Wanted("chart") : secrets[<<Tenant, n>>].data = source[n]
        BY <3>1 DEF Delivered, UpToDate, Followed
      <4>2. /\ Marked(Tenant, "chart")' = Marked(Tenant, "chart")
            /\ Named(Requested, config, "chart")' = Wanted("chart")
        BY <2>1, <2>2 DEF Marked
      <4> QED BY <2>1, <4>1, <4>2 DEF InSync, Mark
    <3> QED BY <3>3, <3>4
  <2> QED BY <1>2, <1>4, <2>1, <2>2, <2>3 DEF Following, Creating, Copying
<1>5. CASE \/ pc # "idle" /\ pc' # "idle" /\ Work
           \/ CallFails /\ Creating /\ pc' \in {"reloaderRelease", "ready"}
  <2>1. pc # "idle" /\ pc' # "idle" /\ Moved /\ UNCHANGED source
    <3>1. [Next]_vars OBVIOUS
    <3> QED BY <1>0, <1>5, <3>1, EverythingMoves, ControllerReads DEF Creating
  <2>2. pass'.path = pass.path BY <2>1, PassKept
  <2>3. Creating' => Creating BY <2>1, <2>2 DEF Creating
  <2>4. \A k \in Followed : Copying => FollowPass(k) BY <1>2 DEF Following
  <2>5. Creating' /\ pc' = "report" /\ pass'.report.phase = "Ready" => (Selected # None /\ Delivered)'
    BY <1>0, <1>5, <2>3, <2>4, FollowReports DEF Creating
  <2>6. ASSUME Copying', NEW k \in Followed PROVE FollowPass(k)'
    <3>1. Creating BY <2>3, <2>6 DEF Copying
    <3>2. CASE NoWrite BY <1>0, <2>1, <2>4, <2>6, <3>1, <3>2, FollowNoWrite
    <3>3. CASE ~NoWrite
      <4>1. Writes \/ \E n \in Names : Drops(n) BY <2>1, <3>3 DEF Moved
      <4>2. Copying BY <3>1, <4>1 DEF Writes, Drops, Copying
      <4> QED BY <1>0, <2>1, <2>4, <3>1, <4>1, <4>2, FollowWrites, FollowDrops
    <3> QED BY <3>2, <3>3
  <2> QED BY <2>1, <2>5, <2>6 DEF Following
<1> QED BY <1>1, <1>3, <1>4, <1>5

LEMMA FollowStep ==
  DistinctNames => (SyncInv /\ CoreInv' /\ FollowInv /\ [WatchNext]_watchVars => FollowInv')
<1> SUFFICES ASSUME DistinctNames, SyncInv, CoreInv', FollowInv, [WatchNext]_watchVars
             PROVE  FollowInv'
  OBVIOUS
<1>1. CASE Next /\ Queue /\ Starts
  <2>1. StartCreate \/ StartDelete
    BY <1>1, IdleWork DEF Next, Starts, CallFails, Calls, Crash, passVars
  <2>2. pc' \in {"annotation", "admit", "Application"} /\ (pc' = "Application" => ~Creating')
    BY <2>1 DEF StartCreate, StartDelete, NewPass, Creating
  <2> QED BY <2>2 DEF FollowInv, Following, Copying
<1>2. CASE Next /\ Queue /\ ~Starts BY <1>2, FollowGoesOn
<1>3. CASE Skip
  <2>1. pc' = "idle" /\ annotation' = "ignore"
    BY <1>3 DEF Skip, vars, clusterVars, passVars, crVars, Reconciles
  <2> QED BY <2>1 DEF FollowInv, Following, Creating, Copying
<1>4. CASE Poll BY <1>4 DEF Poll, FollowInv
<1>5. CASE UNCHANGED watchVars
  <2>1. /\ UNCHANGED <<cr, spec, annotation, status>> /\ UNCHANGED <<config, source, secrets>>
        /\ UNCHANGED <<pc, pass, queued>>
    BY <1>5 DEF watchVars, vars, clusterVars, passVars, crVars, inputVars, objectVars
  <2>2. InSync(spec.ns, "image")' = InSync(spec.ns, "image")
        /\ InSync(Tenant, "chart")' = InSync(Tenant, "chart") /\ Requested' = Requested
    BY <2>1 DEF InSync, Requested, Marked
  <2>3. /\ Selected' = Selected /\ Reading' = Reading
        /\ \A k : /\ Wanted(k)' = Wanted(k) /\ Found(k)' = Found(k) /\ Place(k)' = Place(k)
                  /\ ToDo(k)' = ToDo(k) /\ (Behind(k)' <=> Behind(k))
    BY <2>1 DEF Selected, Wanted, Found, Marked, Place, Target, ToDo, Later, Reading, Behind
  <2>4. Delivered' = Delivered /\ \A k : FollowPass(k)' = FollowPass(k)
    BY <2>1, <2>3 DEF Delivered, UpToDate, FollowPass
  <2> QED BY <2>1, <2>2, <2>3, <2>4 DEF FollowInv, Following, Creating, Copying
<1> QED BY <1>1, <1>2, <1>3, <1>4, <1>5 DEF WatchNext

\* An empty queue and Ready together say that the pull secrets are what their
\* sources are now, as long as no name serves both as chart pull secret and as CA
\* bundle: a rotation in the middle of a pass is never lost.
THEOREM QuietCopied == DistinctNames => (WatchSpec => []QuietIsCopied)
<1> SUFFICES ASSUME DistinctNames PROVE WatchSpec => []QuietIsCopied OBVIOUS
<1>1. WatchInit => FollowInv BY DEF WatchInit, FollowInv
<1>2. SyncInv /\ SyncInv' /\ FollowInv /\ [WatchNext]_watchVars => FollowInv'
  BY FollowStep DEF SyncInv
<1>3. FollowInv => QuietIsCopied BY DEF FollowInv, Following, QuietIsCopied, Quiet
<1>4. WatchSpec => []SyncInv
  <2>1. Spec => [](CoreInv /\ NamesInv /\ CopiedInv) BY CopiedInvariant
  <2> QED BY <2>1, InstallInvariant, QueueInvariant, WatchesRefine, PTL DEF SyncInv
<1> QED BY <1>1, <1>2, <1>3, <1>4, PTL DEF WatchSpec

=============================================================================
