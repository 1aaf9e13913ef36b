------------------------------ MODULE Startup -------------------------------
(***************************************************************************)
(* cmd/service-provider-argocd/main.go: the init job that installs the     *)
(* CRDs and the run processes that serve the reconciler.  They are         *)
(* independent processes that meet in the CRDs and in the leader lease;    *)
(* nothing in this tree orders them, so a run process may start first.     *)
(* Every call to a cluster is a step.  What a process does after a failure *)
(* differs: some end it with status 1, so that it is restarted, others are *)
(* only logged.                                                            *)
(***************************************************************************)
EXTENDS Naturals, FiniteSets

CONSTANTS
  Pods,      \* the run processes, one per replica
  None,      \* no pod
  MaxFaults  \* bound: failed calls and processes that die while serving

ASSUME StartupAssumption == "init" \notin Pods /\ None \notin Pods /\ MaxFaults \in Nat

Job       == "init"
Processes == {Job} \union Pods
Both      == {"platform", "onboarding"}

VARIABLES
  flags,       \* DEV_DEBUG and --leader-elect
  step,        \* where every process is
  access,      \* its access to the onboarding cluster
  crds,        \* the clusters that have their CRD
  registered,  \* the kind is registered at the ServiceProvider
  logged,      \* history: the job's current attempt logged an error and went on
  lease,       \* the holder of the leader lease
  faults

world       == <<crds, registered, lease>>
startupVars == <<flags, step, access, world, logged, faults>>

JobSteps == {"platform", "access", "crds", "register", "done", "failed"}
RunSteps == {"platform", "access", "manager", "candidate", "sync", "serving", "failed"}

Init ==
  /\ flags \in [debug : BOOLEAN, elect : BOOLEAN]
  /\ step = [p \in Processes |-> "platform"]
  /\ access = [p \in Processes |-> "none"]
  /\ crds = {} /\ registered = FALSE /\ lease = None
  /\ logged = FALSE /\ faults = 0

At(p, here, next) == step[p] = here /\ step' = [step EXCEPT ![p] = next]
Fails == faults < MaxFaults /\ faults' = faults + 1

\* Only an address patched for local access can be reached from outside.
Usable(p) == access[p] = IF flags.debug THEN "local" ELSE "remote"

-----------------------------------------------------------------------------
(* Both commands. *)

initializePlatformCluster(p) ==
  /\ \/ At(p, "platform", "access") /\ UNCHANGED faults
     \/ At(p, "platform", "failed") /\ Fails
  /\ UNCHANGED <<flags, access, world, logged>>

AfterAccess(p) == IF p = Job THEN "crds" ELSE "manager"

\* A failure is logged; when only the AccessRequest for the local patch could not
\* be read the cluster is there.  The patch itself panics when it fails.
requestOnboardingClusterAccess(p) ==
  /\ \/ /\ At(p, "access", AfterAccess(p))
        /\ access' = [access EXCEPT ![p] = IF flags.debug THEN "local" ELSE "remote"]
        /\ UNCHANGED <<faults, logged>>
     \/ /\ At(p, "access", AfterAccess(p)) /\ Fails /\ logged' = (logged \/ p = Job)
        /\ \E a \in {"none"} \union (IF flags.debug THEN {"remote"} ELSE {}) :
             access' = [access EXCEPT ![p] = a]
     \/ /\ flags.debug /\ At(p, "access", "failed") /\ Fails
        /\ UNCHANGED <<access, logged>>
  /\ UNCHANGED <<flags, world>>

\* The container or the job is started again.
Restart(p) ==
  /\ At(p, "failed", "platform")
  /\ access' = [access EXCEPT ![p] = "none"]
  /\ logged' = (logged /\ p # Job)
  /\ UNCHANGED <<flags, world, faults>>

-----------------------------------------------------------------------------
(* init *)

\* Mutant: the platform cluster is not given to the CRD manager.
MappedOnboarding == {"onboarding"}

\* AddCRDLabelToClusterMapping
Mapped == Both

\* A failure is logged, whatever has been created by then.  Without a cluster
\* the library may also run into the nil pointer.
CreateOrUpdateCRDs ==
  /\ \/ /\ At(Job, "crds", "register") /\ Usable(Job)
        /\ crds' = crds \union Mapped /\ UNCHANGED <<faults, logged>>
     \/ /\ At(Job, "crds", "register") /\ logged' = TRUE
        /\ IF Usable(Job) THEN Fails ELSE UNCHANGED faults
        /\ \E made \in (SUBSET Mapped) \ {Mapped} :
             /\ ~Usable(Job) => "onboarding" \notin made
             /\ crds' = crds \union made
     \/ /\ At(Job, "crds", "failed") /\ access[Job] = "none"
        /\ UNCHANGED <<crds, faults, logged>>
  /\ UNCHANGED <<flags, access, registered, lease>>

\* Mutant: the job goes on as a run process.
RegisterAndRun ==
  /\ At(Job, "register", "manager") /\ registered' = TRUE
  /\ UNCHANGED <<flags, access, crds, lease, logged, faults>>

\* The job ends with status 0 either way.
RegisterGVKs ==
  /\ At(Job, "register", "done")
  /\ \/ registered' = TRUE /\ UNCHANGED <<faults, logged>>
     \/ Fails /\ logged' = TRUE /\ UNCHANGED registered
  /\ UNCHANGED <<flags, access, crds, lease>>

-----------------------------------------------------------------------------
(* run *)

\* No manager without a REST config: an error or a nil pointer ends the process.
NewManager(p) ==
  /\ At(p, "manager", IF access[p] = "none" THEN "failed" ELSE "candidate")
  /\ UNCHANGED <<flags, access, world, logged, faults>>

\* Mutant: the flag does not reach the manager.
ElectedUnasked(p) ==
  /\ At(p, "candidate", "sync")
  /\ UNCHANGED <<flags, access, world, logged, faults>>

\* With the flag the controllers are started once the lease is won.
Elected(p) ==
  /\ At(p, "candidate", "sync")
  /\ IF flags.elect THEN lease = None /\ lease' = p ELSE UNCHANGED lease
  /\ UNCHANGED <<flags, access, crds, registered, logged, faults>>

\* Mutant: a cache that cannot be filled is waited for.
StartPatiently(p) ==
  /\ Usable(p) /\ crds = Both /\ At(p, "sync", "serving")
  /\ UNCHANGED <<flags, access, world, logged, faults>>

\* A controller fills its caches first and gives up after a while, which ends
\* mgr.Start and the process.
Start(p) ==
  /\ \/ At(p, "sync", IF Usable(p) /\ crds = Both THEN "serving" ELSE "failed")
        /\ UNCHANGED faults
     \/ At(p, "sync", "failed") /\ Fails
  /\ UNCHANGED <<flags, access, world, logged>>

\* A process that ends keeps its lease: LeaderElectionReleaseOnCancel is off.
Dies(p) ==
  /\ At(p, "serving", "failed") /\ Fails
  /\ UNCHANGED <<flags, access, world, logged>>

\* A holder renews its lease while its manager runs and stops before it runs out.
Expires ==
  /\ lease # None /\ step[lease] \notin {"sync", "serving"} /\ lease' = None
  /\ UNCHANGED <<flags, step, access, crds, registered, logged, faults>>

-----------------------------------------------------------------------------
InitJob == initializePlatformCluster(Job) \/ requestOnboardingClusterAccess(Job)
           \/ CreateOrUpdateCRDs \/ RegisterGVKs \/ Restart(Job)

Run(p) == initializePlatformCluster(p) \/ requestOnboardingClusterAccess(p)
          \/ NewManager(p) \/ Elected(p) \/ Start(p) \/ Restart(p)

Next == InitJob \/ Expires \/ \E p \in Pods : Run(p) \/ Dies(p)

\* Every process is scheduled, and restarted after a failure; leases run out.
Spec == /\ Init /\ [][Next]_startupVars
        /\ WF_startupVars(InitJob) /\ WF_startupVars(Expires)
        /\ \A p \in Pods : WF_startupVars(Run(p))

-----------------------------------------------------------------------------
Serving == {p \in Pods : step[p] = "serving"}

TypeOK ==
  /\ flags \in [debug : BOOLEAN, elect : BOOLEAN]
  /\ DOMAIN step = Processes /\ step[Job] \in JobSteps /\ \A p \in Pods : step[p] \in RunSteps
  /\ access \in [Processes -> {"none", "remote", "local"}]
  /\ crds \subseteq Both /\ registered \in BOOLEAN /\ logged \in BOOLEAN
  /\ lease \in Pods \union {None} /\ faults \in 0..MaxFaults

\* "Enabling this will ensure there is only one active controller manager"
\* (--leader-elect), across deaths and restarts that leave the lease behind.
OneActiveManager == flags.elect => Cardinality(Serving) <= 1

\* An init job that logged no error in its last attempt has installed what the
\* run processes need: from then on one of them comes to serve and stays, also
\* when its own access failed before, which run only logs, and when it was
\* started before the CRDs were there and gave up with the lease.  A job that did log one may leave the
\* processes restarting for ever, for it ends with status 0 all the same.
CleanInitServes == <>[](step[Job] = "done" /\ ~logged) => <>[](Serving # {})

\* The job never ends clean over something undone: unless its last attempt
\* logged an error, both clusters have their CRD and the kind is registered.
CleanInitIsComplete == step[Job] = "done" /\ ~logged => crds = Both /\ registered

=============================================================================
