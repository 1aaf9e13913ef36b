--------------------------- MODULE Startup_proofs ----------------------------
(***************************************************************************)
(* Theorems about Startup, for any number of run processes, failed calls   *)
(* and deaths.                                                             *)
(***************************************************************************)
EXTENDS Startup, FiniteSetTheorems, TLAPS

AllSteps == JobSteps \union RunSteps

\* What TypeOK leaves open: every process is at some step.
Typed == TypeOK /\ step \in [Processes -> AllSteps]

\* With election on, a process whose controllers are started holds the lease.
Started(at) == at \in {"sync", "serving"}
HoldsLease  == flags.elect => \A p \in Pods : Started(step[p]) => lease = p

\* What the job has done so far, unless its attempt logged an error.
JobProgress ==
  ~logged => /\ step[Job] \in {"register", "done"} => crds = Both
             /\ step[Job] = "done" => registered

StartInv == Typed /\ HoldsLease /\ JobProgress

-----------------------------------------------------------------------------
LEMMA StartInit == Init => StartInv
<1> SUFFICES ASSUME Init PROVE StartInv OBVIOUS
<1> USE DEF Init, Processes, Job
<1>1. step \in [Processes -> AllSteps] BY DEF AllSteps, JobSteps
<1>2. TypeOK
  <2>1. /\ flags \in [debug : BOOLEAN, elect : BOOLEAN]
        /\ DOMAIN step = Processes /\ step[Job] \in JobSteps /\ \A p \in Pods : step[p] \in RunSteps
    BY DEF JobSteps, RunSteps
  <2>2. access \in [Processes -> {"none", "remote", "local"}] OBVIOUS
  <2>3. crds \subseteq Both /\ registered \in BOOLEAN /\ logged \in BOOLEAN /\ lease \in Pods \union {None}
    OBVIOUS
  <2>4. faults \in 0..MaxFaults BY StartupAssumption
  <2> QED BY <2>1, <2>2, <2>3, <2>4 DEF TypeOK
<1>3. HoldsLease /\ JobProgress BY StartupAssumption DEF HoldsLease, Started, JobProgress
<1> QED BY <1>1, <1>2, <1>3 DEF StartInv, Typed

\* A step of one process to a place of its own commands.
LEMMA Moves ==
  ASSUME Typed, NEW p \in Processes, NEW here, NEW next, At(p, here, next),
         IF p = Job THEN next \in JobSteps ELSE next \in RunSteps
  PROVE  /\ step' \in [Processes -> AllSteps] /\ DOMAIN step' = Processes
         /\ step'[Job] \in JobSteps /\ \A q \in Pods : step'[q] \in RunSteps
         /\ step'[p] = next /\ \A q \in Processes \ {p} : step'[q] = step[q]
BY StartupAssumption DEF Typed, TypeOK, At, AllSteps, Processes, Job

LEMMA StartTyped == Typed /\ [Next]_startupVars => Typed'
<1> SUFFICES ASSUME Typed, [Next]_startupVars PROVE Typed' OBVIOUS
<1>0. /\ Job \in Processes /\ Pods \subseteq Processes /\ Job \notin Pods
      /\ \A p \in Processes : p # Job => p \in Pods
  BY StartupAssumption DEF Processes, Job
<1>f. Fails => faults' \in 0..MaxFaults
  BY StartupAssumption DEF Fails, Typed, TypeOK
<1>a. \A p \in Processes : \A a \in {"none", "remote", "local"} :
        [access EXCEPT ![p] = a] \in [Processes -> {"none", "remote", "local"}]
  BY DEF Typed, TypeOK
<1> USE DEF world, JobSteps, RunSteps
<1>1. ASSUME NEW p \in Processes, initializePlatformCluster(p) PROVE Typed'
  <2>1. PICK next \in {"access", "failed"} : At(p, "platform", next)
    BY <1>1 DEF initializePlatformCluster
  <2> QED BY <1>1, <1>f, <2>1, Moves DEF initializePlatformCluster, Typed, TypeOK
<1>2. ASSUME NEW p \in Processes, requestOnboardingClusterAccess(p) PROVE Typed'
  <2>1. PICK next \in {AfterAccess(p), "failed"} : At(p, "access", next)
    BY <1>2 DEF requestOnboardingClusterAccess
  <2>2. access' \in [Processes -> {"none", "remote", "local"}]
    <3>1. access \in [Processes -> {"none", "remote", "local"}] BY DEF Typed, TypeOK
    <3> QED BY <3>1, <1>a, <1>2 DEF requestOnboardingClusterAccess
  <2>3. logged' \in BOOLEAN /\ faults' \in 0..MaxFaults
    BY <1>2, <1>f DEF requestOnboardingClusterAccess, Typed, TypeOK
  <2>4. UNCHANGED <<flags, world>> BY <1>2 DEF requestOnboardingClusterAccess
  <2>5. IF p = Job THEN next \in JobSteps ELSE next \in RunSteps BY DEF AfterAccess
  <2>6. /\ step' \in [Processes -> AllSteps] /\ DOMAIN step' = Processes
        /\ step'[Job] \in JobSteps /\ \A q \in Pods : step'[q] \in RunSteps
    BY <2>1, <2>5, Moves
  <2> QED BY <2>2, <2>3, <2>4, <2>6 DEF Typed, TypeOK
<1>3. ASSUME NEW p \in Processes, Restart(p) PROVE Typed'
  <2>1. access' \in [Processes -> {"none", "remote", "local"}] BY <1>a, <1>3 DEF Restart
  <2> QED BY <1>3, <2>1, Moves DEF Restart, Typed, TypeOK
<1>4. CASE CreateOrUpdateCRDs
  <2>1. PICK next \in {"register", "failed"} : At(Job, "crds", next)
    BY <1>4 DEF CreateOrUpdateCRDs
  <2>2. crds' \subseteq Both BY <1>4 DEF CreateOrUpdateCRDs, Mapped, Typed, TypeOK
  <2>3. logged' \in BOOLEAN /\ faults' \in 0..MaxFaults
    BY <1>4, <1>f DEF CreateOrUpdateCRDs, Typed, TypeOK
  <2>4. UNCHANGED <<flags, access, registered, lease>> BY <1>4 DEF CreateOrUpdateCRDs
  <2> QED BY <1>0, <2>1, <2>2, <2>3, <2>4, Moves DEF Typed, TypeOK
<1>5. CASE RegisterGVKs
  BY <1>0, <1>5, <1>f, Moves DEF RegisterGVKs, Typed, TypeOK
<1>6. ASSUME NEW p \in Pods, NewManager(p) PROVE Typed'
  <2>1. PICK next \in {"candidate", "failed"} : At(p, "manager", next) BY <1>6 DEF NewManager
  <2> QED BY <1>0, <1>6, <2>1, Moves DEF NewManager, Typed, TypeOK
<1>7. ASSUME NEW p \in Pods, Start(p) PROVE Typed'
  <2>1. PICK next \in {"serving", "failed"} : At(p, "sync", next) BY <1>7 DEF Start
  <2> QED BY <1>0, <1>7, <1>f, <2>1, Moves DEF Start, Typed, TypeOK
<1>8. ASSUME NEW p \in Pods, Elected(p) \/ Dies(p) PROVE Typed'
  <2>1. CASE Elected(p)
    <3>1. lease' \in Pods \union {None} BY <2>1 DEF Elected, Typed, TypeOK
    <3> QED BY <1>0, <2>1, <3>1, Moves DEF Elected, Typed, TypeOK
  <2>2. CASE Dies(p) BY <1>0, <1>f, <2>2, Moves DEF Dies, Typed, TypeOK
  <2> QED BY <1>8, <2>1, <2>2
<1>9. CASE Expires \/ UNCHANGED startupVars
  BY <1>9 DEF Expires, startupVars, Typed, TypeOK
<1> QED BY <1>0, <1>1, <1>2, <1>3, <1>4, <1>5, <1>6, <1>7, <1>8, <1>9 DEF Next, InitJob, Run

LEMMA LeaseStep == Typed /\ HoldsLease /\ [Next]_startupVars => HoldsLease'
<1> SUFFICES ASSUME Typed, HoldsLease, [Next]_startupVars, flags'.elect,
                    NEW q \in Pods, Started(step'[q])
             PROVE  lease' = q
  BY DEF HoldsLease
<1>0. /\ Job \in Processes /\ Pods \subseteq Processes /\ Job \notin Pods /\ q \in Processes
      /\ DOMAIN step = Processes /\ step \in [Processes -> AllSteps]
  BY StartupAssumption DEF Processes, Job, Typed
<1> USE DEF world, Started
\* A step that starts nothing leaves those that are started as they are.
<1>1. ASSUME NEW p \in Processes, NEW here, NEW next, At(p, here, next),
             Started(next) => Started(here), UNCHANGED <<flags, lease>>
      PROVE  lease' = q
  BY <1>0, <1>1 DEF At, HoldsLease
<1>2. ASSUME NEW p \in Processes, \/ initializePlatformCluster(p) \/ requestOnboardingClusterAccess(p)
                                  \/ Restart(p) \/ NewManager(p) \/ Start(p) \/ Dies(p)
      PROVE  lease' = q
  <2>1. CASE initializePlatformCluster(p) BY <1>1, <2>1 DEF initializePlatformCluster
  <2>2. CASE requestOnboardingClusterAccess(p)
    BY <1>1, <2>2 DEF requestOnboardingClusterAccess, AfterAccess
  <2>3. CASE Restart(p) BY <1>1, <2>3 DEF Restart
  <2>4. CASE NewManager(p) BY <1>1, <2>4 DEF NewManager
  <2>5. CASE Start(p) BY <1>1, <2>5 DEF Start
  <2>6. CASE Dies(p) BY <1>1, <2>6 DEF Dies
  <2> QED BY <1>2, <2>1, <2>2, <2>3, <2>4, <2>5, <2>6
<1>3. CASE CreateOrUpdateCRDs \/ RegisterGVKs
  BY <1>0, <1>1, <1>3 DEF CreateOrUpdateCRDs, RegisterGVKs
\* The lease is free when it is won, so nobody else serves.
<1>4. ASSUME NEW p \in Pods, Elected(p) PROVE lease' = q
  <2>1. flags.elect /\ lease = None /\ lease' = p BY <1>4 DEF Elected
  <2>2. q # p => Started(step[q]) BY <1>0, <1>4 DEF Elected, At
  <2> QED BY <2>1, <2>2, StartupAssumption DEF HoldsLease
\* The holder of a lease that runs out has not started.
<1>5. CASE Expires BY <1>5 DEF Expires, HoldsLease
<1>6. CASE UNCHANGED startupVars BY <1>6 DEF startupVars, HoldsLease
<1> QED BY <1>0, <1>2, <1>3, <1>4, <1>5, <1>6 DEF Next, InitJob, Run

LEMMA JobStep == Typed /\ JobProgress /\ [Next]_startupVars => JobProgress'
<1> SUFFICES ASSUME Typed, JobProgress, [Next]_startupVars, ~logged'
             PROVE  /\ step'[Job] \in {"register", "done"} => crds' = Both
                    /\ step'[Job] = "done" => registered'
  BY DEF JobProgress
<1>0. /\ Job \in Processes /\ Pods \subseteq Processes /\ Job \notin Pods
      /\ DOMAIN step = Processes /\ step \in [Processes -> AllSteps] /\ crds \subseteq Both
  BY StartupAssumption DEF Processes, Job, Typed, TypeOK
<1> USE DEF world
<1>1. CASE initializePlatformCluster(Job) \/ requestOnboardingClusterAccess(Job) \/ Restart(Job)
  <2>1. step'[Job] \notin {"register", "done"}
    BY <1>0, <1>1
    DEF initializePlatformCluster, requestOnboardingClusterAccess, AfterAccess, Restart, At
  <2> QED BY <2>1
<1>2. CASE CreateOrUpdateCRDs
  <2>1. step'[Job] # "done" BY <1>0, <1>2 DEF CreateOrUpdateCRDs, At
  <2>2. step'[Job] = "register" => crds' = Both
    BY <1>0, <1>2 DEF CreateOrUpdateCRDs, At, Mapped
  <2> QED BY <2>1, <2>2
<1>3. CASE RegisterGVKs BY <1>0, <1>3 DEF RegisterGVKs, At, JobProgress
<1>4. ASSUME NEW p \in Pods, Run(p) \/ Dies(p) PROVE
        /\ step'[Job] = step[Job] /\ logged' = logged /\ UNCHANGED <<crds, registered>>
  <2>1. p # Job /\ logged \in BOOLEAN BY <1>0 DEF Typed, TypeOK
  <2>2. PICK here, next : At(p, here, next)
    BY <1>4
    DEF Run, Dies, initializePlatformCluster, requestOnboardingClusterAccess, Restart, NewManager,
        Start, Elected
  <2>3. step'[Job] = step[Job] BY <1>0, <2>1, <2>2 DEF At
  <2>4. logged' = logged
    BY <1>4, <2>1
    DEF Run, Dies, initializePlatformCluster, requestOnboardingClusterAccess, Restart, NewManager,
        Start, Elected
  <2>5. UNCHANGED <<crds, registered>>
    BY <1>4
    DEF Run, Dies, initializePlatformCluster, requestOnboardingClusterAccess, Restart, NewManager,
        Start, Elected
  <2> QED BY <2>3, <2>4, <2>5
<1>5. CASE Expires \/ UNCHANGED startupVars
  BY <1>5 DEF Expires, startupVars, JobProgress
<1> QED BY <1>1, <1>2, <1>3, <1>4, <1>5 DEF Next, InitJob, JobProgress

LEMMA StartInvariant == Spec => []StartInv
<1>1. StartInv /\ [Next]_startupVars => StartInv'
  BY StartTyped, LeaseStep, JobStep DEF StartInv
<1> QED BY <1>1, StartInit, PTL DEF Spec

-----------------------------------------------------------------------------
\* Every process stays within the steps of its own command, whatever fails.
THEOREM StartTypeOK == Spec => []TypeOK
<1>1. StartInv => TypeOK BY DEF StartInv, Typed
<1> QED BY <1>1, StartInvariant, PTL

\* With --leader-elect at most one manager is active, for any number of
\* replicas, whenever they die and whenever leases run out.
THEOREM OneManager == Spec => []OneActiveManager
<1>1. StartInv => OneActiveManager
  <2> SUFFICES ASSUME StartInv, flags.elect PROVE Cardinality(Serving) <= 1
    BY DEF OneActiveManager
  <2>1. Serving \subseteq {lease} BY DEF StartInv, HoldsLease, Started, Serving
  <2>2. IsFiniteSet({lease}) /\ Cardinality({lease}) = 1 BY FS_Singleton
  <2>3. Cardinality(Serving) <= Cardinality({lease}) BY <2>1, <2>2, FS_Subset
  <2>4. IsFiniteSet(Serving) BY <2>1, <2>2, FS_Subset
  <2>5. Cardinality(Serving) \in Nat BY <2>4, FS_CardinalityType
  <2> QED BY <2>2, <2>3, <2>5
<1> QED BY <1>1, StartInvariant, PTL

\* An init job that logged nothing leaves nothing undone.
THEOREM CleanInit == Spec => []CleanInitIsComplete
<1>1. StartInv => CleanInitIsComplete BY DEF StartInv, JobProgress, CleanInitIsComplete
<1> QED BY <1>1, StartInvariant, PTL

=============================================================================
