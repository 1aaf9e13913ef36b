------------------------------ MODULE Replicas ------------------------------
(***************************************************************************)
(* Two processes run the reconciler at once: --leader-elect is off unless  *)
(* somebody sets it, and a Deployment starts the new process before it has *)
(* stopped the old one.  Each has a work queue and a pass of its own; they *)
(* meet in the API objects only.  The framework's writes of status,        *)
(* annotation and finalizer belong to the resource the pass was started    *)
(* for and are refused once that is gone, also when another one of the     *)
(* same name has been created.  Failing calls and restarts are left to     *)
(* ArgoCDReconciler: a process that is lost is one process less.           *)
(***************************************************************************)
EXTENDS Clusters

VARIABLES
  pc1, pass1, pc2, pass2,  \* the pass of either process
  stale,    \* the processes whose pass was started for a resource that is gone
  overlap   \* history: a create and a delete pass were running at the same time

First  == INSTANCE ArgoCDReconciler WITH pc <- pc1, pass <- pass1, late <- {}
Second == INSTANCE ArgoCDReconciler WITH pc <- pc2, pass <- pass2, late <- {}

\* A pass of either process is told from none.
ASSUME PairAssumption == None \notin First!Pass

apiVars     == <<crVars, inputVars, objectVars, mcpVars, boundVars>>
firstVars   == <<pc1, pass1>>
secondVars  == <<pc2, pass2>>
replicaVars == <<apiVars, firstVars, secondVars, stale, overlap>>

-----------------------------------------------------------------------------
OwnWrites == {"annotation", "report", "finalize"}

FirstRefused ==
  /\ 1 \in stale /\ pc1 \in OwnWrites
  /\ IF pc1 = "annotation" THEN First!Go("report") ELSE First!Rest
  /\ UNCHANGED apiVars

SecondRefused ==
  /\ 2 \in stale /\ pc2 \in OwnWrites
  /\ IF pc2 = "annotation" THEN Second!Go("report") ELSE Second!Rest
  /\ UNCHANGED apiVars

FirstWorks  == IF 1 \in stale /\ pc1 \in OwnWrites THEN FirstRefused ELSE First!Work
SecondWorks == IF 2 \in stale /\ pc2 \in OwnWrites THEN SecondRefused ELSE Second!Work

Opposed(p, q) == p # None /\ q # None /\ p.path # q.path

Record ==
  /\ stale' = {i \in {1, 2} : /\ (IF i = 1 THEN pass1 ELSE pass2)' # None
                              /\ i \in stale \/ cr' = "absent"}
  /\ overlap' = (overlap \/ Opposed(pass1', pass2'))

-----------------------------------------------------------------------------
FirstStep  == FirstWorks /\ UNCHANGED secondVars /\ Record
SecondStep == SecondWorks /\ UNCHANGED firstVars /\ Record
Others(A)  == A /\ UNCHANGED <<firstVars, secondVars>> /\ Record

Init == /\ ClustersInit
        /\ pc1 = "idle" /\ pass1 = None /\ pc2 = "idle" /\ pass2 = None
        /\ stale = {} /\ overlap = FALSE

Next == FirstStep \/ SecondStep \/ Others(Environment)

Spec == /\ Init /\ [][Next]_replicaVars
        /\ WF_replicaVars(FirstStep) /\ WF_replicaVars(SecondStep)
        /\ WF_replicaVars(Others(AddFinalizer))
        /\ WF_replicaVars(Others(First!FluxWorks))
        /\ WF_replicaVars(Others(GardenerActs))

-----------------------------------------------------------------------------
\* Two processes that work on the same objects without a lock still bring a
\* request to Ready and keep it there: what one pass overwrites or deletes
\* behind the other's back, a later pass declares again (CreateOrUpdate is
\* level-triggered and keeps nothing in memory).
BothServe == First!EventuallyReady

\* They also bring a deletion to its end (Delete).
BothDelete == First!EventuallyGone

\* "Must all be gone before the finalizer is released" (IsUninstalled) is lost
\* for one reason only: a create pass of one process was still running while the
\* other one was deleting.  Leader election, or a process that stops before the
\* next one starts, is enough to rule that out.
CleanUnlessOverlap ==
  cr = "absent" /\ ~overlap =>
    \A r \in Releases : repo[r] = None /\ release[r] = None /\ deployed[r] = None

=============================================================================
