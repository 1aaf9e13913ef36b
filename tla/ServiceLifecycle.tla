-------------------------- MODULE ServiceLifecycle --------------------------
(***************************************************************************)
(* What the provider promises about an ArgoCD service, without passes, API *)
(* calls, Secrets or status: when the Flux objects of an app may be        *)
(* declared, in which order they may be retired, and that the service is   *)
(* forgotten only when nothing of it is left.  The apps are Argo CD itself *)
(* (Core) and its addons.  ArgoCDReconciler implements this specification. *)
(***************************************************************************)

CONSTANTS
  Apps,  \* the apps that make up a service
  Core   \* the app without which there is no service

VARIABLES
  service,   \* "absent", "requested", "withdrawn" or "terminating"
  sources,   \* the stage of every app's chart source
  releases,  \* the stage of every app's release
  installed  \* the apps that run on the control plane

serviceVars == <<service, sources, releases, installed>>

Stages == {"none", "active", "leaving"}

Nothing == /\ sources  = [a \in Apps |-> "none"]
           /\ releases = [a \in Apps |-> "none"]
           /\ installed = {}

Init == service = "requested" /\ Nothing

-----------------------------------------------------------------------------
(* The tenant's resource. *)

Request ==
  /\ service = "absent" /\ service' = "requested"
  /\ UNCHANGED <<sources, releases, installed>>

\* Work begun before the withdrawal may still go on: "withdrawn".
Withdraw ==
  /\ service = "requested" /\ service' \in {"withdrawn", "terminating"}
  /\ UNCHANGED <<sources, releases, installed>>

Notice ==
  /\ service = "withdrawn" /\ service' = "terminating"
  /\ UNCHANGED <<sources, releases, installed>>

Forget ==
  /\ service \in {"requested", "terminating"} /\ service' = "absent"
  /\ Nothing
  /\ UNCHANGED <<sources, releases, installed>>

-----------------------------------------------------------------------------
(* Declaring: never while the service is being terminated. *)

Serving == service \in {"requested", "withdrawn"}

DeclareSource(a) ==
  /\ Serving /\ sources[a] = "none"
  /\ sources' = [sources EXCEPT ![a] = "active"]
  /\ UNCHANGED <<service, releases, installed>>

\* The core's release never refers to a source that is missing or on its way out.
DeclareRelease(a) ==
  /\ Serving /\ releases[a] = "none"
  /\ a = Core => sources[a] = "active"
  /\ releases' = [releases EXCEPT ![a] = "active"]
  /\ UNCHANGED <<service, sources, installed>>

Install(a) ==
  /\ releases[a] = "active" /\ sources[a] # "none"
  /\ installed' = installed \union {a}
  /\ UNCHANGED <<service, sources, releases>>

-----------------------------------------------------------------------------
(* Retiring: addons at any time, the core only when the service terminates; *)
(* a release always before its source.                                      *)

MayRetire(a) == service = "terminating" \/ (a # Core /\ Serving)

RetireRelease(a) ==
  /\ MayRetire(a) /\ releases[a] = "active"
  /\ releases' = [releases EXCEPT ![a] = "leaving"]
  /\ UNCHANGED <<service, sources, installed>>

RetireSource(a) ==
  /\ MayRetire(a) /\ sources[a] = "active" /\ releases[a] # "active"
  /\ sources' = [sources EXCEPT ![a] = "leaving"]
  /\ UNCHANGED <<service, releases, installed>>

ReleaseCollected(a) ==
  /\ releases[a] = "leaving"
  /\ releases' = [releases EXCEPT ![a] = "none"]
  /\ installed' = installed \ {a}
  /\ UNCHANGED <<service, sources>>

SourceCollected(a) ==
  /\ sources[a] = "leaving"
  /\ sources' = [sources EXCEPT ![a] = "none"]
  /\ UNCHANGED <<service, releases, installed>>

-----------------------------------------------------------------------------
Next ==
  \/ Request \/ Withdraw \/ Notice \/ Forget
  \/ \E a \in Apps : \/ DeclareSource(a) \/ DeclareRelease(a) \/ Install(a)
                     \/ RetireRelease(a) \/ RetireSource(a)
                     \/ ReleaseCollected(a) \/ SourceCollected(a)

Spec == Init /\ [][Next]_serviceVars

=============================================================================
