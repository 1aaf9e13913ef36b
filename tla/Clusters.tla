------------------------------ MODULE Clusters ------------------------------
(***************************************************************************)
(* The API objects that service-provider-argocd reads and writes, on the   *)
(* onboarding, the platform and the managed control plane (MCP) cluster,   *)
(* and the actors around the controller that also change them: the tenant, *)
(* the platform operator, Flux, Argo CD itself and the Gardener shoot      *)
(* extensions.  One ArgoCD resource, and therefore one tenant namespace    *)
(* and one MCP, is modelled: every name the provider writes is fixed       *)
(* inside them and controller-runtime never reconciles one object twice at *)
(* a time, so instances do not interact.                                   *)
(***************************************************************************)
EXTENDS Naturals

CONSTANTS
  Versions,    \* ArgoCD versions a tenant may ask for
  Charts,      \* chart coordinates together with their Helm values
  Hosts,       \* exposure hosts
  BadHosts,    \* the hosts that validateExposure rejects
  Namespaces,  \* namespaces of the MCP
  Names,       \* names of Secrets
  Contents,    \* payloads of Secrets
  BadCerts,    \* the payloads whose ca.crt is no PEM bundle
  NoCerts,     \* the payloads without a ca.crt key
  Specs,       \* the ArgoCD specs the tenant may write
  Configs,     \* the ProviderConfigs the operator may write
  Sources,     \* what the provider's own namespace may hold, per Secret name
  HandMade,    \* <<place, name>> of Secrets people created beside the copies
  None,        \* no value: an unset field, an absent object
  MaxEdits,    \* bound: edits by the tenant and the operator
  MaxFaults    \* bound: failed API calls, failed Helm actions and crashes

Argo     == "argocd"
Reloader == "argocd-reloader"
Releases == {Argo, Reloader}

\* The kinds the deletion guard counts, in the order it lists them.
Kinds == {"Application", "ApplicationSet", "AppProject"}

\* Secrets are replicated into the tenant namespace of the platform cluster
\* and into the target namespace on the MCP.
Tenant == "tenant"
Places == {Tenant} \union Namespaces

-----------------------------------------------------------------------------
\* Types of the API objects.

ArgoCDSpec == [version : Versions, host : Hosts \union {None},
               ns : Namespaces, vault : BOOLEAN]

\* One entry of spec.versions.  chart is None when the entry has no chart URL
\* or its values cannot be decoded; registry tells whether its values carry
\* global.image.repository.
Offer == [chart : Charts \union {None}, image : SUBSET Names,
          secret : Names \union {None}, registry : BOOLEAN]

Addon == [chart : Charts, secret : Names \union {None}]

ProviderConfig == [versions : [Versions -> Offer \union {None}],
                   reloader : Addon \union {None},
                   ca       : Names \union {None},
                   vault    : BOOLEAN]

RepoSpec    == [chart : Charts, secret : Names \union {None},
                ca : Names \union {None}]
ReleaseSpec == [values : Charts, host : Hosts \union {None}, reload : BOOLEAN,
                ca : Contents \union {None}, vault : BOOLEAN, ns : Namespaces]

Repo    == [spec : RepoSpec, terminating : BOOLEAN]
Release == [spec : ReleaseSpec, terminating : BOOLEAN, owner : Releases,
            ready : {"unknown", "true", "false"}]

Labels == {"managed", "chart", "ca"}
Secret == [data : Contents \union {None}, labels : SUBSET Labels]

Phases == {"None", "Progressing", "Ready", "Failed", "Terminating"}
Reasons == {"None", "Reconciling", "InvalidVersion", "InvalidExposure",
            "EndpointPending", "InstallFailed", "Uninstalling",
            "ReadinessCheckFailed", "FailedToListApplications", "Terminating"}
ArgoCDStatus == [phase : Phases, reason : Reasons, endpoint : Hosts \union {None}]

ASSUME ConstantsAssumption ==
  /\ BadHosts \subseteq Hosts
  /\ BadCerts \subseteq Contents
  /\ NoCerts \subseteq Contents
  /\ Specs \subseteq ArgoCDSpec
  /\ Configs \subseteq ProviderConfig
  /\ Sources \subseteq [Names -> Contents \union {None}]
  /\ HandMade \subseteq Places \X Names
  /\ MaxEdits \in Nat
  /\ MaxFaults \in Nat

ASSUME NoneAssumption ==
  /\ None \notin Charts \union Hosts \union Names \union Contents
  /\ None \notin Offer \union Addon \union Secret \union Repo \union Release \union ReleaseSpec
  /\ Tenant \notin Namespaces

-----------------------------------------------------------------------------
VARIABLES
  cr,          \* the ArgoCD resource: "absent", "fresh", "live" or "deleting"
  spec,        \* its spec
  annotation,  \* its operation annotation: None, "ignore" or "reconcile"
  status,      \* its status
  config,      \* the ProviderConfig
  source,      \* the Secrets of the provider's own namespace
  secrets,     \* the Secrets of the tenant and the MCP namespaces
  repo,        \* the OCIRepository of every release
  release,     \* the HelmRelease of every release
  deployed,    \* what Flux has installed on the MCP
  namespaces,  \* the namespaces that exist on the MCP
  cert,        \* the host of the server TLS Secret, per namespace
  address,     \* the namespaces whose server Service has an address
  workloads,   \* the kinds of which the user has resources
  projects,    \* the namespaces holding a "default" AppProject
  edits,       \* edits made so far
  faults       \* faults so far

crVars     == <<cr, spec, annotation, status>>
inputVars  == <<config, source>>
fluxVars   == <<repo, release>>
mcpVars    == <<deployed, cert, address, workloads, projects>>
boundVars  == <<edits, faults>>

\* Everything the controller may write except the ArgoCD resource.
objectVars == <<secrets, repo, release, namespaces>>

NoStatus == [phase |-> "None", reason |-> "None", endpoint |-> None]

ClustersInit ==
  /\ cr = "fresh" /\ spec \in Specs /\ annotation = None /\ status = NoStatus
  /\ config \in Configs /\ source \in Sources
  /\ secrets = [k \in Places \X Names |->
                  IF k \in HandMade THEN [data |-> None, labels |-> {}] ELSE None]
  /\ repo = [r \in Releases |-> None]
  /\ release = [r \in Releases |-> None]
  /\ deployed = [r \in Releases |-> None]
  /\ namespaces = {}
  /\ cert = [n \in Namespaces |-> None]
  /\ address = {} /\ workloads = {} /\ projects = {}
  /\ edits = 0 /\ faults = 0

\* Deleting a Flux object marks it; Flux's own finalizer keeps it until it has
\* cleaned up.  Deleting what is absent is ignored (client.IgnoreNotFound).
Terminated(obj) == IF obj = None THEN None ELSE [obj EXCEPT !.terminating = TRUE]

-----------------------------------------------------------------------------
(* The tenant. *)

Edit == edits < MaxEdits /\ edits' = edits + 1

\* The API server admits spec edits of a resource that is being deleted, too.
EditSpec ==
  /\ Edit /\ cr # "absent"
  /\ spec' \in Specs \ {spec}
  /\ UNCHANGED <<cr, annotation, status, inputVars, objectVars, mcpVars, faults>>

Annotate ==
  /\ Edit /\ cr # "absent"
  /\ annotation' \in {None, "ignore", "reconcile"} \ {annotation}
  /\ UNCHANGED <<cr, spec, status, inputVars, objectVars, mcpVars, faults>>

\* Without the finalizer the resource is gone at once.
DeleteCR ==
  /\ Edit /\ cr \in {"fresh", "live"}
  /\ cr' = IF cr = "fresh" THEN "absent" ELSE "deleting"
  /\ UNCHANGED <<spec, annotation, status, inputVars, objectVars, mcpVars, faults>>

CreateCR ==
  /\ Edit /\ cr = "absent"
  /\ cr' = "fresh" /\ spec' \in Specs /\ annotation' = None /\ status' = NoStatus
  /\ UNCHANGED <<inputVars, objectVars, mcpVars, faults>>

\* Argo CD's CRDs stay on the MCP once Argo CD has run there, and so does the
\* "default" project it made; before that there is nothing to create.
CreateWorkload ==
  /\ Edit /\ projects # {}
  /\ \E k \in Kinds \ workloads : workloads' = workloads \union {k}
  /\ UNCHANGED <<crVars, inputVars, objectVars, deployed, cert, address, projects, faults>>

DeleteWorkload ==
  /\ \E k \in workloads : workloads' = workloads \ {k}
  /\ UNCHANGED <<crVars, inputVars, objectVars, deployed, cert, address, projects, boundVars>>

(* The platform operator. *)

EditConfig ==
  /\ Edit /\ config' \in Configs \ {config}
  /\ UNCHANGED <<crVars, source, objectVars, mcpVars, faults>>

\* A credential or CA is rotated, added or removed.
EditSource ==
  /\ Edit /\ source' \in Sources \ {source}
  /\ UNCHANGED <<crVars, config, objectVars, mcpVars, faults>>

-----------------------------------------------------------------------------
(* Flux and Argo CD: they act on what the provider declared, in their own time. *)

Active(obj) == obj # None /\ ~obj.terminating

\* The HelmRelease is installed or upgraded.  Only Argo CD's has CreateNamespace;
\* argocd-server then creates its "default" project.
HelmSucceeds(r) ==
  /\ Active(release[r]) /\ repo[r] # None
  /\ release[r].ready # "true" \/ deployed[r] # release[r].spec
  /\ LET ns == release[r].spec.ns IN
       /\ r = Reloader => ns \in namespaces
       /\ namespaces' = namespaces \union {ns}
       /\ projects' = IF r = Argo THEN projects \union {ns} ELSE projects
  /\ deployed' = [deployed EXCEPT ![r] = release[r].spec]
  /\ release' = [release EXCEPT ![r].ready = "true"]
  /\ UNCHANGED <<crVars, inputVars, secrets, repo, cert, address, workloads, boundVars>>

HelmFails(r) ==
  /\ Active(release[r]) /\ release[r].ready # "false"
  /\ faults < MaxFaults /\ faults' = faults + 1
  /\ release' = [release EXCEPT ![r].ready = "false"]
  /\ UNCHANGED <<crVars, inputVars, secrets, repo, namespaces, mcpVars, edits>>

HelmUninstalled(r) ==
  /\ release[r] # None /\ release[r].terminating
  /\ release' = [release EXCEPT ![r] = None]
  /\ deployed' = [deployed EXCEPT ![r] = None]
  /\ UNCHANGED <<crVars, inputVars, secrets, repo, namespaces, cert, address, workloads,
                 projects, boundVars>>

RepoCollected(r) ==
  /\ repo[r] # None /\ repo[r].terminating
  /\ repo' = [repo EXCEPT ![r] = None]
  /\ UNCHANGED <<crVars, inputVars, secrets, release, namespaces, mcpVars, boundVars>>

(* The shoot extensions: they follow the annotations of the deployed Service. *)

Exposes(n, h) ==
  /\ h # None /\ deployed[Argo] # None
  /\ deployed[Argo].ns = n /\ deployed[Argo].host = h

IssueCertificate(n) ==
  /\ \E h \in Hosts : Exposes(n, h) /\ cert[n] # h /\ cert' = [cert EXCEPT ![n] = h]
  /\ UNCHANGED <<crVars, inputVars, objectVars, deployed, address, workloads, projects, boundVars>>

AssignAddress(n) ==
  /\ n \notin address /\ \E h \in Hosts : Exposes(n, h)
  /\ address' = address \union {n}
  /\ UNCHANGED <<crVars, inputVars, objectVars, deployed, cert, workloads, projects, boundVars>>

\* Once nothing is exposed, the Service goes and later the certificate.
Withdraw(n) ==
  /\ ~\E h \in Hosts : Exposes(n, h)
  /\ \/ n \in address /\ address' = address \ {n} /\ UNCHANGED cert
     \/ n \notin address /\ cert[n] # None /\ cert' = [cert EXCEPT ![n] = None]
        /\ UNCHANGED address
  /\ UNCHANGED <<crVars, inputVars, objectVars, deployed, workloads, projects, boundVars>>

-----------------------------------------------------------------------------
(* The framework around the reconciler. *)

\* The finalizer is added before the first reconcile.
AddFinalizer ==
  /\ cr = "fresh" /\ cr' = "live"
  /\ UNCHANGED <<spec, annotation, status, inputVars, objectVars, mcpVars, boundVars>>

\* A failed HelmRelease labelled as Argo CD's makes the framework delete the
\* ArgoCD resource (constants.go says so; the framework is not in this tree).
CascadeFailure ==
  /\ cr = "live"
  /\ \E r \in Releases : /\ release[r] # None
                         /\ release[r].owner = Argo /\ release[r].ready = "false"
  /\ cr' = "deleting"
  /\ UNCHANGED <<spec, annotation, status, inputVars, objectVars, mcpVars, boundVars>>

TenantActs   == EditSpec \/ Annotate \/ DeleteCR \/ CreateCR
                \/ CreateWorkload \/ DeleteWorkload
OperatorActs == EditConfig \/ EditSource
FluxActs     == \E r \in Releases : \/ HelmSucceeds(r) \/ HelmFails(r)
                                   \/ HelmUninstalled(r) \/ RepoCollected(r)
GardenerActs == \E n \in Namespaces : IssueCertificate(n) \/ AssignAddress(n) \/ Withdraw(n)

Environment  == TenantActs \/ OperatorActs \/ FluxActs \/ GardenerActs
                \/ AddFinalizer \/ CascadeFailure

ClustersTypeOK ==
  /\ cr \in {"absent", "fresh", "live", "deleting"}
  /\ spec \in Specs /\ annotation \in {None, "ignore", "reconcile"}
  /\ status \in ArgoCDStatus
  /\ config \in Configs /\ source \in Sources
  /\ secrets \in [Places \X Names -> Secret \union {None}]
  /\ repo \in [Releases -> Repo \union {None}]
  /\ release \in [Releases -> Release \union {None}]
  /\ deployed \in [Releases -> ReleaseSpec \union {None}]
  /\ namespaces \subseteq Namespaces
  /\ cert \in [Namespaces -> Hosts \union {None}]
  /\ address \subseteq Namespaces /\ workloads \subseteq Kinds /\ projects \subseteq Namespaces
  /\ edits \in 0..MaxEdits /\ faults \in 0..MaxFaults

=============================================================================
