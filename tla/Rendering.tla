----------------------------- MODULE Rendering ------------------------------
(***************************************************************************)
(* The way of a request through the pure code of one CreateOrUpdate: the   *)
(* ArgoCD resource and the ProviderConfig become the values of the         *)
(* HelmRelease, or a reason why not.  Other actors play no part in it;     *)
(* ArgoCDReconciler has the API calls between these steps and keeps only   *)
(* which inputs fail (BadHosts, Buildable).                                *)
(*                                                                         *)
(* request: version, host (None without exposure), cidrs, vault.           *)
(* config:  versions (a list of [version, values]), policy (the DNS class, *)
(*          "" when unset, or None), reloader, vault ([enabled, registry,  *)
(*          tag] or None), openSource.                                     *)
(* bundle is the CA bundle read in the same pass, or None, address the     *)
(* apiserver's.                                                            *)
(***************************************************************************)
EXTENDS HelmValues, ExposureHost

CONSTANT Inputs  \* the inputs to be tried: [request, config, bundle, address]

\* A host is a name, if there is one; values are JSON.
ASSUME InputsAssumption ==
  \A i \in Inputs :
    /\ i.request.host # None => i.request.host \in Names
    /\ i.address \in Addresses
    /\ Len(i.config.versions) \in Nat
    /\ \A n \in 1..Len(i.config.versions) :
         LET base == i.config.versions[n].values IN base = None \/ IsJSON(base)

VARIABLES
  request, config, bundle, address,  \* the inputs
  stage,    \* "requested", "selected", "admitted", "copied", "rendered" or a reason
  entry,    \* the selected version entry
  exposure, \* ExposureValues, None when disabled
  pulls,    \* the names of the image pull secrets that are replicated
  values    \* the values of the HelmRelease, an object

inputs == <<request, config, bundle, address>>
locals == <<stage, entry, exposure, pulls, values>>

-----------------------------------------------------------------------------
\* Mutant: the rule asks for a registry only.
AdmittedWithoutTag(cfg) ==
  ~cfg.openSource /\ cfg.vault # None => (cfg.vault.enabled => cfg.vault.registry # "")

\* The API server's validation rule on the ProviderConfig's spec.
Admitted(cfg) ==
  ~cfg.openSource /\ cfg.vault # None =>
    (cfg.vault.enabled => cfg.vault.registry # "" /\ cfg.vault.tag # "")

Offers(cfg, v) == \E i \in 1..Len(cfg.versions) : cfg.versions[i].version = v

\* The first entry of that name.
SelectVersion(cfg, v) ==
  cfg.versions[CHOOSE i \in 1..Len(cfg.versions) :
                 /\ cfg.versions[i].version = v
                 /\ \A j \in 1..(i - 1) : cfg.versions[j].version # v]

\* Mutant: only an absent section has the default.
PolicyAsWritten(cfg) == IF cfg.policy = None THEN "garden" ELSE cfg.policy

ExposurePolicy(cfg) == IF cfg.policy \in {None, ""} THEN "garden" ELSE cfg.policy

resolveExposure ==
  IF request.host = None THEN None
  ELSE [host |-> ResolvedHost(request.host, address), allowedIPs |-> request.cidrs,
        class |-> ExposurePolicy(config), reloader |-> config.reloader]

\* The ProviderConfig is a gate, an absent section means no.
resolveVaultPlugin ==
  config.vault # None /\ config.vault.enabled /\ request.vault

VaultValues ==
  IF resolveVaultPlugin
  THEN [openSource |-> config.openSource, registry |-> config.vault.registry,
        tag |-> config.vault.tag]
  ELSE None

-----------------------------------------------------------------------------
Init ==
  /\ \E i \in Inputs : /\ Admitted(i.config)
                      /\ request = i.request /\ config = i.config
                      /\ bundle = i.bundle /\ address = i.address
  /\ stage = "requested"
  /\ entry = None /\ exposure = None /\ pulls = {} /\ values = EmptyObject

Select ==
  /\ stage = "requested"
  /\ IF Offers(config, request.version)
     THEN stage' = "selected" /\ entry' = SelectVersion(config, request.version)
     ELSE stage' = "InvalidVersion" /\ UNCHANGED entry
  /\ UNCHANGED <<inputs, exposure, pulls, values>>

\* validateExposure, then newProvisioner with what resolveExposure returns.
Validate ==
  /\ stage = "selected"
  /\ IF request.host = None \/ validateExposure(request.host, request.cidrs, address)
     THEN stage' = "admitted" /\ exposure' = resolveExposure
     ELSE stage' = "InvalidExposure" /\ UNCHANGED exposure
  /\ UNCHANGED <<inputs, entry, pulls, values>>

reconcileImagePullSecrets ==
  /\ stage = "admitted"
  /\ IF PullSecretsDecodable(entry.values)
     THEN stage' = "copied" /\ pulls' = ImagePullSecretNames(entry.values)
     ELSE stage' = "InstallFailed" /\ UNCHANGED pulls
  /\ UNCHANGED <<inputs, entry, exposure, values>>

applyHelmRelease ==
  /\ stage = "copied"
  /\ IF Renderable(entry.values, VaultValues, bundle, request.version)
     THEN /\ stage' = "rendered"
          /\ values' = buildValues(entry.values, VaultValues, exposure, bundle, request.version)
     ELSE stage' = "InstallFailed" /\ UNCHANGED values
  /\ UNCHANGED <<inputs, entry, exposure, pulls>>

Next == Select \/ Validate \/ reconcileImagePullSecrets \/ applyHelmRelease

Spec == Init /\ [][Next]_<<inputs, locals>>

-----------------------------------------------------------------------------
Rendered == stage = "rendered"

TypeOK ==
  /\ stage \in {"requested", "selected", "admitted", "copied", "rendered",
                "InvalidVersion", "InvalidExposure", "InstallFailed"}
  /\ entry # None => \E i \in 1..Len(config.versions) : entry = config.versions[i]
  /\ exposure # None => Len(exposure.host) >= 2 /\ exposure.class # ""
  /\ IsJSON(values)

\* Operator, vault plugin, exposure, CA bundle, as documented for buildValues.
Layers ==
  LET base == Decoded(entry.values) IN
  <<base,
    IF VaultValues = None THEN EmptyObject
    ELSE vaultPluginFragment(VaultValues, globalImageRepository(base), request.version),
    IF exposure = None THEN EmptyObject ELSE exposureFragment(exposure),
    IF bundle = None THEN EmptyObject ELSE caBundleFragment(bundle)>>

\* The rendered values are exactly what the layers say, path by path, in the
\* documented order.  So nothing an operator writes at any level drops an
\* annotation exposure depends on, and nothing of the operator's is lost beside
\* a fragment (buildValues).
LayersAgree == Rendered => Leaves(values) = Layered(Layers)

\* The host in the values, which DNS and certificate are made for, is a
\* fully-qualified name of well-formed labels and no longer than DNS allows,
\* although what was validated is the request and not the resolved host
\* (validateExposure and resolveExposure both compose it).
ExposedUnderFQDN ==
  Rendered /\ exposure # None =>
    LET host == values[Append(Annotations, "dnsnames")].content IN
    Len(host) >= 2 /\ hostPattern(host) /\ NameLength(host) <= 253

\* The image of the internal vault plugin is never rendered with an empty
\* registry or tag: the API server's rule covers every configuration in which the
\* gate opens and the internal bundle is used (ProviderConfigSpec).
VaultImageComplete ==
  Rendered /\ VaultValues # None =>
    \A i \in 1..2 : values[Append(RepoServer, "initContainers")].content[i] # ""

\* Every host that any certificate of the bundle names is trusted under it, also
\* where the operator's values have the key, and no key is added that
\* argocd-tls-certs-cm could not hold (certHostnames).
TrustsEveryName ==
  Rendered /\ bundle # None =>
    /\ \A i \in Certificates(bundle) : \A h \in bundle[i].names \intersect HostKeys :
         /\ Append(TrustedHosts, h) \in DOMAIN values
         /\ values[Append(TrustedHosts, h)] = Text(<<"bundle">>)
    /\ \A k \in Keys : Append(TrustedHosts, k) \in DOMAIN values =>
         k \in HostKeys \/ Append(TrustedHosts, k) \in DOMAIN Decoded(entry.values)

\* The pull secrets an operator lists reach the chart: those copied to the MCP for
\* her are among those it is told to use ("should be specified via
\* values.global.imagePullSecrets" and "are copied", ArgoCDVersion.Values; "passed
\* directly to the managed HelmRelease", README).
PullSecretsReplicated == Rendered => pulls \subseteq Listed(values)

=============================================================================
