----------------------------- MODULE HelmValues -----------------------------
(***************************************************************************)
(* internal/argocd/values.go: the Helm values of Argo CD's HelmRelease.    *)
(* A JSON value is a function from paths of keys to nodes: an object, or   *)
(* anything else, which deepMerge does not look into, with its kind and a  *)
(* sequence of strings as its content; the root has the empty path.        *)
(* NestedValues has the same as trees.  The bundled YAML files have all    *)
(* their keys down to the first list or scalar.  Strings and lists are cut *)
(* down to the parts that come from somewhere else, the annotations of the *)
(* server to some of them.  A certificate bundle is a sequence of PEM      *)
(* blocks.                                                                 *)
(***************************************************************************)
EXTENDS Naturals, Sequences

CONSTANTS
  None,     \* no value
  Keys,     \* the keys of JSON objects
  HostKeys, \* the names that may key argocd-tls-certs-cm
  Reread,   \* the texts that YAML takes for something else than a string, as what
  Breaking  \* the texts that are no YAML where the vault bundles put them, unquoted

ASSUME KeysAssumption ==
  HostKeys \union {"global", "image", "repository", "tag", "imagePullSecrets", "server",
    "service", "type", "loadBalancerSourceRanges", "annotations", "dnsnames", "class",
    "secretname", "deploymentAnnotations", "reload", "configs", "cm", "url", "tls",
    "certificates", "repoServer", "volumes", "extraContainers", "initContainers",
    "extraObjects"} \subseteq Keys

Object          == [type |-> "object", content |-> <<>>]
Null            == [type |-> "null", content |-> <<>>]
Text(parts)     == [type |-> "string", content |-> parts]
NameList(names) == [type |-> "names", content |-> names]  \* objects with these names, "" for none
Leaf(seq)       == [type |-> "other", content |-> seq]    \* number, boolean, any other list

\* A proper prefix: the node at q, if any, is an ancestor of the one at p.
Above(q, p) == Len(q) < Len(p) /\ \A i \in 1..Len(q) : q[i] = p[i]

\* Whatever has a path is inside of objects.
IsJSON(d) ==
  /\ <<>> \in DOMAIN d /\ DOMAIN d \subseteq Seq(Keys)
  /\ \A p \in DOMAIN d : \A n \in 0..(Len(p) - 1) :
       SubSeq(p, 1, n) \in DOMAIN d /\ d[SubSeq(p, 1, n)] = Object

EmptyObject == [p \in {<<>>} |-> Object]

\* The object at a path with nothing around it; fields are its nodes.
Under(path, fields) ==
  [p \in {SubSeq(path, 1, n) : n \in 0..Len(path)} \union {Append(path, k) : k \in DOMAIN fields} |->
     IF Len(p) > Len(path) THEN fields[p[Len(p)]] ELSE Object]

\* Parts of one literal.
Beside(d, e) == [p \in DOMAIN d \union DOMAIN e |-> IF p \in DOMAIN d THEN d[p] ELSE e[p]]

-----------------------------------------------------------------------------
(* Merging. *)

\* Mutant: only the top level is merged.
ShallowMerge(dst, src) ==
  LET kept == {p \in DOMAIN dst : Len(p) = 0 \/ <<Head(p)>> \notin DOMAIN src} IN
  [p \in kept \union DOMAIN src |-> IF p \in DOMAIN src THEN src[p] ELSE dst[p]]

\* Objects are merged, everything else of src replaces what dst has, and
\* whatever dst has below it.
deepMerge(dst, src) ==
  LET kept == {p \in DOMAIN dst : \A q \in DOMAIN src : Above(q, p) => src[q] = Object} IN
  [p \in kept \union DOMAIN src |-> IF p \in DOMAIN src THEN src[p] ELSE dst[p]]

-----------------------------------------------------------------------------
(* The operator's values: base is None or any JSON value. *)

Decodable(base) == base = None \/ base[<<>>] = Object
Decoded(base)   == IF base = None THEN EmptyObject ELSE base

PullSecretList == <<"global", "imagePullSecrets">>

\* Decoding into the Go struct fails when global is no object or the list is not one
\* of objects whose names are strings; null stands for nothing.
PullSecretsDecodable(base) ==
  /\ Decodable(base)
  /\ LET f == Decoded(base) IN
       /\ <<"global">> \in DOMAIN f => f[<<"global">>] \in {Object, Null}
       /\ PullSecretList \in DOMAIN f => f[PullSecretList].type \in {"names", "null"}

Listed(f) ==
  IF PullSecretList \in DOMAIN f
  THEN {f[PullSecretList].content[i] : i \in 1..Len(f[PullSecretList].content)}
  ELSE {}

ImagePullSecretNames(base) == Listed(Decoded(base)) \ {""}

-----------------------------------------------------------------------------
(* The vault plugin: [openSource, registry, tag], or None when disabled. *)

Repository == <<"global", "image", "repository">>

\* A usable repository is a non-empty string.
HasRepository(f) ==
  Repository \in DOMAIN f /\ f[Repository].type = "string" /\ f[Repository].content # <<"">>

globalImageRepository(f) == f[Repository].content

RepoServer == <<"repoServer">>

\* What an unquoted scalar is once the YAML has become JSON: a version 3.10 is a number.
Unquoted(text) == IF text \in DOMAIN Reread THEN Reread[text] ELSE Text(text)

\* The data of the template is complete, so it executes; what comes out must be YAML.
RendersYAML(vault, repository, version) ==
  /\ {repository, <<version>>, repository \o <<version>>} \intersect Breaking = {}
  /\ ~vault.openSource => <<vault.registry, vault.tag>> \notin Breaking

\* The template is rendered with the version's name as the tag.
vaultPluginFragment(vault, repository, version) ==
  LET pulls    == NameList(<<"artifactory">>)
      volumes  == Leaf(<<"cmp-plugin", "custom-tools", "cmp-tmp", "k8s-sa-project">>)
      sidecars == Leaf(repository \o <<version>>)
      global == IF vault.openSource
                THEN [repository |-> Unquoted(repository), tag |-> Unquoted(<<version>>)]
                ELSE [repository |-> Unquoted(repository), tag |-> Unquoted(<<version>>),
                      imagePullSecrets |-> pulls]
      server == IF vault.openSource
                THEN [volumes |-> volumes, extraContainers |-> sidecars,
                      initContainers |-> Leaf(<<"alpine", "3.17">>)]
                ELSE [volumes |-> volumes, extraContainers |-> sidecars,
                      initContainers |-> Leaf(<<vault.registry, vault.tag>>),
                      imagePullSecrets |-> pulls]
      restarts == [reload |-> Text(<<"vault-configuration">>)]
      objects  == [extraObjects |-> Leaf(<<"cmp-plugin", "auth-delegator", "vault-configuration">>)]
  IN Beside(Under(<<"global">>, global),
            Beside(Under(RepoServer, server),
                   Beside(Under(<<"repoServer", "deploymentAnnotations">>, restarts),
                          Under(<<>>, objects))))

-----------------------------------------------------------------------------
(* Exposure: [host, allowedIPs, class, reloader], or None when disabled. *)

Service     == <<"server", "service">>
Annotations == <<"server", "service", "annotations">>

exposureFragment(e) ==
  LET open == IF e.allowedIPs = <<>> THEN [type |-> Text(<<"LoadBalancer">>)]
              ELSE [type |-> Text(<<"LoadBalancer">>), loadBalancerSourceRanges |-> Leaf(e.allowedIPs)]
      dns  == [dnsnames |-> Text(e.host), class |-> Text(<<e.class>>),
               secretname |-> Text(<<"argocd-server-tls">>)]
      urls     == Under(<<"configs", "cm">>, [url |-> Text(e.host)])
      restarts == Under(<<"server", "deploymentAnnotations">>,
                        [reload |-> Text(<<"argocd-secret", "argocd-server-tls">>)])
  IN Beside(Under(Service, open),
            Beside(Under(Annotations, dns), IF e.reloader THEN Beside(restarts, urls) ELSE urls))

-----------------------------------------------------------------------------
(* The CA bundle.  A block is [type, parses, names, cn]: the PEM type, whether *)
(* x509 accepts it, its DNS SANs and its common name.                          *)

Certificates(bundle) == {i \in 1..Len(bundle) : bundle[i].type = "CERTIFICATE"}
Leading(bundle) == CHOOSE i \in Certificates(bundle) : \A j \in Certificates(bundle) : i <= j

Parseable(bundle) ==
  Certificates(bundle) # {} /\ \A i \in Certificates(bundle) : bundle[i].parses

\* Mutant: the SANs of the first certificate only.
FirstDNSHosts(bundle) == bundle[Leading(bundle)].names \intersect HostKeys

collectDNSHosts(bundle) == {h \in HostKeys : \E i \in Certificates(bundle) : h \in bundle[i].names}

\* The SANs of all certificates, or else the first one's common name.
certHostnames(bundle) ==
  LET sans == collectDNSHosts(bundle) IN
  IF sans # {} THEN sans ELSE {bundle[Leading(bundle)].cn} \intersect HostKeys

Usable(bundle) == Parseable(bundle) /\ certHostnames(bundle) # {}

TrustedHosts == <<"configs", "tls", "certificates">>

caBundleFragment(bundle) == Under(TrustedHosts, [h \in certHostnames(bundle) |-> Text(<<"bundle">>)])

-----------------------------------------------------------------------------
(* The layers, each over the ones before it. *)

\* The operator's values are decoded, and a fragment that is asked for can be made.
Renderable(base, vault, bundle, version) ==
  /\ Decodable(base)
  /\ vault # None =>
       /\ HasRepository(Decoded(base))
       /\ RendersYAML(vault, globalImageRepository(Decoded(base)), version)
  /\ bundle # None => Usable(bundle)

mergeFragments(f, vault, exposure, bundle, version) ==
  LET withVault    == IF vault = None THEN f
                      ELSE deepMerge(f, vaultPluginFragment(vault, globalImageRepository(f), version))
      withExposure == IF exposure = None THEN withVault
                      ELSE deepMerge(withVault, exposureFragment(exposure))
  IN IF bundle = None THEN withExposure ELSE deepMerge(withExposure, caBundleFragment(bundle))

\* The empty object stands for nil, too: nothing to say.
buildValues(base, vault, exposure, bundle, version) ==
  mergeFragments(Decoded(base), vault, exposure, bundle, version)

-----------------------------------------------------------------------------
(* Reference: what a list of layers means, path by path. *)

\* A layer speaks about a path when it has the node itself, or something other
\* than an object above it.
SpeaksAbout(layer, p) ==
  p \in DOMAIN layer \/ \E q \in DOMAIN layer : Above(q, p) /\ layer[q] # Object

Leaves(d) == {<<p, d[p]>> : p \in {q \in DOMAIN d : d[q] # Object}}

\* What a later layer says about a path silences all earlier ones.
Layered(layers) ==
  UNION {{l \in Leaves(layers[i]) :
            \A j \in (i + 1)..Len(layers) : ~SpeaksAbout(layers[j], l[1])} : i \in 1..Len(layers)}

=============================================================================
