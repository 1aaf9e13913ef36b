---------------------------- MODULE MCRendering -----------------------------
(***************************************************************************)
(* Requests, ProviderConfigs, CA bundles and apiserver addresses for TLC.  *)
(***************************************************************************)
EXTENDS NestedValues

CONSTANT Absent  \* no such key

Ask(host, cidrs, vault) == [version |-> "v1", host |-> host, cidrs |-> cidrs, vault |-> vault]
Vault(enabled, registry, tag) == [enabled |-> enabled, registry |-> registry, tag |-> tag]
Offered(list, policy, reloader, vault, open) ==
  [versions |-> list, policy |-> policy, reloader |-> reloader, vault |-> vault,
   openSource |-> open]
Version(v, base) == [version |-> v, values |-> base]

-----------------------------------------------------------------------------
\* What an operator may write under each top-level key; "op" is a value of hers.
op == Leaf(<<"op">>)

Image(fields) == Map([image |-> Map(fields)])
Globals == {Absent, op, Null, Map([image |-> op, imagePullSecrets |-> Null]),
            Map([image |-> Map([repository |-> Text(<<"">>)]),
                 imagePullSecrets |-> NameList(<<"regcred", "artifactory">>)]),
            Map([image |-> Map([repository |-> Text(<<"reg">>), tag |-> op]), tag |-> op,
                 imagePullSecrets |-> NameList(<<"regcred", "">>)]),
            Map([image |-> Map([repository |-> Text(<<"reg">>)]), repository |-> Map([x |-> op])]),
            Image([repository |-> op]), Map([imagePullSecrets |-> op]),
            Map([imagePullSecrets |-> Map([x |-> op])])}
Servers == {Absent, op, Map(<<>>), Map([service |-> op]),
            Map([service |-> Map([type |-> op, nodePort |-> op,
                                  annotations |-> Map([dnsnames |-> op, other |-> op])]),
                 deploymentAnnotations |-> Map([other |-> op])])}
Configurations == {Absent, op, Map([cm |-> Map([url |-> op, other |-> op])]),
                   Map([cm |-> op, tls |-> Map([certificates |-> Map([git |-> op, own |-> op])])])}
RepoServers == {Absent, Map([deploymentAnnotations |-> op, volumes |-> op])}

Present(g, s, c, r) ==
  LET all  == [global |-> g, server |-> s, configs |-> c, repoServer |-> r,
               extraObjects |-> IF r = Absent THEN Absent ELSE op]
      keys == {k \in DOMAIN all : all[k] # Absent}
  IN Flat(Map([k \in keys |-> all[k]]), <<>>)

Trees == {Present(g, s, c, r) : g \in Globals, s \in Servers, c \in Configurations, r \in RepoServers}
         \union {None, Flat(op, <<>>)}

Combined ==
  {Offered(<<Version("v1", t)>>, None, reloader, vault, open) :
     t \in Trees, reloader \in BOOLEAN, open \in BOOLEAN,
     vault \in {None, Vault(TRUE, "avp", "1.18")}}

\* Versions listed twice or not at all, absent and unset sections.
Registry == Present(Image([repository |-> Text(<<"reg">>)]), Absent, Absent, Absent)
Platforms ==
  {Offered(list, policy, TRUE, vault, open) :
     list \in {<<>>, <<Version("v2", None), Version("v1", Registry), Version("v1", Flat(op, <<>>))>>},
     policy \in {None, "", "internet"}, open \in BOOLEAN,
     vault \in {None} \union {Vault(e, r, t) : e \in BOOLEAN, r \in {"", "avp"}, t \in {"", "1.18"}}}

\* Names that the vault bundles do not survive unquoted: one is read as a number,
\* one is no YAML, wherever it stands.
Numbers   == [text \in {<<"3.10">>} |-> Leaf(<<"3.1">>)]
Malformed == {<<"a: b">>, <<"a: b", "v1">>, <<"a: b", "3.10">>, <<"a: b", "1.18">>}
Unquotable ==
  {Offered(<<Version(v, Present(Image([repository |-> Text(<<r>>)]), Absent, Absent, Absent))>>,
           None, FALSE, Vault(TRUE, avp, "1.18"), open) :
     v \in {"v1", "3.10"}, r \in {"reg", "3.10", "a: b"}, avp \in {"avp", "a: b"}, open \in BOOLEAN}

ValueRequests == {Ask(None, <<>>, TRUE), Ask(<<"argocd">>, <<"10.0.0.0/8">>, FALSE),
                  Ask(<<"argocd">>, <<>>, TRUE)}

-----------------------------------------------------------------------------
\* Hosts: bare, qualified, malformed in several ways, and at the length limit.
Long == "63"
HostRequests ==
  {Ask(h, cidrs, TRUE) :
     cidrs \in {<<>>, <<"10.0.0.0/8", "malformed">>},
     h \in {<<"">>, <<"argocd">>, <<"63">>, <<"61">>, <<"64">>, <<"-bad">>, <<"a", "">>,
            <<"argocd", "">>, <<"argocd", "example", "com">>, <<"a", "", "b">>,
            <<"63", "63", "63", "61">>}}

URL(labels, port) == [scheme |-> TRUE, labels |-> labels, port |-> port]
Raw(labels) == [scheme |-> FALSE, labels |-> labels, port |-> FALSE]
PlainAddress == {URL(<<"api", "example", "com">>, TRUE)}
HostAddresses ==
  PlainAddress \union
  {URL(<<"api", "com">>, FALSE), URL(<<"kubernetes", "example", "com">>, FALSE),
   URL(<<"api", "63", "63", "63">>, FALSE), Raw(<<"api", "example", "com">>), Raw(<<"">>)}

Lengths == [l \in {"", "argocd", "example", "com", "api", "kubernetes", "a", "b", "63", "61", "64",
                   "-bad", "com:443", "63:443"} |->
              CASE l = "" -> 0 [] l = "63" -> 63 [] l = "61" -> 61 [] l = "64" -> 64
                [] l \in {"a", "b"} -> 1 [] OTHER -> 6]
Labelled == DOMAIN Lengths \ {"", "64", "-bad", "com:443", "63:443"}
PortedLabels == [l \in {"com", "63"} |-> IF l = "com" THEN "com:443" ELSE "63:443"]

-----------------------------------------------------------------------------
\* CA bundles: names on one or several certificates, none, only unusable ones,
\* blocks of another type, a block that is broken, nothing at all.
Block(type, parses, names, cn) == [type |-> type, parses |-> parses, names |-> names, cn |-> cn]
Cert(names, cn) == Block("CERTIFICATE", TRUE, names, cn)
Key == Block("PRIVATE KEY", TRUE, {}, "")
CABundles == {<<>>, <<Key>>, <<Cert({}, "*.wild")>>, <<Cert({}, "git")>>, <<Cert({"*.wild"}, "git")>>,
              <<Key, Cert({"git", "*.wild"}, "x"), Cert({"oci", "git"}, "")>>,
              <<Cert({}, "git"), Cert({"oci"}, "x")>>,
              <<Cert({"git"}, "x"), Block("CERTIFICATE", FALSE, {}, "")>>}
Hosts == {"git", "oci", "x", "own"}
AllKeys == Hosts \union
  {"global", "image", "repository", "tag", "imagePullSecrets", "server", "service", "type",
   "loadBalancerSourceRanges", "annotations", "dnsnames", "class", "secretname", "nodePort",
   "deploymentAnnotations", "reload", "configs", "cm", "url", "tls", "certificates",
   "repoServer", "extraContainers", "initContainers", "volumes", "extraObjects", "other"}

-----------------------------------------------------------------------------
ValueInputs == [request : ValueRequests, config : Combined,
                bundle : {None, <<Cert({"git"}, "x")>>}, address : PlainAddress]
PlatformInputs == [request : ValueRequests, config : Platforms,
                   bundle : CABundles \union {None}, address : PlainAddress]
ScalarInputs == [request : {[version |-> v, host |-> None, cidrs |-> <<>>, vault |-> TRUE] :
                              v \in {"v1", "3.10"}},
                 config : Unquotable, bundle : {None}, address : PlainAddress]
HostInputs == [request : HostRequests, address : HostAddresses, bundle : {None},
               config : {Offered(<<Version("v1", None)>>, None, FALSE, None, TRUE)}]
AllInputs == ValueInputs \union PlatformInputs \union ScalarInputs \union HostInputs

=============================================================================
