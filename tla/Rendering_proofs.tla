-------------------------- MODULE Rendering_proofs --------------------------
(***************************************************************************)
(* Theorems about Rendering, for every request, ProviderConfig, CA bundle  *)
(* and apiserver address, values of any depth and names of any length:     *)
(* what is validated is what is rendered, and no layer loses what it must  *)
(* keep.                                                                   *)
(***************************************************************************)
EXTENDS Rendering, SequenceTheorems, WellFoundedInduction, TLAPS

-----------------------------------------------------------------------------
(* Paths. *)

LEMMA Prefix ==
  ASSUME NEW p \in Seq(Keys), NEW n \in 0..Len(p)
  PROVE  /\ SubSeq(p, 1, n) \in Seq(Keys) /\ Len(SubSeq(p, 1, n)) = n
         /\ \A i \in 1..n : SubSeq(p, 1, n)[i] = p[i]
OBVIOUS

LEMMA Child ==
  ASSUME NEW p \in Seq(Keys), NEW k \in Keys
  PROVE  /\ Append(p, k) \in Seq(Keys) /\ Len(Append(p, k)) = Len(p) + 1
         /\ Append(p, k)[Len(p) + 1] = k
         /\ \A i \in 1..Len(p) : Append(p, k)[i] = p[i]
OBVIOUS

\* The paths above a path are its proper prefixes.
LEMMA AboveIsPrefix ==
  ASSUME NEW p \in Seq(Keys), NEW q \in Seq(Keys)
  PROVE  Above(q, p) <=> \E n \in 0..(Len(p) - 1) : q = SubSeq(p, 1, n)
<1>1. ASSUME NEW n \in 0..(Len(p) - 1), q = SubSeq(p, 1, n) PROVE Above(q, p)
  BY <1>1, Prefix DEF Above
<1>2. ASSUME Above(q, p) PROVE Len(q) \in 0..(Len(p) - 1) /\ q = SubSeq(p, 1, Len(q))
  <2> DEFINE s == SubSeq(p, 1, Len(q))
  <2>1. Len(q) \in 0..(Len(p) - 1) BY <1>2 DEF Above
  <2>2. s \in Seq(Keys) /\ Len(s) = Len(q) /\ \A i \in 1..Len(q) : s[i] = q[i]
    BY <1>2, <2>1, Prefix DEF Above
  <2>3. q = s BY <2>2, SeqEqual
  <2> QED BY <2>1, <2>3
<1> QED BY <1>1, <1>2

LEMMA AboveAbove ==
  ASSUME NEW p \in Seq(Keys), NEW q \in Seq(Keys), NEW r \in Seq(Keys), Above(r, q), Above(q, p)
  PROVE  Above(r, p)
BY DEF Above

\* In a JSON value whatever is above a node is an object.
LEMMA Inside ==
  ASSUME NEW d, IsJSON(d), NEW p \in DOMAIN d, NEW q \in Seq(Keys), Above(q, p)
  PROVE  q \in DOMAIN d /\ d[q] = Object
<1>1. p \in Seq(Keys) BY DEF IsJSON
<1>2. PICK n \in 0..(Len(p) - 1) : q = SubSeq(p, 1, n) BY <1>1, AboveIsPrefix
<1> QED BY <1>2 DEF IsJSON

LEMMA Enclosed ==
  ASSUME NEW d, <<>> \in DOMAIN d, DOMAIN d \subseteq Seq(Keys),
         \A p \in DOMAIN d : \A q \in Seq(Keys) : Above(q, p) => q \in DOMAIN d /\ d[q] = Object
  PROVE  IsJSON(d)
<1> SUFFICES ASSUME NEW p \in DOMAIN d, NEW n \in 0..(Len(p) - 1)
             PROVE  SubSeq(p, 1, n) \in DOMAIN d /\ d[SubSeq(p, 1, n)] = Object
  BY DEF IsJSON
<1>1. p \in Seq(Keys) OBVIOUS
<1>2. SubSeq(p, 1, n) \in Seq(Keys) BY <1>1, Prefix
<1>3. Above(SubSeq(p, 1, n), p) BY <1>1, <1>2, AboveIsPrefix
<1> QED BY <1>2, <1>3

LEMMA EmptyIsJSON ==
  IsJSON(EmptyObject) /\ DOMAIN EmptyObject = {<<>>} /\ EmptyObject[<<>>] = Object
<1>1. DOMAIN EmptyObject = {<<>>} /\ EmptyObject[<<>>] = Object BY DEF EmptyObject
<1>2. \A q \in Seq(Keys) : ~Above(q, <<>>) BY DEF Above
<1>3. <<>> \in Seq(Keys) OBVIOUS
<1> QED BY <1>1, <1>2, <1>3, Enclosed

-----------------------------------------------------------------------------
(* Merging. *)

\* What a merge makes of a path.
LEMMA Merged ==
  ASSUME NEW dst, NEW src
  PROVE  /\ \A p : p \in DOMAIN deepMerge(dst, src) <=>
              \/ p \in DOMAIN src
              \/ p \in DOMAIN dst /\ \A q \in DOMAIN src : Above(q, p) => src[q] = Object
         /\ \A p \in DOMAIN src : deepMerge(dst, src)[p] = src[p]
         /\ \A p \in DOMAIN deepMerge(dst, src) \ DOMAIN src : deepMerge(dst, src)[p] = dst[p]
BY DEF deepMerge

\* A merge of JSON values is one.
LEMMA MergedIsJSON ==
  ASSUME NEW dst, IsJSON(dst), NEW src, IsJSON(src)
  PROVE  IsJSON(deepMerge(dst, src))
<1> DEFINE all == deepMerge(dst, src)
<1>1. <<>> \in DOMAIN all /\ DOMAIN all \subseteq Seq(Keys)
  BY Merged DEF IsJSON
<1>2. ASSUME NEW p \in DOMAIN all, NEW q \in Seq(Keys), Above(q, p)
      PROVE  q \in DOMAIN all /\ all[q] = Object
  <2>1. CASE p \in DOMAIN src
    <3>1. q \in DOMAIN src /\ src[q] = Object BY <1>2, <2>1, Inside
    <3> QED BY <3>1, Merged
  <2>2. CASE p \notin DOMAIN src
    <3>1. p \in DOMAIN dst /\ \A r \in DOMAIN src : Above(r, p) => src[r] = Object
      BY <2>2, Merged
    <3>2. q \in DOMAIN dst /\ dst[q] = Object BY <1>2, <3>1, Inside
    <3>3. \A r \in DOMAIN src : Above(r, q) => src[r] = Object
      BY <1>2, <1>1, <3>1, AboveAbove DEF IsJSON
    <3>4. q \in DOMAIN all BY <3>2, <3>3, Merged
    <3>5. q \in DOMAIN src => src[q] = Object BY <1>2, <3>1
    <3> QED BY <3>2, <3>4, <3>5, Merged
  <2> QED BY <2>1, <2>2
<1>3. IsJSON(all) BY <1>1, <1>2, Enclosed
<1> QED BY <1>3

\* A merge has the leaves of src and those of dst of which src does not speak.
LEMMA MergedLeaves ==
  ASSUME NEW dst, NEW src
  PROVE  Leaves(deepMerge(dst, src)) =
           Leaves(src) \union {l \in Leaves(dst) : ~SpeaksAbout(src, l[1])}
<1> DEFINE all == deepMerge(dst, src)
           rest == {l \in Leaves(dst) : ~SpeaksAbout(src, l[1])}
<1>1. ASSUME NEW l \in Leaves(all) PROVE l \in Leaves(src) \union rest
  <2>1. PICK p \in DOMAIN all : all[p] # Object /\ l = <<p, all[p]>> BY <1>1 DEF Leaves
  <2>2. CASE p \in DOMAIN src BY <2>1, <2>2, Merged DEF Leaves
  <2>3. CASE p \notin DOMAIN src
    <3>1. p \in DOMAIN dst /\ all[p] = dst[p] /\ ~SpeaksAbout(src, p)
      BY <2>3, Merged DEF SpeaksAbout
    <3> QED BY <2>1, <3>1 DEF Leaves
  <2> QED BY <2>2, <2>3
<1>2. ASSUME NEW l \in Leaves(src) PROVE l \in Leaves(all)
  <2>1. PICK p \in DOMAIN src : src[p] # Object /\ l = <<p, src[p]>> BY <1>2 DEF Leaves
  <2> QED BY <2>1, Merged DEF Leaves
<1>3. ASSUME NEW l \in rest PROVE l \in Leaves(all)
  <2>1. PICK p \in DOMAIN dst : dst[p] # Object /\ l = <<p, dst[p]>> BY <1>3 DEF Leaves
  <2>2. ~SpeaksAbout(src, p) BY <1>3, <2>1
  <2>3. p \in DOMAIN all \ DOMAIN src BY <2>2, Merged DEF SpeaksAbout
  <2> QED BY <2>1, <2>3, Merged DEF Leaves
<1> QED BY <1>1, <1>2, <1>3

\* Where a merge has an object or a leaf of dst, src does not speak about it.
LEMMA Survives ==
  ASSUME NEW dst, NEW src, NEW p \in DOMAIN dst, ~SpeaksAbout(src, p)
  PROVE  p \in DOMAIN deepMerge(dst, src) /\ deepMerge(dst, src)[p] = dst[p]
<1>1. p \notin DOMAIN src /\ \A q \in DOMAIN src : Above(q, p) => src[q] = Object
  BY DEF SpeaksAbout
<1> QED BY <1>1, Merged

-----------------------------------------------------------------------------
(* The fragments. *)

\* The nodes of a nested literal.
LEMMA UnderNodes ==
  ASSUME NEW path \in Seq(Keys), NEW fields, DOMAIN fields \subseteq Keys
  PROVE  LET d == Under(path, fields) IN
         /\ <<>> \in DOMAIN d /\ d[<<>>] = Object /\ DOMAIN d \subseteq Seq(Keys)
         /\ \A n \in 0..Len(path) : SubSeq(path, 1, n) \in DOMAIN d /\ d[SubSeq(path, 1, n)] = Object
         /\ \A k \in DOMAIN fields : Append(path, k) \in DOMAIN d /\ d[Append(path, k)] = fields[k]
         /\ \A p \in DOMAIN d :
              \/ Len(p) <= Len(path) /\ p = SubSeq(path, 1, Len(p)) /\ d[p] = Object
              \/ \E k \in DOMAIN fields : p = Append(path, k)
<1> DEFINE d == Under(path, fields)
           up == {SubSeq(path, 1, n) : n \in 0..Len(path)}
           leaves == {Append(path, k) : k \in DOMAIN fields}
<1>1. DOMAIN d = up \union leaves BY DEF Under
<1>2. \A p \in DOMAIN d : d[p] = IF Len(p) > Len(path) THEN fields[p[Len(p)]] ELSE Object
  BY DEF Under
<1>3. ASSUME NEW n \in 0..Len(path)
      PROVE  /\ SubSeq(path, 1, n) \in Seq(Keys) /\ Len(SubSeq(path, 1, n)) = n
             /\ SubSeq(path, 1, n) \in DOMAIN d /\ d[SubSeq(path, 1, n)] = Object
  <2>1. SubSeq(path, 1, n) \in Seq(Keys) /\ Len(SubSeq(path, 1, n)) = n BY Prefix
  <2>2. SubSeq(path, 1, n) \in DOMAIN d BY <1>1
  <2>3. ~(n > Len(path)) OBVIOUS
  <2> HIDE DEF d
  <2> QED BY <2>1, <2>2, <2>3, <1>2
<1>4. ASSUME NEW k \in DOMAIN fields
      PROVE  /\ Append(path, k) \in Seq(Keys) /\ Append(path, k) \in DOMAIN d
             /\ d[Append(path, k)] = fields[k]
  <2>1. k \in Keys OBVIOUS
  <2>2. /\ Append(path, k) \in Seq(Keys) /\ Len(Append(path, k)) = Len(path) + 1
        /\ Append(path, k)[Len(path) + 1] = k BY <2>1, Child
  <2>3. Append(path, k) \in DOMAIN d BY <1>1
  <2>4. Len(path) \in Nat OBVIOUS
  <2> DEFINE q == Append(path, k)
  <2>5. q \in DOMAIN d /\ Len(q) = Len(path) + 1 /\ q[Len(path) + 1] = k BY <2>2, <2>3
  <2> HIDE DEF d, q
  <2>6. Len(q) > Len(path) /\ q[Len(q)] = k BY <2>4, <2>5
  <2>7. d[q] = fields[k] BY <2>5, <2>6, <1>2
  <2> QED BY <2>2, <2>5, <2>7 DEF q
<1>5. <<>> \in DOMAIN d /\ d[<<>>] = Object
  <2>1. SubSeq(path, 1, 0) = <<>> OBVIOUS
  <2>2. 0 \in 0..Len(path) OBVIOUS
  <2> QED BY <2>1, <2>2, <1>3
<1>6. ASSUME NEW p \in DOMAIN d
      PROVE  /\ p \in Seq(Keys)
             /\ \/ Len(p) <= Len(path) /\ p = SubSeq(path, 1, Len(p)) /\ d[p] = Object
                \/ \E k \in DOMAIN fields : p = Append(path, k)
  <2>1. CASE p \in leaves BY <2>1, <1>4
  <2>2. CASE p \in up
    <3>1. PICK n \in 0..Len(path) : p = SubSeq(path, 1, n) BY <2>2
    <3> HIDE DEF d
    <3> QED BY <3>1, <1>3
  <2> QED BY <2>1, <2>2, <1>1
<1> HIDE DEF d
<1> QED BY <1>3, <1>4, <1>5, <1>6 DEF d

\* The object the literal is about, and what is right below it.
LEMMA UnderSelf ==
  ASSUME NEW path \in Seq(Keys), NEW fields, DOMAIN fields \subseteq Keys
  PROVE  path \in DOMAIN Under(path, fields) /\ Under(path, fields)[path] = Object
<1> DEFINE n == Len(path)
<1>1. n \in 0..Len(path) OBVIOUS
<1>2. SubSeq(path, 1, n) = path BY <1>1, Prefix, SeqEqual
<1> HIDE DEF n
<1>3. SubSeq(path, 1, n) \in DOMAIN Under(path, fields) BY <1>1, UnderNodes
<1>4. Under(path, fields)[SubSeq(path, 1, n)] = Object BY <1>1, UnderNodes
<1> QED BY <1>2, <1>3, <1>4

LEMMA UnderChild ==
  ASSUME NEW path \in Seq(Keys), NEW fields, DOMAIN fields \subseteq Keys,
         NEW p \in DOMAIN Under(path, fields), Len(p) = Len(path) + 1
  PROVE  p[Len(p)] \in DOMAIN fields
<1>1. ~(Len(p) <= Len(path)) OBVIOUS
<1>2. PICK k \in DOMAIN fields : p = Append(path, k) BY <1>1, UnderNodes
<1>3. k \in Keys OBVIOUS
<1>4. p[Len(path) + 1] = k BY <1>2, <1>3, Child
<1> QED BY <1>4

LEMMA UnderIsJSON ==
  ASSUME NEW path \in Seq(Keys), NEW fields, DOMAIN fields \subseteq Keys
  PROVE  IsJSON(Under(path, fields))
<1> DEFINE d == Under(path, fields)
<1>1. <<>> \in DOMAIN d /\ DOMAIN d \subseteq Seq(Keys) BY UnderNodes
<1>2. ASSUME NEW p \in DOMAIN d, NEW q \in Seq(Keys), Above(q, p)
      PROVE  q \in DOMAIN d /\ d[q] = Object
  <2>1. PICK n \in 0..(Len(p) - 1) : q = SubSeq(p, 1, n) BY <1>1, <1>2, AboveIsPrefix
  <2>2. p \in Seq(Keys) BY <1>1
  <2>3. n \in 0..Len(path) /\ q = SubSeq(path, 1, n)
    <3>1. CASE Len(p) <= Len(path) /\ p = SubSeq(path, 1, Len(p))
      <4>1. n \in 0..Len(path) /\ n \in 0..Len(p) BY <2>1, <2>2, <3>1
      <4>2. \A i \in 1..n : SubSeq(p, 1, n)[i] = SubSeq(path, 1, n)[i]
        <5>1. Len(p) \in 0..Len(path) BY <2>2, <3>1
        <5>2. \A i \in 1..Len(p) : p[i] = path[i] BY <3>1, <5>1, Prefix
        <5> QED BY <2>2, <4>1, <5>2, Prefix
      <4> QED BY <2>1, <2>2, <4>1, <4>2, Prefix, SeqEqual
    <3>2. CASE \E k \in DOMAIN fields : p = Append(path, k)
      <4>1. PICK k \in Keys : p = Append(path, k) BY <3>2
      <4>2. Len(p) = Len(path) + 1 /\ \A i \in 1..Len(path) : p[i] = path[i] BY <4>1, Child
      <4>3. n \in 0..Len(path) /\ n \in 0..Len(p) BY <2>1, <2>2, <4>2
      <4>4. \A i \in 1..n : SubSeq(p, 1, n)[i] = SubSeq(path, 1, n)[i]
        BY <2>2, <4>2, <4>3, Prefix
      <4> QED BY <2>1, <2>2, <4>3, <4>4, Prefix, SeqEqual
    <3> QED BY <3>1, <3>2, UnderNodes
  <2> QED BY <2>3, UnderNodes
<1>3. IsJSON(d) BY <1>1, <1>2, Enclosed
<1> QED BY <1>3

\* Its paths agree with the literal's as far as that reaches.
LEMMA UnderPaths ==
  ASSUME NEW path \in Seq(Keys), NEW fields, DOMAIN fields \subseteq Keys,
         NEW p \in DOMAIN Under(path, fields)
  PROVE  \A i \in 1..Len(path) : i <= Len(p) => p[i] = path[i]
<1>1. CASE Len(p) <= Len(path) /\ p = SubSeq(path, 1, Len(p))
  <2>1. Len(p) \in 0..Len(path) BY <1>1, UnderNodes
  <2> QED BY <1>1, <2>1, Prefix
<1>2. CASE \E k \in DOMAIN fields : p = Append(path, k)
  BY <1>2, Child
<1> QED BY <1>1, <1>2, UnderNodes

LEMMA BesideNodes ==
  ASSUME NEW d, NEW e
  PROVE  /\ DOMAIN Beside(d, e) = DOMAIN d \union DOMAIN e
         /\ \A p \in DOMAIN d : Beside(d, e)[p] = d[p]
         /\ \A p \in DOMAIN e \ DOMAIN d : Beside(d, e)[p] = e[p]
BY DEF Beside

\* Two parts of a literal make one when no leaf of the first is a node of the other.
LEMMA BesideIsJSON ==
  ASSUME NEW path \in Seq(Keys), NEW fields, DOMAIN fields \subseteq Keys,
         NEW e, IsJSON(e), \A k \in DOMAIN fields : Append(path, k) \notin DOMAIN e
  PROVE  LET d == Beside(Under(path, fields), e) IN
         IsJSON(d) /\ d[<<>>] = Object /\ DOMAIN d = DOMAIN Under(path, fields) \union DOMAIN e
<1> DEFINE u == Under(path, fields)
           d == Beside(u, e)
<1>1. IsJSON(u) /\ u[<<>>] = Object BY UnderIsJSON, UnderNodes
<1>2. ASSUME NEW p \in DOMAIN u, p \in DOMAIN e PROVE u[p] = Object
  <2>1. \A k \in DOMAIN fields : p # Append(path, k) BY <1>2
  <2> QED BY <2>1, UnderNodes
<1> HIDE DEF u
<1>4. DOMAIN d = DOMAIN u \union DOMAIN e BY BesideNodes
<1>5. /\ \A p \in DOMAIN u : d[p] = u[p]
      /\ \A p \in DOMAIN e \ DOMAIN u : d[p] = e[p]
  BY BesideNodes
<1> HIDE DEF d
<1>6. <<>> \in DOMAIN d /\ DOMAIN d \subseteq Seq(Keys) /\ <<>> \in DOMAIN u
  BY <1>1, <1>4 DEF IsJSON
<1>7. ASSUME NEW p \in DOMAIN d, NEW q \in Seq(Keys), Above(q, p)
      PROVE  q \in DOMAIN d /\ d[q] = Object
  <2>1. CASE p \in DOMAIN u
    <3>1. q \in DOMAIN u /\ u[q] = Object BY <1>1, <1>7, <2>1, Inside
    <3> QED BY <3>1, <1>4, <1>5
  <2>2. CASE p \in DOMAIN e
    <3>1. q \in DOMAIN e /\ e[q] = Object BY <1>7, <2>2, Inside
    <3> QED BY <3>1, <1>2, <1>4, <1>5
  <2> QED BY <2>1, <2>2, <1>4
<1>8. IsJSON(d) BY <1>6, <1>7, Enclosed
<1> QED BY <1>1, <1>4, <1>5, <1>6, <1>8 DEF d, u

\* The top-level key that a layer's node is below, where it has no other.
Speaks(layer, tops) == \A p \in DOMAIN layer : p # <<>> => p[1] \in tops

LEMMA Silent ==
  ASSUME NEW layer, IsJSON(layer), layer[<<>>] = Object, NEW tops, Speaks(layer, tops),
         NEW p \in Seq(Keys), p # <<>>, p[1] \notin tops
  PROVE  ~SpeaksAbout(layer, p)
<1>1. p \notin DOMAIN layer BY DEF Speaks
<1>2. ASSUME NEW q \in DOMAIN layer, Above(q, p), layer[q] # Object PROVE FALSE
  <2>1. q # <<>> /\ q \in Seq(Keys) BY <1>2 DEF IsJSON
  <2>2. q[1] = p[1] BY <1>2, <2>1 DEF Above
  <2> QED BY <2>1, <2>2 DEF Speaks
<1> QED BY <1>1, <1>2 DEF SpeaksAbout

LEMMA UnderTop ==
  ASSUME NEW path \in Seq(Keys), path # <<>>, NEW fields, DOMAIN fields \subseteq Keys
  PROVE  Speaks(Under(path, fields), {path[1]})
<1> SUFFICES ASSUME NEW p \in DOMAIN Under(path, fields), p # <<>> PROVE p[1] = path[1]
  BY DEF Speaks
<1>1. p \in Seq(Keys) BY UnderNodes
<1>2. Len(p) >= 1 /\ Len(path) >= 1 BY <1>1
<1> QED BY <1>2, UnderPaths

LEMMA RootTops ==
  ASSUME NEW fields, DOMAIN fields \subseteq Keys
  PROVE  Speaks(Under(<<>>, fields), DOMAIN fields)
<1> SUFFICES ASSUME NEW p \in DOMAIN Under(<<>>, fields), p # <<>> PROVE p[1] \in DOMAIN fields
  BY DEF Speaks
<1> DEFINE root == <<>>
<1>1. root \in Seq(Keys) /\ Len(root) = 0 /\ p \in DOMAIN Under(root, fields) OBVIOUS
<1>2. p # root OBVIOUS
<1> HIDE DEF root
<1>3. p \in Seq(Keys) BY <1>1, UnderNodes
<1>4. CASE Len(p) <= Len(root) /\ p = SubSeq(root, 1, Len(p))
  <2>1. Len(p) = 0 BY <1>1, <1>3, <1>4
  <2> QED BY <2>1, <1>2, <1>3 DEF root
<1>5. CASE \E k \in DOMAIN fields : p = Append(root, k)
  <2>1. PICK k \in DOMAIN fields : p = Append(root, k) BY <1>5
  <2>2. k \in Keys OBVIOUS
  <2> QED BY <1>1, <2>1, <2>2, Child
<1> QED BY <1>1, <1>4, <1>5, UnderNodes

LEMMA BesideTops ==
  ASSUME NEW d, NEW e, NEW tops, NEW others, Speaks(d, tops), Speaks(e, others)
  PROVE  Speaks(Beside(d, e), tops \union others)
BY DEF Speaks, Beside

\* The vault fragment is JSON about the image, the repo server and further objects,
\* and has its bundle's image.
LEMMA VaultFragment ==
  ASSUME NEW vault, NEW repository, NEW version
  PROVE  LET d == vaultPluginFragment(vault, repository, version)
             p == Append(RepoServer, "initContainers") IN
         /\ IsJSON(d) /\ d[<<>>] = Object /\ Speaks(d, {"global", "repoServer", "extraObjects"})
         /\ p \in DOMAIN d
         /\ d[p] = IF vault.openSource THEN Leaf(<<"alpine", "3.17">>)
                   ELSE Leaf(<<vault.registry, vault.tag>>)
         /\ <<"global">> \in DOMAIN d /\ d[<<"global">>] = Object
         /\ vault.openSource => PullSecretList \notin DOMAIN d
<1> DEFINE pulled == NameList(<<"artifactory">>)
           volumes == Leaf(<<"cmp-plugin", "custom-tools", "cmp-tmp", "k8s-sa-project">>)
           sidecars == Leaf(repository \o <<version>>)
           open == Leaf(<<"alpine", "3.17">>)
           internal == Leaf(<<vault.registry, vault.tag>>)
           named == Unquoted(repository)
           tag == Unquoted(<<version>>)
           global == IF vault.openSource THEN [repository |-> named, tag |-> tag]
                     ELSE [repository |-> named, tag |-> tag, imagePullSecrets |-> pulled]
           server == IF vault.openSource
                     THEN [volumes |-> volumes, extraContainers |-> sidecars, initContainers |-> open]
                     ELSE [volumes |-> volumes, extraContainers |-> sidecars,
                           initContainers |-> internal, imagePullSecrets |-> pulled]
           restarts == [reload |-> Text(<<"vault-configuration">>)]
           objects == [extraObjects |-> Leaf(<<"cmp-plugin", "auth-delegator", "vault-configuration">>)]
           below == <<"repoServer", "deploymentAnnotations">>
           u1 == Under(<<"global">>, global)
           u2 == Under(RepoServer, server)
           u3 == Under(below, restarts)
           u4 == Under(<<>>, objects)
           low == Beside(u3, u4)
           right == Beside(u2, low)
           d == Beside(u1, right)
           p == Append(RepoServer, "initContainers")
<1>1. /\ <<"global">> \in Seq(Keys) /\ RepoServer \in Seq(Keys) /\ below \in Seq(Keys)
      /\ p \in Seq(Keys) /\ Len(p) = 2 /\ Len(RepoServer) = 1 /\ Len(below) = 2
      /\ RepoServer[1] = "repoServer" /\ p[1] = "repoServer"
  BY KeysAssumption DEF RepoServer
<1>2. /\ DOMAIN global \subseteq Keys /\ DOMAIN server \subseteq Keys /\ DOMAIN restarts \subseteq Keys
      /\ DOMAIN objects \subseteq Keys /\ DOMAIN objects = {"extraObjects"}
      /\ "deploymentAnnotations" \notin DOMAIN server /\ "initContainers" \in DOMAIN server
  BY KeysAssumption
<1>16. vault.openSource => "imagePullSecrets" \notin DOMAIN global OBVIOUS
<1>3. server["initContainers"] = IF vault.openSource THEN open ELSE internal
  OBVIOUS
<1>4. d = vaultPluginFragment(vault, repository, version) BY DEF vaultPluginFragment
<1> HIDE DEF global, server, restarts, objects, pulled, volumes, sidecars, open, internal, named, tag
<1>5. /\ Speaks(u3, {"repoServer"}) /\ IsJSON(u4) /\ Speaks(u4, {"extraObjects"})
      /\ \A k \in DOMAIN restarts : Append(below, k) \notin DOMAIN u4
  <2>1. below # <<>> /\ below[1] = "repoServer" OBVIOUS
  <2>2. Speaks(u3, {"repoServer"}) BY <2>1, <1>1, <1>2, UnderTop
  <2>3. <<>> \in Seq(Keys) OBVIOUS
  <2>4. IsJSON(u4) BY <2>3, <1>2, UnderIsJSON
  <2>5. Speaks(u4, {"extraObjects"}) BY <1>2, RootTops
  <2> HIDE DEF u4
  <2>6. ASSUME NEW k \in DOMAIN restarts, Append(below, k) \in DOMAIN u4 PROVE FALSE
    <3> DEFINE q == Append(below, k)
    <3>1. k \in Keys BY <1>2
    <3>2. 1 \in 1..Len(below) /\ Len(q) = 3 BY <3>1, <1>1, Child
    <3>3. q[1] = "repoServer" BY <3>1, <3>2, <2>1, <1>1, Child
    <3>4. q # <<>> /\ q \in DOMAIN u4 BY <2>6, <3>1, <1>1, Child
    <3> HIDE DEF q
    <3> QED BY <3>3, <3>4, <2>5 DEF Speaks
  <2> QED BY <2>2, <2>4, <2>5, <2>6
<1>19. /\ IsJSON(low) /\ DOMAIN low = DOMAIN u3 \union DOMAIN u4
       /\ Speaks(low, {"repoServer", "extraObjects"})
  <2>1. Speaks(low, {"repoServer"} \union {"extraObjects"}) BY <1>5, BesideTops
  <2>2. {"repoServer"} \union {"extraObjects"} = {"repoServer", "extraObjects"} OBVIOUS
  <2>3. below \in Seq(Keys) /\ DOMAIN restarts \subseteq Keys /\ IsJSON(u4) BY <1>1, <1>2, <1>5
  <2>4. IsJSON(low) BY <2>3, <1>5, BesideIsJSON
  <2>5. DOMAIN low = DOMAIN u3 \union DOMAIN u4 BY <2>3, <1>5, BesideIsJSON
  <2> QED BY <2>1, <2>2, <2>4, <2>5
<1>6. \A k \in DOMAIN server : Append(RepoServer, k) \notin DOMAIN low
  <2> SUFFICES ASSUME NEW k \in DOMAIN server, Append(RepoServer, k) \in DOMAIN low PROVE FALSE
    OBVIOUS
  <2>1. k \in Keys BY <1>2
  <2>2. /\ Len(Append(RepoServer, k)) = 2 /\ Append(RepoServer, k)[2] = k
        /\ Append(RepoServer, k)[1] = "repoServer"
    BY <2>1, <1>1, Child
  <2> DEFINE q == Append(RepoServer, k)
  <2>3. q \in DOMAIN low /\ Len(q) = 2 /\ q # <<>> /\ q[1] = "repoServer" BY <2>2
  <2>4. 2 \in 1..Len(below) /\ below[2] = "deploymentAnnotations" BY <1>1
  <2>5. q[2] = k BY <2>2
  <2> HIDE DEF q, below, low, u4
  <2>6. q \in DOMAIN u3 BY <2>3, <1>5, <1>19 DEF Speaks
  <2>7. q[2] = below[2] BY <2>3, <2>4, <2>6, <1>1, <1>2, UnderPaths
  <2> QED BY <2>4, <2>5, <2>7, <1>2
<1> HIDE DEF low, u3, u4
<1>7. /\ IsJSON(right) /\ DOMAIN right = DOMAIN u2 \union DOMAIN low
      /\ right[p] = server["initContainers"]
  <2>1. RepoServer \in Seq(Keys) /\ DOMAIN server \subseteq Keys /\ IsJSON(low) BY <1>1, <1>2, <1>19
  <2>2. IsJSON(right) BY <2>1, <1>6, BesideIsJSON
  <2>3. DOMAIN right = DOMAIN u2 \union DOMAIN low BY <2>1, <1>6, BesideIsJSON
  <2>4. p \in DOMAIN u2 /\ u2[p] = server["initContainers"] BY <1>2, <2>1, UnderNodes
  <2> QED BY <2>2, <2>3, <2>4, BesideNodes
<1>8. p \in DOMAIN u2 BY <1>1, <1>2, UnderNodes
<1>9. Speaks(right, {"repoServer", "extraObjects"})
  <2>1. Speaks(u2, {"repoServer"})
    <3>1. RepoServer # <<>> BY DEF RepoServer
    <3> QED BY <3>1, <1>1, <1>2, UnderTop
  <2>2. Speaks(right, {"repoServer"} \union {"repoServer", "extraObjects"})
    BY <2>1, <1>19, BesideTops
  <2>3. {"repoServer"} \union {"repoServer", "extraObjects"} = {"repoServer", "extraObjects"} OBVIOUS
  <2> QED BY <2>2, <2>3
<1>10. ASSUME NEW q \in DOMAIN right, q # <<>> PROVE q \notin DOMAIN u1
  <2>1. q[1] \in {"repoServer", "extraObjects"} BY <1>10, <1>9 DEF Speaks
  <2>2. Speaks(u1, {"global"}) BY <1>1, <1>2, UnderTop
  <2> QED BY <2>1, <2>2, <1>10 DEF Speaks
<1>11. \A k \in DOMAIN global : Append(<<"global">>, k) \notin DOMAIN right
  <2> SUFFICES ASSUME NEW k \in DOMAIN global PROVE Append(<<"global">>, k) \notin DOMAIN right
    OBVIOUS
  <2>1. Append(<<"global">>, k) \in DOMAIN u1 BY <1>1, <1>2, UnderNodes
  <2>2. k \in Keys BY <1>2
  <2>3. Append(<<"global">>, k) # <<>> BY <1>1, <2>2, Child
  <2> QED BY <2>1, <2>3, <1>10
<1> HIDE DEF right
<1>12. /\ IsJSON(d) /\ d[<<>>] = Object /\ DOMAIN d = DOMAIN u1 \union DOMAIN right
       /\ \A q \in DOMAIN right \ DOMAIN u1 : d[q] = right[q]
  <2>1. <<"global">> \in Seq(Keys) /\ DOMAIN global \subseteq Keys /\ IsJSON(right) BY <1>1, <1>2, <1>7
  <2>2. IsJSON(d) /\ d[<<>>] = Object BY <2>1, <1>11, BesideIsJSON
  <2>3. DOMAIN d = DOMAIN u1 \union DOMAIN right BY <2>1, <1>11, BesideIsJSON
  <2>4. \A q \in DOMAIN right \ DOMAIN u1 : d[q] = right[q] BY BesideNodes
  <2> QED BY <2>2, <2>3, <2>4
<1>13. p \in DOMAIN right /\ p # <<>> BY <1>1, <1>7, <1>8
<1>14. p \in DOMAIN d /\ d[p] = server["initContainers"]
  BY <1>7, <1>10, <1>12, <1>13
<1>15. Speaks(d, {"global", "repoServer", "extraObjects"})
  <2>1. Speaks(u1, {"global"}) BY <1>1, <1>2, UnderTop
  <2>2. Speaks(d, {"global"} \union {"repoServer", "extraObjects"}) BY <2>1, <1>9, BesideTops
  <2>3. {"global"} \union {"repoServer", "extraObjects"} = {"global", "repoServer", "extraObjects"}
    OBVIOUS
  <2> QED BY <2>2, <2>3
<1>17. <<"global">> \in DOMAIN d /\ d[<<"global">>] = Object
  <2>1. <<"global">> \in DOMAIN u1 /\ u1[<<"global">>] = Object
    BY <1>1, <1>2, UnderSelf
  <2> HIDE DEF u1
  <2>2. \A q \in DOMAIN u1 : d[q] = u1[q] BY BesideNodes
  <2> QED BY <2>1, <2>2, <1>12
<1>18. ASSUME vault.openSource PROVE PullSecretList \notin DOMAIN d
  <2>1. /\ PullSecretList \in Seq(Keys) /\ PullSecretList # <<>> /\ Len(PullSecretList) = 2
        /\ PullSecretList[1] = "global" /\ PullSecretList[2] = "imagePullSecrets"
        /\ Len(<<"global">>) = 1
    BY KeysAssumption DEF PullSecretList
  <2>2. PullSecretList \notin DOMAIN right BY <2>1, <1>9 DEF Speaks
  <2>3. ASSUME PullSecretList \in DOMAIN u1 PROVE FALSE
    <3> DEFINE g == <<"global">>
               p2 == PullSecretList
    <3>1. g \in Seq(Keys) /\ DOMAIN global \subseteq Keys /\ p2 \in DOMAIN Under(g, global)
      BY <2>3, <1>1, <1>2
    <3>2. Len(p2) = Len(g) + 1 /\ p2[Len(p2)] = "imagePullSecrets" BY <2>1
    <3> HIDE DEF g, p2
    <3>3. p2[Len(p2)] \in DOMAIN global BY <3>1, <3>2, UnderChild
    <3> QED BY <3>2, <3>3, <1>16, <1>18
  <2> QED BY <2>2, <2>3, <1>12
<1> QED
  <2> HIDE DEF d, p
  <2>1. d[p] = IF vault.openSource THEN Leaf(<<"alpine", "3.17">>)
               ELSE Leaf(<<vault.registry, vault.tag>>)
    BY <1>3, <1>14 DEF open, internal
  <2>2. /\ IsJSON(d) /\ d[<<>>] = Object /\ p \in DOMAIN d
        /\ Speaks(d, {"global", "repoServer", "extraObjects"})
    BY <1>12, <1>14, <1>15
  <2> QED BY <1>4, <1>17, <1>18, <2>1, <2>2 DEF p

\* A path that departs from a literal's is none of its nodes.
LEMMA Elsewhere ==
  ASSUME NEW path \in Seq(Keys), NEW k \in Keys, NEW other \in Seq(Keys),
         NEW fields, DOMAIN fields \subseteq Keys,
         NEW n \in 1..Len(other), n <= Len(path) + 1, Append(path, k)[n] # other[n]
  PROVE  Append(path, k) \notin DOMAIN Under(other, fields)
<1> DEFINE q == Append(path, k)
<1>1. Len(q) = Len(path) + 1 BY Child
<1>2. q[n] # other[n] OBVIOUS
<1> HIDE DEF q
<1>3. ASSUME q \in DOMAIN Under(other, fields) PROVE FALSE BY <1>1, <1>2, <1>3, UnderPaths
<1> QED BY <1>3 DEF q

\* The exposure fragment is JSON about the server and its URL, and has the host.
LEMMA ExposureFragment ==
  ASSUME NEW e
  PROVE  LET d == exposureFragment(e)
             p == Append(Annotations, "dnsnames") IN
         /\ IsJSON(d) /\ d[<<>>] = Object /\ Speaks(d, {"server", "configs"})
         /\ p \in DOMAIN d /\ d[p] = Text(e.host)
         /\ \A k \in Keys : Append(TrustedHosts, k) \notin DOMAIN d
<1> DEFINE open == IF e.allowedIPs = <<>> THEN [type |-> Text(<<"LoadBalancer">>)]
                   ELSE [type |-> Text(<<"LoadBalancer">>),
                         loadBalancerSourceRanges |-> Leaf(e.allowedIPs)]
           dns == [dnsnames |-> Text(e.host), class |-> Text(<<e.class>>),
                   secretname |-> Text(<<"argocd-server-tls">>)]
           url == [url |-> Text(e.host)]
           reload == [reload |-> Text(<<"argocd-secret", "argocd-server-tls">>)]
           cm == <<"configs", "cm">>
           pods == <<"server", "deploymentAnnotations">>
           p == Append(Annotations, "dnsnames")
           urls == Under(cm, url)
           restarts == Under(pods, reload)
           u1 == Under(Service, open)
           u2 == Under(Annotations, dns)
           rest == IF e.reloader THEN Beside(restarts, urls) ELSE urls
           right == Beside(u2, rest)
           d == Beside(u1, right)
<1>1. /\ cm \in Seq(Keys) /\ pods \in Seq(Keys) /\ Service \in Seq(Keys) /\ Annotations \in Seq(Keys)
      /\ TrustedHosts \in Seq(Keys) /\ p \in Seq(Keys)
  BY KeysAssumption DEF Service, Annotations, TrustedHosts
<1>2. /\ Len(cm) = 2 /\ cm[1] = "configs" /\ cm[2] = "cm"
      /\ Len(pods) = 2 /\ pods[1] = "server" /\ pods[2] = "deploymentAnnotations"
      /\ Len(Service) = 2 /\ Service[1] = "server" /\ Service[2] = "service"
      /\ Len(Annotations) = 3 /\ Annotations[1] = "server" /\ Annotations[2] = "service"
      /\ Annotations[3] = "annotations"
      /\ Len(TrustedHosts) = 3 /\ TrustedHosts[1] = "configs" /\ TrustedHosts[2] = "tls"
      /\ Len(p) = 4
  BY DEF Service, Annotations, TrustedHosts
<1>3. /\ DOMAIN open \subseteq Keys /\ DOMAIN dns \subseteq Keys /\ DOMAIN url \subseteq Keys
      /\ DOMAIN reload \subseteq Keys /\ "annotations" \notin DOMAIN open
      /\ "dnsnames" \in DOMAIN dns /\ dns["dnsnames"] = Text(e.host)
  BY KeysAssumption
<1>4. d = exposureFragment(e) BY DEF exposureFragment
<1> HIDE DEF open, dns, url, reload, cm, pods, p
\* What is not one of two paths is not in the rest of the fragment.
<1>5. ASSUME NEW path \in Seq(Keys), NEW k \in Keys, Len(path) >= 2,
             path[1] # "server" \/ path[2] # "deploymentAnnotations",
             path[1] # "configs" \/ path[2] # "cm"
      PROVE  Append(path, k) \notin DOMAIN rest
  <2>1. 1 <= Len(path) + 1 /\ 2 <= Len(path) + 1 /\ 1 \in 1..2 /\ 2 \in 1..2
        /\ Append(path, k)[1] = path[1] /\ Append(path, k)[2] = path[2]
    BY <1>5, Child
  <2>2. Append(path, k) \notin DOMAIN restarts BY <2>1, <1>1, <1>2, <1>3, <1>5, Elsewhere
  <2>3. Append(path, k) \notin DOMAIN urls BY <2>1, <1>1, <1>2, <1>3, <1>5, Elsewhere
  <2> HIDE DEF restarts, urls
  <2>4. DOMAIN Beside(restarts, urls) = DOMAIN restarts \union DOMAIN urls BY BesideNodes
  <2> QED BY <2>2, <2>3, <2>4
<1>6. IsJSON(rest) /\ rest[<<>>] = Object /\ Speaks(rest, {"server", "configs"})
  <2>1. cm # <<>> /\ pods # <<>> BY <1>2
  <2>2. IsJSON(urls) /\ urls[<<>>] = Object /\ Speaks(urls, {"configs"})
    BY <2>1, <1>1, <1>2, <1>3, UnderIsJSON, UnderNodes, UnderTop
  <2>3. Speaks(restarts, {"server"}) BY <2>1, <1>1, <1>2, <1>3, UnderTop
  <2>4. ASSUME NEW k \in DOMAIN reload PROVE Append(pods, k) \notin DOMAIN urls
    <3>1. k \in Keys BY <1>3
    <3>2. Append(pods, k)[1] = "server" /\ 1 \in 1..Len(cm) /\ 1 <= Len(pods) + 1
      BY <3>1, <1>1, <1>2, Child
    <3> QED BY <3>1, <3>2, <1>1, <1>2, <1>3, Elsewhere
  <2> HIDE DEF urls
  <2>5. DOMAIN reload \subseteq Keys /\ pods \in Seq(Keys) BY <1>1, <1>3
  <2>6. IsJSON(Beside(restarts, urls)) /\ Beside(restarts, urls)[<<>>] = Object
    BY <2>2, <2>4, <2>5, BesideIsJSON
  <2>7. Speaks(Beside(restarts, urls), {"server"} \union {"configs"}) BY <2>2, <2>3, BesideTops
  <2>8. Speaks(urls, {"server", "configs"}) BY <2>2 DEF Speaks
  <2>9. {"server"} \union {"configs"} = {"server", "configs"} OBVIOUS
  <2> HIDE DEF restarts
  <2> QED BY <2>2, <2>6, <2>7, <2>8, <2>9
<1>7. p \in DOMAIN u2 /\ u2[p] = Text(e.host) BY <1>1, <1>3, UnderNodes DEF p
<1>8. p \notin DOMAIN u1
  <2> SUFFICES ASSUME p \in DOMAIN u1 PROVE FALSE OBVIOUS
  <2>1. CASE Len(p) <= Len(Service) BY <2>1, <1>2
  <2>2. CASE \E k \in DOMAIN open : p = Append(Service, k)
    <3>1. PICK k \in Keys : p = Append(Service, k) BY <2>2, <1>3
    <3>2. Len(p) = Len(Service) + 1 BY <3>1, <1>1, Child
    <3> QED BY <3>2, <1>2
  <2> QED BY <2>1, <2>2, <1>1, <1>3, UnderNodes
<1> HIDE DEF rest
<1>9. IsJSON(right) /\ right[<<>>] = Object /\ DOMAIN right = DOMAIN u2 \union DOMAIN rest
  <2>1. ASSUME NEW k \in DOMAIN dns PROVE Append(Annotations, k) \notin DOMAIN rest
    <3>1. k \in Keys BY <1>3
    <3> QED BY <3>1, <1>1, <1>2, <1>5
  <2>2. Annotations \in Seq(Keys) /\ DOMAIN dns \subseteq Keys BY <1>1, <1>3
  <2> QED BY <2>1, <2>2, <1>6, BesideIsJSON
<1>10. IsJSON(d) /\ d[<<>>] = Object /\ DOMAIN d = DOMAIN u1 \union DOMAIN right
  <2>1. ASSUME NEW k \in DOMAIN open PROVE Append(Service, k) \notin DOMAIN right
    <3>1. k \in Keys BY <1>3
    <3>2. Append(Service, k) \notin DOMAIN rest BY <3>1, <1>1, <1>2, <1>5
    <3>3. 3 = Len(Service) + 1 /\ 3 <= Len(Service) + 1 /\ 3 \in 1..Len(Annotations) BY <1>2
    <3>4. Append(Service, k)[3] = k BY <3>1, <3>3, <1>1, Child
    <3>5. Append(Service, k)[3] # Annotations[3] BY <3>4, <1>2, <1>3
    <3>6. Append(Service, k) \notin DOMAIN u2
      BY <3>1, <3>3, <3>5, <1>1, <1>3, Elsewhere
    <3> QED BY <3>2, <3>6, <1>9
  <2>2. Service \in Seq(Keys) /\ DOMAIN open \subseteq Keys BY <1>1, <1>3
  <2> HIDE DEF right
  <2> QED BY <2>1, <2>2, <1>9, BesideIsJSON
<1>11. p \in DOMAIN d /\ d[p] = Text(e.host)
  <2>1. right[p] = u2[p] /\ p \in DOMAIN right
    <3> HIDE DEF u2
    <3> QED BY <1>7, BesideNodes
  <2> HIDE DEF u1, right, u2
  <2>2. p \in DOMAIN right \ DOMAIN u1 BY <2>1, <1>8
  <2>3. \A q \in DOMAIN right \ DOMAIN u1 : d[q] = right[q] BY BesideNodes
  <2> QED BY <2>1, <2>2, <2>3, <1>7, <1>10
<1>12. Speaks(d, {"server", "configs"})
  <2>1. Service # <<>> /\ Annotations # <<>> BY <1>2
  <2>2. Speaks(u1, {"server"}) /\ Speaks(u2, {"server"}) BY <2>1, <1>1, <1>2, <1>3, UnderTop
  <2> HIDE DEF u1, u2
  <2>3. Speaks(right, {"server"} \union {"server", "configs"}) BY <2>2, <1>6, BesideTops
  <2>4. {"server"} \union {"server", "configs"} = {"server", "configs"} OBVIOUS
  <2>5. Speaks(right, {"server", "configs"}) BY <2>3, <2>4
  <2> HIDE DEF right
  <2>6. Speaks(d, {"server"} \union {"server", "configs"}) BY <2>2, <2>5, BesideTops
  <2> QED BY <2>4, <2>6
<1>13. ASSUME NEW k \in Keys PROVE Append(TrustedHosts, k) \notin DOMAIN d
  <2>1. Append(TrustedHosts, k) \notin DOMAIN rest BY <1>1, <1>2, <1>5
  <2>2. Append(TrustedHosts, k)[1] = "configs" BY <1>1, <1>2, Child
  <2>3. 1 <= Len(TrustedHosts) + 1 /\ 1 \in 1..Len(Service) /\ 1 \in 1..Len(Annotations) BY <1>2
  <2>4. Append(TrustedHosts, k) \notin DOMAIN u1 BY <2>2, <2>3, <1>1, <1>2, <1>3, Elsewhere
  <2>5. Append(TrustedHosts, k) \notin DOMAIN u2 BY <2>2, <2>3, <1>1, <1>2, <1>3, Elsewhere
  <2> QED BY <2>1, <2>4, <2>5, <1>9, <1>10
<1> HIDE DEF d
<1> QED BY <1>4, <1>10, <1>11, <1>12, <1>13 DEF p

\* The CA bundle's fragment is JSON about the trusted hosts, and has each of them.
LEMMA CABundleFragment ==
  ASSUME NEW b
  PROVE  LET d == caBundleFragment(b) IN
         /\ IsJSON(d) /\ d[<<>>] = Object /\ Speaks(d, {"configs"})
         /\ certHostnames(b) \subseteq HostKeys
         /\ \A h \in certHostnames(b) :
              Append(TrustedHosts, h) \in DOMAIN d /\ d[Append(TrustedHosts, h)] = Text(<<"bundle">>)
         /\ \A k \in Keys : Append(TrustedHosts, k) \in DOMAIN d => k \in certHostnames(b)
<1> DEFINE hosts == certHostnames(b)
           fields == [h \in hosts |-> Text(<<"bundle">>)]
           d == Under(TrustedHosts, fields)
<1>1. hosts \subseteq HostKeys
  <2>1. collectDNSHosts(b) \subseteq HostKeys BY DEF collectDNSHosts
  <2>2. hosts = collectDNSHosts(b) \/ hosts = {b[Leading(b)].cn} \intersect HostKeys
    BY DEF certHostnames
  <2> QED BY <2>1, <2>2
<1>2. /\ TrustedHosts \in Seq(Keys) /\ Len(TrustedHosts) = 3 /\ TrustedHosts # <<>>
      /\ TrustedHosts[1] = "configs"
  BY KeysAssumption DEF TrustedHosts
<1>3. DOMAIN fields = hosts /\ \A h \in hosts : fields[h] = Text(<<"bundle">>) OBVIOUS
<1>4. d = caBundleFragment(b) BY DEF caBundleFragment
<1> HIDE DEF hosts, fields
<1>5. DOMAIN fields \subseteq Keys BY <1>1, <1>3, KeysAssumption
<1>6. IsJSON(d) /\ d[<<>>] = Object /\ Speaks(d, {"configs"})
  BY <1>2, <1>5, UnderIsJSON, UnderNodes, UnderTop
<1>7. ASSUME NEW h \in hosts
      PROVE  Append(TrustedHosts, h) \in DOMAIN d /\ d[Append(TrustedHosts, h)] = Text(<<"bundle">>)
  <2>1. h \in DOMAIN fields /\ fields[h] = Text(<<"bundle">>) BY <1>3
  <2>2. d[Append(TrustedHosts, h)] = fields[h] BY <2>1, <1>2, <1>5, UnderNodes
  <2>3. Append(TrustedHosts, h) \in DOMAIN d BY <2>1, <1>2, <1>5, UnderNodes
  <2> QED BY <2>1, <2>2, <2>3
<1>8. ASSUME NEW k \in Keys, Append(TrustedHosts, k) \in DOMAIN d PROVE k \in hosts
  <2> DEFINE q == Append(TrustedHosts, k)
  <2>1. Len(q) = Len(TrustedHosts) + 1 /\ q[Len(TrustedHosts) + 1] = k BY <1>2, Child
  <2>2. q \in DOMAIN d BY <1>8
  <2> HIDE DEF q
  <2>3. PICK h \in DOMAIN fields : q = Append(TrustedHosts, h)
    <3>1. ~(Len(q) <= Len(TrustedHosts)) BY <1>2, <2>1
    <3> QED BY <2>2, <3>1, <1>2, <1>5, UnderNodes
  <2>4. h \in Keys BY <1>5
  <2>5. q[Len(TrustedHosts) + 1] = h BY <2>3, <2>4, <1>2, Child
  <2> QED BY <2>1, <2>5, <1>2, <1>3
<1> HIDE DEF d
<1> QED BY <1>1, <1>4, <1>6, <1>7, <1>8 DEF hosts

-----------------------------------------------------------------------------
(* The layers. *)

\* What m is when v comes over d.
Over(d, v, m) ==
  /\ IsJSON(m) /\ m[<<>>] = Object
  /\ Leaves(m) = Leaves(v) \union {l \in Leaves(d) : ~SpeaksAbout(v, l[1])}
  /\ \A p \in DOMAIN v : p \in DOMAIN m /\ m[p] = v[p]
  /\ \A p \in DOMAIN d : ~SpeaksAbout(v, p) => p \in DOMAIN m /\ m[p] = d[p]
  /\ \A p \in DOMAIN m : p \in DOMAIN d \/ p \in DOMAIN v

LEMMA MergedOver ==
  ASSUME NEW d, IsJSON(d), NEW v, IsJSON(v), v[<<>>] = Object
  PROVE  Over(d, v, deepMerge(d, v))
<1>1. IsJSON(deepMerge(d, v)) BY MergedIsJSON
<1>2. deepMerge(d, v)[<<>>] = Object BY Merged DEF IsJSON
<1>3. \A p \in DOMAIN d : ~SpeaksAbout(v, p) => p \in DOMAIN deepMerge(d, v) /\ deepMerge(d, v)[p] = d[p]
  BY Survives
<1>4. Leaves(deepMerge(d, v)) = Leaves(v) \union {l \in Leaves(d) : ~SpeaksAbout(v, l[1])}
  BY MergedLeaves
<1>5. /\ \A p \in DOMAIN v : p \in DOMAIN deepMerge(d, v) /\ deepMerge(d, v)[p] = v[p]
      /\ \A p \in DOMAIN deepMerge(d, v) : p \in DOMAIN d \/ p \in DOMAIN v
  BY Merged
<1> QED BY <1>1, <1>2, <1>3, <1>4, <1>5 DEF Over

\* A layer that is left out says nothing.
LEMMA NothingOver ==
  ASSUME NEW d, IsJSON(d), d[<<>>] = Object
  PROVE  Over(d, EmptyObject, d)
<1>1. <<>> \in DOMAIN d BY DEF IsJSON
<1>2. Leaves(EmptyObject) = {} BY EmptyIsJSON DEF Leaves
<1>3. ASSUME NEW l \in Leaves(d) PROVE ~SpeaksAbout(EmptyObject, l[1])
  <2>1. PICK p \in DOMAIN d : d[p] # Object /\ l = <<p, d[p]>> BY <1>3 DEF Leaves
  <2>2. p # <<>> BY <2>1
  <2> QED BY <2>1, <2>2, EmptyIsJSON DEF SpeaksAbout
<1>4. Leaves(d) = Leaves(EmptyObject) \union {l \in Leaves(d) : ~SpeaksAbout(EmptyObject, l[1])}
  BY <1>2, <1>3
<1> QED BY <1>1, <1>4, EmptyIsJSON DEF Over

\* The layers of a rendering, as in Layers.
VaultLayer(f, vault, version) ==
  IF vault = None THEN EmptyObject
  ELSE vaultPluginFragment(vault, globalImageRepository(f), version)
ExposureLayer(e) == IF e = None THEN EmptyObject ELSE exposureFragment(e)
BundleLayer(b)   == IF b = None THEN EmptyObject ELSE caBundleFragment(b)

\* The values are built one layer over the other.
LEMMA Built ==
  ASSUME NEW base, base = None \/ IsJSON(base), Decodable(base),
         NEW vault, NEW e, NEW b, NEW version
  PROVE  LET f == Decoded(base) IN
         \E w, x : /\ Over(f, VaultLayer(f, vault, version), w)
                  /\ Over(w, ExposureLayer(e), x)
                  /\ Over(x, BundleLayer(b), buildValues(base, vault, e, b, version))
<1> DEFINE f == Decoded(base)
           l2 == vaultPluginFragment(vault, globalImageRepository(f), version)
           l3 == exposureFragment(e)
           l4 == caBundleFragment(b)
           w == IF vault = None THEN f ELSE deepMerge(f, l2)
           x == IF e = None THEN w ELSE deepMerge(w, l3)
           v == IF b = None THEN x ELSE deepMerge(x, l4)
<1>1. v = buildValues(base, vault, e, b, version) BY DEF buildValues, mergeFragments
<1>2. IsJSON(f) /\ f[<<>>] = Object BY EmptyIsJSON DEF Decodable, Decoded
<1>3. /\ IsJSON(l2) /\ l2[<<>>] = Object /\ IsJSON(l3) /\ l3[<<>>] = Object
      /\ IsJSON(l4) /\ l4[<<>>] = Object
  BY VaultFragment, ExposureFragment, CABundleFragment
<1> HIDE DEF f
<1>4. Over(f, VaultLayer(f, vault, version), w)
  BY <1>2, <1>3, MergedOver, NothingOver DEF VaultLayer
<1>5. IsJSON(w) /\ w[<<>>] = Object BY <1>4 DEF Over
<1> HIDE DEF w, l2
<1>6. Over(w, ExposureLayer(e), x) BY <1>3, <1>5, MergedOver, NothingOver DEF ExposureLayer
<1>7. IsJSON(x) /\ x[<<>>] = Object BY <1>6 DEF Over
<1> HIDE DEF x, l3
<1>8. Over(x, BundleLayer(b), v) BY <1>3, <1>7, MergedOver, NothingOver DEF BundleLayer
<1> HIDE DEF v, l4
<1> QED BY <1>1, <1>4, <1>6, <1>8 DEF f

\* Four layers, spelt out.
LEMMA FourLayers ==
  ASSUME NEW a, NEW b, NEW c, NEW d
  PROVE  Layered(<<a, b, c, d>>) =
           Leaves(d) \union
           {l \in Leaves(c) \union
                   {m \in Leaves(b) \union {n \in Leaves(a) : ~SpeaksAbout(b, n[1])} :
                      ~SpeaksAbout(c, m[1])} : ~SpeaksAbout(d, l[1])}
<1> DEFINE layers == <<a, b, c, d>>
           heard(i) == {l \in Leaves(layers[i]) :
                          \A j \in (i + 1)..4 : ~SpeaksAbout(layers[j], l[1])}
<1>1. Len(layers) = 4 /\ layers[1] = a /\ layers[2] = b /\ layers[3] = c /\ layers[4] = d OBVIOUS
<1>2. Layered(layers) = UNION {heard(i) : i \in 1..4} BY <1>1 DEF Layered
<1> HIDE DEF layers
<1>3. heard(4) = Leaves(d) BY <1>1
<1>4. heard(3) = {l \in Leaves(c) : ~SpeaksAbout(d, l[1])}
  <2>1. \A j \in 4..4 : j = 4 OBVIOUS
  <2> QED BY <1>1, <2>1
<1>5. heard(2) = {l \in Leaves(b) : ~SpeaksAbout(c, l[1]) /\ ~SpeaksAbout(d, l[1])}
  <2>1. \A j : j \in 3..4 <=> j = 3 \/ j = 4 OBVIOUS
  <2> QED BY <1>1, <2>1
<1>6. heard(1) = {l \in Leaves(a) : ~SpeaksAbout(b, l[1]) /\ ~SpeaksAbout(c, l[1]) /\ ~SpeaksAbout(d, l[1])}
  <2>1. \A j : j \in 2..4 <=> j = 2 \/ j = 3 \/ j = 4 OBVIOUS
  <2> QED BY <1>1, <2>1
<1> HIDE DEF heard
<1>7. UNION {heard(i) : i \in 1..4} = heard(1) \union heard(2) \union heard(3) \union heard(4)
  <2>1. \A i : i \in 1..4 <=> i = 1 \/ i = 2 \/ i = 3 \/ i = 4 OBVIOUS
  <2> QED BY <2>1
<1> QED BY <1>2, <1>3, <1>4, <1>5, <1>6, <1>7 DEF layers

-----------------------------------------------------------------------------
(* The exposure host. *)

\* The address's port, if any, is recognised as one.
Parsed(a) == a.scheme \/ ~a.port

\* Trimming a trailing dot keeps the labels before it.
LEMMA TrimmedName ==
  ASSUME NEW S, NEW host \in Seq(S), host # <<>>
  PROVE  Trimmed(host) \in Seq(S) /\ Len(Trimmed(host)) >= 1
<1>1. CASE Len(host) > 1
  <2> DEFINE short == SubSeq(host, 1, Len(host) - 1)
  <2>1. Len(host) - 1 \in Int /\ \A i \in 1..(Len(host) - 1) : host[i] \in S BY <1>1
  <2>2. short \in Seq(S) /\ Len(short) >= 1 BY <1>1, <2>1, SubSeqProperties
  <2>3. Trimmed(host) = short \/ Trimmed(host) = host BY DEF Trimmed
  <2> QED BY <1>1, <2>2, <2>3
<1>2. CASE ~(Len(host) > 1)
  <2>1. Trimmed(host) = host BY <1>2 DEF Trimmed
  <2>2. Len(host) >= 1 BY EmptySeq
  <2> QED BY <2>1, <2>2
<1> QED BY <1>1, <1>2

\* What is left of an address without its first label is a name of its own.
LEMMA RootDomain ==
  ASSUME NEW S, NEW a, Hostname(a) \in Seq(S), Derivable(a)
  PROVE  deriveRootDomain(a) \in Seq(S) /\ Len(deriveRootDomain(a)) >= 2
<1>1. Len(Hostname(a)) >= 3 BY DEF Derivable
<1>2. Hostname(a) # <<>> BY <1>1
<1> QED BY <1>1, <1>2, HeadTailProperties DEF deriveRootDomain

\* A composed host is never a bare label.
LEMMA ComposedName ==
  ASSUME NEW S, NEW host \in Seq(S), host # <<>>, NEW a, Derivable(a) => Hostname(a) \in Seq(S),
         Composable(host, a)
  PROVE  composeHost(host, a) \in Seq(S) /\ Len(composeHost(host, a)) >= 2
<1>1. Trimmed(host) \in Seq(S) /\ Len(Trimmed(host)) >= 1 BY TrimmedName
<1>2. CASE Len(Trimmed(host)) > 1 BY <1>1, <1>2 DEF composeHost
<1>3. CASE ~(Len(Trimmed(host)) > 1)
  <2> DEFINE root == deriveRootDomain(a)
  <2>1. Derivable(a) BY <1>3 DEF Composable
  <2>2. root \in Seq(S) /\ Len(root) >= 2 BY <2>1, RootDomain
  <2>3. Trimmed(host) \o root \in Seq(S) /\ Len(Trimmed(host) \o root) = Len(Trimmed(host)) + Len(root)
    BY <1>1, <2>2, ConcatProperties
  <2>4. Len(Trimmed(host) \o root) >= 2 BY <1>1, <2>2, <2>3
  <2> QED BY <1>3, <2>3, <2>4 DEF composeHost
<1> QED BY <1>2, <1>3

\* A request that validateExposure lets through is rendered under the very name
\* that was checked: resolveExposure never falls back to the bare label, the
\* resolved name is fully qualified and within the 253 characters of DNS, and all
\* its labels are well-formed unless the address hides a port in its last one.
THEOREM ExposedAsValidated ==
  ASSUME NEW host \in Names, NEW cidrs, NEW a \in Addresses,
         validateExposure(host, cidrs, a)
  PROVE  LET resolved == ResolvedHost(host, a) IN
         /\ resolved = composeHost(host, a)
         /\ Len(resolved) >= 2 /\ NameLength(resolved) <= 253
         /\ Parsed(a) => hostPattern(resolved)
<1> DEFINE resolved == ResolvedHost(host, a)
<1>1. Composable(host, a) /\ ShortEnough(host, a) /\ hostPattern(host)
  BY DEF validateExposure
<1>2. resolved = composeHost(host, a) BY <1>1 DEF ResolvedHost
<1>3. NameLength(resolved) <= 253 BY <1>1, <1>2 DEF ShortEnough
<1>4. Hostname(a) \in Seq(STRING)
  <2>1. CASE Parsed(a) BY <2>1 DEF Parsed, Hostname, Addresses, Names
  <2>2. CASE ~Parsed(a)
    <3>1. a.labels \in Seq(STRING) \ {<<>>} /\ Ported[a.labels[Len(a.labels)]] \in STRING
      BY <2>2 DEF Parsed, Addresses, Names
    <3>2. Hostname(a) = [a.labels EXCEPT ![Len(a.labels)] = Ported[a.labels[Len(a.labels)]]]
      BY <2>2 DEF Parsed, Hostname
    <3>3. Len(a.labels) \in 1..Len(a.labels) BY <3>1, EmptySeq
    <3> QED BY <3>1, <3>2, <3>3, ExceptSeq
  <2> QED BY <2>1, <2>2
<1>5. Len(resolved) >= 2 BY <1>1, <1>2, <1>4, ComposedName DEF Names
<1>6. ASSUME Parsed(a) PROVE hostPattern(resolved)
  <2>1. ASSUME Derivable(a) PROVE Hostname(a) \in Seq(WellFormed)
    <3>1. Hostname(a) = a.labels BY <1>6 DEF Parsed, Hostname
    <3>2. a.labels \in Seq(STRING) /\ \A i \in 1..Len(a.labels) : a.labels[i] \in WellFormed
      BY <2>1 DEF Derivable, Addresses, Names
    <3> QED BY <3>1, <3>2
  <2>2. host \in Seq(WellFormed) BY <1>1 DEF hostPattern, Names
  <2>3. resolved \in Seq(WellFormed) BY <1>1, <1>2, <2>1, <2>2, ComposedName DEF Names
  <2> QED BY <2>3 DEF hostPattern
<1> QED BY <1>2, <1>3, <1>5, <1>6

-----------------------------------------------------------------------------
(* The selected version. *)

\* What is selected is an offered entry of that name.
LEMMA FirstOffered ==
  ASSUME NEW cfg, Len(cfg.versions) \in Nat, NEW v, Offers(cfg, v)
  PROVE  \E n \in 1..Len(cfg.versions) :
           SelectVersion(cfg, v) = cfg.versions[n] /\ cfg.versions[n].version = v
<1> DEFINE named == {n \in 1..Len(cfg.versions) : cfg.versions[n].version = v}
           less == OpToRel(<, Nat)
<1>1. IsWellFoundedOn(less, Nat) BY NatLessThanWellFounded
<1>2. \A i, j \in Nat : <<i, j>> \in less <=> i < j BY DEF OpToRel
<1>3. named \subseteq Nat /\ named # {} BY DEF Offers
<1> HIDE DEF less
<1>4. PICK n \in named : \A m \in named : ~(<<m, n>> \in less)
  <2> HIDE DEF named
  <2>1. \E n \in Nat : n \in named BY <1>3
  <2>2. PICK n \in named : \A m \in Nat : m \in named => <<m, n>> \notin less
    BY <1>1, <1>3, <2>1, WFMin
  <2> QED BY <2>2, <1>3
<1>5. ASSUME NEW j \in 1..(n - 1) PROVE cfg.versions[j].version # v
  <2>1. n \in Nat /\ n \in 1..Len(cfg.versions) BY <1>4
  <2>2. j \in Nat /\ j \in 1..Len(cfg.versions) /\ j < n BY <2>1
  <2>3. <<j, n>> \in less BY <2>1, <2>2, <1>2
  <2> QED BY <2>2, <2>3, <1>4
<1>6. \E i \in 1..Len(cfg.versions) :
        cfg.versions[i].version = v /\ \A j \in 1..(i - 1) : cfg.versions[j].version # v
  BY <1>5
<1> QED BY <1>6 DEF SelectVersion

-----------------------------------------------------------------------------
(* The inductive invariant. *)

\* The inputs stay those of an admitted ProviderConfig.
Chosen ==
  \E i \in Inputs : /\ Admitted(i.config)
                  /\ request = i.request /\ config = i.config
                  /\ bundle = i.bundle /\ address = i.address

\* Past the selection there is an entry, and it is one of the ProviderConfig's.
Selected ==
  /\ entry # None => \E n \in 1..Len(config.versions) : entry = config.versions[n]
  /\ stage \in {"selected", "admitted", "copied", "rendered"} =>
       \E n \in 1..Len(config.versions) : entry = config.versions[n]

\* What is exposed is what was validated.
Validated ==
  exposure # None =>
    /\ request.host # None /\ exposure = resolveExposure
    /\ validateExposure(request.host, request.cidrs, address)

\* What is rendered was renderable.
Faithful ==
  Rendered =>
    /\ Renderable(entry.values, VaultValues, bundle, request.version)
    /\ values = buildValues(entry.values, VaultValues, exposure, bundle, request.version)

\* What was copied are the pull secrets the operator lists.
Copied ==
  stage \in {"copied", "rendered"} =>
    PullSecretsDecodable(entry.values) /\ pulls = ImagePullSecretNames(entry.values)

Stages == {"requested", "selected", "admitted", "copied", "rendered",
           "InvalidVersion", "InvalidExposure", "InstallFailed"}

IInv ==
  stage \in Stages /\ IsJSON(values) /\ Chosen /\ Selected /\ Validated /\ Copied /\ Faithful

\* The values of an entry that was selected.
LEMMA EntryValues ==
  ASSUME Chosen, \E n \in 1..Len(config.versions) : entry = config.versions[n]
  PROVE  entry.values = None \/ IsJSON(entry.values)
BY InputsAssumption DEF Chosen

LEMMA IInvInit == Init => IInv
<1> SUFFICES ASSUME Init PROVE IInv OBVIOUS
<1>1. Chosen BY DEF Init, Chosen
<1>2. /\ stage = "requested" /\ entry = None /\ exposure = None /\ values = EmptyObject BY DEF Init
<1> QED BY <1>1, <1>2, EmptyIsJSON DEF IInv, Stages, Selected, Validated, Copied, Faithful, Rendered

LEMMA IInvStep == IInv /\ [Next]_<<inputs, locals>> => IInv'
<1> SUFFICES ASSUME IInv, [Next]_<<inputs, locals>> PROVE IInv' OBVIOUS
<1>1. CASE Select
  <2>1. UNCHANGED <<request, config, bundle, address, exposure, values>> BY <1>1 DEF Select, inputs
  <2>2. Chosen' BY <2>1 DEF IInv, Chosen
  <2>3. Validated'
    BY <2>1 DEF IInv, Validated, resolveExposure
  <2>4. stage' \in {"selected", "InvalidVersion"} /\ stage = "requested" BY <1>1 DEF Select
  <2>5. Faithful' BY <2>4 DEF Faithful, Rendered
  <2>6. Selected'
    <3>1. CASE Offers(config, request.version)
      <4>1. entry' = SelectVersion(config, request.version) BY <1>1, <3>1 DEF Select
      <4>2. Len(config.versions) \in Nat BY InputsAssumption DEF IInv, Chosen
      <4>3. \E n \in 1..Len(config.versions) : entry' = config.versions[n]
        BY <3>1, <4>1, <4>2, FirstOffered
      <4> QED BY <4>3, <2>1 DEF Selected
    <3>2. CASE ~Offers(config, request.version)
      <4>1. entry' = entry /\ stage' = "InvalidVersion" BY <1>1, <3>2 DEF Select
      <4> QED BY <4>1, <2>1 DEF IInv, Selected
    <3> QED BY <3>1, <3>2
  <2>7. IsJSON(values)' BY <2>1 DEF IInv
  <2>8. Copied' BY <2>4 DEF Copied
  <2> QED BY <2>2, <2>3, <2>4, <2>5, <2>6, <2>7, <2>8 DEF IInv, Stages
<1>2. CASE Validate
  <2>1. UNCHANGED <<request, config, bundle, address, entry, values>> BY <1>2 DEF Validate, inputs
  <2>2. Chosen' BY <2>1 DEF IInv, Chosen
  <2>3. stage' \in {"admitted", "InvalidExposure"} /\ stage = "selected" BY <1>2 DEF Validate
  <2>4. Faithful' BY <2>3 DEF Faithful, Rendered
  <2>5. Selected' BY <2>1, <2>3 DEF IInv, Selected
  <2>6. Validated'
    <3>1. CASE request.host = None \/ validateExposure(request.host, request.cidrs, address)
      <4>1. exposure' = resolveExposure BY <1>2, <3>1 DEF Validate
      <4>2. (resolveExposure)' = resolveExposure BY <2>1 DEF resolveExposure
      <4>3. ASSUME exposure' # None PROVE request.host # None BY <4>1, <4>3 DEF resolveExposure
      <4> QED BY <3>1, <4>1, <4>2, <4>3, <2>1 DEF Validated
    <3>2. CASE ~(request.host = None \/ validateExposure(request.host, request.cidrs, address))
      <4>1. exposure' = exposure BY <1>2, <3>2 DEF Validate
      <4> QED BY <4>1, <2>1 DEF IInv, Validated, resolveExposure
    <3> QED BY <3>1, <3>2
  <2>7. IsJSON(values)' BY <2>1 DEF IInv
  <2>8. Copied' BY <2>3 DEF Copied
  <2> QED BY <2>2, <2>3, <2>4, <2>5, <2>6, <2>7, <2>8 DEF IInv, Stages
<1>3. CASE reconcileImagePullSecrets
  <2>1. UNCHANGED <<request, config, bundle, address, entry, exposure, values>>
    BY <1>3 DEF reconcileImagePullSecrets, inputs
  <2>2. Chosen' BY <2>1 DEF IInv, Chosen
  <2>3. stage' \in {"copied", "InstallFailed"} /\ stage = "admitted"
    BY <1>3 DEF reconcileImagePullSecrets
  <2>4. Faithful' BY <2>3 DEF Faithful, Rendered
  <2>5. Selected' BY <2>1, <2>3 DEF IInv, Selected
  <2>6. Validated' BY <2>1 DEF IInv, Validated, resolveExposure
  <2>7. IsJSON(values)' BY <2>1 DEF IInv
  <2>8. Copied'
    BY <1>3, <2>1 DEF reconcileImagePullSecrets, Copied
  <2> QED BY <2>2, <2>3, <2>4, <2>5, <2>6, <2>7, <2>8 DEF IInv, Stages
<1>4. CASE applyHelmRelease
  <2>1. UNCHANGED <<request, config, bundle, address, entry, exposure>>
    BY <1>4 DEF applyHelmRelease, inputs
  <2>2. Chosen' BY <2>1 DEF IInv, Chosen
  <2>3. stage' \in {"rendered", "InstallFailed"} /\ stage = "copied" BY <1>4 DEF applyHelmRelease
  <2>4. Selected' BY <2>1, <2>3 DEF IInv, Selected
  <2>5. Validated' BY <2>1 DEF IInv, Validated, resolveExposure
  <2>6. VaultValues' = VaultValues BY <2>1 DEF VaultValues, resolveVaultPlugin
  <2>7. Faithful' /\ IsJSON(values)'
    <3>1. CASE Renderable(entry.values, VaultValues, bundle, request.version)
      <4> DEFINE built == buildValues(entry.values, VaultValues, exposure, bundle, request.version)
      <4>1. values' = built BY <1>4, <3>1 DEF applyHelmRelease
      <4>2. entry.values = None \/ IsJSON(entry.values)
        BY <2>3, EntryValues DEF IInv, Selected
      <4>3. Decodable(entry.values) BY <3>1 DEF Renderable
      <4>4. IsJSON(built) BY <4>2, <4>3, Built DEF Over
      <4> HIDE DEF built
      <4>5. IsJSON(values)' BY <4>1, <4>4
      <4>6. Faithful' BY <3>1, <4>1, <2>1, <2>6 DEF Faithful, built
      <4> QED BY <4>5, <4>6
    <3>2. CASE ~Renderable(entry.values, VaultValues, bundle, request.version)
      <4>1. stage' = "InstallFailed" /\ values' = values BY <1>4, <3>2 DEF applyHelmRelease
      <4> QED BY <4>1 DEF IInv, Faithful, Rendered
    <3> QED BY <3>1, <3>2
  <2>8. Copied' BY <1>4, <2>1, <2>3 DEF applyHelmRelease, IInv, Copied
  <2> QED BY <2>2, <2>3, <2>4, <2>5, <2>7, <2>8 DEF IInv, Stages
<1>5. CASE UNCHANGED <<inputs, locals>>
  BY <1>5 DEF inputs, locals, IInv, Chosen, Selected, Validated, Copied, Faithful, Rendered,
              VaultValues, resolveVaultPlugin, resolveExposure
<1> QED BY <1>1, <1>2, <1>3, <1>4, <1>5 DEF Next

LEMMA Inductive == Spec => []IInv
<1>1. Init => IInv BY IInvInit
<1>2. IInv /\ [Next]_<<inputs, locals>> => IInv' BY IInvStep
<1> QED BY <1>1, <1>2, PTL DEF Spec

-----------------------------------------------------------------------------
\* The host that is exposed.
LEMMA ExposedHost ==
  ASSUME IInv, exposure # None
  PROVE  /\ exposure.host = ResolvedHost(request.host, address)
         /\ exposure.class = ExposurePolicy(config)
         /\ Len(exposure.host) >= 2 /\ NameLength(exposure.host) <= 253
         /\ Parsed(address) => hostPattern(exposure.host)
<1>1. /\ request.host # None /\ exposure = resolveExposure
      /\ validateExposure(request.host, request.cidrs, address)
  BY DEF IInv, Validated
<1>2. exposure.host = ResolvedHost(request.host, address) /\ exposure.class = ExposurePolicy(config)
  BY <1>1 DEF resolveExposure
<1>3. request.host \in Names /\ address \in Addresses
  BY <1>1, InputsAssumption DEF IInv, Chosen
<1> QED BY <1>1, <1>2, <1>3, ExposedAsValidated

LEMMA TypedRendering ==
  ASSUME IInv PROVE TypeOK
<1>1. ASSUME exposure # None PROVE Len(exposure.host) >= 2 /\ exposure.class # ""
  <2>1. Len(exposure.host) >= 2 /\ exposure.class = ExposurePolicy(config) BY <1>1, ExposedHost
  <2>2. ExposurePolicy(config) # "" BY DEF ExposurePolicy
  <2> QED BY <2>1, <2>2
<1> QED BY <1>1 DEF IInv, TypeOK, Stages, Selected

\* Every state of a rendering is of its kind, whatever tenant and operator write:
\* a version that is selected is one of the ProviderConfig's, an exposed host has
\* at least two labels and a DNS class, and the values are a JSON document, with
\* nothing below anything that is no object (TypeOK).
THEOREM RenderingTypeOK == Spec => []TypeOK
<1>1. IInv => TypeOK BY TypedRendering
<1> QED BY <1>1, Inductive, PTL

\* The values of a rendering are its layers, one over the other.
LEMMA RenderedLayers ==
  ASSUME IInv, Rendered
  PROVE  LET f == Decoded(entry.values) IN
         \E w, x : /\ Over(f, VaultLayer(f, VaultValues, request.version), w)
                  /\ Over(w, ExposureLayer(exposure), x)
                  /\ Over(x, BundleLayer(bundle), values)
<1>1. /\ Renderable(entry.values, VaultValues, bundle, request.version)
      /\ values = buildValues(entry.values, VaultValues, exposure, bundle, request.version)
  BY DEF IInv, Faithful
<1>2. entry.values = None \/ IsJSON(entry.values)
  BY EntryValues DEF IInv, Selected, Rendered
<1>3. Decodable(entry.values) BY <1>1 DEF Renderable
<1> QED BY <1>1, <1>2, <1>3, Built

LEMMA LayeredRendering ==
  ASSUME IInv PROVE LayersAgree
<1> SUFFICES ASSUME Rendered PROVE Leaves(values) = Layered(Layers) BY DEF LayersAgree
<1> DEFINE f == Decoded(entry.values)
           l2 == VaultLayer(f, VaultValues, request.version)
           l3 == ExposureLayer(exposure)
           l4 == BundleLayer(bundle)
<1>1. Layers = <<f, l2, l3, l4>> BY DEF Layers, VaultLayer, ExposureLayer, BundleLayer
<1>2. PICK w, x : Over(f, l2, w) /\ Over(w, l3, x) /\ Over(x, l4, values) BY RenderedLayers
<1> HIDE DEF f, l2, l3, l4
<1>3. Leaves(w) = Leaves(l2) \union {n \in Leaves(f) : ~SpeaksAbout(l2, n[1])} BY <1>2 DEF Over
<1>4. Leaves(x) = Leaves(l3) \union {m \in Leaves(w) : ~SpeaksAbout(l3, m[1])} BY <1>2 DEF Over
<1>5. Leaves(values) = Leaves(l4) \union {l \in Leaves(x) : ~SpeaksAbout(l4, l[1])}
  BY <1>2 DEF Over
<1>6. Layered(<<f, l2, l3, l4>>) =
        Leaves(l4) \union
        {l \in Leaves(l3) \union
                {m \in Leaves(l2) \union {n \in Leaves(f) : ~SpeaksAbout(l2, n[1])} :
                   ~SpeaksAbout(l3, m[1])} : ~SpeaksAbout(l4, l[1])}
  BY FourLayers
<1> QED BY <1>1, <1>3, <1>4, <1>5, <1>6

\* Whatever the operator's values, the versions and the bundle are, the rendered
\* values have exactly the leaves that the documented order of the layers gives
\* them: deepMerge loses nothing beside a fragment and nothing of a fragment
\* (buildValues, LayersAgree).
THEOREM LayersAsDocumented == Spec => []LayersAgree
<1>1. IInv => LayersAgree BY LayeredRendering
<1> QED BY <1>1, Inductive, PTL

\* Layers that leave a path alone.
LEMMA EmptySilent ==
  ASSUME NEW p \in Seq(Keys), p # <<>>
  PROVE  ~SpeaksAbout(EmptyObject, p)
<1>1. p \notin DOMAIN EmptyObject BY EmptyIsJSON
<1>2. \A q \in DOMAIN EmptyObject : EmptyObject[q] = Object BY EmptyIsJSON
<1> QED BY <1>1, <1>2 DEF SpeaksAbout

LEMMA ExposureSilent ==
  ASSUME NEW e, NEW p \in Seq(Keys), p # <<>>, p[1] \notin {"server", "configs"}
  PROVE  ~SpeaksAbout(ExposureLayer(e), p)
<1>1. CASE e = None BY <1>1, EmptySilent DEF ExposureLayer
<1>2. CASE e # None BY <1>2, ExposureFragment, Silent DEF ExposureLayer
<1> QED BY <1>1, <1>2

LEMMA BundleSilent ==
  ASSUME NEW b, NEW p \in Seq(Keys), p # <<>>, p[1] # "configs"
  PROVE  ~SpeaksAbout(BundleLayer(b), p)
<1>1. CASE b = None BY <1>1, EmptySilent DEF BundleLayer
<1>2. CASE b # None
  <2>1. p[1] \notin {"configs"} OBVIOUS
  <2> QED BY <1>2, <2>1, CABundleFragment, Silent DEF BundleLayer
<1> QED BY <1>1, <1>2

LEMMA CompleteRendering ==
  ASSUME IInv PROVE VaultImageComplete
<1> SUFFICES ASSUME Rendered, VaultValues # None, NEW i \in 1..2
             PROVE  values[Append(RepoServer, "initContainers")].content[i] # ""
  BY DEF VaultImageComplete
<1> DEFINE f == Decoded(entry.values)
           l2 == VaultLayer(f, VaultValues, request.version)
           p == Append(RepoServer, "initContainers")
<1>0. i = 1 \/ i = 2 OBVIOUS
<1>1. PICK w, x : Over(f, l2, w) /\ Over(w, ExposureLayer(exposure), x)
                  /\ Over(x, BundleLayer(bundle), values)
  BY RenderedLayers
<1>2. /\ p \in DOMAIN l2
      /\ l2[p] = IF VaultValues.openSource THEN Leaf(<<"alpine", "3.17">>)
                 ELSE Leaf(<<VaultValues.registry, VaultValues.tag>>)
  BY VaultFragment DEF VaultLayer
<1>3. p \in Seq(Keys) /\ p # <<>> /\ p[1] = "repoServer" BY KeysAssumption DEF RepoServer
<1> HIDE DEF p, f, l2
<1>4. p \in DOMAIN w /\ w[p] = l2[p] BY <1>1, <1>2 DEF Over
<1>5. p \in DOMAIN x /\ x[p] = l2[p]
  <2>1. ~SpeaksAbout(ExposureLayer(exposure), p) BY <1>3, ExposureSilent
  <2> QED BY <2>1, <1>1, <1>4 DEF Over
<1>6. values[p] = l2[p]
  <2>1. ~SpeaksAbout(BundleLayer(bundle), p) BY <1>3, BundleSilent
  <2> QED BY <2>1, <1>1, <1>5 DEF Over
<1>7. /\ config.vault # None /\ config.vault.enabled
      /\ VaultValues = [openSource |-> config.openSource, registry |-> config.vault.registry,
                        tag |-> config.vault.tag]
  BY DEF VaultValues, resolveVaultPlugin
<1>8. Admitted(config) BY DEF IInv, Chosen
<1>9. CASE config.openSource
  <2>1. l2[p] = Leaf(<<"alpine", "3.17">>) BY <1>2, <1>7, <1>9
  <2>2. l2[p].content = <<"alpine", "3.17">> BY <2>1 DEF Leaf
  <2>3. <<"alpine", "3.17">>[1] # "" /\ <<"alpine", "3.17">>[2] # "" OBVIOUS
  <2> QED BY <2>2, <2>3, <1>0, <1>6 DEF p
<1>10. CASE ~config.openSource
  <2>1. config.vault.registry # "" /\ config.vault.tag # "" BY <1>7, <1>8, <1>10 DEF Admitted
  <2>2. l2[p] = Leaf(<<config.vault.registry, config.vault.tag>>) BY <1>2, <1>7, <1>10
  <2>3. l2[p].content = <<config.vault.registry, config.vault.tag>> BY <2>2 DEF Leaf
  <2>4. ASSUME NEW a, NEW b, a # "", b # "" PROVE <<a, b>>[1] # "" /\ <<a, b>>[2] # "" BY <2>4
  <2>5. l2[p].content[1] # "" /\ l2[p].content[2] # "" BY <2>1, <2>3, <2>4
  <2> QED BY <2>5, <1>0, <1>6 DEF p
<1> QED BY <1>9, <1>10

\* No configuration the API server admits renders the vault plugin's image with
\* an empty registry or tag: no other layer touches it, and the internal bundle is
\* used only where the rule of ProviderConfigSpec asks for both
\* (VaultImageComplete).
THEOREM VaultComplete == Spec => []VaultImageComplete
<1>1. IInv => VaultImageComplete BY CompleteRendering
<1> QED BY <1>1, Inductive, PTL

LEMMA TrustingRendering ==
  ASSUME IInv PROVE TrustsEveryName
<1> SUFFICES ASSUME Rendered, bundle # None
             PROVE  /\ \A i \in Certificates(bundle) : \A h \in bundle[i].names \intersect HostKeys :
                         /\ Append(TrustedHosts, h) \in DOMAIN values
                         /\ values[Append(TrustedHosts, h)] = Text(<<"bundle">>)
                    /\ \A k \in Keys : Append(TrustedHosts, k) \in DOMAIN values =>
                         k \in HostKeys \/ Append(TrustedHosts, k) \in DOMAIN Decoded(entry.values)
  BY DEF TrustsEveryName
<1> DEFINE f == Decoded(entry.values)
           l2 == VaultLayer(f, VaultValues, request.version)
           l3 == ExposureLayer(exposure)
           l4 == BundleLayer(bundle)
<1>1. PICK w, x : Over(f, l2, w) /\ Over(w, l3, x) /\ Over(x, l4, values) BY RenderedLayers
<1>2. l4 = caBundleFragment(bundle) BY DEF BundleLayer
<1>3. ASSUME NEW i \in Certificates(bundle), NEW h \in bundle[i].names \intersect HostKeys
      PROVE  /\ Append(TrustedHosts, h) \in DOMAIN values
             /\ values[Append(TrustedHosts, h)] = Text(<<"bundle">>)
  <2>1. h \in collectDNSHosts(bundle) BY DEF collectDNSHosts
  <2>2. h \in certHostnames(bundle) BY <2>1 DEF certHostnames
  <2>3. Append(TrustedHosts, h) \in DOMAIN l4 /\ l4[Append(TrustedHosts, h)] = Text(<<"bundle">>)
    BY <2>2, <1>2, CABundleFragment
  <2> HIDE DEF l2, l3, l4, f
  <2> QED BY <2>3, <1>1 DEF Over
<1>4. ASSUME NEW k \in Keys, Append(TrustedHosts, k) \in DOMAIN values
      PROVE  k \in HostKeys \/ Append(TrustedHosts, k) \in DOMAIN f
  <2> DEFINE q == Append(TrustedHosts, k)
  <2>1. q # <<>> /\ q[1] = "configs"
    <3>1. TrustedHosts \in Seq(Keys) /\ Len(TrustedHosts) = 3 /\ TrustedHosts[1] = "configs"
      BY KeysAssumption DEF TrustedHosts
    <3>2. Len(q) = Len(TrustedHosts) + 1 BY <3>1, Child
    <3>3. 1 \in 1..Len(TrustedHosts) BY <3>1
    <3>4. q[1] = "configs" BY <3>1, <3>3, Child
    <3>5. Len(q) = 4 BY <3>1, <3>2
    <3> HIDE DEF q
    <3> QED BY <3>4, <3>5
  <2>2. q \in DOMAIN l4 => k \in HostKeys BY <1>2, CABundleFragment
  <2>3. q \notin DOMAIN l3
    <3>1. CASE exposure = None BY <2>1, <3>1, EmptyIsJSON DEF ExposureLayer
    <3>2. CASE exposure # None BY <3>2, ExposureFragment DEF ExposureLayer
    <3> QED BY <3>1, <3>2
  <2>4. q \notin DOMAIN l2
    <3>1. CASE VaultValues = None BY <2>1, <3>1, EmptyIsJSON DEF VaultLayer
    <3>2. CASE VaultValues # None
      <4>1. Speaks(l2, {"global", "repoServer", "extraObjects"}) BY <3>2, VaultFragment DEF VaultLayer
      <4> HIDE DEF l2, q
      <4> QED BY <4>1, <2>1 DEF Speaks
    <3> QED BY <3>1, <3>2
  <2>5. q \in DOMAIN values BY <1>4
  <2> HIDE DEF f, l2, l3, l4, q
  <2>6. q \in DOMAIN f \/ q \in DOMAIN l2 \/ q \in DOMAIN l3 \/ q \in DOMAIN l4
    BY <2>5, <1>1 DEF Over
  <2> QED BY <2>2, <2>3, <2>4, <2>6 DEF q
<1> HIDE DEF f
<1> QED BY <1>3, <1>4 DEF f

\* Every name on every certificate of the bundle is trusted under it, over
\* whatever the operator has for that host, and no other name becomes a key of
\* argocd-tls-certs-cm unless she wrote it herself (TrustsEveryName).
THEOREM NamesTrusted == Spec => []TrustsEveryName
<1>1. IInv => TrustsEveryName BY TrustingRendering
<1> QED BY <1>1, Inductive, PTL

\* No apiserver address hides its port from url.Hostname.
AddressesParsed == \A i \in Inputs : Parsed(i.address)

LEMMA QualifiedRendering ==
  ASSUME IInv, AddressesParsed PROVE ExposedUnderFQDN
<1> SUFFICES ASSUME Rendered, exposure # None
             PROVE  LET host == values[Append(Annotations, "dnsnames")].content IN
                    Len(host) >= 2 /\ hostPattern(host) /\ NameLength(host) <= 253
  BY DEF ExposedUnderFQDN
<1> DEFINE p == Append(Annotations, "dnsnames")
<1>1. PICK w, x : Over(w, ExposureLayer(exposure), x) /\ Over(x, BundleLayer(bundle), values)
  BY RenderedLayers
<1>2. p \in DOMAIN ExposureLayer(exposure) /\ ExposureLayer(exposure)[p] = Text(exposure.host)
  BY ExposureFragment DEF ExposureLayer
<1>3. p \in Seq(Keys) /\ p # <<>> /\ p[1] = "server" BY KeysAssumption DEF Annotations
<1> HIDE DEF p
<1>4. p \in DOMAIN x /\ x[p] = Text(exposure.host) BY <1>1, <1>2 DEF Over
<1>5. values[p] = Text(exposure.host)
  <2>1. ~SpeaksAbout(BundleLayer(bundle), p) BY <1>3, BundleSilent
  <2> QED BY <2>1, <1>1, <1>4 DEF Over
<1>6. values[p].content = exposure.host BY <1>5 DEF Text
<1>7. Parsed(address) BY DEF AddressesParsed, IInv, Chosen
<1>8. Len(exposure.host) >= 2 /\ hostPattern(exposure.host) /\ NameLength(exposure.host) <= 253
  BY <1>7, ExposedHost
<1> QED BY <1>6, <1>8 DEF p

\* The host that DNS and certificate are made for is the one that was validated,
\* so it is fully qualified, of well-formed labels and within 253 characters:
\* nothing of the CA bundle or the operator's reaches the annotation, provided
\* that apiserver addresses have a scheme or no port (ExposedUnderFQDN).
THEOREM ExposedQualified ==
  ASSUME AddressesParsed PROVE Spec => []ExposedUnderFQDN
<1>1. IInv => ExposedUnderFQDN BY AddressesParsed, QualifiedRendering
<1> QED BY <1>1, Inductive, PTL

-----------------------------------------------------------------------------
LEMMA PullSecretsRendering ==
  ASSUME IInv, Rendered, VaultValues = None \/ config.openSource
  PROVE  Listed(values) = Listed(Decoded(entry.values))
<1> DEFINE f == Decoded(entry.values)
           l2 == VaultLayer(f, VaultValues, request.version)
           l3 == ExposureLayer(exposure)
           l4 == BundleLayer(bundle)
           p == PullSecretList
<1>1. PICK w, x : Over(f, l2, w) /\ Over(w, l3, x) /\ Over(x, l4, values) BY RenderedLayers
<1>2. p \in Seq(Keys) /\ p # <<>> /\ p[1] = "global" /\ Len(p) = 2
  BY KeysAssumption DEF PullSecretList
<1>3. ~SpeaksAbout(l3, p) BY <1>2, ExposureSilent
<1>4. ~SpeaksAbout(l4, p) BY <1>2, BundleSilent
<1>5. ~SpeaksAbout(l2, p)
  <2>1. CASE VaultValues = None BY <2>1, <1>2, EmptySilent DEF VaultLayer
  <2>2. CASE VaultValues # None
    <3>1. VaultValues.openSource BY <2>2 DEF VaultValues
    <3>2. /\ l2[<<>>] = Object /\ l2[<<"global">>] = Object /\ p \notin DOMAIN l2
          /\ IsJSON(l2)
      BY <2>2, <3>1, VaultFragment DEF VaultLayer
    <3> HIDE DEF l2
    <3>3. ASSUME NEW q \in DOMAIN l2, Above(q, p) PROVE q = <<>> \/ q = <<"global">>
      <4>1. q \in Seq(Keys) BY <3>2 DEF IsJSON
      <4>2. Len(q) < 2 /\ \A i \in 1..Len(q) : q[i] = p[i] BY <3>3, <1>2 DEF Above
      <4>3. CASE Len(q) = 0 BY <4>1, <4>3
      <4>4. CASE Len(q) = 1
        <5>1. \A i \in 1..1 : q[i] = "global" BY <4>2, <4>4, <1>2
        <5>2. <<"global">> \in Seq(Keys) /\ Len(<<"global">>) = 1 /\ <<"global">>[1] = "global"
          BY KeysAssumption
        <5>3. \A i \in 1..1 : q[i] = <<"global">>[i] BY <5>1, <5>2
        <5> QED BY <4>1, <4>4, <5>2, <5>3, SeqEqual
      <4>5. Len(q) = 0 \/ Len(q) = 1
        <5>1. Len(q) \in Nat BY <4>1
        <5>2. Len(q) < 2 BY <4>2
        <5> QED BY <5>1, <5>2
      <4> QED BY <4>3, <4>4, <4>5
    <3> QED BY <3>2, <3>3 DEF SpeaksAbout
  <2> QED BY <2>1, <2>2
<1> HIDE DEF f, l2, l3, l4, p
<1>6. p \in DOMAIN values <=> p \in DOMAIN f
  <2>1. p \notin DOMAIN l2 /\ p \notin DOMAIN l3 /\ p \notin DOMAIN l4
    BY <1>3, <1>4, <1>5 DEF SpeaksAbout
  <2> QED BY <2>1, <1>1, <1>3, <1>4, <1>5 DEF Over
<1>7. p \in DOMAIN f => values[p] = f[p]
  <2> SUFFICES ASSUME p \in DOMAIN f PROVE values[p] = f[p] OBVIOUS
  <2>1. p \in DOMAIN w /\ w[p] = f[p] BY <1>1, <1>5 DEF Over
  <2>2. p \in DOMAIN x /\ x[p] = f[p] BY <2>1, <1>1, <1>3 DEF Over
  <2> QED BY <2>2, <1>1, <1>4 DEF Over
<1> QED BY <1>6, <1>7 DEF Listed, f, p

\* Unless the internal vault bundle is rendered, the pull secrets the chart is
\* told to use are exactly those copied to the MCP: that bundle's own list is the
\* only one that replaces the operator's (mergeVaultPlugin).  So
\* PullSecretsReplicated holds for all of these inputs.
THEOREM PullSecretsPassedOn ==
  Spec => [](VaultValues = None \/ config.openSource =>
               (Rendered => pulls = Listed(values) \ {""}) /\ PullSecretsReplicated)
<1>1. IInv => (VaultValues = None \/ config.openSource =>
                 (Rendered => pulls = Listed(values) \ {""}) /\ PullSecretsReplicated)
  <2> SUFFICES ASSUME IInv, Rendered, VaultValues = None \/ config.openSource
               PROVE  pulls = Listed(values) \ {""}
    BY DEF PullSecretsReplicated
  <2>1. Listed(values) = Listed(Decoded(entry.values)) BY PullSecretsRendering
  <2>2. pulls = ImagePullSecretNames(entry.values) BY DEF IInv, Copied, Rendered
  <2> QED BY <2>1, <2>2 DEF ImagePullSecretNames
<1> QED BY <1>1, Inductive, PTL

=============================================================================
