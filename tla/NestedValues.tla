---------------------------- MODULE NestedValues ----------------------------
(***************************************************************************)
(* The values of Rendering as the trees that values.go works on: an object *)
(* is [map |-> function from keys to trees], anything else a leaf.  There  *)
(* deepMerge is the recursion over nested maps; HelmValues has the same in *)
(* one piece, as what it makes of every path.                              *)
(***************************************************************************)
EXTENDS Rendering

Map(f)   == [map |-> f]
IsMap(t) == "map" \in DOMAIN t

\* The tree of the node of d at path p.
RECURSIVE Nested(_, _)
Nested(d, p) ==
  IF d[p] # Object THEN d[p]
  ELSE LET below == {q \in DOMAIN d : Len(q) = Len(p) + 1 /\ Above(p, q)} IN
       Map([k \in {q[Len(q)] : q \in below} |-> Nested(d, Append(p, k))])

\* The JSON value of a tree that is found at path p.
RECURSIVE Flat(_, _)
Flat(t, p) ==
  IF ~IsMap(t) THEN [q \in {p} |-> t]
  ELSE LET parts == [k \in DOMAIN t.map |-> Flat(t.map[k], Append(p, k))]
           all   == UNION {DOMAIN parts[k] : k \in DOMAIN parts}
       IN [q \in {p} \union all |-> IF q = p THEN Object ELSE parts[q[Len(p) + 1]][q]]

\* Mutant: only the top level is merged.
TopLevelMaps(dst, src) ==
  [k \in DOMAIN dst \union DOMAIN src |-> IF k \in DOMAIN src THEN src[k] ELSE dst[k]]

\* deepMerge(dst, src), key by key.
RECURSIVE mergeMaps(_, _)
mergeMaps(dst, src) ==
  [k \in DOMAIN dst \union DOMAIN src |->
     IF k \notin DOMAIN src THEN dst[k]
     ELSE IF k \in DOMAIN dst /\ IsMap(dst[k]) /\ IsMap(src[k])
     THEN Map(mergeMaps(dst[k].map, src[k].map))
     ELSE src[k]]

\* The closed form of deepMerge is what its recursion computes, level by level:
\* merging the same layers as trees gives the same document, empty objects and
\* replaced subtrees included (deepMerge, mergeFragments).
MergesAsWritten ==
  Rendered =>
    LET tree(i) == Nested(Layers[i], <<>>).map IN
    Nested(values, <<>>).map = mergeMaps(mergeMaps(mergeMaps(tree(1), tree(2)), tree(3)), tree(4))

=============================================================================
