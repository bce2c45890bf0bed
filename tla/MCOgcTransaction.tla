--------------------------- MODULE MCOgcTransaction ---------------------------
(* Instances of OgcTransaction for TLC, cut from the topology fixture         *)
(* (geocomponents/tests/fixtures/topology_fixture.yaml).                      *)
EXTENDS OgcTransaction, TLC

CONSTANTS s1, s2, c1, c2, c3, x1, x2, p, q

\* A curve of border1 (bounds 1) and one of border4 (bounds 1, counts while
\* is_bounding), which do not bound the same surface.
MCRoles == {"outer", "conditional"}
MCRoleOf == c1 :> "outer" @@ c2 :> "conditional"
MCApart == {{"outer"}, {"conditional"}}
MCOneBound == "outer" :> 1 @@ "conditional" :> 0
MCWhen == {"conditional"}

\* Two curves of a collection that surfaces share (border2, bounds 2), and one
\* that is a mere annotation and may be written directly (border3).
MCSharedRoles == {"shared", "note"}
MCShared == {{"shared"}}
MCSharedRoleOf == c1 :> "shared" @@ c2 :> "shared" @@ c3 :> "note"
MCSharedBounds == "shared" :> 2 @@ "note" :> 0
MCNoBounds == [role \in MCRoles |-> 0]
MCNever == {}

\* Lines meet when they have the same shape.
MCClosed ==
    {lines \in Linework \ {{}} : \A a, b \in lines : a[2] = b[2]}

\* Any session may write any feature.
MCEverything == [x \in Sessions |-> Features]

MCSessionSymmetry == Permutations(Sessions)
MCSharedSymmetry ==
    Permutations(Surfaces) \cup Permutations({c1, c2}) \cup Permutations(Shapes)
=============================================================================
