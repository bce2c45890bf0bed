--------------------------- MODULE MCImportDocument ---------------------------
(***************************************************************************)
(* The two built-in profiles (profiles/bane.py, profiles/bygning.py) with  *)
(* the object types whose routing differs, and small uploads.              *)
(***************************************************************************)
EXTENDS ImportDocument

CONSTANTS r1, r2

Common == {"lokalid", "identifikasjon_navnerom", "rest"}

Lines == "MultiLineString"

MCProfiles ==
    [fkb_bane |->
        [collections |-> [spormidt |-> {"spormidt"},
                          jernbaneplattformkant |-> {"jernbaneplattformkant"}],
         required |-> [spormidt |-> Common \cup {"jernbanetype"},
                       jernbaneplattformkant |-> Common],
         geometryTypes |-> [spormidt |-> Lines, jernbaneplattformkant |-> Lines],
         identity |-> <<"lokalid">>, merges |-> FALSE, nests |-> TRUE],
     bygning |->
        [collections |-> [takkant |-> {"bygning"},
                          takoverbygg |-> {"bygning_omrade"},
                          bygning |-> {"bygning", "bygning_omrade", "bygning_posisjon"}],
         required |-> [bygning |-> Common, bygning_omrade |-> Common,
                       bygning_posisjon |-> Common],
         geometryTypes |-> [bygning |-> Lines, bygning_omrade |-> "MultiPolygon",
                            bygning_posisjon |-> "Point"],
         identity |-> <<"lokalid", "identifikasjon_navnerom">>,
         merges |-> TRUE, nests |-> FALSE]]

MCUuids == {"a", "b"}

-----------------------------------------------------------------------------
(* Features.  The paths have enough positions for their geometry, but for   *)
(* the ones called "short".                                                 *)

Path(p) == [path |-> p, positions |-> IF p = "short" THEN 3 ELSE 4]

Feature(type, geometry, path, props) ==
    [featureType |-> type, hasPlace |-> TRUE, placeCrs |-> NoCrs,
     featureCrs |-> NoCrs, place |-> [type |-> geometry, parts |-> <<Path(path)>>],
     props |-> props]

Props(id, navnerom, rest) ==
    [lokalid |-> id, identifikasjon_navnerom |-> navnerom, rest |-> Text(rest)]

Classic(id, navnerom) == [lokalid |-> id, navnerom |-> navnerom, rest |-> Text("x")]

A == Text("a")
PaddedA == [A EXCEPT !.form = "padded"]
UpperA == [A EXCEPT !.form = "upper"]
B == Text("b")
N1 == Text("n1")
N2 == Text("n2")

BuildingFeatures ==
    {Feature("bygning", Lines, "p", Props(A, N1, "x")),
     [Feature("bygning", "LineString", "q", Props(A, N1, "x"))
         EXCEPT !.placeCrs = "EPSG:5972"],
     Feature("bygning", Lines, "q", Props(A, N1, "y")),
     Feature("bygning", Lines, "q", Props(PaddedA, N1, "x")),
     Feature("bygning", Lines, "q", Props(A, N2, "x")),
     Feature("takkant", Lines, "r", Props(B, N1, "x")),
     Feature("bygning_omrade", "MultiPolygon", "r", Props(A, N1, "x")),
     Feature("bygning_omrade", "MultiPolygon", "p", Props(B, N1, "x")),
     Feature("bygning_omrade", "MultiPolygon", "short", Props(B, N2, "x")),
     Feature("bygning", Lines, "p", Props(B, N2, "unstorable")),
     [Feature("bygning", Lines, "p", Props(B, N1, "x")) EXCEPT !.placeCrs = NullCrs],
     [Feature("takoverbygg", "MultiPolygon", "q", Props(Text("c"), N1, "x"))
         EXCEPT !.hasPlace = FALSE],
     Feature("bygning", "Point", "p", Props(Blank, N1, "x"))}

\* Objects of classic GeoJSON files: lines that become areas, an area the
\* converter cannot make of a polygon, an unknown type, a short ring.
ClassicFeatures ==
    {Feature(t, g, p, Classic(id, N1)) :
        t \in {"bygning", "takkant", "takoverbygg"},
        g \in {Lines, "LineString", "MultiPolygon", "Point", "Polygon"},
        p \in {"p", "short"},
        id \in {A, B}}

RailFeatures ==
    {Feature("spormidt", Lines, "p", [jernbanetype |-> Text("x")] @@ Props(A, N1, "x")),
     Feature("jernbaneplattformkant", Lines, "q", Props(A, N1, "x")),
     Feature("jernbaneplattformkant", Lines, "q", Props(PaddedA, N2, "x")),
     Feature("jernbaneplattformkant", "LineString", "r", Props(UpperA, N1, "x")),
     Feature("spormidt", Lines, "r", Props(B, N1, "x"))}

Document(format, features) ==
    [format |-> format, crs |-> "EPSG:25832", features |-> features]

Documents1(format, F) == {Document(format, <<f>>) : f \in F}

UpTo(n, F) == UNION {[1 .. m -> F] : m \in 0 .. n}

AnyUploads ==
    ({"bygning"} \X
        ({<<Document("jsonfg", s)>> : s \in UpTo(3, BuildingFeatures)}
         \cup {<<Document("geojson", s)>> : s \in UpTo(2, ClassicFeatures)}
         \cup {<<d, e>> : d, e \in Documents1("jsonfg", BuildingFeatures)}))
    \cup ({"fkb_bane"} \X {<<Document("jsonfg", s)>> : s \in UpTo(2, RailFeatures)})

\* A building and an area whose id the other request may use, in two batches.
OtherUploads ==
    {<<"bygning", <<Document("jsonfg",
        <<Feature("takkant", Lines, "q", Props(A, N1, "x")),
          Feature("takoverbygg", "MultiPolygon", "q", Props(B, N1, "x"))>>)>> >>}

MCWorkloads == {[r \in {r1, r2} |-> IF r = r1 THEN u ELSE v] :
                    u \in AnyUploads, v \in OtherUploads}
=============================================================================
