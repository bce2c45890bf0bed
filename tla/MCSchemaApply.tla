----------------------------- MODULE MCSchemaApply -----------------------------
(* Descriptions for TLC: a topology dataset in the manner of                  *)
(* descriptions/fkb_ar5.yaml with its successors, what each check of the      *)
(* loader refuses (geocomponents/tests/test_loader.py, test_models.py), and   *)
(* what it lets through and the database does not take.                       *)
EXTENDS SchemaApply

MCProcesses == {"hello", "upsert-batch", "import"}
MCDatasets == <<"a", "b">>

Field(name, type) ==
    [name |-> name, type |-> type, typeRef |-> "", codelist |-> "",
     required |-> FALSE, auto |-> FALSE, fields |-> <<>>]
Coded(name, list) == [Field(name, "") EXCEPT !.codelist = list]
Typed(name, ref) == [Field(name, "") EXCEPT !.typeRef = ref]
ObjectField(name, fs) == [Field(name, "object") EXCEPT !.fields = fs]

MCCommons ==
    [baseFields |-> <<Field("oppdatert", "timestamp")>>,
     types |-> "celle" :> "text", codelists |-> "medium" :> {"T"}]

Link(property, target) == [name |-> property, target |-> target]
Role(property, when) == [name |-> property, when |-> when]
NoDerived == [rule |-> "none", oneOf |-> <<>>]

Punkt ==
    [name |-> "punkt", simple |-> TRUE, bounds |-> 0, geometry |-> "Point",
     srid |-> 25833, required |-> TRUE, derived |-> NoDerived,
     fields |-> <<ObjectField("ident", <<Typed("lokalid", "celle"), Field("versjon", "string")>>),
                  Coded("medium", "medium")>>,
     relationships |-> <<>>, outward |-> <<"ident", "lokalid">>,
     managed |-> <<"ident", "versjon">> :> "timestamp_iso"]

Grense ==
    [Punkt EXCEPT !.name = "grense", !.simple = FALSE, !.bounds = 2,
       !.geometry = "LineString", !.outward = <<>>, !.managed = <<>>,
       !.fields = <<Field("lokalid", "uuid"), Field("skjult", "boolean")>>]

Flate ==
    [Grense EXCEPT !.name = "flate", !.geometry = "MultiPolygon", !.bounds = 0,
       !.fields = <<>>,
       !.derived = [rule |-> "footprint",
                    oneOf |-> <<<<Role("grense", "skjult")>>, <<Role("grense", ""), Role("deling", "")>>>>],
       !.relationships = <<Link("grense", "grense"), Link("deling", "grense")>>]

Dataset0(collections) ==
    [processes |-> {"hello"}, codelists |-> "medium" :> {"T", "U"},
     collections |-> collections]

\* Descriptions that resolve and deploy, grown out of each other.
Good(flate, grense, punkt) ==
    <<Dataset0(<<flate, grense>>),
      Dataset0(<<[flate EXCEPT !.relationships = <<Link("grense", "grense")>>,
                               !.derived.oneOf = <<<<Role("grense", "")>>>>], grense, punkt>>),
      Dataset0(<<[flate EXCEPT !.simple = TRUE, !.relationships = <<>>, !.derived = NoDerived],
                 [grense EXCEPT !.simple = TRUE, !.bounds = 0]>>)>>

\* The loader accepts them, the database does not (or, the last one,
\* build_schema_plan).
Undeployable(flate, grense, punkt) ==
    LET WithPunkt(c) == Dataset0(<<flate, grense, c>>)
    IN  <<Dataset0(<<>>),
          WithPunkt([punkt EXCEPT !.name = "grense"]),
          WithPunkt([punkt EXCEPT !.relationships = <<Link("ved", "grense"), Link("ved", "flate")>>]),
          WithPunkt([punkt EXCEPT !.fields = Append(@, Field("geometry", "string"))]),
          WithPunkt([punkt EXCEPT !.name = "collection_capability"]),
          WithPunkt([punkt EXCEPT !.outward = <<>>,
                                  !.managed = <<"medium">> :> "outward_identifier"])>>

\* Each is refused by another check.
Refused(flate, grense, punkt) ==
    LET WithFlate(c) == Dataset0(<<c, grense>>)
        WithGrense(c) == Dataset0(<<flate, c>>)
        WithPunkt(c) == Dataset0(<<flate, grense, c>>)
        WithField(f) == WithPunkt([punkt EXCEPT !.fields = Append(@, f)])
    IN  <<[Dataset0(<<flate, grense>>) EXCEPT !.processes = {"unknown"}],
          WithPunkt([punkt EXCEPT !.name = "association"]),
          WithField(Field("oppdatert", "string")),
          WithField(Coded("x", "unknown")),
          WithField(Typed("x", "unknown")),
          WithField(Field("x", "unknown")),
          WithField([Field("x", "string") EXCEPT !.codelist = "medium"]),
          WithField([Field("x", "string") EXCEPT !.auto = TRUE]),
          WithField(ObjectField("x", <<>>)),
          WithField(ObjectField("x", <<Field("y", "unknown")>>)),
          WithPunkt([punkt EXCEPT !.outward = <<"ident", "unknown">>]),
          WithPunkt([punkt EXCEPT !.managed = <<"unknown">> :> "timestamp_iso"]),
          WithPunkt([punkt EXCEPT !.managed = <<"medium">> :> "unknown"]),
          WithGrense([grense EXCEPT !.fields = <<[Field("lokalid", "integer") EXCEPT !.auto = TRUE],
                                                Field("skjult", "boolean")>>]),
          WithPunkt([punkt EXCEPT !.bounds = 1]),
          WithFlate([flate EXCEPT !.bounds = 1]),
          WithFlate([flate EXCEPT !.relationships[2].target = "unknown"]),
          WithFlate([flate EXCEPT !.relationships = <<Link("grense", "grense")>>]),
          WithFlate([flate EXCEPT !.relationships[2].target = "flate"]),
          WithFlate([flate EXCEPT !.srid = 4326]),
          WithFlate([flate EXCEPT !.derived.oneOf[1][1].when = "unknown"]),
          WithFlate([flate EXCEPT !.derived.oneOf[1][1].when = "lokalid"]),
          WithFlate([flate EXCEPT !.geometry = "Polygon"]),
          WithFlate([flate EXCEPT !.derived.oneOf = <<>>])>>

Versions(flate, grense, punkt) ==
    Good(flate, grense, punkt) \o Undeployable(flate, grense, punkt)
    \o Refused(flate, grense, punkt)

MCDescriptions == Versions(Flate, Grense, Punkt)

\* Refused descriptions and the like are tried for one dataset, once each.
MCFiles ==
    [d \in {"a", "b"} |-> IF d = "a" THEN DOMAIN MCDescriptions ELSE {1, 4}]

\* TLC evaluates the valid versions and their plans once, here.
ASSUME PlansAreThere ==
    Cardinality(Valid) \in Nat /\ Resolved = [v \in Valid |-> Resolved[v]]
=============================================================================
