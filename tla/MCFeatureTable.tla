---------------------------- MODULE MCFeatureTable ----------------------------
(* Instances of FeatureTable for TLC, cut from descriptions/fkb_bane.yaml     *)
(* (spormidt), descriptions/bygning.yaml (bygning) and the kinds of fields    *)
(* geocomponents/tests/test_build.py builds.                                  *)
EXTENDS FeatureTable, TLC

MCIds == {"u1", "u2"}
MCTextOf == [i \in MCIds |-> i]
\* "U1" is another spelling of the uuid u1; "x" is no uuid.
MCUuidOf == "u1" :> "u1" @@ "u2" :> "u2" @@ "U1" :> "u1"

Scalar(type, required, codes) ==
    [type |-> type, required |-> required, codes |-> codes, children |-> NoMembers]
Child(type, required, codes) == [type |-> type, required |-> required, codes |-> codes]

Identification ==
    "lokalid" :> Child("text", TRUE, {}) @@ "navnerom" :> Child("text", TRUE, {})
    @@ "versjonid" :> Child("text", FALSE, {})

Spormidt ==
    [simple |-> TRUE, upsert |-> <<"identifikasjon", "lokalid">>,
     geometryRequired |-> TRUE, outward |-> <<"identifikasjon", "lokalid">>,
     managed |-> <<"identifikasjon", "versjonid">> :> "timestamp_iso"
                 @@ <<"oppdateringsdato">> :> "timestamp_iso",
     fields |-> "medium" :> Scalar("text", TRUE, {"T", "U"})
                @@ "oppdateringsdato" :> Scalar("timestamptz", TRUE, {})
                @@ "identifikasjon" :> [type |-> "jsonb", required |-> TRUE,
                                        codes |-> {}, children |-> Identification]]

\* An object nothing is demanded of, and one that is not declared.
Bygning ==
    [simple |-> TRUE, upsert |-> <<"lokalid">>, geometryRequired |-> FALSE,
     outward |-> <<>>, managed |-> [p \in {} |-> ""],
     fields |-> "lokalid" :> Scalar("text", TRUE, {})
                @@ "kvalitet" :> [type |-> "jsonb", required |-> TRUE, codes |-> {},
                                  children |-> "metode" :> Child("text", FALSE, {"m"})]
                @@ "ekstra" :> Scalar("jsonb", FALSE, {})]

\* An identifier object that may be null, a child with a code list, and a
\* scalar that copies the identifier.
WithNullable ==
    [Spormidt EXCEPT
       !.managed = @ @@ <<"kopi">> :> "outward_identifier",
       !.fields = "kopi" :> Scalar("text", FALSE, {})
                  @@ "identifikasjon" :>
                       [type |-> "jsonb", required |-> FALSE, codes |-> {},
                        children |-> "navnerom" :> Child("text", TRUE, {"n"})
                                     @@ Identification]
                  @@ "oppdateringsdato" :> Scalar("timestamptz", TRUE, {})]

\* Reads only.
Delt == [Spormidt EXCEPT !.simple = FALSE]

MCResolved ==
    "spormidt" :> Spormidt @@ "bygning" :> Bygning
    @@ "nullable" :> WithNullable @@ "delt" :> Delt

-----------------------------------------------------------------------------

Feature(id, geometry, properties) ==
    [id |-> id, geometry |-> geometry, properties |-> properties]

Ident(lokalid) ==
    "navnerom" :> Text("n") @@ (IF lokalid = "" THEN NoMembers ELSE "lokalid" :> Text(lokalid))

Named(lokalid) == "identifikasjon" :> Object(Ident(lokalid))
Medium(t) == "medium" :> Text(t)

\* Complete features, and what may be wrong with one: an identifier that is
\* not a uuid, spelled differently or given twice; objects without a demanded
\* child, with an undeclared one, null, or of the wrong type; a code that is
\* not in its list; no geometry, or a broken one.
SpormidtFeatures ==
    {Feature(id, "valid", Named(lokalid) @@ Medium("T")) :
        id \in {Absent, Text("u2")}, lokalid \in {"", "u1", "U1", "x"}}
    \cup {Feature(Absent, g, Medium("U")) : g \in {"absent", "invalid"}}
    \cup {Feature(Text("u1"), "absent", Medium("X")),
          Feature(Absent, "absent", "medium" :> Null),
          Feature(Text("u1"), "valid", Medium("T") @@ "identifikasjon" :> Null),
          Feature(Text("u1"), "absent", "identifikasjon" :> Number)}
    \cup {Feature(Text("u1"), "valid", Medium("T") @@ "identifikasjon" :> Object(m)) :
            m \in {"lokalid" :> Text("u1"),
                   Ident("u1") @@ "versjonid" :> Text("old"),
                   Ident("u1") @@ "hemmelig" :> Text("n"),
                   "navnerom" :> Null, "navnerom" :> Number, "navnerom" :> Text("m")}}

Kvalitet == "kvalitet" :> Object("metode" :> Text("m"))

BygningFeatures ==
    {Feature(id, "valid", "lokalid" :> Text("u1") @@ Kvalitet) :
        id \in {Absent, Text("u1"), Text("x")}}
    \cup {Feature(Absent, "null", "lokalid" :> Null @@ Kvalitet),
          Feature(Text("u2"), "absent", "kvalitet" :> Null),
          Feature(Absent, "absent", "ekstra" :> Number @@ "kvalitet" :> Object(NoMembers))}

Keeping(f, names) ==
    [f EXCEPT !.properties = [k \in DOMAIN @ \ names |-> @[k]]]

MCOffered ==
    [c \in Collections |->
        CASE c = "bygning" -> BygningFeatures
          [] c = "nullable" -> {Keeping(f, {"medium"}) : f \in SpormidtFeatures}
          [] OTHER -> SpormidtFeatures]

\* The same features in either order, one twice, one that is refused last.
MCLists ==
    [c \in Collections |->
        LET a == IF c = "bygning" THEN Feature(Text("u1"), "valid", "lokalid" :> Text("u1") @@ Kvalitet)
                 ELSE Feature(Absent, "valid", Named("u1") @@ Medium("T"))
            a2 == [a EXCEPT !.properties =
                     (IF c = "bygning" THEN "ekstra" :> Number ELSE Medium("U")) @@ @]
            b == IF c = "bygning" THEN Feature(Absent, "null", "lokalid" :> Text("u2") @@ Kvalitet)
                 ELSE Feature(Text("u2"), "valid", Named("") @@ Medium("T"))
            bad == IF c = "bygning" THEN Feature(Absent, "invalid", NoMembers)
                   ELSE Feature(Absent, "valid", Named("x"))
        IN  {<<a, b>>, <<b, a>>, <<a, a2>>, <<b, bad>>, <<a>>}]

\* TLC evaluates the features and arrays once, here.
ASSUME InputsAreThere ==
    /\ Offered = [c \in Collections |-> Offered[c]]
    /\ Lists = [c \in Collections |-> Lists[c]]
=============================================================================
