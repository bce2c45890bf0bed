---------------------------- MODULE ImportDocument ----------------------------
(***************************************************************************)
(* What gcimport makes of the files of one import request: classic GeoJSON *)
(* is converted to JSON-FG (parsers/geojson_to_jsonfg.py), every document  *)
(* is checked, routed to collections and transformed before the first      *)
(* upstream request, and the prepared features are posted in batches of    *)
(* one collection to upsert-batch (importer.py, profiles/).                *)
(*                                                                         *)
(* A coordinate list is a sequence of parts, each a path with a number of  *)
(* positions; letter case of type names and the wording of errors are left *)
(* out.                                                                    *)
(***************************************************************************)
EXTENDS Integers, SequencesExt

CONSTANTS
    Profiles,        \* profile name -> its ImportProfile
    Requests,        \* import requests
    Workloads,       \* what the requests bring: request -> <<profile name, documents>>
    Uuids,           \* the texts that are UUIDs, folded to lower case
    KnownCrs,        \* the reference systems pyproj can transform from
    UpsertBatchSize, \* UPSERT_BATCH_SIZE
    MaxFaults,       \* bound: batches whose POST fails
    MaxRetries       \* bound: how often a failed request is made again

ASSUME LimitsAssumption ==
    /\ UpsertBatchSize \in Nat \ {0}
    /\ MaxFaults \in Nat
    /\ MaxRetries \in Nat

VARIABLES
    req,    \* the handler of each request
    rows,   \* the rows geocomponents holds: <<collection, uuid>> -> feature
    writer, \* the request that wrote each row last
    budget  \* faults still to come

vars == <<req, rows, writer, budget>>

-----------------------------------------------------------------------------
(* Values.  A text is a word as it is written: plain, with blanks around    *)
(* it, or in upper case.  A properties object is a function from the names  *)
(* that occur to texts; "rest" stands for the other required properties.    *)

Text(w) == [word |-> w, form |-> "plain"]
Null == [word |-> "null", form |-> "null"]
Blank == [word |-> "", form |-> "blank"]

Strip(t) == IF t.form = "padded" THEN Text(t.word) ELSE t

Has(props, name) == name \in DOMAIN props /\ props[name] # Null

\* A CRS of the JSON value null, and no crs member at all.
NullCrs == "null"
NoCrs == "absent"

\* Two names for "no reference system" are not the name of one.
ASSUME CrsAssumption == NoCrs \notin KnownCrs /\ NullCrs \notin KnownCrs

\* A file lists its features, a feature has a geometry, which lists its parts.
IsASequence(s) == s \in Seq(ToSet(s))
IsADocument(d) ==
    /\ d = [format |-> d.format, crs |-> d.crs, features |-> d.features]
    /\ IsASequence(d.features)
    /\ \A f \in ToSet(d.features) :
          /\ f.place = [type |-> f.place.type, parts |-> f.place.parts]
          /\ IsASequence(f.place.parts)
AreUploads(docs) == IsASequence(docs) /\ \A d \in ToSet(docs) : IsADocument(d)

ASSUME UploadsAssumption ==
    \A w \in Workloads : \A r \in Requests :
        w[r][1] \in DOMAIN Profiles /\ AreUploads(w[r][2])

Default(crs, inherited) == IF crs = NoCrs THEN inherited ELSE crs

-----------------------------------------------------------------------------
(* profiles/base.py.  Profile names, collections and geometry types stand   *)
(* for themselves.                                                          *)

\* Object types are routed to collections that the profile has fields for.
ASSUME ProfilesAssumption ==
    \A name \in DOMAIN Profiles :
        LET profile == Profiles[name]
        IN  \A t \in DOMAIN profile.collections :
               /\ IsFiniteSet(profile.collections[t])
               /\ profile.collections[t] \subseteq DOMAIN profile.required

Compatible(source, target) ==
    <<source, target>> \in {<<"LineString", "MultiLineString">>,
                            <<"MultiLineString", "MultiPolygon">>}

TheOnly(S) == IF Cardinality(S) = 1 THEN S ELSE {}

\* collection_for_objtype, as a set of at most one collection.
CollectionForObjtype(profile, objtype, type) ==
    LET candidates == IF objtype \in DOMAIN profile.collections
                      THEN profile.collections[objtype] ELSE {}
        exact == {c \in candidates : profile.geometryTypes[c] = type}
        compatible == {c \in candidates : Compatible(type, profile.geometryTypes[c])}
    IN  IF Cardinality(candidates) = 1 THEN candidates
        ELSE IF exact # {} THEN TheOnly(exact)
        ELSE TheOnly(compatible)

CollectionFor(profile, featureType, type) ==
    IF featureType \in DOMAIN profile.required THEN {featureType}
    ELSE CollectionForObjtype(profile, featureType, type)

-----------------------------------------------------------------------------
(* parsers/geojson_to_jsonfg.py: a document that cannot be converted is     *)
(* NoDocument.                                                              *)

NoDocument == [format |-> "none"]

Aliases == [navnerom |-> "identifikasjon_navnerom"]

\* normalize_properties
NormalizeProperties(props) ==
    LET copied == {a \in (DOMAIN Aliases) \cap DOMAIN props :
                      Aliases[a] \notin DOMAIN props}
    IN  [name \in DOMAIN props \cup {Aliases[a] : a \in copied} |->
            IF name \in DOMAIN props THEN props[name]
            ELSE props[CHOOSE a \in copied : Aliases[a] = name]]

\* Mutant: only a single line is normalized.
OnlyLinesPromoted(geometry, target) ==
    IF geometry.type = "LineString" /\ target = "MultiLineString"
    THEN {[geometry EXCEPT !.type = target]}
    ELSE {geometry}

\* normalize_geometry_for_profile, as a set of at most one geometry; a part
\* becomes a line of its own, or the only ring of an area.
NormalizeGeometry(geometry, target) ==
    IF geometry.type = target THEN {geometry}
    ELSE IF Compatible(geometry.type, target) /\ geometry.parts # <<>>
    THEN {[geometry EXCEPT !.type = target]}
    ELSE {}

\* convert_feature, as a set of at most one JSON-FG feature.
ConvertFeature(profile, f) ==
    UNION {{[featureType |-> c, place |-> g, placeCrs |-> NoCrs, featureCrs |-> NoCrs,
             hasPlace |-> TRUE, props |-> NormalizeProperties(f.props)] :
                g \in NormalizeGeometry(f.place, profile.geometryTypes[c])} :
           c \in CollectionForObjtype(profile, f.featureType, f.place.type)}

\* convert_document: the first feature that fails ends it.
ConvertDocument(profile, d) ==
    IF \/ d.crs \notin KnownCrs
       \/ \E i \in DOMAIN d.features : ConvertFeature(profile, d.features[i]) = {}
    THEN NoDocument
    ELSE [d EXCEPT !.format = "jsonfg",
            !.features = [i \in DOMAIN d.features |->
                CHOOSE f \in ConvertFeature(profile, d.features[i]) : TRUE]]

\* _normalize_upload
NormalizeUpload(profile, d) ==
    IF d.format = "geojson" THEN ConvertDocument(profile, d) ELSE d

-----------------------------------------------------------------------------
(* importer.py: one feature.  Errors are collected, as reasons.             *)

\* _select_geometry: the reference system coordinates are read in.
SourceCrs(f, inherited) ==
    IF ~ f.hasPlace THEN "EPSG:4326"
    ELSE Default(f.placeCrs, Default(f.featureCrs, inherited))

MinPositions == [Point |-> 1, MultiLineString |-> 2, MultiPolygon |-> 4]

\* _transform_geometry
GeometryErrors(geometry, crs, target) ==
    LET type == IF geometry.type = "LineString" /\ target = "MultiLineString"
                THEN target ELSE geometry.type
    IN  IF type # target THEN {"geometry type"}
        ELSE IF crs \notin KnownCrs THEN {"crs"}
        ELSE IF \/ geometry.parts = <<>>
                \/ \E i \in DOMAIN geometry.parts :
                       geometry.parts[i].positions < MinPositions[target]
        THEN {"coordinates"} ELSE {}

\* The errors of _prepare_feature.
FeatureErrors(profile, f, inherited) ==
    LET crs == SourceCrs(f, inherited)
        routes == CollectionFor(profile, f.featureType, f.place.type)
        lacking == {n \in ToSet(profile.identity) :
                      ~ Has(f.props, n) \/ f.props[n] = Blank}
    IN  {"identity" : n \in lacking} \cup
        (IF crs \in {NoCrs, NullCrs} THEN {"crs"}
         ELSE IF routes = {} THEN {"feature type"}
         ELSE UNION {
            {"required" : n \in {m \in profile.required[c] : ~ Has(f.props, m)}} \cup
            GeometryErrors(f.place, crs, profile.geometryTypes[c]) : c \in routes})

\* The properties a merge of duplicates does not compare.
MergeIgnored == {"OBJECTID", "SHAPE_Length"}
ComparableProperties(props) == [n \in DOMAIN props \ MergeIgnored |-> props[n]]

\* The identity that prepare_document looks for duplicates by.
IdentityOf(profile, f) ==
    [n \in DOMAIN profile.identity |-> f.props[profile.identity[n]]]

\* What _prepare_feature returns; properties_for_upstream adds the outward
\* identifier that the description of fkb_bane asks for.
PreparedFeature(profile, f, inherited) ==
    LET c == CHOOSE r \in CollectionFor(profile, f.featureType, f.place.type) : TRUE
        id == Strip(f.props["lokalid"])
    IN  [collection |-> c,
         featureId |-> id,
         outward |-> IF profile.nests THEN Strip(f.props["lokalid"]) ELSE id,
         identity |-> IdentityOf(profile, f),
         props |-> f.props,
         type |-> profile.geometryTypes[c],
         parts |-> [i \in DOMAIN f.place.parts |->
                      [path |-> f.place.parts[i].path,
                       crs |-> SourceCrs(f, inherited)]]]

-----------------------------------------------------------------------------
(* importer.py: one document.                                               *)

\* The condition of _merge_duplicate_feature.
CanMerge(profile, a, b) ==
    /\ profile.merges
    /\ a.collection = b.collection
    /\ a.featureId = b.featureId
    /\ a.type = "MultiLineString"
    /\ b.type = "MultiLineString"
    /\ ComparableProperties(a.props) = ComparableProperties(b.props)

\* Mutant: the later feature takes the place of the earlier one.
KeepLatest(a, b) == [a EXCEPT !.parts = b.parts]

\* The feature that _merge_duplicate_feature returns.
Merged(a, b) == [a EXCEPT !.parts = @ \o b.parts]

\* The body of the loop of prepare_document.
PrepareNext(profile, inherited, acc, f) ==
    LET errors == FeatureErrors(profile, f, inherited)
        item == PreparedFeature(profile, f, inherited)
        same == {k \in DOMAIN acc.prepared : acc.prepared[k].identity = item.identity}
    IN  IF errors # {} THEN [acc EXCEPT !.errors = @ \cup errors]
        ELSE IF same = {} THEN [acc EXCEPT !.prepared = Append(@, item)]
        ELSE LET k == CHOOSE i \in same : TRUE
             IN  IF CanMerge(profile, acc.prepared[k], item)
                 THEN [acc EXCEPT !.prepared[k] = Merged(@, item)]
                 ELSE [acc EXCEPT !.errors = @ \cup {"duplicate"}]

Nothing == [prepared |-> <<>>, errors |-> {}]

\* prepare_document of the converted upload.
PrepareDocument(profile, upload) ==
    LET d == NormalizeUpload(profile, upload)
        next(acc, f) == PrepareNext(profile, d.crs, acc, f)
    IN  IF d = NoDocument THEN [Nothing EXCEPT !.errors = {"conversion"}]
        ELSE FoldLeft(next, Nothing, d.features)

\* Mutant: the errors of a document hold back that document only.
SkipRefusedDocuments(profile, acc, d) ==
    LET result == PrepareDocument(profile, d)
    IN  IF result.errors = {} \/ acc.prepared # <<>>
        THEN [acc EXCEPT !.prepared = @ \o result.prepared]
        ELSE [acc EXCEPT !.errors = result.errors]

\* _prepare_import_features_from_uploads: the first document with errors ends it.
PrepareUpload(profile, acc, d) ==
    IF acc.errors # {} THEN acc
    ELSE LET result == PrepareDocument(profile, d)
         IN  [prepared |-> acc.prepared \o result.prepared, errors |-> result.errors]

PrepareUploads(profile, uploads) ==
    LET next(acc, d) == PrepareUpload(profile, acc, d)
    IN  FoldLeft(next, Nothing, uploads)

-----------------------------------------------------------------------------
(* importer.import_features: batches by collection, the collections in the  *)
(* order of their first feature.                                            *)

First(prepared, c) ==
    Min({i \in DOMAIN prepared : prepared[i].collection = c})

\* Mutant: the batches run on from one collection into the next.
ChunkInOrder(prepared, posted) ==
    {i \in DOMAIN prepared \ posted :
        Cardinality({j \in DOMAIN prepared \ posted : j < i}) < UpsertBatchSize}

\* The positions of the batch to post next.
NextChunk(prepared, posted) ==
    LET left == DOMAIN prepared \ posted
        i == CHOOSE k \in left :
                \A l \in left : First(prepared, prepared[k].collection) <=
                                First(prepared, prepared[l].collection)
        group == {k \in left : prepared[k].collection = prepared[i].collection}
    IN  {k \in group : Cardinality({l \in group : l < k}) < UpsertBatchSize}

\* The collection the batch names is that of its first feature.
ChunkCollection(prepared, chunk) == prepared[Min(chunk)].collection

\* geocomponents takes the batch or none of it: the ids are UUIDs, the outward
\* identifiers agree with them and no cell is refused.
Accepts(prepared, chunk) ==
    \A i \in chunk :
        LET p == prepared[i]
        IN  /\ p.featureId.word \in Uuids
            /\ p.outward = p.featureId
            /\ Has(p.props, "rest") => p.props["rest"].word # "unstorable"

\* The rows of a batch; a later feature of the batch replaces an earlier one.
Upserted(prepared, chunk, keys) ==
    [k \in keys |->
        LET those == {i \in chunk : prepared[i].featureId.word = k[2]}
        IN  prepared[Max(those)]]

Keys(prepared, chunk) ==
    {<<ChunkCollection(prepared, chunk), prepared[i].featureId.word>> : i \in chunk}

Overwrite(f, g) ==
    [k \in DOMAIN f \cup DOMAIN g |-> IF k \in DOMAIN g THEN g[k] ELSE f[k]]

Store(r, prepared, chunk) ==
    LET keys == Keys(prepared, chunk)
    IN  /\ rows' = Overwrite(rows, Upserted(prepared, chunk, keys))
        /\ writer' = Overwrite(writer, [k \in keys |-> r])
-----------------------------------------------------------------------------
(* The handler of a request.                                                *)

Pcs == {"new", "refused", "importing", "done", "failed"}

NewRequest(profile, uploads) ==
    [pc |-> "new", profile |-> profile, uploads |-> uploads, prepared |-> <<>>,
     errors |-> {}, posted |-> {}, answer |-> <<>>, tries |-> 0]

Init ==
    /\ \E w \in Workloads :
          req = [r \in Requests |-> NewRequest(w[r][1], w[r][2])]
    /\ rows = <<>>
    /\ writer = <<>>
    /\ budget = MaxFaults

Prepare(r) ==
    LET result == PrepareUploads(Profiles[req[r].profile], req[r].uploads)
    IN  /\ req[r].pc = "new"
        /\ req' = [req EXCEPT
              ![r].pc = IF result.errors = {} THEN "importing" ELSE "refused",
              ![r].prepared = IF result.errors = {} THEN result.prepared ELSE <<>>,
              ![r].errors = result.errors,
              ![r].answer = [i \in DOMAIN result.prepared |-> <<>>]]
        /\ UNCHANGED <<rows, writer, budget>>

\* Mutant: the answers are in the order of the batches.
AnswerInBatchOrder(r, chunk) ==
    LET place == [i \in chunk |-> Cardinality(req[r].posted)
                                    + Cardinality({j \in chunk : j <= i})]
    IN  [k \in DOMAIN req[r].answer |->
            IF \E i \in chunk : place[i] = k
            THEN LET i == CHOOSE j \in chunk : place[j] = k
                 IN  <<req[r].prepared[i].collection, req[r].prepared[i].featureId.word>>
            ELSE req[r].answer[k]]

\* imported[index] of the features of a batch.
AnswerByIndex(r, chunk) ==
    [k \in DOMAIN req[r].answer |->
        IF k \in chunk
        THEN <<req[r].prepared[k].collection, req[r].prepared[k].featureId.word>>
        ELSE req[r].answer[k]]

Importing(r) == req[r].pc = "importing"
Unposted(r) == DOMAIN req[r].prepared \ req[r].posted

\* _import_chunk of a batch that is stored and answered.
ImportChunk(r) ==
    /\ Importing(r)
    /\ Unposted(r) # {}
    /\ LET chunk == NextChunk(req[r].prepared, req[r].posted)
       IN  /\ Accepts(req[r].prepared, chunk)
           /\ Store(r, req[r].prepared, chunk)
           /\ req' = [req EXCEPT ![r].posted = @ \cup chunk,
                                 ![r].answer = AnswerByIndex(r, chunk)]
    /\ UNCHANGED budget

Fail(r) == req' = [req EXCEPT ![r].pc = "failed"]

\* Mutant: a refused batch is skipped.
SkipChunk(r) ==
    /\ Importing(r)
    /\ Unposted(r) # {}
    /\ ~ Accepts(req[r].prepared, NextChunk(req[r].prepared, req[r].posted))
    /\ req' = [req EXCEPT ![r].posted =
                  @ \cup NextChunk(req[r].prepared, req[r].posted)]
    /\ UNCHANGED <<rows, writer, budget>>

\* geocomponents refuses the batch: nothing of it is stored.
RefuseChunk(r) ==
    /\ Importing(r)
    /\ Unposted(r) # {}
    /\ ~ Accepts(req[r].prepared, NextChunk(req[r].prepared, req[r].posted))
    /\ Fail(r)
    /\ UNCHANGED <<rows, writer, budget>>

\* The POST fails before the batch is stored, or its answer is lost.
LoseChunk(r) ==
    /\ Importing(r)
    /\ Unposted(r) # {}
    /\ budget > 0
    /\ budget' = budget - 1
    /\ LET chunk == NextChunk(req[r].prepared, req[r].posted)
       IN  \/ UNCHANGED <<rows, writer>>
           \/ Accepts(req[r].prepared, chunk) /\ Store(r, req[r].prepared, chunk)
    /\ Fail(r)

Answer(r) ==
    /\ Importing(r)
    /\ Unposted(r) = {}
    /\ req' = [req EXCEPT ![r].pc = "done"]
    /\ UNCHANGED <<rows, writer, budget>>

\* The client uploads the same files again.
Retry(r) ==
    /\ req[r].pc = "failed"
    /\ req[r].tries < MaxRetries
    /\ req' = [req EXCEPT ![r] = [NewRequest(@.profile, @.uploads)
                                     EXCEPT !.tries = req[r].tries + 1]]
    /\ UNCHANGED <<rows, writer, budget>>

Next ==
    \E r \in Requests :
        \/ Prepare(r)
        \/ ImportChunk(r)
        \/ RefuseChunk(r)
        \/ LoseChunk(r)
        \/ Answer(r)
        \/ Retry(r)

Spec == Init /\ [][Next]_vars

-----------------------------------------------------------------------------
(* Properties.                                                              *)

\* The handlers keep to their states: a refused request has errors and no
\* features, exactly the posted features have an answer, and a row stands
\* under the id of its feature and names its last writer.
TypeOK ==
    /\ \A r \in Requests :
        /\ req[r].pc \in Pcs
        /\ req[r].posted \subseteq DOMAIN req[r].prepared
        /\ (req[r].errors # {}) = (req[r].pc = "refused")
        /\ req[r].pc \in {"importing", "done", "failed"} =>
              {i \in DOMAIN req[r].answer : req[r].answer[i] # <<>>} = req[r].posted
    /\ DOMAIN rows = DOMAIN writer
    /\ \A k \in DOMAIN rows : rows[k].featureId.word = k[2] /\ writer[k] \in Requests
    /\ budget \in 0 .. MaxFaults

\* What a document means for one identity: the paths of all the features that
\* carry it, in the order they come.
HasIdentity(profile, f, identity) ==
    /\ \A n \in DOMAIN profile.identity : Has(f.props, profile.identity[n])
    /\ IdentityOf(profile, f) = identity

PathsOf(parts) == [k \in DOMAIN parts |-> parts[k].path]

PathsWith(profile, d, identity) ==
    LET next(paths, f) == IF HasIdentity(profile, f, identity)
                          THEN paths \o PathsOf(f.place.parts) ELSE paths
    IN  FoldLeft(next, <<>>, d.features)

Identities(profile, d) == {IdentityOf(profile, d.features[i]) : i \in DOMAIN d.features}

IdentityCount(profile, docs) ==
    LET next(n, d) == n + Cardinality(Identities(profile, d))
    IN  FoldLeft(next, 0, docs)

\* The uploads as JSON-FG, and whether all of them are accepted.
Documents(r) ==
    [i \in DOMAIN req[r].uploads |->
        NormalizeUpload(Profiles[req[r].profile], req[r].uploads[i])]

\* prepare_document: duplicates are merged or refused, never dropped.  The
\* prepared features are one for every identity of every document, each with
\* all the paths of the features of that identity, in their order.
EveryFeatureIsCarried ==
    \A r \in Requests : req[r].pc = "importing" =>
        LET profile == Profiles[req[r].profile]
            docs == Documents(r)
        IN  /\ \A d \in ToSet(docs) : \A i \in Identities(profile, d) :
                  \E k \in DOMAIN req[r].prepared :
                      /\ req[r].prepared[k].identity = i
                      /\ PathsOf(req[r].prepared[k].parts) = PathsWith(profile, d, i)
            /\ Len(req[r].prepared) = IdentityCount(profile, docs)

\* "The complete document is validated and transformed before the first
\* upstream request" (gcimport/README.md): a request that has a feature no
\* single-feature document could hold never has anything to post.
BadFeaturesHoldAllBack ==
    \A r \in Requests : req[r].prepared # <<>> =>
        \A d \in ToSet(Documents(r)) :
            /\ d # NoDocument
            /\ \A i \in DOMAIN d.features :
                  FeatureErrors(Profiles[req[r].profile], d.features[i], d.crs) = {}

\* What convert_document lets through, the importer routes to the collection
\* the converter chose and takes the type of its geometry.
ConversionIsAccepted ==
    \A r \in Requests : \A u \in ToSet(req[r].uploads) :
        LET profile == Profiles[req[r].profile]
            d == NormalizeUpload(profile, u)
        IN  (u.format = "geojson" /\ d # NoDocument) =>
            \A i \in DOMAIN d.features :
               LET f == d.features[i]
               IN  /\ CollectionFor(profile, f.featureType, f.place.type) =
                         CollectionForObjtype(profile, u.features[i].featureType,
                                              u.features[i].place.type)
                   /\ FeatureErrors(profile, f, d.crs)
                         \subseteq {"identity", "required", "coordinates"}

\* "The response reports the stable UUID ... for every feature": the answer of
\* a finished request gives every prepared feature its own collection and id,
\* in the order of the documents.
AnswersFollowTheDocument ==
    \A r \in Requests : req[r].pc = "done" =>
        \A i \in DOMAIN req[r].prepared :
            req[r].answer[i] = <<req[r].prepared[i].collection,
                                 req[r].prepared[i].featureId.word>>

RowOf(p) == <<p.collection, p.featureId.word>>

\* No two features to post have one row.
RowsAreDistinct(prepared) ==
    \A i, j \in DOMAIN prepared : RowOf(prepared[i]) = RowOf(prepared[j]) => i = j

\* A finished request whose features have rows of their own has stored every
\* one of them as it was prepared, whatever failed attempts came before: what
\* is there is only changed by another request.
StoredAsUploaded ==
    \A r \in Requests : (req[r].pc = "done" /\ RowsAreDistinct(req[r].prepared)) =>
        \A i \in DOMAIN req[r].prepared :
            LET p == req[r].prepared[i]
            IN  /\ RowOf(p) \in DOMAIN rows
                /\ writer[RowOf(p)] = r => rows[RowOf(p)] = p
=============================================================================
