-------------------------- MODULE ImportDocumentProofs --------------------------
(***************************************************************************)
(* What gcimport makes of the files of a request, for all profiles and     *)
(* files that fit the assumptions, of any length, and any number of        *)
(* requests, batches, faults and retries.                                  *)
(*                                                                         *)
(* The importer's loops are folds.  FoldIsALoop takes a fold apart into    *)
(* the states it runs through, and what holds of all of them is proved     *)
(* with Induction, which speaks of a set of numbers where an induction     *)
(* theorem would take a predicate.                                         *)
(***************************************************************************)
EXTENDS ImportDocument, FiniteSetTheorems, WellFoundedInduction, TLAPS

-----------------------------------------------------------------------------
(* Induction and loops.                                                     *)

LEMMA Induction ==
    ASSUME NEW S \in SUBSET Nat, 0 \in S, \A n \in S : n + 1 \in S
    PROVE  Nat = S
<1> DEFINE less == {p \in Nat \X Nat : p[1] < p[2]}
<1>1. IsWellFoundedOn(less, Nat)
  BY NatLessThanWellFounded DEF OpToRel
<1>2. SUFFICES ASSUME Nat # S PROVE FALSE
  OBVIOUS
<1> DEFINE T == Nat \ S
<1>3. T \subseteq Nat /\ T # {}
  BY <1>2
<1> HIDE DEF T, less
<1>4. PICK x \in T : \A y \in T : <<y, x>> \notin less
  BY <1>1, <1>3, WFMin
<1>5. \A y \in T : ~ (y < x)
  <2> USE DEF less
  <2> QED BY <1>3, <1>4
<1>6. x # 0 /\ x \in Nat
  BY <1>3 DEF T
<1>7. x - 1 \in Nat /\ x - 1 < x /\ (x - 1) + 1 = x
  BY <1>6
<1>8. x - 1 \in S
  BY <1>5, <1>7 DEF T
<1> QED
  BY <1>7, <1>8, <1>3 DEF T

LEMMA MaxFacts ==
    /\ \A n \in Nat : 1 .. n + 1 # {} /\ Max(1 .. n + 1) = n + 1
    /\ \A n \in Nat : \A s \in SUBSET (1 .. n + 1) : n + 1 \in s => Max(s) = n + 1
<1>1. ASSUME NEW n \in Nat, NEW s \in SUBSET (1 .. n + 1), n + 1 \in s
      PROVE  Max(s) = n + 1
  <2>1. \A y \in s : y \in Int /\ n + 1 >= y
    OBVIOUS
  <2>2. \A x \in s : (\A y \in s : x >= y) => x = n + 1
    BY <1>1, <2>1
  <2>3. \E x \in s : \A y \in s : x >= y
    BY <1>1, <2>1
  <2> QED
    BY <2>2, <2>3 DEF Max
<1>2. \A n \in Nat : n + 1 \in 1 .. n + 1
  OBVIOUS
<1> QED
  BY <1>1, <1>2

\* The bodies of the loops: over the features of a document and the documents
\* of a request, and over both again in what the features are compared with.
LoopBody(loop, profile, x, acc, item) ==
    IF loop = "features" THEN PrepareNext(profile, x, acc, item)
    ELSE IF loop = "documents" THEN PrepareUpload(profile, acc, item)
    ELSE IF loop = "count" THEN acc + Cardinality(Identities(profile, item))
    ELSE IF HasIdentity(profile, item, x) THEN acc \o PathsOf(item.place.parts)
    ELSE acc

LoopStart(loop) ==
    IF loop \in {"features", "documents"} THEN Nothing
    ELSE IF loop = "count" THEN 0 ELSE <<>>

\* The function that FoldLeft computes with.
Folds(g, loop, profile, x, items, n) ==
    g = [s \in SUBSET (1 .. n) |->
            IF s = {} THEN LoopStart(loop)
            ELSE LoopBody(loop, profile, x, g[s \ {Max(s)}], items[Max(s)])]

LEMMA FoldExists ==
    ASSUME NEW loop, NEW profile, NEW x, NEW items, NEW n \in Nat
    PROVE  \E g : Folds(g, loop, profile, x, items, n)
<1> DEFINE F(g, m) == Folds(g, loop, profile, x, items, m)
           Good == {m \in Nat : \E g : F(g, m)}
<1>1. 0 \in Good
  <2> DEFINE g == [s \in SUBSET (1 .. 0) |-> LoopStart(loop)]
  <2>1. F(g, 0)
    BY DEF Folds
  <2> QED
    BY <2>1
<1>2. ASSUME NEW m \in Good PROVE m + 1 \in Good
  <2>1. PICK g : F(g, m)
    OBVIOUS
  <2> DEFINE h == [s \in SUBSET (1 .. m + 1) |->
                      IF m + 1 \in s
                      THEN LoopBody(loop, profile, x, g[s \ {m + 1}], items[m + 1])
                      ELSE g[s]]
  <2>2. m \in Nat
    OBVIOUS
  <2>3. \A s \in SUBSET (1 .. m) : s \in SUBSET (1 .. m + 1) /\ m + 1 \notin s /\ h[s] = g[s]
    BY <2>2
  <2>4. \A s \in SUBSET (1 .. m) :
            g[s] = IF s = {} THEN LoopStart(loop)
                   ELSE LoopBody(loop, profile, x, g[s \ {Max(s)}], items[Max(s)])
    BY <2>1 DEF Folds
  <2>5. \A s \in SUBSET (1 .. m) : s # {} => s \ {Max(s)} \in SUBSET (1 .. m)
    OBVIOUS
  <2>6. ASSUME NEW s \in SUBSET (1 .. m + 1)
        PROVE  h[s] = IF s = {} THEN LoopStart(loop)
                      ELSE LoopBody(loop, profile, x, h[s \ {Max(s)}], items[Max(s)])
    <3>1. CASE m + 1 \in s
      <4>1. Max(s) = m + 1 /\ s # {} /\ s \ {m + 1} \in SUBSET (1 .. m)
        BY <2>2, <3>1, MaxFacts
      <4>2. h[s] = LoopBody(loop, profile, x, g[s \ {m + 1}], items[m + 1])
        BY <3>1
      <4>3. h[s \ {m + 1}] = g[s \ {m + 1}]
        BY <2>3, <4>1
      <4> HIDE DEF h
      <4> QED
        BY <4>1, <4>2, <4>3
    <3>2. CASE m + 1 \notin s
      <4>1. s \in SUBSET (1 .. m)
        BY <2>2, <3>2
      <4> HIDE DEF h
      <4> QED
        BY <2>3, <2>4, <2>5, <4>1
    <3> QED
      BY <3>1, <3>2
  <2>7. h = [s \in SUBSET (1 .. m + 1) |-> h[s]]
    OBVIOUS
  <2> HIDE DEF h
  <2>8. F(h, m + 1)
    BY <2>6, <2>7 DEF Folds
  <2> QED
    BY <2>2, <2>8
<1> HIDE DEF Good
<1>3. Good \in SUBSET Nat
  BY DEF Good
<1>4. Nat = Good
  BY <1>1, <1>2, <1>3, Induction
<1> QED
  BY <1>4 DEF Good

\* The states of a loop, from nothing to what it returns.
Runs(acc, loop, profile, x, items, n) ==
    /\ acc[0] = LoopStart(loop)
    /\ \A k \in 0 .. n - 1 :
          acc[k + 1] = LoopBody(loop, profile, x, acc[k], items[k + 1])

LEMMA FoldIsALoop ==
    ASSUME NEW loop, NEW profile, NEW x, NEW items, NEW n \in Nat, NEW g,
           Folds(g, loop, profile, x, items, n)
    PROVE  \E acc : Runs(acc, loop, profile, x, items, n) /\ acc[n] = g[1 .. n]
<1> DEFINE acc == [k \in 0 .. n |-> g[1 .. k]]
<1>1. \A s \in SUBSET (1 .. n) :
          g[s] = IF s = {} THEN LoopStart(loop)
                 ELSE LoopBody(loop, profile, x, g[s \ {Max(s)}], items[Max(s)])
  BY DEF Folds
<1>2. acc[0] = LoopStart(loop)
  <2>1. 1 .. 0 = {} /\ {} \in SUBSET (1 .. n) /\ 0 \in 0 .. n
    OBVIOUS
  <2> QED
    BY <1>1, <2>1
<1>3. ASSUME NEW k \in 0 .. n - 1
      PROVE  acc[k + 1] = LoopBody(loop, profile, x, acc[k], items[k + 1])
  <2>1. /\ 1 .. k + 1 \in SUBSET (1 .. n) /\ 1 .. k + 1 # {}
        /\ Max(1 .. k + 1) = k + 1 /\ (1 .. k + 1) \ {k + 1} = 1 .. k
        /\ k \in 0 .. n /\ k + 1 \in 0 .. n
    BY MaxFacts
  <2>2. g[1 .. k + 1] = LoopBody(loop, profile, x, g[1 .. k], items[k + 1])
    BY <1>1, <2>1
  <2> QED
    BY <2>1, <2>2
<1>4. acc[n] = g[1 .. n]
  OBVIOUS
<1> HIDE DEF acc
<1> QED
  BY <1>2, <1>3, <1>4 DEF Runs

-----------------------------------------------------------------------------
(* Sequences as functions on 1 .. n.                                        *)

LEMMA SequenceFacts ==
    ASSUME NEW s, IsASequence(s)
    PROVE  /\ Len(s) \in Nat /\ DOMAIN s = 1 .. Len(s)
           /\ \A i \in DOMAIN s : s[i] \in ToSet(s)
BY DEF IsASequence, ToSet

-----------------------------------------------------------------------------
(* Conversion.                                                              *)

LEMMA OnlyFacts ==
    ASSUME NEW S, IsFiniteSet(S), NEW c \in TheOnly(S)
    PROVE  TheOnly(S) = {c}
<1>1. TheOnly(S) = S /\ Cardinality(S) = 1
  BY DEF TheOnly
<1> QED
  BY <1>1, FS_Singleton

\* An object type is routed to one collection at most.
LEMMA RouteFacts ==
    ASSUME NEW name \in DOMAIN Profiles, NEW objtype, NEW type,
           NEW c \in CollectionForObjtype(Profiles[name], objtype, type)
    PROVE  /\ CollectionForObjtype(Profiles[name], objtype, type) = {c}
           /\ c \in DOMAIN Profiles[name].required
<1> DEFINE profile == Profiles[name]
           candidates == IF objtype \in DOMAIN profile.collections
                         THEN profile.collections[objtype] ELSE {}
           exact == {d \in candidates : profile.geometryTypes[d] = type}
           compatible == {d \in candidates : Compatible(type, profile.geometryTypes[d])}
           routes == CollectionForObjtype(profile, objtype, type)
<1>1. routes = IF Cardinality(candidates) = 1 THEN candidates
               ELSE IF exact # {} THEN TheOnly(exact) ELSE TheOnly(compatible)
  BY DEF CollectionForObjtype
<1>2. IsFiniteSet(candidates) /\ candidates \subseteq DOMAIN profile.required
  BY ProfilesAssumption, FS_EmptySet
<1>3. /\ IsFiniteSet(exact) /\ IsFiniteSet(compatible)
      /\ exact \subseteq candidates /\ compatible \subseteq candidates
  BY <1>2, FS_Subset
<1>4. c \in routes
  OBVIOUS
<1> HIDE DEF candidates, exact, compatible, routes
<1>5. CASE Cardinality(candidates) = 1
  BY <1>1, <1>2, <1>4, <1>5, FS_Singleton DEF routes
<1>6. CASE Cardinality(candidates) # 1 /\ exact # {}
  BY <1>1, <1>2, <1>3, <1>4, <1>6, OnlyFacts DEF routes, TheOnly
<1>7. CASE Cardinality(candidates) # 1 /\ exact = {}
  BY <1>1, <1>2, <1>3, <1>4, <1>7, OnlyFacts DEF routes, TheOnly
<1> QED
  BY <1>5, <1>6, <1>7

\* A converted feature has the collection it was routed to for its type, and
\* the geometry that the collection has.
LEMMA ConvertedFacts ==
    ASSUME NEW profile, NEW f, f.place = [type |-> f.place.type, parts |-> f.place.parts],
           NEW g \in ConvertFeature(profile, f)
    PROVE  /\ g.featureType \in CollectionForObjtype(profile, f.featureType, f.place.type)
           /\ g.place.type = profile.geometryTypes[g.featureType]
           /\ g.place.parts = f.place.parts
           /\ g.placeCrs = NoCrs /\ g.featureCrs = NoCrs /\ g.hasPlace
<1> DEFINE made(c, p) ==
             [featureType |-> c, place |-> p, placeCrs |-> NoCrs, featureCrs |-> NoCrs,
              hasPlace |-> TRUE, props |-> NormalizeProperties(f.props)]
<1>1. PICK c \in CollectionForObjtype(profile, f.featureType, f.place.type) :
         \E p \in NormalizeGeometry(f.place, profile.geometryTypes[c]) : g = made(c, p)
  BY DEF ConvertFeature
<1>2. PICK p \in NormalizeGeometry(f.place, profile.geometryTypes[c]) : g = made(c, p)
  BY <1>1
<1>3. p.type = profile.geometryTypes[c] /\ p.parts = f.place.parts
  <2> DEFINE target == profile.geometryTypes[c]
  <2> HIDE DEF target
  <2>1. p \in NormalizeGeometry(f.place, target)
    BY DEF target
  <2>2. \/ p = f.place /\ f.place.type = target
        \/ p = [f.place EXCEPT !.type = target]
    BY <2>1 DEF NormalizeGeometry
  <2>3. /\ [f.place EXCEPT !.type = target].type = target
        /\ [f.place EXCEPT !.type = target].parts = f.place.parts
    OBVIOUS
  <2> QED
    BY <2>2, <2>3 DEF target
<1> QED
  BY <1>2, <1>3

\* A document that convert_document lets through.
LEMMA ConversionFacts ==
    ASSUME NEW profile, NEW d, IsADocument(d), ConvertDocument(profile, d) # NoDocument
    PROVE  LET e == ConvertDocument(profile, d)
           IN  /\ e.crs = d.crs /\ d.crs \in KnownCrs
               /\ DOMAIN e.features = DOMAIN d.features
               /\ \A i \in DOMAIN d.features :
                     e.features[i] \in ConvertFeature(profile, d.features[i])
<1> DEFINE features == [i \in DOMAIN d.features |->
                           CHOOSE f \in ConvertFeature(profile, d.features[i]) : TRUE]
           e == [d EXCEPT !.format = "jsonfg", !.features = features]
<1>1. /\ d.crs \in KnownCrs
      /\ \A i \in DOMAIN d.features : ConvertFeature(profile, d.features[i]) # {}
      /\ ConvertDocument(profile, d) = e
  BY DEF ConvertDocument
<1>2. /\ DOMAIN features = DOMAIN d.features
      /\ \A i \in DOMAIN d.features : features[i] \in ConvertFeature(profile, d.features[i])
  BY <1>1
<1> HIDE DEF features
<1>3. e.crs = d.crs /\ e.features = features
  BY DEF IsADocument
<1> QED
  BY <1>1, <1>2, <1>3

-----------------------------------------------------------------------------
(* prepare_document.                                                        *)

IsPreparation(p) == p = [prepared |-> p.prepared, errors |-> p.errors]

\* The loop of prepare_document, a feature at a time.
LEMMA DocumentIsALoop ==
    ASSUME NEW profile, NEW u, NormalizeUpload(profile, u) # NoDocument,
           IsASequence(NormalizeUpload(profile, u).features)
    PROVE  LET d == NormalizeUpload(profile, u)
               n == Len(d.features)
           IN  \E acc : /\ Runs(acc, "features", profile, d.crs, d.features, n)
                        /\ acc[n] = PrepareDocument(profile, u)
<1> DEFINE d == NormalizeUpload(profile, u)
           n == Len(d.features)
           iter == CHOOSE g : g = [s \in SUBSET (1 .. n) |->
                      IF s = {} THEN Nothing
                      ELSE PrepareNext(profile, d.crs, g[s \ {Max(s)}], d.features[Max(s)])]
<1>1. n \in Nat /\ DOMAIN d.features = 1 .. n
  BY SequenceFacts
<1>2. PrepareDocument(profile, u) = iter[1 .. n]
  <2>1. PrepareDocument(profile, u)
           = FoldLeft(LAMBDA a, f : PrepareNext(profile, d.crs, a, f), Nothing, d.features)
    BY DEF PrepareDocument
  <2> HIDE DEF d
  <2> QED
    BY <1>1, <2>1 DEF FoldLeft, MapThenFoldSet
<1>3. Folds(iter, "features", profile, d.crs, d.features, n)
  <2> HIDE DEF d, n
  <2>1. PICK g : Folds(g, "features", profile, d.crs, d.features, n)
    BY <1>1, FoldExists
  <2>2. g = [s \in SUBSET (1 .. n) |->
                IF s = {} THEN Nothing
                ELSE PrepareNext(profile, d.crs, g[s \ {Max(s)}], d.features[Max(s)])]
    BY <2>1 DEF Folds, LoopBody, LoopStart
  <2>3. iter = [s \in SUBSET (1 .. n) |->
                IF s = {} THEN Nothing
                ELSE PrepareNext(profile, d.crs, iter[s \ {Max(s)}], d.features[Max(s)])]
    BY <2>2
  <2> HIDE DEF iter
  <2> QED
    BY <2>3 DEF Folds, LoopBody, LoopStart
<1> HIDE DEF d, n, iter
<1>4. \E acc : Runs(acc, "features", profile, d.crs, d.features, n) /\ acc[n] = iter[1 .. n]
  BY <1>1, <1>3, FoldIsALoop
<1> QED
  BY <1>2, <1>4 DEF d, n

LEMMA SequenceIntro ==
    ASSUME NEW n \in Nat, NEW s, s = [i \in 1 .. n |-> s[i]]
    PROVE  IsASequence(s) /\ Len(s) = n
<1>1. s \in [1 .. n -> ToSet(s)]
  BY DEF ToSet
<1> QED
  BY <1>1 DEF IsASequence

LEMMA AppendFacts ==
    ASSUME NEW s, IsASequence(s), NEW x
    PROVE  IsASequence(Append(s, x))
<1> DEFINE S == ToSet(s) \cup {x}
           t == Append(s, x)
<1>1. s \in Seq(S)
  BY DEF IsASequence
<1>2. t \in Seq(S)
  BY <1>1
<1> HIDE DEF S, t
<1>3. Len(t) \in Nat /\ t = [i \in 1 .. Len(t) |-> t[i]]
  BY <1>2
<1>4. IsASequence(t)
  BY <1>3, SequenceIntro
<1> QED
  BY <1>4 DEF t

LEMMA ConcatFacts ==
    ASSUME NEW s, IsASequence(s), NEW r, IsASequence(r)
    PROVE  IsASequence(s \o r)
<1> DEFINE S == ToSet(s) \cup ToSet(r)
           t == s \o r
<1>1. s \in Seq(S) /\ r \in Seq(S)
  BY DEF IsASequence
<1>2. t \in Seq(S)
  BY <1>1
<1> HIDE DEF S, t
<1>3. Len(t) \in Nat /\ t = [i \in 1 .. Len(t) |-> t[i]]
  BY <1>2
<1>4. IsASequence(t)
  BY <1>3, SequenceIntro
<1> QED
  BY <1>4 DEF t

LEMMA ExceptFacts ==
    ASSUME NEW s, IsASequence(s), NEW k, NEW x
    PROVE  IsASequence([s EXCEPT ![k] = x])
<1> DEFINE t == [s EXCEPT ![k] = x]
<1>1. Len(s) \in Nat /\ s = [i \in 1 .. Len(s) |-> s[i]]
  BY DEF IsASequence
<1>2. t = [i \in 1 .. Len(s) |-> t[i]]
  BY <1>1
<1> HIDE DEF t
<1>3. IsASequence(t)
  BY <1>1, <1>2, SequenceIntro
<1> QED
  BY <1>3 DEF t

\* One more feature keeps the list a list, and no error is ever taken back.
LEMMA NextFacts ==
    ASSUME NEW profile, NEW crs, NEW acc, NEW f,
           IsPreparation(acc), IsASequence(acc.prepared)
    PROVE  LET next == PrepareNext(profile, crs, acc, f)
           IN  /\ IsPreparation(next) /\ IsASequence(next.prepared)
               /\ next.errors = {} =>
                     acc.errors = {} /\ FeatureErrors(profile, f, crs) = {}
<1> DEFINE errors == FeatureErrors(profile, f, crs)
           item == PreparedFeature(profile, f, crs)
           same == {k \in DOMAIN acc.prepared : acc.prepared[k].identity = item.identity}
           k == CHOOSE i \in same : TRUE
           next == PrepareNext(profile, crs, acc, f)
<1>1. next = IF errors # {} THEN [acc EXCEPT !.errors = @ \cup errors]
             ELSE IF same = {} THEN [acc EXCEPT !.prepared = Append(@, item)]
             ELSE IF CanMerge(profile, acc.prepared[k], item)
                  THEN [acc EXCEPT !.prepared[k] = Merged(@, item)]
                  ELSE [acc EXCEPT !.errors = @ \cup {"duplicate"}]
  BY DEF PrepareNext
<1> HIDE DEF next, same, k, item, errors
<1>2. CASE errors # {}
  <2>1. next = [acc EXCEPT !.errors = @ \cup errors]
    BY <1>1, <1>2
  <2>2. /\ next = [prepared |-> acc.prepared, errors |-> acc.errors \cup errors]
    BY <2>1 DEF IsPreparation
  <2> QED
    BY <1>2, <2>2 DEF next, IsPreparation
<1>3. CASE errors = {} /\ same = {}
  <2>1. next = [acc EXCEPT !.prepared = Append(@, item)]
    BY <1>1, <1>3
  <2>2. next = [prepared |-> Append(acc.prepared, item), errors |-> acc.errors]
    BY <2>1 DEF IsPreparation
  <2> QED
    BY <1>3, <2>2, AppendFacts DEF next, errors, IsPreparation
<1>4. CASE errors = {} /\ same # {} /\ CanMerge(profile, acc.prepared[k], item)
  <2> DEFINE list == [acc.prepared EXCEPT ![k] = Merged(@, item)]
  <2>1. next = [acc EXCEPT !.prepared[k] = Merged(@, item)]
    BY <1>1, <1>4
  <2>2. next = [prepared |-> list, errors |-> acc.errors]
    BY <2>1 DEF IsPreparation
  <2>3. IsASequence(list)
    BY ExceptFacts
  <2> HIDE DEF list
  <2> QED
    BY <1>4, <2>2, <2>3 DEF next, errors, IsPreparation
<1>5. CASE errors = {} /\ same # {} /\ ~ CanMerge(profile, acc.prepared[k], item)
  <2>1. next = [acc EXCEPT !.errors = @ \cup {"duplicate"}]
    BY <1>1, <1>5
  <2>2. next = [prepared |-> acc.prepared, errors |-> acc.errors \cup {"duplicate"}]
    BY <2>1 DEF IsPreparation
  <2> QED
    BY <2>2 DEF next, IsPreparation
<1> QED
  BY <1>2, <1>3, <1>4, <1>5

\* A document as JSON-FG lists its features, and they their parts.
LEMMA NormalizedFacts ==
    ASSUME NEW profile, NEW u, IsADocument(u), NormalizeUpload(profile, u) # NoDocument
    PROVE  LET d == NormalizeUpload(profile, u)
           IN  /\ IsASequence(d.features)
               /\ \A i \in DOMAIN d.features : IsASequence(d.features[i].place.parts)
<1> DEFINE d == NormalizeUpload(profile, u)
<1>1. CASE u.format = "geojson"
  <2>1. d = ConvertDocument(profile, u)
    BY <1>1 DEF NormalizeUpload
  <2>2. /\ DOMAIN d.features = DOMAIN u.features
        /\ \A i \in DOMAIN u.features :
              d.features[i] \in ConvertFeature(profile, u.features[i])
    BY <2>1, ConversionFacts
  <2>3. d.features = [i \in DOMAIN u.features |-> d.features[i]]
    BY <2>1 DEF ConvertDocument, IsADocument
  <2>4. DOMAIN u.features = 1 .. Len(u.features) /\ Len(u.features) \in Nat
    BY SequenceFacts DEF IsADocument
  <2>5. IsASequence(d.features)
    BY <2>3, <2>4, SequenceIntro
  <2>6. ASSUME NEW i \in DOMAIN u.features PROVE IsASequence(d.features[i].place.parts)
    <3> DEFINE v == u.features[i]
    <3>1. /\ v.place = [type |-> v.place.type, parts |-> v.place.parts]
          /\ IsASequence(v.place.parts)
      BY SequenceFacts DEF IsADocument
    <3> QED
      BY <2>2, <3>1, ConvertedFacts
  <2> QED
    BY <2>2, <2>5, <2>6
<1>2. CASE u.format # "geojson"
  BY <1>2, SequenceFacts DEF NormalizeUpload, IsADocument
<1> QED
  BY <1>1, <1>2

\* prepare_document returns a list, and has no errors only for a document that
\* could be converted and has no bad feature.
LEMMA DocumentFacts ==
    ASSUME NEW profile, NEW u, IsADocument(u)
    PROVE  LET d == NormalizeUpload(profile, u)
               result == PrepareDocument(profile, u)
           IN  /\ IsPreparation(result) /\ IsASequence(result.prepared)
               /\ result.errors = {} =>
                     /\ d # NoDocument
                     /\ \A i \in DOMAIN d.features :
                           FeatureErrors(profile, d.features[i], d.crs) = {}
<1> DEFINE d == NormalizeUpload(profile, u)
           result == PrepareDocument(profile, u)
<1>1. CASE d = NoDocument
  <2>1. result = [Nothing EXCEPT !.errors = {"conversion"}]
    BY <1>1 DEF PrepareDocument
  <2>2. result = [prepared |-> <<>>, errors |-> {"conversion"}]
    BY <2>1 DEF Nothing
  <2>3. IsASequence(<<>>)
    BY DEF IsASequence
  <2> HIDE DEF result
  <2>4. IsPreparation(result) /\ IsASequence(result.prepared) /\ result.errors # {}
    BY <2>2, <2>3 DEF IsPreparation
  <2> QED
    BY <2>4 DEF result
<1>2. CASE d # NoDocument
  <2>1. IsASequence(d.features)
    BY <1>2, NormalizedFacts
  <2> DEFINE n == Len(d.features)
  <2>2. n \in Nat /\ DOMAIN d.features = 1 .. n
    BY <2>1, SequenceFacts
  <2>3. PICK acc : Runs(acc, "features", profile, d.crs, d.features, n) /\ acc[n] = result
    BY <1>2, <2>1, DocumentIsALoop
  <2> HIDE DEF d, n, result
  <2> DEFINE Good(k) ==
                /\ IsPreparation(acc[k]) /\ IsASequence(acc[k].prepared)
                /\ acc[k].errors = {} =>
                      \A i \in 1 .. k : FeatureErrors(profile, d.features[i], d.crs) = {}
             S == {k \in Nat : k <= n => Good(k)}
  <2>4. 0 \in S
    <3>1. acc[0] = [prepared |-> <<>>, errors |-> {}] /\ 1 .. 0 = {}
      BY <2>3 DEF Runs, LoopStart, Nothing
    <3>2. IsASequence(<<>>)
      BY DEF IsASequence
    <3> QED
      BY <3>1, <3>2 DEF IsPreparation
  <2>5. ASSUME NEW k \in S PROVE k + 1 \in S
    <3>1. SUFFICES ASSUME k + 1 <= n PROVE Good(k + 1)
      OBVIOUS
    <3>2. k \in Nat /\ k \in 0 .. n - 1 /\ Good(k)
      BY <2>2, <3>1
    <3>3. acc[k + 1] = PrepareNext(profile, d.crs, acc[k], d.features[k + 1])
      BY <2>3, <3>2 DEF Runs, LoopBody
    <3>4. /\ IsPreparation(acc[k + 1]) /\ IsASequence(acc[k + 1].prepared)
          /\ acc[k + 1].errors = {} =>
                acc[k].errors = {} /\ FeatureErrors(profile, d.features[k + 1], d.crs) = {}
      BY <3>2, <3>3, NextFacts
    <3>5. \A i \in 1 .. k + 1 : i \in 1 .. k \/ i = k + 1
      BY <3>2
    <3> QED
      BY <3>2, <3>4, <3>5
  <2>6. S \in SUBSET Nat
    OBVIOUS
  <2> HIDE DEF S
  <2>7. Nat = S
    BY <2>4, <2>5, <2>6, Induction
  <2>8. Good(n)
    <3>1. n \in S /\ n <= n
      BY <2>2, <2>7
    <3> HIDE DEF Good
    <3> QED
      BY <3>1 DEF S
  <2> QED
    BY <1>2, <2>2, <2>3, <2>8 DEF d, result
<1> QED
  BY <1>1, <1>2

-----------------------------------------------------------------------------
(* _prepare_import_features_from_uploads.                                   *)

LEMMA UploadsAreALoop ==
    ASSUME NEW profile, NEW uploads, IsASequence(uploads)
    PROVE  LET n == Len(uploads)
           IN  \E acc : /\ Runs(acc, "documents", profile, NoCrs, uploads, n)
                        /\ acc[n] = PrepareUploads(profile, uploads)
<1> DEFINE n == Len(uploads)
           iter == CHOOSE g : g = [s \in SUBSET (1 .. n) |->
                      IF s = {} THEN Nothing
                      ELSE PrepareUpload(profile, g[s \ {Max(s)}], uploads[Max(s)])]
<1>1. n \in Nat /\ DOMAIN uploads = 1 .. n
  BY SequenceFacts
<1>2. PrepareUploads(profile, uploads) = iter[1 .. n]
  BY <1>1 DEF PrepareUploads, FoldLeft, MapThenFoldSet
<1>3. Folds(iter, "documents", profile, NoCrs, uploads, n)
  <2> HIDE DEF n
  <2>1. PICK g : Folds(g, "documents", profile, NoCrs, uploads, n)
    BY <1>1, FoldExists
  <2>2. g = [s \in SUBSET (1 .. n) |->
                IF s = {} THEN Nothing
                ELSE PrepareUpload(profile, g[s \ {Max(s)}], uploads[Max(s)])]
    BY <2>1 DEF Folds, LoopBody, LoopStart
  <2>3. iter = [s \in SUBSET (1 .. n) |->
                IF s = {} THEN Nothing
                ELSE PrepareUpload(profile, iter[s \ {Max(s)}], uploads[Max(s)])]
    BY <2>2
  <2> HIDE DEF iter
  <2> QED
    BY <2>3 DEF Folds, LoopBody, LoopStart
<1> HIDE DEF n, iter
<1>4. \E acc : /\ Runs(acc, "documents", profile, NoCrs, uploads, n)
               /\ acc[n] = iter[1 .. n]
  BY <1>1, <1>3, FoldIsALoop
<1> QED
  BY <1>2, <1>4 DEF n

\* A document that could be converted and has no bad feature.
IsClean(profile, u) ==
    LET d == NormalizeUpload(profile, u)
    IN  /\ d # NoDocument
        /\ \A i \in DOMAIN d.features : FeatureErrors(profile, d.features[i], d.crs) = {}

\* The files of a request are prepared without errors only when all of them are
\* clean, and what is prepared is a list.
LEMMA UploadsFacts ==
    ASSUME NEW profile, NEW uploads, AreUploads(uploads)
    PROVE  LET result == PrepareUploads(profile, uploads)
           IN  /\ IsPreparation(result) /\ IsASequence(result.prepared)
               /\ result.errors = {} =>
                     \A i \in DOMAIN uploads : IsClean(profile, uploads[i])
<1> DEFINE n == Len(uploads)
           result == PrepareUploads(profile, uploads)
<1>1. n \in Nat /\ DOMAIN uploads = 1 .. n /\ \A i \in 1 .. n : IsADocument(uploads[i])
  BY SequenceFacts DEF AreUploads
<1>2. PICK acc : Runs(acc, "documents", profile, NoCrs, uploads, n) /\ acc[n] = result
  BY UploadsAreALoop DEF AreUploads
<1> HIDE DEF n, result
<1> DEFINE Good(k) ==
              /\ IsPreparation(acc[k]) /\ IsASequence(acc[k].prepared)
              /\ acc[k].errors = {} => \A i \in 1 .. k : IsClean(profile, uploads[i])
           S == {k \in Nat : k <= n => Good(k)}
<1>3. 0 \in S
  <2>1. acc[0] = [prepared |-> <<>>, errors |-> {}] /\ 1 .. 0 = {}
    BY <1>2 DEF Runs, LoopStart, Nothing
  <2>2. IsASequence(<<>>)
    BY DEF IsASequence
  <2> QED
    BY <2>1, <2>2 DEF IsPreparation
<1>4. ASSUME NEW k \in S PROVE k + 1 \in S
  <2>1. SUFFICES ASSUME k + 1 <= n PROVE Good(k + 1)
    OBVIOUS
  <2>2. k \in Nat /\ k \in 0 .. n - 1 /\ k + 1 \in 1 .. n /\ Good(k)
    BY <1>1, <2>1
  <2> DEFINE u == uploads[k + 1]
             next == acc[k + 1]
             prepared == PrepareDocument(profile, u)
  <2>3. next = IF acc[k].errors # {} THEN acc[k]
               ELSE [prepared |-> acc[k].prepared \o prepared.prepared,
                     errors |-> prepared.errors]
    BY <1>2, <2>2 DEF Runs, LoopBody, PrepareUpload
  <2>4. IsADocument(u)
    BY <1>1, <2>2
  <2>5. /\ IsPreparation(prepared) /\ IsASequence(prepared.prepared)
        /\ prepared.errors = {} => IsClean(profile, u)
    BY <2>4, DocumentFacts DEF IsClean
  <2>6. CASE acc[k].errors # {}
    BY <2>2, <2>3, <2>6
  <2>7. CASE acc[k].errors = {}
    <3> HIDE DEF next, prepared
    <3>1. /\ next.prepared = acc[k].prepared \o prepared.prepared
          /\ next.errors = prepared.errors /\ IsPreparation(next)
      BY <2>3, <2>7 DEF IsPreparation
    <3>2. IsASequence(next.prepared)
      BY <2>2, <2>5, <3>1, ConcatFacts
    <3>3. \A i \in 1 .. k + 1 : i \in 1 .. k \/ i = k + 1
      BY <2>2
    <3>4. next.errors = {} => \A i \in 1 .. k + 1 : IsClean(profile, uploads[i])
      BY <2>2, <2>5, <2>7, <3>1, <3>3
    <3> QED
      BY <3>1, <3>2, <3>4 DEF next
  <2> QED
    BY <2>6, <2>7
<1>5. S \in SUBSET Nat
  OBVIOUS
<1> HIDE DEF S
<1>6. Nat = S
  BY <1>3, <1>4, <1>5, Induction
<1>7. Good(n)
  <2>1. n \in S /\ n <= n
    BY <1>1, <1>6
  <2> HIDE DEF Good
  <2> QED
    BY <2>1 DEF S
<1> QED
  BY <1>1, <1>2, <1>7 DEF result

-----------------------------------------------------------------------------
(* Batches.                                                                 *)

LEMMA MinFacts ==
    ASSUME NEW S \in SUBSET Nat, S # {}
    PROVE  Min(S) \in S /\ \A y \in S : Min(S) <= y
<1> DEFINE less == {p \in Nat \X Nat : p[1] < p[2]}
<1>1. IsWellFoundedOn(less, Nat)
  BY NatLessThanWellFounded DEF OpToRel
<1> HIDE DEF less
<1>2. PICK x \in S : \A y \in S : <<y, x>> \notin less
  BY <1>1, WFMin
<1>3. ASSUME NEW y \in S PROVE x <= y
  <2>1. x \in Nat /\ y \in Nat
    OBVIOUS
  <2>2. y < x => <<y, x>> \in less
    BY <2>1 DEF less
  <2> QED
    BY <1>2, <2>1, <2>2
<1> QED
  BY <1>3 DEF Min

LEMMA LastFacts ==
    ASSUME NEW n \in Nat, NEW S \in SUBSET (1 .. n), S # {}
    PROVE  Max(S) \in S
<1> DEFINE T == {n - x : x \in S}
<1>1. T \in SUBSET Nat /\ T # {}
  <2>1. \A x \in S : n - x \in Nat
    OBVIOUS
  <2> QED
    BY <2>1
<1>2. Min(T) \in T /\ \A y \in T : Min(T) <= y
  BY <1>1, MinFacts
<1>3. PICK x \in S : Min(T) = n - x
  BY <1>2
<1>4. \A y \in S : n - x <= n - y
  BY <1>2, <1>3
<1>5. \A y \in S : x >= y
  BY <1>4
<1> QED
  BY <1>5 DEF Max

\* A batch is of features that have not been posted, of one collection.
LEMMA ChunkFacts ==
    ASSUME NEW prepared, IsASequence(prepared), NEW posted
    PROVE  LET chunk == NextChunk(prepared, posted)
           IN  /\ chunk \subseteq DOMAIN prepared \ posted
               /\ \A i \in chunk :
                     /\ ChunkCollection(prepared, chunk) = prepared[i].collection
                     /\ <<ChunkCollection(prepared, chunk), prepared[i].featureId.word>>
                           = RowOf(prepared[i])
<1> DEFINE left == DOMAIN prepared \ posted
           i == CHOOSE k \in left :
                   \A l \in left : First(prepared, prepared[k].collection) <=
                                   First(prepared, prepared[l].collection)
           group == {k \in left : prepared[k].collection = prepared[i].collection}
           chunk == NextChunk(prepared, posted)
<1>1. chunk = {k \in group : Cardinality({l \in group : l < k}) < UpsertBatchSize}
  BY DEF NextChunk
<1>2. chunk \subseteq group
  BY <1>1
<1> HIDE DEF i, chunk
<1>3. chunk \subseteq DOMAIN prepared \ posted
  BY <1>2
<1>4. \A k \in chunk : prepared[k].collection = prepared[i].collection
  BY <1>2
<1>5. DOMAIN prepared \in SUBSET Nat
  BY SequenceFacts
<1>6. chunk # {} => Min(chunk) \in chunk
  BY <1>3, <1>5, MinFacts
<1> QED
  BY <1>3, <1>4, <1>6 DEF ChunkCollection, RowOf, chunk

\* What a batch leaves in the table: a row for every feature, which is a
\* feature of the batch, and every other row as it was.
Writes(r, prepared, chunk) ==
    LET keys == {RowOf(prepared[i]) : i \in chunk}
    IN  /\ DOMAIN rows' = DOMAIN rows \cup keys
        /\ DOMAIN writer' = DOMAIN writer \cup keys
        /\ \A k \in DOMAIN rows \ keys : rows'[k] = rows[k]
        /\ \A k \in DOMAIN writer \ keys : writer'[k] = writer[k]
        /\ \A k \in keys : \E i \in chunk :
              k = RowOf(prepared[i]) /\ rows'[k] = prepared[i] /\ writer'[k] = r

LEMMA StoreFacts ==
    ASSUME NEW r, NEW prepared, IsASequence(prepared), NEW posted,
           Store(r, prepared, NextChunk(prepared, posted))
    PROVE  Writes(r, prepared, NextChunk(prepared, posted))
<1> DEFINE chunk == NextChunk(prepared, posted)
           keys == {RowOf(prepared[i]) : i \in chunk}
           new == Upserted(prepared, chunk, keys)
<1>1. /\ chunk \subseteq DOMAIN prepared
      /\ \A i \in chunk :
            /\ ChunkCollection(prepared, chunk) = prepared[i].collection
            /\ <<ChunkCollection(prepared, chunk), prepared[i].featureId.word>>
                  = RowOf(prepared[i])
  BY ChunkFacts
<1> HIDE DEF chunk
<1>2. Keys(prepared, chunk) = keys
  BY <1>1 DEF Keys
<1>3. /\ rows' = Overwrite(rows, new)
      /\ writer' = Overwrite(writer, [k \in keys |-> r])
  BY <1>2 DEF Store, chunk
<1>4. DOMAIN new = keys
  BY DEF Upserted
<1>5. ASSUME NEW k \in keys
      PROVE  \E i \in chunk : k = RowOf(prepared[i]) /\ new[k] = prepared[i]
  <2> DEFINE those == {i \in chunk : prepared[i].featureId.word = k[2]}
  <2>1. PICK j \in chunk : k = RowOf(prepared[j])
    OBVIOUS
  <2>2. j \in those
    BY <2>1 DEF RowOf
  <2>3. Len(prepared) \in Nat /\ those \in SUBSET (1 .. Len(prepared))
    BY <1>1, SequenceFacts
  <2>4. new[k] = prepared[Max(those)]
    BY DEF Upserted
  <2> HIDE DEF new
  <2>5. Max(those) \in those
    BY <2>2, <2>3, LastFacts
  <2>6. RowOf(prepared[Max(those)]) = k
    BY <1>1, <2>1, <2>5 DEF RowOf
  <2> QED
    BY <2>4, <2>5, <2>6
<1> HIDE DEF new, keys
<1>6. /\ DOMAIN rows' = DOMAIN rows \cup keys
      /\ DOMAIN writer' = DOMAIN writer \cup keys
      /\ \A k \in DOMAIN rows \ keys : rows'[k] = rows[k]
      /\ \A k \in DOMAIN writer \ keys : writer'[k] = writer[k]
      /\ \A k \in keys : rows'[k] = new[k] /\ writer'[k] = r
  BY <1>3, <1>4 DEF Overwrite
<1> QED
  BY <1>5, <1>6 DEF Writes, chunk, keys

-----------------------------------------------------------------------------
(* The steps of a handler.                                                  *)

IsAHandler(q) ==
    q = [pc |-> q.pc, profile |-> q.profile, uploads |-> q.uploads,
         prepared |-> q.prepared, errors |-> q.errors, posted |-> q.posted,
         answer |-> q.answer, tries |-> q.tries]

\* Every request has a handler, for files of the profile it names.
Handlers ==
    /\ req = [r \in Requests |-> req[r]]
    /\ \A r \in Requests :
          /\ IsAHandler(req[r])
          /\ req[r].profile \in DOMAIN Profiles
          /\ AreUploads(req[r].uploads)

\* A step of one handler, which keeps its request.
StepOf(r) ==
    /\ req' = [s \in Requests |-> req'[s]]
    /\ \A s \in Requests : s # r => req'[s] = req[s]
    /\ IsAHandler(req'[r])
    /\ req'[r].profile = req[r].profile
    /\ req'[r].uploads = req[r].uploads

\* What the files of the request are prepared to.
Result(r) == PrepareUploads(Profiles[req[r].profile], req[r].uploads)

PrepareEffect(r) ==
    LET clean == Result(r).errors = {}
    IN  /\ req'[r].pc = IF clean THEN "importing" ELSE "refused"
        /\ req'[r].prepared = IF clean THEN Result(r).prepared ELSE <<>>
        /\ req'[r].errors = Result(r).errors
        /\ req'[r].posted = req[r].posted
        /\ req'[r].answer = [i \in DOMAIN Result(r).prepared |-> <<>>]

LEMMA StepOfPrepare ==
    ASSUME Handlers, NEW r \in Requests, Prepare(r)
    PROVE  StepOf(r) /\ PrepareEffect(r)
<1> DEFINE result == Result(r)
           clean == result.errors = {}
           pc == IF clean THEN "importing" ELSE "refused"
           list == IF clean THEN result.prepared ELSE <<>>
           errors == result.errors
           answer == [i \in DOMAIN result.prepared |-> <<>>]
<1>1. req' = [req EXCEPT ![r].pc = pc, ![r].prepared = list,
                         ![r].errors = errors, ![r].answer = answer]
  BY DEF Prepare, Result
<1> HIDE DEF pc, list, errors, answer
<1>2. /\ req' = [s \in Requests |-> req'[s]]
      /\ \A s \in Requests : s # r => req'[s] = req[s]
      /\ req'[r] = [req[r] EXCEPT !.pc = pc, !.prepared = list,
                                  !.errors = errors, !.answer = answer]
  BY <1>1 DEF Handlers
<1>3. req'[r] = [pc |-> pc, profile |-> req[r].profile, uploads |-> req[r].uploads,
                 prepared |-> list, errors |-> errors, posted |-> req[r].posted,
                 answer |-> answer, tries |-> req[r].tries]
  BY <1>2 DEF Handlers, IsAHandler
<1> QED
  BY <1>2, <1>3 DEF StepOf, IsAHandler, PrepareEffect, pc, list, errors, answer

ImportEffect(r) ==
    LET chunk == NextChunk(req[r].prepared, req[r].posted)
    IN  /\ req'[r].pc = req[r].pc
        /\ req'[r].prepared = req[r].prepared
        /\ req'[r].errors = req[r].errors
        /\ req'[r].posted = req[r].posted \cup chunk
        /\ req'[r].answer = AnswerByIndex(r, chunk)

LEMMA StepOfImportChunk ==
    ASSUME Handlers, NEW r \in Requests, ImportChunk(r)
    PROVE  StepOf(r) /\ ImportEffect(r)
<1> DEFINE chunk == NextChunk(req[r].prepared, req[r].posted)
           answer == AnswerByIndex(r, chunk)
<1>1. req' = [req EXCEPT ![r].posted = @ \cup chunk, ![r].answer = answer]
  BY DEF ImportChunk
<1> HIDE DEF chunk, answer
<1>2. /\ req' = [s \in Requests |-> req'[s]]
      /\ \A s \in Requests : s # r => req'[s] = req[s]
      /\ req'[r] = [req[r] EXCEPT !.posted = @ \cup chunk, !.answer = answer]
  BY <1>1 DEF Handlers
<1>3. req'[r] = [pc |-> req[r].pc, profile |-> req[r].profile, uploads |-> req[r].uploads,
                 prepared |-> req[r].prepared, errors |-> req[r].errors,
                 posted |-> req[r].posted \cup chunk,
                 answer |-> answer, tries |-> req[r].tries]
  BY <1>2 DEF Handlers, IsAHandler
<1> QED
  BY <1>2, <1>3 DEF StepOf, IsAHandler, ImportEffect, chunk, answer

\* The handler ends.
EndEffect(r, pc) ==
    /\ req'[r].pc = pc
    /\ req'[r].prepared = req[r].prepared
    /\ req'[r].errors = req[r].errors
    /\ req'[r].posted = req[r].posted
    /\ req'[r].answer = req[r].answer

LEMMA StepOfEnd ==
    ASSUME Handlers, NEW r \in Requests, NEW pc, req' = [req EXCEPT ![r].pc = pc]
    PROVE  StepOf(r) /\ EndEffect(r, pc)
<1>1. /\ req' = [s \in Requests |-> req'[s]]
      /\ \A s \in Requests : s # r => req'[s] = req[s]
      /\ req'[r] = [req[r] EXCEPT !.pc = pc]
  BY DEF Handlers
<1>2. req'[r] = [pc |-> pc, profile |-> req[r].profile, uploads |-> req[r].uploads,
                 prepared |-> req[r].prepared, errors |-> req[r].errors,
                 posted |-> req[r].posted,
                 answer |-> req[r].answer, tries |-> req[r].tries]
  BY <1>1 DEF Handlers, IsAHandler
<1> QED
  BY <1>1, <1>2 DEF StepOf, IsAHandler, EndEffect

NewEffect(r) ==
    /\ req'[r].pc = "new"
    /\ req'[r].prepared = <<>>
    /\ req'[r].errors = {}
    /\ req'[r].posted = {}

LEMMA TriesFacts ==
    ASSUME NEW q, IsAHandler(q), NEW t
    PROVE  [q EXCEPT !.tries = t] =
              [pc |-> q.pc, profile |-> q.profile, uploads |-> q.uploads,
               prepared |-> q.prepared, errors |-> q.errors, posted |-> q.posted,
               answer |-> q.answer, tries |-> t]
BY DEF IsAHandler

LEMMA StepOfRetry ==
    ASSUME Handlers, NEW r \in Requests, Retry(r)
    PROVE  StepOf(r) /\ NewEffect(r)
<1> DEFINE tries == req[r].tries + 1
           new == NewRequest(req[r].profile, req[r].uploads)
           q == [new EXCEPT !.tries = tries]
<1>1. req' = [req EXCEPT ![r] = q]
  BY DEF Retry
<1>2. /\ q.pc = "new" /\ q.prepared = <<>> /\ q.errors = {} /\ q.posted = {}
      /\ q.profile = req[r].profile /\ q.uploads = req[r].uploads
      /\ IsAHandler(q)
  <2>1. /\ IsAHandler(new)
        /\ new.pc = "new" /\ new.prepared = <<>> /\ new.errors = {} /\ new.posted = {}
        /\ new.profile = req[r].profile /\ new.uploads = req[r].uploads
    BY DEF NewRequest, IsAHandler
  <2> HIDE DEF new, tries
  <2>2. q = [pc |-> new.pc, profile |-> new.profile, uploads |-> new.uploads,
             prepared |-> new.prepared, errors |-> new.errors, posted |-> new.posted,
             answer |-> new.answer, tries |-> tries]
    BY <2>1, TriesFacts
  <2> QED
    BY <2>1, <2>2 DEF IsAHandler
<1> HIDE DEF q, tries
<1>3. /\ req' = [s \in Requests |-> req'[s]]
      /\ \A s \in Requests : s # r => req'[s] = req[s]
      /\ req'[r] = q
  BY <1>1 DEF Handlers
<1> QED
  BY <1>2, <1>3 DEF StepOf, IsAHandler, NewEffect

\* Every step is of one handler.
LEMMA HandlersInductive ==
    ASSUME Handlers, Next
    PROVE  Handlers' /\ \E r \in Requests : StepOf(r)
<1>1. PICK r \in Requests :
         \/ Prepare(r)
         \/ ImportChunk(r)
         \/ RefuseChunk(r)
         \/ LoseChunk(r)
         \/ Answer(r)
         \/ Retry(r)
  BY DEF Next
<1>2. StepOf(r)
  BY <1>1, StepOfPrepare, StepOfImportChunk, StepOfEnd, StepOfRetry
     DEF RefuseChunk, LoseChunk, Answer, Fail
<1>3. Handlers'
  BY <1>2 DEF StepOf, Handlers
<1> QED
  BY <1>2, <1>3

LEMMA HandlersInitially == Init => Handlers
<1> SUFFICES ASSUME Init PROVE Handlers
  OBVIOUS
<1>1. PICK w \in Workloads : req = [r \in Requests |-> NewRequest(w[r][1], w[r][2])]
  BY DEF Init
<1>2. ASSUME NEW r \in Requests
      PROVE  /\ IsAHandler(req[r])
             /\ req[r].profile = w[r][1] /\ req[r].uploads = w[r][2]
  BY <1>1 DEF NewRequest, IsAHandler
<1>3. \A r \in Requests : w[r][1] \in DOMAIN Profiles /\ AreUploads(w[r][2])
  BY UploadsAssumption
<1> QED
  BY <1>1, <1>2, <1>3 DEF Handlers

LEMMA HandlersAlways == Spec => []Handlers
<1>1. Handlers /\ [Next]_vars => Handlers'
  <2>1. Handlers /\ UNCHANGED vars => Handlers'
    BY DEF vars, Handlers
  <2> QED
    BY <2>1, HandlersInductive
<1> QED
  BY <1>1, HandlersInitially, PTL DEF Spec

\* What the converter makes of one document.
LEMMA ConversionOfADocument ==
    ASSUME NEW name \in DOMAIN Profiles, NEW u, IsADocument(u), u.format = "geojson",
           NormalizeUpload(Profiles[name], u) # NoDocument
    PROVE  LET profile == Profiles[name]
               d == NormalizeUpload(profile, u)
           IN  \A i \in DOMAIN d.features :
               LET f == d.features[i]
               IN  /\ CollectionFor(profile, f.featureType, f.place.type) =
                         CollectionForObjtype(profile, u.features[i].featureType,
                                              u.features[i].place.type)
                   /\ FeatureErrors(profile, f, d.crs)
                         \subseteq {"identity", "required", "coordinates"}
<1> DEFINE profile == Profiles[name]
           d == NormalizeUpload(profile, u)
<1>1. d = ConvertDocument(profile, u)
  BY DEF NormalizeUpload
<1> SUFFICES ASSUME NEW i \in DOMAIN d.features
             PROVE  LET f == d.features[i]
                    IN  /\ CollectionFor(profile, f.featureType, f.place.type) =
                              CollectionForObjtype(profile, u.features[i].featureType,
                                                   u.features[i].place.type)
                        /\ FeatureErrors(profile, f, d.crs)
                              \subseteq {"identity", "required", "coordinates"}
  OBVIOUS
<1> DEFINE f == d.features[i]
           v == u.features[i]
           c == f.featureType
           target == profile.geometryTypes[c]
<1>2. /\ d.crs \in KnownCrs
      /\ DOMAIN d.features = DOMAIN u.features
      /\ f \in ConvertFeature(profile, v)
  BY <1>1, ConversionFacts
<1>3. v.place = [type |-> v.place.type, parts |-> v.place.parts]
  BY <1>2, SequenceFacts DEF IsADocument
<1>4. /\ c \in CollectionForObjtype(profile, v.featureType, v.place.type)
      /\ f.place.type = target
      /\ f.placeCrs = NoCrs /\ f.featureCrs = NoCrs /\ f.hasPlace
  BY <1>2, <1>3, ConvertedFacts
<1>5. /\ CollectionForObjtype(profile, v.featureType, v.place.type) = {c}
      /\ c \in DOMAIN profile.required
  BY <1>4, RouteFacts
<1> HIDE DEF d, f, v, c
<1>6. CollectionFor(profile, c, f.place.type) = {c}
  BY <1>5 DEF CollectionFor
<1>7. SourceCrs(f, d.crs) = d.crs /\ d.crs \notin {NoCrs, NullCrs}
  BY <1>2, <1>4, CrsAssumption DEF SourceCrs, Default
<1> HIDE DEF profile, target
<1>8. GeometryErrors(f.place, d.crs, target) \subseteq {"coordinates"}
  BY <1>2, <1>4 DEF GeometryErrors
<1>9. FeatureErrors(profile, f, d.crs) \subseteq {"identity", "required", "coordinates"}
  <2> DEFINE routes == CollectionFor(profile, c, f.place.type)
             lacking == {n \in ToSet(profile.identity) :
                           ~ Has(f.props, n) \/ f.props[n] = Blank}
             reasons(b) ==
                {"required" : n \in {m \in profile.required[b] : ~ Has(f.props, m)}} \cup
                GeometryErrors(f.place, d.crs, profile.geometryTypes[b])
  <2>1. FeatureErrors(profile, f, d.crs) =
           {"identity" : n \in lacking} \cup
           (IF d.crs \in {NoCrs, NullCrs} THEN {"crs"}
            ELSE IF routes = {} THEN {"feature type"}
            ELSE UNION {reasons(b) : b \in routes})
    BY <1>7 DEF FeatureErrors, c
  <2>2. {"identity" : n \in lacking} \subseteq {"identity"}
    OBVIOUS
  <2>3. reasons(c) \subseteq {"required", "coordinates"}
    BY <1>8 DEF target
  <2> HIDE DEF lacking, reasons
  <2>4. UNION {reasons(b) : b \in routes} \subseteq {"required", "coordinates"}
    BY <1>6, <2>3
  <2> QED
    BY <1>6, <1>7, <2>1, <2>2, <2>4
<1> QED
  BY <1>5, <1>6, <1>9 DEF d, f, v, c, profile

\* Whatever the files are, the importer never refuses a converted feature for
\* its collection, its reference system or the type of its geometry, which the
\* converter decided (parsers/geojson_to_jsonfg.py, importer.py).
THEOREM ConvertedIsAccepted == Spec => []ConversionIsAccepted
<1>1. Handlers => ConversionIsAccepted
  <2> SUFFICES ASSUME Handlers, NEW r \in Requests, NEW u \in ToSet(req[r].uploads),
                      u.format = "geojson",
                      NormalizeUpload(Profiles[req[r].profile], u) # NoDocument
               PROVE  LET profile == Profiles[req[r].profile]
                          d == NormalizeUpload(profile, u)
                      IN  \A i \in DOMAIN d.features :
                          LET f == d.features[i]
                          IN  /\ CollectionFor(profile, f.featureType, f.place.type) =
                                    CollectionForObjtype(profile, u.features[i].featureType,
                                                         u.features[i].place.type)
                              /\ FeatureErrors(profile, f, d.crs)
                                    \subseteq {"identity", "required", "coordinates"}
    BY DEF ConversionIsAccepted
  <2>1. req[r].profile \in DOMAIN Profiles /\ IsADocument(u)
    BY DEF Handlers, AreUploads
  <2> QED
    BY <2>1, ConversionOfADocument
<1> QED
  BY <1>1, HandlersAlways, PTL

-----------------------------------------------------------------------------
(* Nothing is posted for files with a bad feature.                          *)

HeldBack ==
    \A r \in Requests : req[r].prepared # <<>> =>
        \A i \in DOMAIN req[r].uploads :
            IsClean(Profiles[req[r].profile], req[r].uploads[i])

\* What the steps other than Prepare leave of the prepared features.
LEMMA PreparedFacts ==
    ASSUME Handlers, NEW r \in Requests,
           \/ ImportChunk(r) \/ RefuseChunk(r) \/ LoseChunk(r) \/ Answer(r) \/ Retry(r)
    PROVE  StepOf(r) /\ req'[r].prepared \in {req[r].prepared, <<>>}
BY StepOfImportChunk, StepOfEnd, StepOfRetry
   DEF RefuseChunk, LoseChunk, Answer, Fail, ImportEffect, EndEffect, NewEffect

LEMMA HeldBackInductive == Handlers /\ HeldBack /\ [Next]_vars => HeldBack'
<1> SUFFICES ASSUME Handlers, HeldBack, [Next]_vars PROVE HeldBack'
  OBVIOUS
<1>1. CASE UNCHANGED vars
  BY <1>1 DEF vars, HeldBack
<1>2. CASE Next
  <2>1. PICK r \in Requests :
           \/ Prepare(r)
           \/ ImportChunk(r)
           \/ RefuseChunk(r)
           \/ LoseChunk(r)
           \/ Answer(r)
           \/ Retry(r)
    BY <1>2 DEF Next
  <2>2. ASSUME Prepare(r) PROVE HeldBack'
    <3>1. StepOf(r) /\ PrepareEffect(r)
      BY <2>2, StepOfPrepare
    <3>2. Result(r).errors = {} =>
             \A i \in DOMAIN req[r].uploads :
                 IsClean(Profiles[req[r].profile], req[r].uploads[i])
      BY UploadsFacts DEF Handlers, Result
    <3>3. ASSUME NEW s \in Requests, req'[s].prepared # <<>>
          PROVE  \A i \in DOMAIN req'[s].uploads :
                     IsClean(Profiles[req'[s].profile], req'[s].uploads[i])
      <4>1. CASE s = r
        BY <3>1, <3>2, <3>3, <4>1 DEF StepOf, PrepareEffect
      <4>2. CASE s # r
        BY <3>1, <3>3, <4>2 DEF StepOf, HeldBack
      <4> QED
        BY <4>1, <4>2
    <3> QED
      BY <3>3 DEF HeldBack
  <2>3. ASSUME \/ ImportChunk(r) \/ RefuseChunk(r) \/ LoseChunk(r) \/ Answer(r) \/ Retry(r)
        PROVE  HeldBack'
    <3>1. StepOf(r) /\ req'[r].prepared \in {req[r].prepared, <<>>}
      BY <2>3, PreparedFacts
    <3> QED
      BY <3>1 DEF StepOf, HeldBack
  <2> QED
    BY <2>1, <2>2, <2>3
<1> QED
  BY <1>1, <1>2

\* "The complete document is validated and transformed before the first
\* upstream request" (gcimport/README.md): a handler with anything to post has
\* files of which every document could be converted and every feature, taken
\* for itself, has nothing wrong with it.  The loops over features and
\* documents are of any length.
THEOREM BadFeaturesAreHeldBack == Spec => []BadFeaturesHoldAllBack
<1>1. Init => HeldBack
  BY DEF Init, HeldBack, NewRequest
<1>2. HeldBack => BadFeaturesHoldAllBack
  BY DEF HeldBack, BadFeaturesHoldAllBack, IsClean, Documents, ToSet
<1> QED
  BY <1>1, <1>2, HandlersAlways, HeldBackInductive, PTL DEF Spec

-----------------------------------------------------------------------------
(* The answers.                                                             *)

\* The positions that have been posted are answered, with the row the batch put
\* the feature in, and those only.
Kept(q) ==
    /\ q.pc \in Pcs
    /\ IsASequence(q.prepared)
    /\ q.posted \subseteq DOMAIN q.prepared
    /\ (q.errors # {}) = (q.pc = "refused")
    /\ q.pc \in {"new", "refused"} => q.posted = {}
    /\ q.pc \in {"importing", "done", "failed"} =>
          /\ DOMAIN q.answer = DOMAIN q.prepared
          /\ \A i \in DOMAIN q.prepared :
                q.answer[i] = IF i \in q.posted THEN RowOf(q.prepared[i]) ELSE <<>>
    /\ q.pc = "done" => q.posted = DOMAIN q.prepared

AllKept == \A r \in Requests : Kept(req[r])

LEMMA KeptByPrepare ==
    ASSUME Handlers, NEW r \in Requests, Kept(req[r]), Prepare(r)
    PROVE  Kept(req'[r])
<1>1. PrepareEffect(r)
  BY StepOfPrepare
<1>2. IsASequence(Result(r).prepared)
  BY UploadsFacts DEF Handlers, Result
<1>3. IsASequence(<<>>) /\ DOMAIN <<>> = {}
  BY DEF IsASequence
<1>4. req[r].pc = "new" /\ req[r].posted = {}
  BY DEF Prepare, Kept
<1>5. CASE Result(r).errors = {}
  <2>1. /\ req'[r].pc = "importing" /\ req'[r].prepared = Result(r).prepared
        /\ req'[r].errors = {} /\ req'[r].posted = {}
        /\ req'[r].answer = [i \in DOMAIN Result(r).prepared |-> <<>>]
    BY <1>1, <1>4, <1>5 DEF PrepareEffect
  <2> QED
    BY <1>2, <2>1 DEF Kept, Pcs
<1>6. CASE Result(r).errors # {}
  <2>1. /\ req'[r].pc = "refused" /\ req'[r].prepared = <<>>
        /\ req'[r].errors # {} /\ req'[r].posted = {}
    BY <1>1, <1>4, <1>6 DEF PrepareEffect
  <2> QED
    BY <1>3, <2>1 DEF Kept, Pcs
<1> QED
  BY <1>5, <1>6

LEMMA KeptByImportChunk ==
    ASSUME Handlers, NEW r \in Requests, Kept(req[r]), ImportChunk(r)
    PROVE  Kept(req'[r])
<1> DEFINE prepared == req[r].prepared
           chunk == NextChunk(prepared, req[r].posted)
<1>1. /\ req'[r].pc = "importing" /\ req[r].pc = "importing"
      /\ req'[r].prepared = prepared
      /\ req'[r].errors = req[r].errors
      /\ req'[r].posted = req[r].posted \cup chunk
      /\ req'[r].answer = AnswerByIndex(r, chunk)
  BY StepOfImportChunk DEF ImportChunk, ImportEffect, Importing
<1>2. chunk \subseteq DOMAIN prepared
  BY ChunkFacts DEF Kept
<1> HIDE DEF chunk
<1>3. /\ DOMAIN req[r].answer = DOMAIN prepared
      /\ \A i \in DOMAIN prepared :
            req[r].answer[i] = IF i \in req[r].posted THEN RowOf(prepared[i]) ELSE <<>>
  BY <1>1 DEF Kept
<1>4. /\ DOMAIN req'[r].answer = DOMAIN prepared
      /\ \A i \in DOMAIN prepared :
            req'[r].answer[i] = IF i \in req'[r].posted THEN RowOf(prepared[i]) ELSE <<>>
  <2>1. /\ DOMAIN req'[r].answer = DOMAIN prepared
        /\ \A i \in DOMAIN prepared :
              req'[r].answer[i] = IF i \in chunk THEN RowOf(prepared[i])
                                  ELSE req[r].answer[i]
    BY <1>1, <1>3 DEF AnswerByIndex, RowOf
  <2> QED
    BY <1>1, <1>3, <2>1
<1> QED
  BY <1>1, <1>2, <1>4 DEF Kept, Pcs

LEMMA KeptByEnd ==
    ASSUME Handlers, NEW r \in Requests, Kept(req[r]), Importing(r),
           \/ RefuseChunk(r) \/ LoseChunk(r) \/ Answer(r)
    PROVE  Kept(req'[r]) /\ req'[r].prepared = req[r].prepared
              /\ req'[r].posted = req[r].posted
<1>1. CASE RefuseChunk(r) \/ LoseChunk(r)
  <2>1. EndEffect(r, "failed")
    BY <1>1, StepOfEnd DEF RefuseChunk, LoseChunk, Fail
  <2> QED
    BY <2>1 DEF EndEffect, Kept, Pcs, Importing
<1>2. CASE Answer(r)
  <2>1. EndEffect(r, "done") /\ Unposted(r) = {}
    BY <1>2, StepOfEnd DEF Answer
  <2>2. req[r].posted = DOMAIN req[r].prepared
    BY <2>1 DEF Unposted, Kept
  <2> QED
    BY <2>1, <2>2 DEF EndEffect, Kept, Pcs, Importing
<1> QED
  BY <1>1, <1>2

LEMMA KeptInductive == Handlers /\ AllKept /\ [Next]_vars => AllKept'
<1> SUFFICES ASSUME Handlers, AllKept, [Next]_vars PROVE AllKept'
  OBVIOUS
<1>1. CASE UNCHANGED vars
  BY <1>1 DEF vars, AllKept
<1>2. CASE Next
  <2>1. PICK r \in Requests :
           \/ Prepare(r)
           \/ ImportChunk(r)
           \/ RefuseChunk(r)
           \/ LoseChunk(r)
           \/ Answer(r)
           \/ Retry(r)
    BY <1>2 DEF Next
  <2>2. Kept(req[r])
    BY DEF AllKept
  <2>3. StepOf(r)
    BY <2>1, StepOfPrepare, PreparedFacts
  <2>4. Kept(req'[r])
    <3>1. ASSUME Retry(r) PROVE Kept(req'[r])
      <4>1. IsASequence(<<>>) /\ DOMAIN <<>> = {}
        BY DEF IsASequence
      <4> QED
        BY <3>1, <4>1, StepOfRetry DEF NewEffect, Kept, Pcs
    <3> QED
      BY <2>1, <2>2, <3>1, KeptByPrepare, KeptByImportChunk, KeptByEnd
         DEF RefuseChunk, LoseChunk, Answer
  <2> QED
    BY <2>3, <2>4 DEF AllKept, StepOf
<1> QED
  BY <1>1, <1>2

LEMMA KeptAlways == Spec => []AllKept
<1>1. Init => AllKept
  <2>1. IsASequence(<<>>) /\ DOMAIN <<>> = {}
    BY DEF IsASequence
  <2> QED
    BY <2>1 DEF Init, AllKept, NewRequest, Kept, Pcs
<1> QED
  BY <1>1, HandlersAlways, KeptInductive, PTL DEF Spec

\* "The response reports the stable UUID ... for every feature"
\* (gcimport/README.md): however the features are grouped into batches, the
\* answer of a finished request gives every prepared feature, in the order of
\* the files, the row it was sent to.
THEOREM AnswersAreInOrder == Spec => []AnswersFollowTheDocument
<1>1. AllKept => AnswersFollowTheDocument
  BY DEF AllKept, Kept, AnswersFollowTheDocument, RowOf
<1> QED
  BY <1>1, KeptAlways, PTL

-----------------------------------------------------------------------------
(* The rows.                                                                *)

\* Every row stands under the id of its feature and names its last writer.
RowsAreSound ==
    /\ DOMAIN rows = DOMAIN writer
    /\ \A k \in DOMAIN rows : rows[k].featureId.word = k[2] /\ writer[k] \in Requests
    /\ budget \in 0 .. MaxFaults

\* What a request that is under way or done has posted is in the table.
Stored(r) ==
    (req[r].pc \in {"importing", "done"} /\ RowsAreDistinct(req[r].prepared)) =>
        \A i \in req[r].posted :
            LET p == req[r].prepared[i]
            IN  /\ RowOf(p) \in DOMAIN rows
                /\ writer[RowOf(p)] = r => rows[RowOf(p)] = p

AllStored == \A r \in Requests : Stored(r)

\* A batch is stored by ImportChunk, and by LoseChunk when the answer is lost.
StoresOf(r) == Store(r, req[r].prepared, NextChunk(req[r].prepared, req[r].posted))

LEMMA RowsStayOrAreStored ==
    ASSUME NEW r,
           \/ Prepare(r) \/ ImportChunk(r) \/ RefuseChunk(r)
           \/ LoseChunk(r) \/ Answer(r) \/ Retry(r)
    PROVE  \/ UNCHANGED <<rows, writer>>
           \/ StoresOf(r) /\ (ImportChunk(r) \/ LoseChunk(r))
BY DEF Prepare, ImportChunk, RefuseChunk, LoseChunk, Answer, Retry, StoresOf

LEMMA BudgetFacts ==
    ASSUME RowsAreSound, NEW r,
           \/ Prepare(r) \/ ImportChunk(r) \/ RefuseChunk(r)
           \/ LoseChunk(r) \/ Answer(r) \/ Retry(r)
    PROVE  budget' \in 0 .. MaxFaults
<1>1. MaxFaults \in Nat /\ budget \in 0 .. MaxFaults
  BY LimitsAssumption DEF RowsAreSound
<1>2. CASE LoseChunk(r)
  <2>1. budget > 0 /\ budget' = budget - 1
    BY <1>2 DEF LoseChunk
  <2> QED
    BY <1>1, <2>1
<1>3. CASE ~ LoseChunk(r)
  <2>1. budget' = budget
    BY <1>3 DEF Prepare, ImportChunk, RefuseChunk, Answer, Retry
  <2> QED
    BY <1>1, <2>1
<1> QED
  BY <1>2, <1>3

LEMMA StoresWrite ==
    ASSUME AllKept, NEW r \in Requests, StoresOf(r)
    PROVE  \E prepared, chunk :
              /\ prepared = req[r].prepared
              /\ chunk = NextChunk(prepared, req[r].posted)
              /\ chunk \subseteq DOMAIN prepared \ req[r].posted
              /\ Writes(r, prepared, chunk)
<1>1. PICK prepared : prepared = req[r].prepared
  OBVIOUS
<1>2. PICK posted : posted = req[r].posted
  OBVIOUS
<1>3. IsASequence(prepared)
  BY <1>1 DEF AllKept, Kept
<1>4. Store(r, prepared, NextChunk(prepared, posted))
  BY <1>1, <1>2 DEF StoresOf
<1>5. Writes(r, prepared, NextChunk(prepared, posted))
  BY <1>3, <1>4, StoreFacts
<1>6. NextChunk(prepared, posted) \subseteq DOMAIN prepared \ posted
  BY <1>3, ChunkFacts
<1> QED
  BY <1>1, <1>2, <1>5, <1>6

LEMMA RowsInductive == Handlers /\ AllKept /\ RowsAreSound /\ [Next]_vars => RowsAreSound'
<1> SUFFICES ASSUME AllKept, RowsAreSound, [Next]_vars PROVE RowsAreSound'
  OBVIOUS
<1>1. CASE UNCHANGED vars
  BY <1>1 DEF vars, RowsAreSound
<1>2. CASE Next
  <2>1. PICK r \in Requests :
           \/ Prepare(r) \/ ImportChunk(r) \/ RefuseChunk(r)
           \/ LoseChunk(r) \/ Answer(r) \/ Retry(r)
    BY <1>2 DEF Next
  <2>2. budget' \in 0 .. MaxFaults
    BY <2>1, BudgetFacts
  <2>3. CASE UNCHANGED <<rows, writer>>
    BY <2>2, <2>3 DEF RowsAreSound
  <2>4. CASE StoresOf(r)
    <3>1. PICK prepared, chunk : Writes(r, prepared, chunk)
      BY <2>4, StoresWrite
    <3> DEFINE keys == {RowOf(prepared[i]) : i \in chunk}
    <3>2. /\ DOMAIN rows' = DOMAIN rows \cup keys
          /\ DOMAIN writer' = DOMAIN writer \cup keys
          /\ \A k \in DOMAIN rows \ keys : rows'[k] = rows[k]
          /\ \A k \in DOMAIN writer \ keys : writer'[k] = writer[k]
          /\ \A k \in keys : \E i \in chunk :
                k = RowOf(prepared[i]) /\ rows'[k] = prepared[i] /\ writer'[k] = r
      BY <3>1 DEF Writes
    <3> HIDE DEF keys
    <3>3. \A k \in keys : rows'[k].featureId.word = k[2] /\ writer'[k] \in Requests
      BY <3>2 DEF RowOf
    <3>4. \A k \in DOMAIN rows \ keys :
             rows'[k].featureId.word = k[2] /\ writer'[k] \in Requests
      BY <3>2 DEF RowsAreSound
    <3> QED
      BY <2>2, <3>2, <3>3, <3>4 DEF RowsAreSound
  <2> QED
    BY <2>1, <2>3, <2>4, RowsStayOrAreStored
<1> QED
  BY <1>1, <1>2

LEMMA RowsAlways == Spec => []RowsAreSound
<1>1. Init => RowsAreSound
  <2>1. DOMAIN <<>> = {}
    OBVIOUS
  <2> QED
    BY <2>1, LimitsAssumption DEF Init, RowsAreSound
<1> QED
  BY <1>1, HandlersAlways, KeptAlways, RowsInductive, PTL DEF Spec

\* The handlers of gcimport keep to their states and the rows of geocomponents
\* stand under their features' ids (importer.py).
THEOREM TypeCorrect == Spec => []TypeOK
<1>1. AllKept /\ RowsAreSound => TypeOK
  <2> SUFFICES ASSUME AllKept, RowsAreSound PROVE TypeOK
    OBVIOUS
  <2>1. ASSUME NEW r \in Requests, req[r].pc \in {"importing", "done", "failed"}
        PROVE  {i \in DOMAIN req[r].answer : req[r].answer[i] # <<>>} = req[r].posted
    <3>1. \A i \in DOMAIN req[r].prepared : RowOf(req[r].prepared[i]) # <<>>
      BY DEF RowOf
    <3> QED
      BY <2>1, <3>1 DEF AllKept, Kept
  <2> QED
    BY <2>1 DEF AllKept, Kept, RowsAreSound, TypeOK
<1> QED
  BY <1>1, KeptAlways, RowsAlways, PTL

\* A batch leaves what other requests wrote last, or takes it over.
LEMMA OthersStayStored ==
    ASSUME AllKept, RowsAreSound, NEW r \in Requests,
           UNCHANGED <<rows, writer>> \/ StoresOf(r), StepOf(r),
           NEW s \in Requests, s # r, Stored(s)
    PROVE  Stored(s)'
<1>1. req'[s] = req[s]
  BY DEF StepOf
<1>2. CASE UNCHANGED <<rows, writer>>
  BY <1>1, <1>2 DEF Stored
<1>3. CASE StoresOf(r)
  <2>1. PICK prepared, chunk : Writes(r, prepared, chunk)
    BY <1>3, StoresWrite
  <2> DEFINE keys == {RowOf(prepared[i]) : i \in chunk}
  <2>2. /\ DOMAIN rows' = DOMAIN rows \cup keys
        /\ \A k \in DOMAIN rows \ keys : rows'[k] = rows[k] /\ writer'[k] = writer[k]
        /\ \A k \in keys : writer'[k] = r
    BY <2>1 DEF Writes, RowsAreSound
  <2> HIDE DEF keys
  <2> QED
    BY <1>1, <2>2 DEF Stored
<1> QED
  BY <1>2, <1>3

LEMMA StoredByImportChunk ==
    ASSUME Handlers, AllKept, RowsAreSound, NEW r \in Requests, ImportChunk(r), Stored(r)
    PROVE  Stored(r)'
<1>1. PICK prepared, chunk :
         /\ prepared = req[r].prepared
         /\ chunk = NextChunk(prepared, req[r].posted)
         /\ chunk \subseteq DOMAIN prepared \ req[r].posted
         /\ Writes(r, prepared, chunk)
  BY StoresWrite DEF ImportChunk, StoresOf
<1>2. /\ req[r].pc = "importing" /\ req'[r].prepared = prepared
      /\ req'[r].posted = req[r].posted \cup chunk
      /\ req[r].posted \subseteq DOMAIN prepared
  BY <1>1, StepOfImportChunk DEF ImportEffect, ImportChunk, Importing, AllKept, Kept
<1> DEFINE keys == {RowOf(prepared[i]) : i \in chunk}
<1>3. /\ DOMAIN rows' = DOMAIN rows \cup keys
      /\ \A k \in DOMAIN rows \ keys : rows'[k] = rows[k] /\ writer'[k] = writer[k]
      /\ \A k \in keys : \E i \in chunk : k = RowOf(prepared[i]) /\ rows'[k] = prepared[i]
  BY <1>1 DEF Writes, RowsAreSound
<1>4. ASSUME RowsAreDistinct(prepared), NEW i \in req'[r].posted
      PROVE  LET k == RowOf(prepared[i])
             IN  k \in DOMAIN rows' /\ (writer'[k] = r => rows'[k] = prepared[i])
  <2>1. CASE i \in chunk
    <3>1. RowOf(prepared[i]) \in keys
      BY <2>1
    <3>2. PICK j \in chunk : /\ RowOf(prepared[i]) = RowOf(prepared[j])
                             /\ rows'[RowOf(prepared[i])] = prepared[j]
      BY <1>3, <3>1
    <3>3. i = j
      BY <1>1, <1>4, <2>1, <3>2 DEF RowsAreDistinct
    <3> QED
      BY <1>3, <3>1, <3>2, <3>3
  <2>2. CASE i \in req[r].posted
    <3>1. RowOf(prepared[i]) \notin keys
      <4>1. \A j \in chunk : RowOf(prepared[i]) = RowOf(prepared[j]) => i = j
        BY <1>1, <1>2, <1>4, <2>2 DEF RowsAreDistinct
      <4> QED
        BY <1>1, <2>2, <4>1
    <3>2. /\ RowOf(prepared[i]) \in DOMAIN rows
          /\ writer[RowOf(prepared[i])] = r => rows[RowOf(prepared[i])] = prepared[i]
      BY <1>1, <1>2, <1>4, <2>2 DEF Stored
    <3> QED
      BY <1>3, <3>1, <3>2
  <2> QED
    BY <1>2, <2>1, <2>2
<1> HIDE DEF keys
<1> QED
  BY <1>2, <1>4 DEF Stored

LEMMA StoredInductive ==
    Handlers /\ AllKept /\ RowsAreSound /\ AllStored /\ [Next]_vars => AllStored'
<1> SUFFICES ASSUME Handlers, AllKept, RowsAreSound, AllStored, [Next]_vars
             PROVE  AllStored'
  OBVIOUS
<1>1. CASE UNCHANGED vars
  BY <1>1 DEF vars, AllStored, Stored
<1>2. CASE Next
  <2>1. PICK r \in Requests :
           \/ Prepare(r) \/ ImportChunk(r) \/ RefuseChunk(r)
           \/ LoseChunk(r) \/ Answer(r) \/ Retry(r)
    BY <1>2 DEF Next
  <2>2. StepOf(r)
    BY <2>1, StepOfPrepare, PreparedFacts
  <2>3. UNCHANGED <<rows, writer>> \/ StoresOf(r)
    BY <2>1, RowsStayOrAreStored
  <2>4. Kept(req[r]) /\ Stored(r)
    BY DEF AllKept, AllStored
  <2>5. Stored(r)'
    <3>1. CASE Prepare(r)
      <4>1. req'[r].posted = {}
        BY <2>4, <3>1, StepOfPrepare DEF PrepareEffect, Kept, Prepare
      <4> QED
        BY <4>1 DEF Stored
    <3>2. CASE ImportChunk(r)
      BY <2>4, <3>2, StoredByImportChunk
    <3>3. CASE RefuseChunk(r) \/ LoseChunk(r)
      <4>1. req'[r].pc = "failed"
        BY <3>3, StepOfEnd DEF RefuseChunk, LoseChunk, Fail, EndEffect
      <4> QED
        BY <4>1 DEF Stored
    <3>4. CASE Answer(r)
      <4>1. /\ req[r].pc = "importing" /\ UNCHANGED <<rows, writer>>
            /\ req'[r].prepared = req[r].prepared /\ req'[r].posted = req[r].posted
        BY <3>4, StepOfEnd DEF Answer, Importing, EndEffect
      <4> QED
        BY <2>4, <4>1 DEF Stored
    <3>5. CASE Retry(r)
      <4>1. req'[r].pc = "new"
        BY <3>5, StepOfRetry DEF NewEffect
      <4> QED
        BY <4>1 DEF Stored
    <3> QED
      BY <2>1, <3>1, <3>2, <3>3, <3>4, <3>5
  <2>6. ASSUME NEW s \in Requests, s # r PROVE Stored(s)'
    BY <2>2, <2>3, <2>6, OthersStayStored DEF AllStored
  <2> QED
    BY <2>5, <2>6 DEF AllStored
<1> QED
  BY <1>1, <1>2

\* A finished request whose features have rows of their own has every one of
\* them in the table, and as it was prepared unless another request has
\* written the row since; earlier attempts that failed after some of their
\* batches do not matter (importer.py _import_chunk, the retry of an upload).
THEOREM UploadsAreStored == Spec => []StoredAsUploaded
<1>1. Init => AllStored
  BY DEF Init, NewRequest, AllStored, Stored
<1>2. AllKept /\ AllStored => StoredAsUploaded
  BY DEF AllKept, Kept, AllStored, Stored, StoredAsUploaded
<1> QED
  BY <1>1, <1>2, HandlersAlways, KeptAlways, RowsAlways, StoredInductive, PTL DEF Spec

-----------------------------------------------------------------------------
(* What a document means for an identity.                                   *)

LEMMA PathsAreALoop ==
    ASSUME NEW profile, NEW d, IsASequence(d.features), NEW identity
    PROVE  LET n == Len(d.features)
           IN  \E acc : /\ Runs(acc, "paths", profile, identity, d.features, n)
                        /\ acc[n] = PathsWith(profile, d, identity)
<1> DEFINE n == Len(d.features)
           iter == CHOOSE g : g = [s \in SUBSET (1 .. n) |->
                      IF s = {} THEN <<>>
                      ELSE IF HasIdentity(profile, d.features[Max(s)], identity)
                           THEN g[s \ {Max(s)}] \o PathsOf(d.features[Max(s)].place.parts)
                           ELSE g[s \ {Max(s)}]]
<1>1. n \in Nat /\ DOMAIN d.features = 1 .. n
  BY SequenceFacts
<1>2. PathsWith(profile, d, identity) = iter[1 .. n]
  BY <1>1 DEF PathsWith, FoldLeft, MapThenFoldSet
<1>3. Folds(iter, "paths", profile, identity, d.features, n)
  <2> HIDE DEF n
  <2>1. PICK g : Folds(g, "paths", profile, identity, d.features, n)
    BY <1>1, FoldExists
  <2>2. g = [s \in SUBSET (1 .. n) |->
                IF s = {} THEN <<>>
                ELSE IF HasIdentity(profile, d.features[Max(s)], identity)
                     THEN g[s \ {Max(s)}] \o PathsOf(d.features[Max(s)].place.parts)
                     ELSE g[s \ {Max(s)}]]
    BY <2>1 DEF Folds, LoopBody, LoopStart
  <2>3. iter = [s \in SUBSET (1 .. n) |->
                IF s = {} THEN <<>>
                ELSE IF HasIdentity(profile, d.features[Max(s)], identity)
                     THEN iter[s \ {Max(s)}] \o PathsOf(d.features[Max(s)].place.parts)
                     ELSE iter[s \ {Max(s)}]]
    BY <2>2
  <2> HIDE DEF iter
  <2> QED
    BY <2>3 DEF Folds, LoopBody, LoopStart
<1> HIDE DEF n, iter
<1>4. \E acc : /\ Runs(acc, "paths", profile, identity, d.features, n)
               /\ acc[n] = iter[1 .. n]
  BY <1>1, <1>3, FoldIsALoop
<1> QED
  BY <1>2, <1>4 DEF n

LEMMA CountIsALoop ==
    ASSUME NEW profile, NEW docs, IsASequence(docs)
    PROVE  LET n == Len(docs)
           IN  \E acc : /\ Runs(acc, "count", profile, NoCrs, docs, n)
                        /\ acc[n] = IdentityCount(profile, docs)
<1> DEFINE n == Len(docs)
           iter == CHOOSE g : g = [s \in SUBSET (1 .. n) |->
                      IF s = {} THEN 0
                      ELSE g[s \ {Max(s)}] + Cardinality(Identities(profile, docs[Max(s)]))]
<1>1. n \in Nat /\ DOMAIN docs = 1 .. n
  BY SequenceFacts
<1>2. IdentityCount(profile, docs) = iter[1 .. n]
  BY <1>1 DEF IdentityCount, FoldLeft, MapThenFoldSet
<1>3. Folds(iter, "count", profile, NoCrs, docs, n)
  <2> HIDE DEF n
  <2>1. PICK g : Folds(g, "count", profile, NoCrs, docs, n)
    BY <1>1, FoldExists
  <2>2. g = [s \in SUBSET (1 .. n) |->
                IF s = {} THEN 0
                ELSE g[s \ {Max(s)}] + Cardinality(Identities(profile, docs[Max(s)]))]
    BY <2>1 DEF Folds, LoopBody, LoopStart
  <2>3. iter = [s \in SUBSET (1 .. n) |->
                IF s = {} THEN 0
                ELSE iter[s \ {Max(s)}] + Cardinality(Identities(profile, docs[Max(s)]))]
    BY <2>2
  <2> HIDE DEF iter
  <2> QED
    BY <2>3 DEF Folds, LoopBody, LoopStart
<1> HIDE DEF n, iter
<1>4. \E acc : Runs(acc, "count", profile, NoCrs, docs, n) /\ acc[n] = iter[1 .. n]
  BY <1>1, <1>3, FoldIsALoop
<1> QED
  BY <1>2, <1>4 DEF n

\* The paths of an identity in the first features of a document.
PathsRun(profile, d, identity) ==
    CHOOSE acc : /\ Runs(acc, "paths", profile, identity, d.features, Len(d.features))
                 /\ acc[Len(d.features)] = PathsWith(profile, d, identity)

LEMMA PathsRunFacts ==
    ASSUME NEW profile, NEW d, IsASequence(d.features), NEW identity
    PROVE  LET run == PathsRun(profile, d, identity)
               n == Len(d.features)
           IN  /\ run[0] = <<>>
               /\ \A k \in 0 .. n - 1 :
                     LET f == d.features[k + 1]
                     IN  run[k + 1] = IF HasIdentity(profile, f, identity)
                                      THEN run[k] \o PathsOf(f.place.parts)
                                      ELSE run[k]
               /\ run[n] = PathsWith(profile, d, identity)
<1> DEFINE run == PathsRun(profile, d, identity)
           n == Len(d.features)
<1>1. Runs(run, "paths", profile, identity, d.features, n)
         /\ run[n] = PathsWith(profile, d, identity)
  BY PathsAreALoop DEF PathsRun
<1> HIDE DEF run, n
<1> QED
  BY <1>1 DEF Runs, LoopBody, LoopStart, run, n

\* No feature of an identity, no paths.
LEMMA NoPathsYet ==
    ASSUME NEW profile, NEW d, IsASequence(d.features), NEW identity,
           NEW k \in 0 .. Len(d.features),
           \A i \in 1 .. k : IdentityOf(profile, d.features[i]) # identity
    PROVE  PathsRun(profile, d, identity)[k] = <<>>
<1> DEFINE run == PathsRun(profile, d, identity)
           S == {m \in Nat : m <= k => run[m] = <<>>}
<1>1. Len(d.features) \in Nat
  BY SequenceFacts
<1>2. 0 \in S
  BY PathsRunFacts
<1>3. ASSUME NEW m \in S PROVE m + 1 \in S
  <2>1. SUFFICES ASSUME m + 1 <= k PROVE run[m + 1] = <<>>
    OBVIOUS
  <2>2. m \in Nat /\ m \in 0 .. Len(d.features) - 1 /\ m + 1 \in 1 .. k /\ m <= k
    BY <1>1, <2>1
  <2>3. run[m] = <<>> /\ IdentityOf(profile, d.features[m + 1]) # identity
    BY <2>2
  <2>4. ~ HasIdentity(profile, d.features[m + 1], identity)
    BY <2>3 DEF HasIdentity
  <2> QED
    BY <2>2, <2>3, <2>4, PathsRunFacts
<1>4. S \in SUBSET Nat
  OBVIOUS
<1> HIDE DEF S
<1>5. Nat = S
  BY <1>2, <1>3, <1>4, Induction
<1>6. k \in S /\ k <= k
  BY <1>1, <1>5
<1> QED
  BY <1>6 DEF S

-----------------------------------------------------------------------------
(* Every feature is carried.                                                *)

LEMMA PathsOfConcat ==
    ASSUME NEW s, IsASequence(s), NEW r, IsASequence(r)
    PROVE  PathsOf(s \o r) = PathsOf(s) \o PathsOf(r)
<1> DEFINE S == ToSet(s) \cup ToSet(r)
           P == {p.path : p \in S}
           t == s \o r
           a == PathsOf(s)
           b == PathsOf(r)
           c == a \o b
<1>1. s \in Seq(S) /\ r \in Seq(S)
  BY DEF IsASequence
<1>2. /\ Len(s) \in Nat /\ DOMAIN s = 1 .. Len(s)
      /\ Len(r) \in Nat /\ DOMAIN r = 1 .. Len(r)
      /\ \A i \in DOMAIN s : s[i] \in S
      /\ \A i \in DOMAIN r : r[i] \in S
  BY <1>1
<1>3. /\ DOMAIN t = 1 .. Len(s) + Len(r)
      /\ \A i \in DOMAIN t : t[i] = IF i <= Len(s) THEN s[i] ELSE r[i - Len(s)]
  BY <1>1
<1>4. a \in [1 .. Len(s) -> P] /\ b \in [1 .. Len(r) -> P]
  BY <1>2 DEF PathsOf
<1>5. a \in Seq(P) /\ Len(a) = Len(s) /\ b \in Seq(P) /\ Len(b) = Len(r)
  BY <1>2, <1>4
<1> HIDE DEF a, b, t, S, P
<1>6. /\ DOMAIN c = 1 .. Len(s) + Len(r)
      /\ c = [i \in 1 .. Len(s) + Len(r) |-> c[i]]
      /\ \A i \in DOMAIN c : c[i] = IF i <= Len(s) THEN a[i] ELSE b[i - Len(s)]
  <2>1. c \in Seq(P) /\ Len(c) = Len(s) + Len(r)
    BY <1>2, <1>5
  <2>2. \A i \in 1 .. Len(s) + Len(r) : c[i] = IF i <= Len(s) THEN a[i] ELSE b[i - Len(s)]
    BY <1>2, <1>5
  <2> HIDE DEF c
  <2> QED
    BY <1>2, <2>1, <2>2
<1>7. ASSUME NEW i \in 1 .. Len(s) + Len(r) PROVE c[i] = t[i].path
  <2>1. CASE i <= Len(s)
    BY <1>2, <1>3, <1>6, <2>1 DEF a, PathsOf
  <2>2. CASE ~ (i <= Len(s))
    <3>1. i - Len(s) \in 1 .. Len(r)
      BY <1>2, <2>2
    <3> QED
      BY <1>2, <1>3, <1>6, <2>2, <3>1 DEF b, PathsOf
  <2> QED
    BY <2>1, <2>2
<1> HIDE DEF c
<1>8. PathsOf(t) = c
  BY <1>3, <1>6, <1>7 DEF PathsOf
<1> QED
  BY <1>8 DEF a, b, c, t

IsAPreparedFeature(p) ==
    /\ p = [collection |-> p.collection, featureId |-> p.featureId,
            outward |-> p.outward, identity |-> p.identity, props |-> p.props,
            type |-> p.type, parts |-> p.parts]
    /\ IsASequence(p.parts)

LEMMA PreparedFeatureFacts ==
    ASSUME NEW profile, NEW crs, NEW f, IsASequence(f.place.parts)
    PROVE  LET item == PreparedFeature(profile, f, crs)
           IN  /\ IsAPreparedFeature(item)
               /\ item.identity = IdentityOf(profile, f)
               /\ PathsOf(item.parts) = PathsOf(f.place.parts)
<1> DEFINE parts == f.place.parts
           made == [i \in DOMAIN parts |-> [path |-> parts[i].path,
                                            crs |-> SourceCrs(f, crs)]]
           item == PreparedFeature(profile, f, crs)
<1>1. /\ item = [collection |-> item.collection, featureId |-> item.featureId,
                 outward |-> item.outward, identity |-> item.identity,
                 props |-> item.props, type |-> item.type, parts |-> item.parts]
      /\ item.identity = IdentityOf(profile, f)
      /\ item.parts = made
  BY DEF PreparedFeature
<1>2. DOMAIN parts = 1 .. Len(parts) /\ Len(parts) \in Nat
  BY SequenceFacts
<1>3. IsASequence(made)
  BY <1>2, SequenceIntro
<1>4. PathsOf(made) = PathsOf(parts)
  BY DEF PathsOf
<1> HIDE DEF made, item
<1> QED
  BY <1>1, <1>3, <1>4 DEF IsAPreparedFeature, item

LEMMA MergedFacts ==
    ASSUME NEW a, IsAPreparedFeature(a), NEW b, IsAPreparedFeature(b)
    PROVE  /\ IsAPreparedFeature(Merged(a, b))
           /\ Merged(a, b).identity = a.identity
           /\ PathsOf(Merged(a, b).parts) = PathsOf(a.parts) \o PathsOf(b.parts)
<1> DEFINE parts == a.parts \o b.parts
           m == Merged(a, b)
<1>1. IsASequence(parts)
  BY ConcatFacts DEF IsAPreparedFeature
<1>2. PathsOf(parts) = PathsOf(a.parts) \o PathsOf(b.parts)
  BY PathsOfConcat DEF IsAPreparedFeature
<1>3. m = [a EXCEPT !.parts = parts]
  BY DEF Merged
<1> HIDE DEF parts, m
<1>4. m = [collection |-> a.collection, featureId |-> a.featureId,
           outward |-> a.outward, identity |-> a.identity, props |-> a.props,
           type |-> a.type, parts |-> parts]
  BY <1>3 DEF IsAPreparedFeature
<1> QED
  BY <1>1, <1>2, <1>4 DEF IsAPreparedFeature, parts, m

\* A feature without errors is a new entry, or goes into the entry that has its
\* identity.
TakesIn(P, Q, identity, paths) ==
    \/ /\ \A j \in DOMAIN P : P[j].identity # identity
       /\ \E item : /\ IsAPreparedFeature(item) /\ item.identity = identity
                    /\ PathsOf(item.parts) = paths
                    /\ Q = Append(P, item)
    \/ \E k \in DOMAIN P : \E item :
          /\ P[k].identity = identity
          /\ IsAPreparedFeature(item) /\ item.identity = identity
          /\ PathsOf(item.parts) = PathsOf(P[k].parts) \o paths
          /\ Q = [P EXCEPT ![k] = item]

LEMMA NextTakesIn ==
    ASSUME NEW profile, NEW crs, NEW acc, NEW f,
           IsPreparation(acc), IsASequence(acc.prepared), IsASequence(f.place.parts),
           \A j \in DOMAIN acc.prepared : IsAPreparedFeature(acc.prepared[j]),
           PrepareNext(profile, crs, acc, f).errors = {}
    PROVE  LET identity == IdentityOf(profile, f)
           IN  /\ HasIdentity(profile, f, identity)
               /\ TakesIn(acc.prepared, PrepareNext(profile, crs, acc, f).prepared,
                          identity, PathsOf(f.place.parts))
<1> DEFINE identity == IdentityOf(profile, f)
           paths == PathsOf(f.place.parts)
           errors == FeatureErrors(profile, f, crs)
           item == PreparedFeature(profile, f, crs)
           P == acc.prepared
           same == {k \in DOMAIN P : P[k].identity = item.identity}
           k == CHOOSE i \in same : TRUE
           next == PrepareNext(profile, crs, acc, f)
<1>1. next = IF errors # {} THEN [acc EXCEPT !.errors = @ \cup errors]
             ELSE IF same = {} THEN [acc EXCEPT !.prepared = Append(@, item)]
             ELSE IF CanMerge(profile, P[k], item)
                  THEN [acc EXCEPT !.prepared[k] = Merged(@, item)]
                  ELSE [acc EXCEPT !.errors = @ \cup {"duplicate"}]
  BY DEF PrepareNext
<1>2. errors = {}
  BY NextFacts
<1>3. HasIdentity(profile, f, identity)
  <2>1. \A n \in ToSet(profile.identity) : Has(f.props, n)
    BY <1>2 DEF FeatureErrors
  <2> QED
    BY <2>1 DEF HasIdentity, ToSet
<1>4. IsAPreparedFeature(item) /\ item.identity = identity /\ PathsOf(item.parts) = paths
  BY PreparedFeatureFacts
<1> HIDE DEF item, errors, identity, paths
<1>5. CASE same = {}
  <2>1. next = [acc EXCEPT !.prepared = Append(@, item)]
    BY <1>1, <1>2, <1>5
  <2>2. next.prepared = Append(P, item)
    BY <2>1 DEF IsPreparation
  <2>3. \A j \in DOMAIN P : P[j].identity # identity
    BY <1>4, <1>5
  <2> HIDE DEF next, P
  <2>4. TakesIn(P, next.prepared, identity, paths)
    BY <1>4, <2>2, <2>3 DEF TakesIn
  <2> QED
    BY <1>3, <2>4 DEF next, P, identity, paths
<1>6. CASE same # {}
  <2>1. k \in same
    BY <1>6
  <2> HIDE DEF k
  <2>2. next = IF CanMerge(profile, P[k], item)
               THEN [acc EXCEPT !.prepared[k] = Merged(@, item)]
               ELSE [acc EXCEPT !.errors = @ \cup {"duplicate"}]
    BY <1>1, <1>2, <1>6
  <2>3. CanMerge(profile, P[k], item)
    <3>1. [acc EXCEPT !.errors = @ \cup {"duplicate"}].errors # {}
      BY DEF IsPreparation
    <3> QED
      BY <2>2, <3>1
  <2> DEFINE m == Merged(P[k], item)
  <2>4. next.prepared = [P EXCEPT ![k] = m]
    BY <2>2, <2>3 DEF IsPreparation
  <2>5. /\ IsAPreparedFeature(m) /\ m.identity = identity
        /\ PathsOf(m.parts) = PathsOf(P[k].parts) \o paths
    BY <1>4, <2>1, MergedFacts
  <2>6. k \in DOMAIN P /\ P[k].identity = identity
    BY <1>4, <2>1
  <2> HIDE DEF next, P, m
  <2>7. TakesIn(P, next.prepared, identity, paths)
    BY <2>4, <2>5, <2>6 DEF TakesIn
  <2> QED
    BY <1>3, <2>7 DEF next, P, identity, paths
<1> QED
  BY <1>5, <1>6

LEMMA PathsFacts ==
    ASSUME NEW s, IsASequence(s)
    PROVE  IsASequence(PathsOf(s)) /\ <<>> \o PathsOf(s) = PathsOf(s)
<1> DEFINE paths == PathsOf(s)
           P == ToSet(paths)
<1>1. Len(s) \in Nat /\ DOMAIN s = 1 .. Len(s)
  BY SequenceFacts
<1>2. paths = [i \in 1 .. Len(s) |-> paths[i]]
  BY <1>1 DEF PathsOf
<1> HIDE DEF paths
<1>3. IsASequence(paths)
  BY <1>1, <1>2, SequenceIntro
<1>4. paths \in Seq(P)
  BY <1>3 DEF IsASequence
<1> HIDE DEF P
<1>5. <<>> \o paths = paths
  BY <1>4
<1> QED
  BY <1>3, <1>5 DEF paths

\* What the entries are after the first features of a document: one for every
\* identity so far, with the paths of its features.
CarriedSoFar(profile, d, k, P) ==
    /\ IsASequence(P)
    /\ \A j \in DOMAIN P :
          /\ IsAPreparedFeature(P[j])
          /\ \E i \in 1 .. k : P[j].identity = IdentityOf(profile, d.features[i])
          /\ PathsOf(P[j].parts) = PathsRun(profile, d, P[j].identity)[k]
    /\ \A i \in 1 .. k : \E j \in DOMAIN P : P[j].identity = IdentityOf(profile, d.features[i])
    /\ \A i, j \in DOMAIN P : P[i].identity = P[j].identity => i = j

LEMMA CarriedGoesOn ==
    ASSUME NEW profile, NEW d, IsASequence(d.features), NEW k \in 0 .. Len(d.features) - 1,
           NEW P, CarriedSoFar(profile, d, k, P), NEW Q,
           IsASequence(d.features[k + 1].place.parts),
           LET f == d.features[k + 1]
               identity == IdentityOf(profile, f)
           IN  /\ HasIdentity(profile, f, identity)
               /\ TakesIn(P, Q, identity, PathsOf(f.place.parts))
    PROVE  CarriedSoFar(profile, d, k + 1, Q)
<1> DEFINE f == d.features[k + 1]
           identity == IdentityOf(profile, f)
           paths == PathsOf(f.place.parts)
           run(i) == PathsRun(profile, d, i)
<1>1. k \in Nat /\ Len(d.features) \in Nat /\ k \in 0 .. Len(d.features)
  BY SequenceFacts
<1>2. /\ run(identity)[k + 1] = run(identity)[k] \o paths
      /\ \A i : i # identity => run(i)[k + 1] = run(i)[k]
  <2>1. ASSUME NEW i
        PROVE  run(i)[k + 1] = IF HasIdentity(profile, f, i) THEN run(i)[k] \o paths
                               ELSE run(i)[k]
    BY PathsRunFacts
  <2>2. \A i : HasIdentity(profile, f, i) => i = identity
    BY DEF HasIdentity
  <2>3. HasIdentity(profile, f, identity)
    OBVIOUS
  <2> HIDE DEF f, identity, paths, run
  <2> QED
    BY <2>1, <2>2, <2>3
<1>3. Len(P) \in Nat /\ DOMAIN P = 1 .. Len(P)
  BY SequenceFacts DEF CarriedSoFar
<1>4. \A i : i \in 1 .. k + 1 <=> i \in 1 .. k \/ i = k + 1
  BY <1>1
<1>5. <<>> \o paths = paths
  BY PathsFacts
<1>6. /\ HasIdentity(profile, f, identity)
      /\ TakesIn(P, Q, identity, paths)
  OBVIOUS
<1>7. CASE /\ \A j \in DOMAIN P : P[j].identity # identity
           /\ \E item : /\ IsAPreparedFeature(item) /\ item.identity = identity
                        /\ PathsOf(item.parts) = paths
                        /\ Q = Append(P, item)
  <2>1. PICK item : /\ IsAPreparedFeature(item) /\ item.identity = identity
                    /\ PathsOf(item.parts) = paths
                    /\ Q = Append(P, item)
    BY <1>7
  <2>2. \A i \in 1 .. k : IdentityOf(profile, d.features[i]) # identity
    BY <1>7 DEF CarriedSoFar
  <2>3. run(identity)[k] = <<>>
    BY <1>1, <2>2, NoPathsYet
  <2>4. /\ DOMAIN Q = 1 .. Len(P) + 1
        /\ \A j \in DOMAIN P : Q[j] = P[j]
        /\ Q[Len(P) + 1] = item
    <3>1. P \in Seq(ToSet(P) \cup {item})
      BY DEF CarriedSoFar, IsASequence
    <3> QED
      BY <1>3, <2>1, <3>1
  <2>5. IsASequence(Q)
    BY <2>1, AppendFacts DEF CarriedSoFar
  <2> HIDE DEF f, identity, paths, run
  <2>6. \A j \in DOMAIN Q : j \in DOMAIN P \/ j = Len(P) + 1
    BY <1>3, <2>4
  <2>7. ASSUME NEW j \in DOMAIN Q
        PROVE  /\ IsAPreparedFeature(Q[j])
               /\ \E i \in 1 .. k + 1 : Q[j].identity = IdentityOf(profile, d.features[i])
               /\ PathsOf(Q[j].parts) = run(Q[j].identity)[k + 1]
    <3>1. CASE j \in DOMAIN P
      <4>1. /\ IsAPreparedFeature(P[j]) /\ P[j].identity # identity
            /\ \E i \in 1 .. k : P[j].identity = IdentityOf(profile, d.features[i])
            /\ PathsOf(P[j].parts) = run(P[j].identity)[k]
        BY <1>7, <3>1 DEF CarriedSoFar, run
      <4> QED
        BY <1>2, <1>4, <2>4, <3>1, <4>1
    <3>2. CASE j = Len(P) + 1
      <4>1. IdentityOf(profile, d.features[k + 1]) = identity
        BY DEF identity, f
      <4> QED
        BY <1>2, <1>4, <1>5, <2>1, <2>3, <2>4, <3>2, <4>1
    <3> QED
      BY <2>6, <3>1, <3>2
  <2>8. ASSUME NEW i \in 1 .. k + 1
        PROVE  \E j \in DOMAIN Q : Q[j].identity = IdentityOf(profile, d.features[i])
    <3>1. CASE i \in 1 .. k
      <4>1. PICK j \in DOMAIN P : P[j].identity = IdentityOf(profile, d.features[i])
        BY <3>1 DEF CarriedSoFar
      <4> QED
        BY <1>3, <2>4, <4>1
    <3>2. CASE i = k + 1
      <4>1. Q[Len(P) + 1].identity = IdentityOf(profile, d.features[i])
        BY <2>1, <2>4, <3>2 DEF identity, f
      <4> QED
        BY <1>3, <2>4, <4>1
    <3> QED
      BY <1>4, <3>1, <3>2
  <2>9. ASSUME NEW i \in DOMAIN Q, NEW j \in DOMAIN Q, Q[i].identity = Q[j].identity
        PROVE  i = j
    BY <1>7, <2>1, <2>4, <2>6, <2>9 DEF CarriedSoFar
  <2> QED
    BY <2>5, <2>7, <2>8, <2>9 DEF CarriedSoFar, run
<1>8. CASE \E m \in DOMAIN P : \E item :
             /\ P[m].identity = identity
             /\ IsAPreparedFeature(item) /\ item.identity = identity
             /\ PathsOf(item.parts) = PathsOf(P[m].parts) \o paths
             /\ Q = [P EXCEPT ![m] = item]
  <2>1. PICK m \in DOMAIN P : \E item :
             /\ P[m].identity = identity
             /\ IsAPreparedFeature(item) /\ item.identity = identity
             /\ PathsOf(item.parts) = PathsOf(P[m].parts) \o paths
             /\ Q = [P EXCEPT ![m] = item]
    BY <1>8
  <2>2. PICK item :
             /\ P[m].identity = identity
             /\ IsAPreparedFeature(item) /\ item.identity = identity
             /\ PathsOf(item.parts) = PathsOf(P[m].parts) \o paths
             /\ Q = [P EXCEPT ![m] = item]
    BY <2>1
  <2>3. /\ DOMAIN Q = DOMAIN P
        /\ \A j \in DOMAIN P : j # m => Q[j] = P[j]
        /\ Q[m] = item
    BY <2>2
  <2>4. IsASequence(Q)
    BY <2>2, ExceptFacts DEF CarriedSoFar
  <2>5. \A j \in DOMAIN P : Q[j].identity = P[j].identity
    BY <2>2, <2>3
  <2> HIDE DEF f, identity, paths, run
  <2>6. \A j \in DOMAIN P : j # m => P[j].identity # identity
    BY <2>2 DEF CarriedSoFar
  <2>7. ASSUME NEW j \in DOMAIN Q
        PROVE  /\ IsAPreparedFeature(Q[j])
               /\ \E i \in 1 .. k + 1 : Q[j].identity = IdentityOf(profile, d.features[i])
               /\ PathsOf(Q[j].parts) = run(Q[j].identity)[k + 1]
    <3>1. /\ IsAPreparedFeature(P[j])
          /\ \E i \in 1 .. k : P[j].identity = IdentityOf(profile, d.features[i])
          /\ PathsOf(P[j].parts) = run(P[j].identity)[k]
      BY <2>3 DEF CarriedSoFar, run
    <3>2. CASE j # m
      BY <1>2, <1>4, <2>3, <2>6, <3>1, <3>2
    <3>3. CASE j = m
      BY <1>2, <1>4, <2>2, <2>3, <3>1, <3>3
    <3> QED
      BY <3>2, <3>3
  <2>8. ASSUME NEW i \in 1 .. k + 1
        PROVE  \E j \in DOMAIN Q : Q[j].identity = IdentityOf(profile, d.features[i])
    <3>1. CASE i \in 1 .. k
      BY <2>3, <2>5, <3>1 DEF CarriedSoFar
    <3>2. CASE i = k + 1
      BY <2>2, <2>3, <3>2 DEF identity, f
    <3> QED
      BY <1>4, <3>1, <3>2
  <2>9. ASSUME NEW i \in DOMAIN Q, NEW j \in DOMAIN Q, Q[i].identity = Q[j].identity
        PROVE  i = j
    BY <2>3, <2>5, <2>9 DEF CarriedSoFar
  <2> QED
    BY <2>4, <2>7, <2>8, <2>9 DEF CarriedSoFar, run
<1> QED
  BY <1>6, <1>7, <1>8 DEF TakesIn

\* prepare_document of a document without errors: an entry for every identity,
\* with all its paths, and no other.
LEMMA DocumentIsCarried ==
    ASSUME NEW profile, NEW u, IsADocument(u), PrepareDocument(profile, u).errors = {}
    PROVE  LET d == NormalizeUpload(profile, u)
               P == PrepareDocument(profile, u).prepared
           IN  /\ \A i \in Identities(profile, d) : \E k \in DOMAIN P :
                     P[k].identity = i /\ PathsOf(P[k].parts) = PathsWith(profile, d, i)
               /\ Len(P) = Cardinality(Identities(profile, d))
<1> DEFINE d == NormalizeUpload(profile, u)
           result == PrepareDocument(profile, u)
           P == result.prepared
           n == Len(d.features)
<1>1. d # NoDocument
  BY DocumentFacts
<1>2. /\ IsASequence(d.features)
      /\ \A i \in DOMAIN d.features : IsASequence(d.features[i].place.parts)
  BY <1>1, NormalizedFacts
<1>3. n \in Nat /\ DOMAIN d.features = 1 .. n
  BY <1>2, SequenceFacts
<1>4. PICK acc : Runs(acc, "features", profile, d.crs, d.features, n) /\ acc[n] = result
  BY <1>1, <1>2, DocumentIsALoop
<1>5. result.errors = {}
  OBVIOUS
<1> HIDE DEF d, n, result
<1> DEFINE Good(k) ==
              /\ IsPreparation(acc[k]) /\ IsASequence(acc[k].prepared)
              /\ acc[k].errors = {} => CarriedSoFar(profile, d, k, acc[k].prepared)
           S == {k \in Nat : k <= n => Good(k)}
<1>6. 0 \in S
  <2>1. acc[0] = [prepared |-> <<>>, errors |-> {}] /\ 1 .. 0 = {}
    BY <1>4 DEF Runs, LoopStart, Nothing
  <2>2. IsASequence(<<>>) /\ DOMAIN <<>> = {}
    BY DEF IsASequence
  <2> QED
    BY <2>1, <2>2 DEF IsPreparation, CarriedSoFar
<1>7. ASSUME NEW k \in S PROVE k + 1 \in S
  <2>1. SUFFICES ASSUME k + 1 <= n PROVE Good(k + 1)
    OBVIOUS
  <2>2. k \in Nat /\ k \in 0 .. n - 1 /\ k + 1 \in 1 .. n /\ Good(k)
    BY <1>3, <2>1
  <2> DEFINE f == d.features[k + 1]
  <2>3. acc[k + 1] = PrepareNext(profile, d.crs, acc[k], f)
    BY <1>4, <2>2 DEF Runs, LoopBody
  <2>4. /\ IsPreparation(acc[k + 1]) /\ IsASequence(acc[k + 1].prepared)
        /\ acc[k + 1].errors = {} => acc[k].errors = {}
    BY <2>2, <2>3, NextFacts
  <2>5. ASSUME acc[k + 1].errors = {}
        PROVE  CarriedSoFar(profile, d, k + 1, acc[k + 1].prepared)
    <3>1. CarriedSoFar(profile, d, k, acc[k].prepared)
      BY <2>2, <2>4, <2>5
    <3>2. IsASequence(f.place.parts)
      BY <1>2, <1>3, <2>2
    <3>3. LET identity == IdentityOf(profile, f)
          IN  /\ HasIdentity(profile, f, identity)
              /\ TakesIn(acc[k].prepared, acc[k + 1].prepared,
                         identity, PathsOf(f.place.parts))
      BY <2>2, <2>3, <2>5, <3>1, <3>2, NextTakesIn DEF CarriedSoFar
    <3>4. k \in 0 .. Len(d.features) - 1
      BY <2>2 DEF n
    <3> QED
      BY <1>2, <3>1, <3>2, <3>3, <3>4, CarriedGoesOn
  <2> QED
    BY <2>4, <2>5
<1>8. S \in SUBSET Nat
  OBVIOUS
<1> HIDE DEF S
<1>9. Nat = S
  BY <1>6, <1>7, <1>8, Induction
<1>10. Good(n)
  <2>1. n \in S /\ n <= n
    BY <1>3, <1>9
  <2> HIDE DEF Good
  <2> QED
    BY <2>1 DEF S
<1>11. CarriedSoFar(profile, d, n, P)
  BY <1>4, <1>5, <1>10
<1>12. ASSUME NEW i \in Identities(profile, d)
       PROVE  \E k \in DOMAIN P :
                 P[k].identity = i /\ PathsOf(P[k].parts) = PathsWith(profile, d, i)
  <2>1. PICK m \in 1 .. n : i = IdentityOf(profile, d.features[m])
    BY <1>3 DEF Identities
  <2>2. PICK k \in DOMAIN P : P[k].identity = i
    BY <1>11, <2>1 DEF CarriedSoFar
  <2>3. PathsRun(profile, d, i)[n] = PathsWith(profile, d, i)
    BY <1>2, PathsRunFacts DEF n
  <2> QED
    BY <1>11, <2>2, <2>3 DEF CarriedSoFar
<1>13. Len(P) = Cardinality(Identities(profile, d))
  <2> DEFINE I == Identities(profile, d)
             b == [k \in 1 .. Len(P) |-> P[k].identity]
  <2>1. Len(P) \in Nat /\ DOMAIN P = 1 .. Len(P)
    BY <1>11, SequenceFacts DEF CarriedSoFar
  <2>2. ASSUME NEW k \in 1 .. Len(P) PROVE b[k] \in I
    <3>1. PICK i \in 1 .. n : P[k].identity = IdentityOf(profile, d.features[i])
      BY <1>11, <2>1 DEF CarriedSoFar
    <3>2. IdentityOf(profile, d.features[i]) \in I
      BY <1>3 DEF Identities
    <3> QED
      BY <3>1, <3>2
  <2>3. \A i \in I : \E k \in 1 .. Len(P) : b[k] = i
    BY <1>12, <2>1
  <2>4. \A k, m \in 1 .. Len(P) : b[k] = b[m] => k = m
    BY <1>11, <2>1 DEF CarriedSoFar
  <2> HIDE DEF I
  <2>5. b \in Bijection(1 .. Len(P), I)
    BY <2>2, <2>3, <2>4 DEF Bijection, Injection, Surjection, IsInjective
  <2> HIDE DEF b
  <2>6. ExistsBijection(1 .. Len(P), I)
    BY <2>5 DEF ExistsBijection
  <2>7. IsFiniteSet(I) /\ Cardinality(I) = Len(P)
    BY <2>1, <2>6, FS_CountingElements, FS_NatBijection
  <2> QED
    BY <2>7 DEF I
<1> QED
  BY <1>12, <1>13 DEF d, result

\* The elements of a sequence that another was appended to.
Joins(s, r, t) ==
    /\ Len(t) = Len(s) + Len(r)
    /\ \A j \in DOMAIN s : j \in DOMAIN t /\ t[j] = s[j]
    /\ \A j \in DOMAIN r : \E k \in DOMAIN t : t[k] = r[j]

LEMMA ConcatElements ==
    ASSUME NEW s, IsASequence(s), NEW r, IsASequence(r)
    PROVE  Joins(s, r, s \o r)
<1> DEFINE S == ToSet(s) \cup ToSet(r)
           t == s \o r
<1>1. s \in Seq(S) /\ r \in Seq(S)
  BY DEF IsASequence
<1>2. /\ Len(s) \in Nat /\ DOMAIN s = 1 .. Len(s)
      /\ Len(r) \in Nat /\ DOMAIN r = 1 .. Len(r)
  BY <1>1
<1>3. /\ Len(t) = Len(s) + Len(r)
      /\ DOMAIN t = 1 .. Len(s) + Len(r)
      /\ \A i \in DOMAIN t : t[i] = IF i <= Len(s) THEN s[i] ELSE r[i - Len(s)]
  BY <1>1
<1> HIDE DEF t, S
<1>4. ASSUME NEW j \in DOMAIN r PROVE \E k \in DOMAIN t : t[k] = r[j]
  <2>1. /\ Len(s) + j \in DOMAIN t /\ ~ (Len(s) + j <= Len(s))
        /\ (Len(s) + j) - Len(s) = j
    BY <1>2, <1>3
  <2> QED
    BY <1>3, <2>1
<1>5. ASSUME NEW j \in DOMAIN s PROVE j \in DOMAIN t /\ t[j] = s[j]
  BY <1>2, <1>3
<1> QED
  BY <1>3, <1>4, <1>5 DEF t, Joins

\* The entries hold one for every identity of a document, with all its paths.
Carries(profile, d, P) ==
    \A i \in Identities(profile, d) : \E k \in DOMAIN P :
        P[k].identity = i /\ PathsOf(P[k].parts) = PathsWith(profile, d, i)

LEMMA UploadsAreCarried ==
    ASSUME NEW profile, NEW uploads, AreUploads(uploads),
           PrepareUploads(profile, uploads).errors = {}
    PROVE  LET docs == [i \in DOMAIN uploads |-> NormalizeUpload(profile, uploads[i])]
               P == PrepareUploads(profile, uploads).prepared
           IN  /\ \A m \in DOMAIN docs : Carries(profile, docs[m], P)
               /\ Len(P) = IdentityCount(profile, docs)
<1> DEFINE docs == [i \in DOMAIN uploads |-> NormalizeUpload(profile, uploads[i])]
           result == PrepareUploads(profile, uploads)
           n == Len(uploads)
<1>1. n \in Nat /\ DOMAIN uploads = 1 .. n /\ \A i \in 1 .. n : IsADocument(uploads[i])
  BY SequenceFacts DEF AreUploads
<1>2. PICK acc : Runs(acc, "documents", profile, NoCrs, uploads, n) /\ acc[n] = result
  BY UploadsAreALoop DEF AreUploads
<1>3. /\ DOMAIN docs = 1 .. n
      /\ \A i \in 1 .. n : docs[i] = NormalizeUpload(profile, uploads[i])
      /\ docs = [i \in 1 .. n |-> docs[i]]
  BY <1>1
<1>4. result.errors = {}
  OBVIOUS
<1> HIDE DEF docs, n, result
<1>5. IsASequence(docs) /\ Len(docs) = n
  BY <1>1, <1>3, SequenceIntro
<1>6. PICK count : /\ Runs(count, "count", profile, NoCrs, docs, n)
                   /\ count[n] = IdentityCount(profile, docs)
  BY <1>5, CountIsALoop
<1> DEFINE Good(k) ==
              /\ IsPreparation(acc[k]) /\ IsASequence(acc[k].prepared)
              /\ acc[k].errors = {} =>
                    /\ \A m \in 1 .. k : Carries(profile, docs[m], acc[k].prepared)
                    /\ Len(acc[k].prepared) = count[k]
           S == {k \in Nat : k <= n => Good(k)}
<1>7. 0 \in S
  <2>1. /\ acc[0] = [prepared |-> <<>>, errors |-> {}] /\ 1 .. 0 = {}
        /\ count[0] = 0
    BY <1>2, <1>6 DEF Runs, LoopStart, Nothing
  <2>2. IsASequence(<<>>) /\ Len(<<>>) = 0
    BY DEF IsASequence
  <2> QED
    BY <2>1, <2>2 DEF IsPreparation
<1>8. ASSUME NEW k \in S PROVE k + 1 \in S
  <2>1. SUFFICES ASSUME k + 1 <= n PROVE Good(k + 1)
    OBVIOUS
  <2>2. k \in Nat /\ k \in 0 .. n - 1 /\ k + 1 \in 1 .. n /\ Good(k)
    BY <1>1, <2>1
  <2> DEFINE u == uploads[k + 1]
             next == acc[k + 1]
             prepared == PrepareDocument(profile, u)
  <2>3. next = IF acc[k].errors # {} THEN acc[k]
               ELSE [prepared |-> acc[k].prepared \o prepared.prepared,
                     errors |-> prepared.errors]
    BY <1>2, <2>2 DEF Runs, LoopBody, PrepareUpload
  <2>4. IsADocument(u) /\ docs[k + 1] = NormalizeUpload(profile, u)
    BY <1>1, <1>3, <2>2
  <2>5. /\ IsPreparation(prepared) /\ IsASequence(prepared.prepared)
        /\ prepared.errors = {} =>
              /\ Carries(profile, docs[k + 1], prepared.prepared)
              /\ Len(prepared.prepared) = Cardinality(Identities(profile, docs[k + 1]))
    BY <2>4, DocumentFacts, DocumentIsCarried DEF Carries
  <2>6. count[k + 1] = count[k] + Cardinality(Identities(profile, docs[k + 1]))
    BY <1>6, <2>2 DEF Runs, LoopBody
  <2>7. CASE acc[k].errors # {}
    BY <2>2, <2>3, <2>7
  <2>8. CASE acc[k].errors = {}
    <3> HIDE DEF next, prepared
    <3>1. /\ next.prepared = acc[k].prepared \o prepared.prepared
          /\ next.errors = prepared.errors /\ IsPreparation(next)
      BY <2>3, <2>8 DEF IsPreparation
    <3>2. IsASequence(next.prepared)
      BY <2>2, <2>5, <3>1, ConcatFacts
    <3>3. \A i \in 1 .. k + 1 : i \in 1 .. k \/ i = k + 1
      BY <2>2
    <3>4. Joins(acc[k].prepared, prepared.prepared, next.prepared)
      BY <2>2, <2>5, <3>1, ConcatElements
    <3>5. ASSUME next.errors = {}
          PROVE  /\ \A m \in 1 .. k + 1 : Carries(profile, docs[m], next.prepared)
                 /\ Len(next.prepared) = count[k + 1]
      <4>1. Len(next.prepared) = count[k + 1]
        BY <2>2, <2>5, <2>6, <2>8, <3>1, <3>4, <3>5 DEF Joins
      <4>2. ASSUME NEW m \in 1 .. k + 1 PROVE Carries(profile, docs[m], next.prepared)
        <5>1. CASE m \in 1 .. k
          <6>1. Carries(profile, docs[m], acc[k].prepared)
            BY <2>2, <2>8, <5>1
          <6> QED
            BY <3>4, <6>1 DEF Carries, Joins
        <5>2. CASE m = k + 1
          <6>1. Carries(profile, docs[m], prepared.prepared)
            BY <2>5, <3>1, <3>5, <5>2
          <6> QED
            BY <3>4, <6>1 DEF Carries, Joins
        <5> QED
          BY <3>3, <5>1, <5>2
      <4> QED
        BY <4>1, <4>2
    <3> QED
      BY <3>1, <3>2, <3>5 DEF next
  <2> QED
    BY <2>7, <2>8
<1>9. S \in SUBSET Nat
  OBVIOUS
<1> HIDE DEF S
<1>10. Nat = S
  BY <1>7, <1>8, <1>9, Induction
<1>11. Good(n)
  <2>1. n \in S /\ n <= n
    BY <1>1, <1>10
  <2> HIDE DEF Good
  <2> QED
    BY <2>1 DEF S
<1> QED
  BY <1>2, <1>3, <1>4, <1>6, <1>11 DEF docs, result

\* What a handler that imports has to post carries every feature of its files.
Carried(r) ==
    req[r].pc = "importing" =>
        LET profile == Profiles[req[r].profile]
            docs == Documents(r)
        IN  /\ \A m \in DOMAIN docs : Carries(profile, docs[m], req[r].prepared)
            /\ Len(req[r].prepared) = IdentityCount(profile, docs)

LEMMA CarriedInductive ==
    Handlers /\ (\A r \in Requests : Carried(r)) /\ [Next]_vars
        => (\A r \in Requests : Carried(r))'
<1> SUFFICES ASSUME Handlers, \A r \in Requests : Carried(r), [Next]_vars
             PROVE  (\A r \in Requests : Carried(r))'
  OBVIOUS
<1>1. CASE UNCHANGED vars
  BY <1>1 DEF vars, Carried, Documents
<1>2. CASE Next
  <2>1. PICK r \in Requests :
           \/ Prepare(r) \/ ImportChunk(r) \/ RefuseChunk(r)
           \/ LoseChunk(r) \/ Answer(r) \/ Retry(r)
    BY <1>2 DEF Next
  <2>2. StepOf(r)
    BY <2>1, StepOfPrepare, PreparedFacts
  <2>3. ASSUME NEW s \in Requests, s # r PROVE Carried(s)'
    BY <2>2, <2>3 DEF StepOf, Carried, Documents
  <2>4. Documents(r)' = Documents(r)
    BY <2>2 DEF StepOf, Documents
  <2>5. Carried(r)'
    <3>1. CASE Prepare(r)
      <4>1. PrepareEffect(r)
        BY <3>1, StepOfPrepare
      <4>2. CASE Result(r).errors = {}
        <5>1. req'[r].prepared = Result(r).prepared
          BY <4>1, <4>2 DEF PrepareEffect
        <5>2. LET profile == Profiles[req[r].profile]
                  docs == Documents(r)
              IN  /\ \A m \in DOMAIN docs : Carries(profile, docs[m], Result(r).prepared)
                  /\ Len(Result(r).prepared) = IdentityCount(profile, docs)
          BY <4>2, UploadsAreCarried DEF Handlers, Result, Documents
        <5> QED
          BY <2>2, <2>4, <5>1, <5>2 DEF Carried, StepOf
      <4>3. CASE Result(r).errors # {}
        BY <4>1, <4>3 DEF PrepareEffect, Carried
      <4> QED
        BY <4>2, <4>3
    <3>2. CASE ImportChunk(r)
      <4>1. /\ req[r].pc = "importing" /\ req'[r].prepared = req[r].prepared
        BY <3>2, StepOfImportChunk DEF ImportEffect, ImportChunk, Importing
      <4> QED
        BY <2>2, <2>4, <4>1 DEF Carried, StepOf
    <3>3. CASE RefuseChunk(r) \/ LoseChunk(r) \/ Answer(r) \/ Retry(r)
      <4>1. req'[r].pc # "importing"
        BY <3>3, StepOfEnd, StepOfRetry
           DEF RefuseChunk, LoseChunk, Answer, Fail, EndEffect, NewEffect
      <4> QED
        BY <4>1 DEF Carried
    <3> QED
      BY <2>1, <3>1, <3>2, <3>3
  <2> QED
    BY <2>3, <2>5
<1> QED
  BY <1>1, <1>2

\* Duplicates are merged or refused, and never dropped (importer.py
\* prepare_document, _merge_duplicate_feature): what a handler has to post is
\* one feature for every identity of every document, with all the paths of the
\* features of that identity in their order, and no more than these.
THEOREM FeaturesAreCarried == Spec => []EveryFeatureIsCarried
<1> DEFINE Inv == \A r \in Requests : Carried(r)
<1>1. Init => Inv
  BY DEF Init, NewRequest, Carried
<1>2. Inv => EveryFeatureIsCarried
  <2> SUFFICES ASSUME Inv, NEW r \in Requests, req[r].pc = "importing"
               PROVE  LET profile == Profiles[req[r].profile]
                          docs == Documents(r)
                      IN  /\ \A d \in ToSet(docs) : Carries(profile, d, req[r].prepared)
                          /\ Len(req[r].prepared) = IdentityCount(profile, docs)
    BY DEF EveryFeatureIsCarried, Carries
  <2>1. Carried(r)
    OBVIOUS
  <2> QED
    BY <2>1 DEF Carried, ToSet
<1>3. Handlers /\ Inv /\ [Next]_vars => Inv'
  BY CarriedInductive
<1> HIDE DEF Inv
<1> QED
  BY <1>1, <1>2, <1>3, HandlersAlways, PTL DEF Spec
=============================================================================
