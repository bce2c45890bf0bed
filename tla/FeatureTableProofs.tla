-------------------------- MODULE FeatureTableProofs --------------------------
(***************************************************************************)
(* The requests of a collection, statement by statement and lock by lock,  *)
(* implement the promise of FeatureStore: every single write changes one   *)
(* row, and a batch is one step for everybody but itself.  What is stored  *)
(* keeps to the description, whatever mix of complete, partial and batched *)
(* writes produced it; it can be read and written back as it is; and a     *)
(* batch is answered with the ids of its features, in their order.         *)
(***************************************************************************)
EXTENDS FeatureTable, TLAPS

-----------------------------------------------------------------------------
(* The operators FeatureStore is stated with are those of FeatureTable.     *)

LEMMA SameRow == \A p, f : Store!FullRow(p, f) = FullRow(p, f)
BY DEF FullRow, Cell, StoredObject, ServerValue, Property, AsText, Get, Object, Text,
       Absent, Error, Now,
       Store!FullRow, Store!Cell, Store!StoredObject, Store!ServerValue,
       Store!Property, Store!AsText, Store!Get, Store!Object, Store!Text,
       Store!Absent, Store!Error, Store!Now

LEMMA SameIds == \A p, f : Store!NamedIds(p, f) = NamedIds(p, f)
BY DEF NamedIds, IdText, OiText, OiColumns, Property, AsText, Get, Object, Text, Absent,
       Store!NamedIds, Store!IdText, Store!OiText, Store!OiColumns, Store!Property,
       Store!AsText, Store!Get, Store!Object, Store!Text, Store!Absent

LEMMA SamePlan == \A c : Store!TablePlan(c) = TablePlan(c)
BY DEF TablePlan, Column, StripKeys, InjectKeys, OutwardKeys, ManagedKeys, WriteRule,
       ServerSupplied,
       Store!TablePlan, Store!Column, Store!StripKeys, Store!InjectKeys,
       Store!OutwardKeys, Store!ManagedKeys, Store!WriteRule, Store!ServerSupplied

LEMMA SameAbsent == Store!Absent = Absent
BY DEF Absent, Store!Absent

\* The ids a feature may get are ids.
LEMMA NewIdsAreIds == \A f : NewIds(f) \subseteq Ids
BY IdsAssumption DEF NewIds, NamedIds, Fresh

-----------------------------------------------------------------------------
(* The inductive invariant: what a batch has done so far.                   *)

IsBatch(b) == b = [pc |-> b.pc, features |-> b.features, next |-> b.next,
                   wrote |-> b.wrote, ids |-> b.ids]

\* It has worked through a part of its array, one id per feature.
Progress(b) ==
    /\ b.features \in Lists[coll]
    /\ b.next \in Nat \ {0} /\ b.next <= Len(b.features) + 1
    /\ b.ids \in Seq(Ids) /\ Len(b.ids) = b.next - 1

\* It holds the rows of those ids, each as the last feature for it left it.
LastWins(b) ==
    /\ DOMAIN b.wrote = {b.ids[n] : n \in 1 .. b.next - 1}
    /\ \A i \in DOMAIN b.wrote : \E n \in 1 .. b.next - 1 :
          /\ b.ids[n] = i
          /\ b.wrote[i] = FullRow(plan, b.features[n])
          /\ \A k \in 1 .. b.next - 1 : b.ids[k] = i => k <= n

\* The ids are the ones the features name, or ids nobody else has.
Assigned(b) ==
    \A n \in 1 .. b.next - 1 :
        IF NamedIds(plan, b.features[n]) # {}
        THEN b.ids[n] \in NamedIds(plan, b.features[n])
        ELSE b.ids[n] \notin DOMAIN table \cup {b.ids[k] : k \in 1 .. n - 1}

BatchInv(b) ==
    /\ IsBatch(b)
    /\ b.pc \in {"idle", "running", "done", "failed"}
    /\ b.pc # "running" => b.wrote = NoRows
    /\ b.pc = "running" => Progress(b) /\ LastWins(b) /\ Assigned(b)

IInv ==
    /\ coll \in Collections
    /\ batch = [s \in Sessions |-> batch[s]]
    /\ \A s \in Sessions : BatchInv(batch[s])
    /\ \A s, t \in Sessions :
          s # t => (DOMAIN batch[s].wrote) \cap (DOMAIN batch[t].wrote) = {}

LEMMA InitIInv == Init => IInv
BY DEF Init, IInv, BatchInv, IsBatch, NewBatch, NoRows

\* What a session has done stands while nobody else gets the ids it holds.
LEMMA Carried ==
    ASSUME UNCHANGED <<coll, plan>>, NEW t \in Sessions, BatchInv(batch'[t]),
           (DOMAIN table') \cap (DOMAIN batch'[t].wrote) \subseteq DOMAIN table
    PROVE  BatchInv(batch[t])'
<1>1. Progress(batch'[t]) => Progress(batch[t])'
  BY DEF Progress
<1>2. LastWins(batch'[t]) => LastWins(batch[t])'
  BY DEF LastWins
<1>3. ASSUME LastWins(batch'[t]), Assigned(batch'[t])
      PROVE  Assigned(batch[t])'
  <2>1. \A n \in 1 .. batch'[t].next - 1 : batch'[t].ids[n] \in DOMAIN batch'[t].wrote
    BY <1>3 DEF LastWins
  <2>. QED  BY <1>3, <2>1 DEF Assigned
<1>4. IsBatch(batch[t])' /\ (batch[t].pc \in {"idle", "running", "done", "failed"})'
      /\ (batch[t].pc # "running" => batch[t].wrote = NoRows)'
  BY DEF BatchInv, IsBatch, NoRows, Absent
<1>. QED  BY <1>1, <1>2, <1>3, <1>4 DEF BatchInv

\* A step of one session keeps the invariant, if the session keeps its own
\* part and takes no row of another, and the ids in use stay.
LEMMA OneSession ==
    ASSUME IInv, UNCHANGED <<coll, plan>>, NEW s \in Sessions, NEW b,
           batch' = [batch EXCEPT ![s] = b],
           DOMAIN table' = DOMAIN table,
           BatchInv(b),
           \A t \in Sessions \ {s} : (DOMAIN b.wrote) \cap (DOMAIN batch[t].wrote) = {}
    PROVE  IInv'
<1>1. \A t \in Sessions : batch'[t] = IF t = s THEN b ELSE batch[t]
  BY DEF IInv
<1>2. \A t \in Sessions : BatchInv(batch'[t])
  BY <1>1 DEF IInv
<1>3. \A t \in Sessions : BatchInv(batch[t])'
  BY <1>2, Carried
<1>4. batch' = [t \in Sessions |-> batch'[t]]
  BY <1>1 DEF IInv
<1>5. coll' \in Collections
  BY DEF IInv
<1>6. \A t, u \in Sessions :
        t # u => (DOMAIN batch'[t].wrote) \cap (DOMAIN batch'[u].wrote) = {}
  BY <1>1 DEF IInv
<1>. QED  BY <1>3, <1>4, <1>5, <1>6 DEF IInv

\* A single write gives nobody's id away.
LEMMA OneRow ==
    ASSUME IInv, UNCHANGED <<coll, plan, batch>>,
           \A t \in Sessions :
              (DOMAIN table') \cap (DOMAIN batch[t].wrote) \subseteq DOMAIN table
    PROVE  IInv'
<1>1. \A t \in Sessions : BatchInv(batch[t])'
  BY Carried DEF IInv
<1>. QED  BY <1>1 DEF IInv

-----------------------------------------------------------------------------
(* Every request for one feature changes one row, and none that is held.    *)

SingleWrite ==
    \E i \in Ids :
        /\ (DOMAIN table) \ {i} = (DOMAIN table') \ {i}
        /\ \A k \in (DOMAIN table) \ {i} : table'[k] = table[k]
        /\ i \in DOMAIN table' => i \in DOMAIN table \/ ~ Held(i)

LEMMA PutWritesOne ==
    ASSUME NEW i \in Ids, NEW row, table' = Put(table, i, row),
           i \in DOMAIN table \/ ~ Held(i)
    PROVE  SingleWrite
<1>1. DOMAIN table' = DOMAIN table \cup {i}
  BY DEF Put
<1>2. \A k \in (DOMAIN table) \ {i} : table'[k] = table[k]
  BY DEF Put
<1>. QED  BY <1>1, <1>2 DEF SingleWrite

LEMMA RequestWritesOne ==
    Request => SingleWrite /\ UNCHANGED <<coll, plan, batch, started>>
<1>. SUFFICES ASSUME Request
              PROVE  SingleWrite /\ UNCHANGED <<coll, plan, batch, started>>
  OBVIOUS
<1>1. CASE \E f \in Offered[coll] : CreateFeature(f)
  <2>. PICK f \in Offered[coll] : CreateFeature(f)
    BY <1>1
  <2>1. PICK i \in NewIds(f) :
           ~ Held(i) /\ table' = Put(table, i, FullRow(plan, f))
    BY DEF CreateFeature
  <2>2. UNCHANGED <<coll, plan, batch, started>>
    BY DEF CreateFeature, OnlyTable
  <2>. QED  BY <2>1, <2>2, NewIdsAreIds, PutWritesOne
<1>2. CASE \E f \in Offered[coll] : UpsertFeature(f)
  <2>. PICK f \in Offered[coll] : UpsertFeature(f)
    BY <1>2
  <2>1. PICK i \in NewIds(f) :
           ~ Held(i) /\ table' = Put(table, i, FullRow(plan, f))
    BY DEF UpsertFeature
  <2>2. UNCHANGED <<coll, plan, batch, started>>
    BY DEF UpsertFeature, OnlyTable
  <2>. QED  BY <2>1, <2>2, NewIdsAreIds, PutWritesOne
<1>3. CASE \E i \in Ids, f \in Offered[coll] : ReplaceFeature(i, f)
  BY <1>3, PutWritesOne DEF ReplaceFeature, OnlyTable
<1>4. CASE \E i \in Ids, f \in Offered[coll] : UpdateFeature(i, f)
  BY <1>4, PutWritesOne DEF UpdateFeature, OnlyTable
<1>5. CASE \E i \in Ids : DeleteFeature(i)
  <2>1. PICK i \in Ids : DeleteFeature(i)
    BY <1>5
  <2>2. table' = Without(table, i) /\ UNCHANGED <<coll, plan, batch, started>>
    BY <2>1 DEF DeleteFeature, OnlyTable
  <2>. QED  BY <2>2 DEF Without, SingleWrite
<1>. QED  BY <1>1, <1>2, <1>3, <1>4, <1>5 DEF Request

LEMMA RequestKeepsIInv == IInv /\ Request => IInv'
<1>. SUFFICES ASSUME IInv, Request  PROVE IInv'
  OBVIOUS
<1>1. SingleWrite /\ UNCHANGED <<coll, plan, batch>>
  BY RequestWritesOne
<1>2. \A t \in Sessions :
         (DOMAIN table') \cap (DOMAIN batch[t].wrote) \subseteq DOMAIN table
  BY <1>1 DEF SingleWrite, Held
<1>. QED  BY <1>1, <1>2, OneRow

-----------------------------------------------------------------------------
(* The steps of a batch.                                                    *)

LEMMA StartKeepsIInv == ASSUME IInv, NEW s \in Sessions, StartBatch(s) PROVE IInv'
<1>1. PICK fs \in Lists[coll] : batch' = [batch EXCEPT ![s] = NewBatch("running", fs)]
  BY DEF StartBatch
<1>. DEFINE b == NewBatch("running", fs)
<1>2. /\ b.pc = "running" /\ b.features = fs /\ b.next = 1
      /\ b.wrote = NoRows /\ b.ids = <<>> /\ IsBatch(b)
  BY DEF NewBatch, IsBatch
<1>. HIDE DEF b
<1>3. BatchInv(b)
  <2>1. Progress(b)
    BY <1>2, BatchesAssumption DEF Progress, IInv
  <2>2. LastWins(b)
    BY <1>2 DEF LastWins, NoRows
  <2>3. Assigned(b)
    BY <1>2 DEF Assigned
  <2>. QED  BY <1>2, <2>1, <2>2, <2>3 DEF BatchInv
<1>4. UNCHANGED <<coll, plan, table>>
  BY DEF StartBatch
<1>5. DOMAIN b.wrote = {}
  BY <1>2 DEF NoRows
<1>6. batch' = [batch EXCEPT ![s] = b]
  BY <1>1 DEF b
<1>. QED  BY <1>6, <1>3, <1>4, <1>5, OneSession

LEMMA FailKeepsIInv == ASSUME IInv, NEW s \in Sessions, FailBatch(s) PROVE IInv'
<1>. DEFINE b == NewBatch("failed", <<>>)
<1>1. batch' = [batch EXCEPT ![s] = b] /\ UNCHANGED <<coll, plan, table>>
  BY DEF FailBatch, Quiet
<1>2. BatchInv(b) /\ DOMAIN b.wrote = {}
  BY DEF BatchInv, IsBatch, NewBatch, NoRows
<1>. HIDE DEF b
<1>. QED  BY <1>1, <1>2, OneSession

\* One more feature of the array: its id is one the feature names, or new.
LEMMA UpsertNextKeepsIInv ==
    ASSUME IInv, NEW s \in Sessions, UpsertNext(s) PROVE IInv'
<1>1. PICK i \in NewIds(Current(s)) :
         /\ ~ HeldByOther(s, i)
         /\ batch' = [batch EXCEPT ![s] =
                [pc |-> "running", features |-> @.features, next |-> @.next + 1,
                 wrote |-> Put(@.wrote, i, FullRow(plan, Current(s))),
                 ids |-> Append(@.ids, i)]]
  BY DEF UpsertNext, BatchIds
<1>2. i \in Ids
  BY NewIdsAreIds
<1>. DEFINE a == batch[s]
            f == Current(s)
            m == a.next
            b == [pc |-> "running", features |-> a.features, next |-> m + 1,
                  wrote |-> Put(a.wrote, i, FullRow(plan, f)),
                  ids |-> Append(a.ids, i)]
<1>3. a.pc = "running" /\ m <= Len(a.features) /\ f = a.features[m]
  BY DEF UpsertNext, Running, Current
<1>4. IsBatch(a) /\ Progress(a) /\ LastWins(a) /\ Assigned(a)
  BY <1>3 DEF IInv, BatchInv
<1>5. batch' = [batch EXCEPT ![s] = b]
  BY <1>1 DEF IInv
<1>6. /\ b.features = a.features /\ b.next = m + 1
      /\ b.ids = Append(a.ids, i) /\ b.pc = "running" /\ IsBatch(b)
      /\ DOMAIN b.wrote = (DOMAIN a.wrote) \cup {i}
      /\ \A k \in DOMAIN b.wrote :
            b.wrote[k] = IF k = i THEN FullRow(plan, f) ELSE a.wrote[k]
  BY DEF Put, IsBatch
<1>. HIDE DEF b, a, f, m
<1>7. /\ m \in Nat \ {0} /\ a.ids \in Seq(Ids) /\ Len(a.ids) = m - 1
      /\ m = a.next /\ a.features \in Lists[coll] /\ a.next <= Len(a.features)
  BY <1>3, <1>4 DEF Progress, m
<1>8. Progress(b)
  BY <1>2, <1>6, <1>7, BatchesAssumption DEF Progress, IInv
<1>9. /\ \A n \in 1 .. m - 1 : b.ids[n] = a.ids[n]
      /\ b.ids[m] = i
      /\ b.next - 1 = m
      /\ 1 .. m = (1 .. m - 1) \cup {m}
  BY <1>2, <1>6, <1>7
<1>10. LastWins(b)
  <2>1. DOMAIN b.wrote = {b.ids[n] : n \in 1 .. m}
    <3>1. DOMAIN a.wrote = {a.ids[n] : n \in 1 .. m - 1}
      BY <1>4, <1>7 DEF LastWins
    <3>2. {b.ids[n] : n \in 1 .. m} = {b.ids[n] : n \in 1 .. m - 1} \cup {b.ids[m]}
      BY <1>9
    <3>3. {b.ids[n] : n \in 1 .. m - 1} = {a.ids[n] : n \in 1 .. m - 1}
      BY <1>9
    <3>. QED  BY <3>1, <3>2, <3>3, <1>6, <1>9
  <2>2. ASSUME NEW k \in DOMAIN b.wrote
        PROVE  \E n \in 1 .. m :
                  /\ b.ids[n] = k
                  /\ b.wrote[k] = FullRow(plan, b.features[n])
                  /\ \A j \in 1 .. m : b.ids[j] = k => j <= n
    <3>1. CASE k = i
      <4>1. b.wrote[k] = FullRow(plan, b.features[m])
        BY <3>1, <1>3, <1>6
      <4>2. \A j \in 1 .. m : j <= m
        BY <1>7
      <4>3. m \in 1 .. m
        BY <1>7
      <4>. QED  BY <4>1, <4>2, <4>3, <3>1, <1>9
    <3>2. CASE k # i
      <4>1. PICK n \in 1 .. m - 1 :
               /\ a.ids[n] = k
               /\ a.wrote[k] = FullRow(plan, a.features[n])
               /\ \A j \in 1 .. m - 1 : a.ids[j] = k => j <= n
        BY <3>2, <1>4, <1>6, <1>7 DEF LastWins
      <4>2. b.ids[n] = k /\ b.wrote[k] = FullRow(plan, b.features[n])
        BY <4>1, <3>2, <1>6, <1>9
      <4>3. \A j \in 1 .. m : b.ids[j] = k => j <= n
        BY <4>1, <3>2, <1>9
      <4>4. n \in 1 .. m
        BY <1>9
      <4>. QED  BY <4>2, <4>3, <4>4
    <3>. QED  BY <3>1, <3>2
  <2>. QED  BY <2>1, <2>2, <1>9 DEF LastWins
<1>11. Assigned(b)
  <2>1. IF NamedIds(plan, f) # {} THEN i \in NamedIds(plan, f)
        ELSE i \notin (DOMAIN table) \cup {b.ids[k] : k \in 1 .. m - 1}
    <3>1. NamedIds(plan, f) = {} => i \notin DOMAIN table /\ i \notin DOMAIN a.wrote
      BY <1>1 DEF NewIds, Fresh, Held, a, f
    <3>2. {b.ids[k] : k \in 1 .. m - 1} = DOMAIN a.wrote
      <4>1. DOMAIN a.wrote = {a.ids[n] : n \in 1 .. m - 1}
        BY <1>4, <1>7 DEF LastWins
      <4>2. {b.ids[k] : k \in 1 .. m - 1} = {a.ids[n] : n \in 1 .. m - 1}
        BY <1>9
      <4>. QED  BY <4>1, <4>2
    <3>3. NamedIds(plan, f) # {} => i \in NamedIds(plan, f)
      BY <1>1 DEF NewIds, f
    <3>. QED  BY <3>1, <3>2, <3>3
  <2>2. ASSUME NEW n \in 1 .. m - 1
        PROVE  IF NamedIds(plan, b.features[n]) # {}
               THEN b.ids[n] \in NamedIds(plan, b.features[n])
               ELSE b.ids[n] \notin (DOMAIN table) \cup {b.ids[k] : k \in 1 .. n - 1}
    <3>1. \A k \in 1 .. n - 1 : k \in 1 .. m - 1
      BY <1>7
    <3>2. {b.ids[k] : k \in 1 .. n - 1} = {a.ids[k] : k \in 1 .. n - 1}
      BY <3>1, <1>9
    <3>3. IF NamedIds(plan, a.features[n]) # {}
          THEN a.ids[n] \in NamedIds(plan, a.features[n])
          ELSE a.ids[n] \notin (DOMAIN table) \cup {a.ids[k] : k \in 1 .. n - 1}
      BY <1>4, <1>7 DEF Assigned
    <3>. QED  BY <3>2, <3>3, <1>6, <1>9
  <2>3. IF NamedIds(plan, b.features[m]) # {}
        THEN b.ids[m] \in NamedIds(plan, b.features[m])
        ELSE b.ids[m] \notin (DOMAIN table) \cup {b.ids[k] : k \in 1 .. m - 1}
    BY <2>1, <1>3, <1>6, <1>9
  <2>. QED  BY <2>2, <2>3, <1>9 DEF Assigned
<1>12. BatchInv(b)
  BY <1>6, <1>8, <1>10, <1>11 DEF BatchInv
<1>13. \A t \in Sessions \ {s} : (DOMAIN b.wrote) \cap (DOMAIN batch[t].wrote) = {}
  BY <1>1, <1>6 DEF IInv, HeldByOther, a
<1>14. UNCHANGED <<coll, plan, table>>
  BY DEF UpsertNext, Quiet
<1>. QED  BY <1>5, <1>12, <1>13, <1>14, OneSession

\* A batch that ends lets go of its rows and adds them to the table.
LEMMA EndBatchSteps ==
    ASSUME IInv, NEW s \in Sessions, EndBatch(s)
    PROVE  /\ batch[s].pc = "running" /\ batch[s].next - 1 = Len(batch[s].features)
           /\ table' = Over(batch[s].wrote, table)
           /\ UNCHANGED <<coll, plan>>
           /\ batch' = [t \in Sessions |->
                 IF t = s THEN [pc |-> "done", features |-> batch[s].features,
                                next |-> batch[s].next, wrote |-> NoRows,
                                ids |-> batch[s].ids]
                 ELSE batch[t]]
<1>1. batch[s].pc = "running"
  BY DEF EndBatch
<1>2. Progress(batch[s])
  BY <1>1 DEF IInv, BatchInv
<1>3. Len(batch[s].features) \in Nat
  BY <1>2, BatchesAssumption DEF Progress, IInv
<1>4. batch[s].next - 1 = Len(batch[s].features)
  BY <1>1, <1>2, <1>3 DEF EndBatch, Running, Progress
<1>. QED  BY <1>1, <1>4 DEF EndBatch, Quiet, IInv

LEMMA EndBatchKeepsIInv == ASSUME IInv, NEW s \in Sessions, EndBatch(s) PROVE IInv'
<1>1. \A t \in Sessions \ {s} : batch'[t] = batch[t]
  BY EndBatchSteps
<1>2. batch'[s].pc = "done" /\ batch'[s].wrote = NoRows /\ IsBatch(batch'[s])
  BY EndBatchSteps DEF IsBatch
<1>3. DOMAIN table' = (DOMAIN batch[s].wrote) \cup DOMAIN table
  BY EndBatchSteps DEF Over
<1>4. \A t \in Sessions : BatchInv(batch'[t])
  BY <1>1, <1>2 DEF IInv, BatchInv
<1>5. \A t \in Sessions :
        (DOMAIN table') \cap (DOMAIN batch'[t].wrote) \subseteq DOMAIN table
  BY <1>1, <1>2, <1>3 DEF IInv, NoRows
<1>6. \A t \in Sessions : BatchInv(batch[t])'
  BY <1>4, <1>5, EndBatchSteps, Carried
<1>7. \A t, u \in Sessions :
        t # u => (DOMAIN batch'[t].wrote) \cap (DOMAIN batch'[u].wrote) = {}
  BY <1>1, <1>2 DEF IInv, NoRows
<1>8. batch' = [t \in Sessions |-> batch'[t]] /\ coll' \in Collections
  BY EndBatchSteps DEF IInv
<1>. QED  BY <1>6, <1>7, <1>8 DEF IInv

LEMMA NextKeepsIInv == IInv /\ [Next]_vars => IInv'
<1>. SUFFICES ASSUME IInv, [Next]_vars  PROVE IInv'
  OBVIOUS
<1>1. CASE Request
  BY <1>1, RequestKeepsIInv
<1>2. ASSUME NEW s \in Sessions, StartBatch(s)  PROVE IInv'
  BY <1>2, StartKeepsIInv
<1>3. ASSUME NEW s \in Sessions, Advance(s)  PROVE IInv'
  <2>1. CASE UpsertNext(s)
    BY <2>1, UpsertNextKeepsIInv
  <2>2. CASE RefuseNext(s) \/ BreakDeadlock(s)
    BY <2>2, FailKeepsIInv DEF RefuseNext, BreakDeadlock
  <2>3. CASE EndBatch(s)
    BY <2>3, EndBatchKeepsIInv
  <2>. QED  BY <1>3, <2>1, <2>2, <2>3 DEF Advance
<1>4. ASSUME NEW s \in Sessions, LoseConnection(s)  PROVE IInv'
  BY <1>4, FailKeepsIInv DEF LoseConnection
<1>5. CASE UNCHANGED vars
  <2>1. UNCHANGED <<coll, plan, batch>> /\ DOMAIN table' = DOMAIN table
    BY <1>5 DEF vars
  <2>. QED  BY <2>1, OneRow
<1>. QED  BY <1>1, <1>2, <1>3, <1>4, <1>5 DEF Next

\* A batch holds the rows of the features it is through with, under ids that
\* nobody else has or that the features name.
THEOREM BatchesKeepTrack == Spec => []IInv
BY InitIInv, NextKeepsIInv, PTL DEF Spec

-----------------------------------------------------------------------------
(* The refinement.                                                          *)

LEMMA InitImplements == Init => Store!Init
BY SamePlan, SameAbsent DEF Init, Store!Init, NoRows, NewBatch, Sent, Answered

LEMMA RequestImplements == Request => Store!WriteOne
<1>. SUFFICES ASSUME Request  PROVE Store!WriteOne
  OBVIOUS
<1>1. SingleWrite /\ UNCHANGED <<coll, plan, batch>>
  BY RequestWritesOne
<1>2. UNCHANGED <<Sent, Answered>>
  BY <1>1 DEF Sent, Answered
<1>. QED  BY <1>1, <1>2 DEF SingleWrite, Store!WriteOne

\* What a step of one session does to the view of the others.
LEMMA SeenOfSession ==
    ASSUME IInv, NEW s \in Sessions, NEW b, batch' = [batch EXCEPT ![s] = b]
    PROVE  /\ Sent' = [Sent EXCEPT ![s] = IF b.pc = "running" THEN b.features ELSE <<>>]
           /\ Answered' = [Answered EXCEPT ![s] = CASE b.pc = "done" -> "ids"
                                                    [] b.pc = "failed" -> "error"
                                                    [] OTHER -> "none"]
<1>1. batch' = [t \in Sessions |-> IF t = s THEN b ELSE batch[t]]
  BY DEF IInv
<1>2. Sent' = [Sent EXCEPT ![s] = IF b.pc = "running" THEN b.features ELSE <<>>]
  BY <1>1 DEF Sent
<1>3. Answered' = [Answered EXCEPT ![s] = CASE b.pc = "done" -> "ids"
                                            [] b.pc = "failed" -> "error"
                                            [] OTHER -> "none"]
  BY <1>1 DEF Answered
<1>. QED  BY <1>2, <1>3

LEMMA StartImplements ==
    ASSUME IInv, NEW s \in Sessions, StartBatch(s) PROVE Store!Begin(s)
<1>1. PICK fs \in Lists[coll] : batch' = [batch EXCEPT ![s] = NewBatch("running", fs)]
  BY DEF StartBatch
<1>2. Sent' = [Sent EXCEPT ![s] = fs] /\ Answered' = [Answered EXCEPT ![s] = "none"]
  <2>. DEFINE b == NewBatch("running", fs)
  <2>1. b.pc = "running" /\ b.features = fs
    BY DEF NewBatch
  <2>. HIDE DEF b
  <2>2. batch' = [batch EXCEPT ![s] = b]
    BY <1>1 DEF b
  <2>3. (IF b.pc = "running" THEN b.features ELSE <<>>) = fs
    BY <2>1
  <2>4. (CASE b.pc = "done" -> "ids" [] b.pc = "failed" -> "error" [] OTHER -> "none")
           = "none"
    BY <2>1
  <2>. QED  BY <2>2, <2>3, <2>4, SeenOfSession
<1>3. Sent[s] = <<>>
  BY DEF StartBatch, Sent
<1>. QED  BY <1>2, <1>3 DEF Store!Begin, StartBatch

\* A batch that runs works on an array that is not empty.
LEMMA RunningIsSent ==
    ASSUME IInv, NEW s \in Sessions, batch[s].pc = "running"
    PROVE  Sent[s] = batch[s].features /\ Sent[s] # <<>>
BY BatchesAssumption DEF IInv, BatchInv, Progress, Sent

LEMMA FailImplements ==
    ASSUME IInv, NEW s \in Sessions, batch[s].pc = "running", FailBatch(s)
    PROVE  Store!Refuse(s)
<1>1. batch' = [batch EXCEPT ![s] = NewBatch("failed", <<>>)] /\ UNCHANGED <<coll, plan, table>>
  BY DEF FailBatch, Quiet
<1>2. Sent' = [Sent EXCEPT ![s] = <<>>] /\ Answered' = [Answered EXCEPT ![s] = "error"]
  <2>. DEFINE b == NewBatch("failed", <<>>)
  <2>1. b.pc = "failed"
    BY DEF NewBatch
  <2>. HIDE DEF b
  <2>2. batch' = [batch EXCEPT ![s] = b]
    BY <1>1 DEF b
  <2>. QED  BY <2>1, <2>2, SeenOfSession
<1>. QED  BY <1>1, <1>2, RunningIsSent DEF Store!Refuse, Store!Answer

LEMMA UpsertNextStutters ==
    ASSUME IInv, NEW s \in Sessions, UpsertNext(s)
    PROVE  UNCHANGED <<coll, plan, table, Answered, Sent>>
<1>1. PICK i : batch' = [batch EXCEPT ![s] =
                [pc |-> "running", features |-> @.features, next |-> @.next + 1,
                 wrote |-> Put(@.wrote, i, FullRow(plan, Current(s))),
                 ids |-> Append(@.ids, i)]]
  BY DEF UpsertNext
<1>2. \A t \in Sessions :
         batch'[t].pc = batch[t].pc /\ batch'[t].features = batch[t].features
  BY <1>1 DEF IInv, UpsertNext, Running
<1>3. UNCHANGED <<Sent, Answered>>
  BY <1>2 DEF Sent, Answered
<1>. QED  BY <1>3 DEF UpsertNext, Quiet

\* The ids of a batch that is through are an assignment of ids to its array,
\* and its rows are the ones that assignment asks for.
LEMMA EndImplements ==
    ASSUME IInv, NEW s \in Sessions, EndBatch(s)
    PROVE  Store!WriteBatch(s)
<1>. DEFINE fs == batch[s].features
            ids == batch[s].ids
            wrote == batch[s].wrote
<1>1. batch[s].pc = "running" /\ batch[s].next - 1 = Len(fs)
  BY EndBatchSteps
<1>2. Progress(batch[s]) /\ LastWins(batch[s]) /\ Assigned(batch[s])
  BY <1>1 DEF IInv, BatchInv
<1>3. DOMAIN fs = 1 .. Len(fs) /\ Len(fs) \in Nat
  BY <1>2, BatchesAssumption DEF Progress, IInv
<1>4. ids \in [DOMAIN fs -> Ids]
  BY <1>1, <1>2, <1>3 DEF Progress
<1>5. ids \in Store!AssignmentsTo(fs)
  <2>1. ASSUME NEW n \in DOMAIN fs
        PROVE  IF NamedIds(plan, fs[n]) # {} THEN ids[n] \in NamedIds(plan, fs[n])
               ELSE ids[n] \notin DOMAIN table \cup {ids[k] : k \in 1 .. n - 1}
    BY <1>1, <1>2, <1>3 DEF Assigned
  <2>. QED  BY <2>1, <1>4, SameIds DEF Store!AssignmentsTo
<1>6. table' = Store!Overwritten(fs, ids)
  <2>. DEFINE taken == {ids[n] : n \in DOMAIN fs}
              Last(i) == CHOOSE n \in DOMAIN fs :
                            ids[n] = i /\ \A k \in DOMAIN fs : ids[k] = i => k <= n
  <2>1. DOMAIN wrote = taken
    BY <1>1, <1>2, <1>3 DEF LastWins
  <2>2. ASSUME NEW i \in taken
        PROVE  wrote[i] = FullRow(plan, fs[Last(i)])
    <3>1. PICK n \in DOMAIN fs :
             /\ ids[n] = i
             /\ wrote[i] = FullRow(plan, fs[n])
             /\ \A k \in DOMAIN fs : ids[k] = i => k <= n
      BY <2>1, <1>1, <1>2, <1>3 DEF LastWins
    <3>2. \A m \in DOMAIN fs :
             ids[m] = i /\ (\A k \in DOMAIN fs : ids[k] = i => k <= m) => m = n
      BY <3>1, <1>3
    <3>3. Last(i) = n
      BY <3>1, <3>2
    <3>. QED  BY <3>1, <3>3
  <2>3. table' = [i \in DOMAIN table \cup taken |->
                     IF i \in taken THEN wrote[i] ELSE table[i]]
    <3>1. table' = Over(wrote, table)
      BY EndBatchSteps
    <3>. HIDE DEF wrote, taken
    <3>. QED  BY <3>1, <2>1 DEF Over
  <2>4. Store!Overwritten(fs, ids) =
          [i \in DOMAIN table \cup taken |->
              IF i \in taken THEN FullRow(plan, fs[Last(i)]) ELSE table[i]]
    BY SameRow DEF Store!Overwritten
  <2>. HIDE DEF Last, taken, wrote
  <2>. QED  BY <2>2, <2>3, <2>4
<1>7. /\ Sent' = [Sent EXCEPT ![s] = <<>>]
      /\ Answered' = [Answered EXCEPT ![s] = "ids"]
  <2>. DEFINE b == [pc |-> "done", features |-> fs, next |-> batch[s].next,
                    wrote |-> NoRows, ids |-> ids]
  <2>1. batch' = [batch EXCEPT ![s] = b]
    BY EndBatchSteps DEF IInv
  <2>2. b.pc = "done"
    OBVIOUS
  <2>. HIDE DEF b
  <2>. QED  BY <2>1, <2>2, SeenOfSession
<1>8. UNCHANGED <<coll, plan>>
  BY EndBatchSteps
<1>9. Sent[s] = fs /\ Sent[s] # <<>>
  BY <1>1, RunningIsSent
<1>. HIDE DEF fs, ids
<1>. QED  BY <1>5, <1>6, <1>7, <1>8, <1>9 DEF Store!WriteBatch, Store!Answer

LEMMA NextImplements ==
    IInv /\ [Next]_vars => [Store!Next]_<<coll, plan, table, Answered, Sent>>
<1>. SUFFICES ASSUME IInv, [Next]_vars
              PROVE  Store!Next \/ UNCHANGED <<coll, plan, table, Answered, Sent>>
  OBVIOUS
<1>1. CASE Request
  BY <1>1, RequestImplements DEF Store!Next
<1>2. ASSUME NEW s \in Sessions, StartBatch(s)  PROVE Store!Next
  BY <1>2, StartImplements DEF Store!Next
<1>3. ASSUME NEW s \in Sessions, Advance(s)
      PROVE  Store!Next \/ UNCHANGED <<coll, plan, table, Answered, Sent>>
  <2>1. CASE UpsertNext(s)
    BY <2>1, UpsertNextStutters
  <2>2. CASE RefuseNext(s)
    BY <2>2, FailImplements DEF RefuseNext, Running, Store!Next
  <2>3. CASE BreakDeadlock(s)
    <3>1. batch[s].pc = "running" /\ FailBatch(s)
      BY <2>3 DEF BreakDeadlock, WaitsFor, Running
    <3>. QED  BY <3>1, FailImplements DEF Store!Next
  <2>4. CASE EndBatch(s)
    BY <2>4, EndImplements DEF Store!Next
  <2>. QED  BY <1>3, <2>1, <2>2, <2>3, <2>4 DEF Advance
<1>4. ASSUME NEW s \in Sessions, LoseConnection(s)  PROVE Store!Next
  BY <1>4, FailImplements DEF LoseConnection, Store!Next
<1>5. CASE UNCHANGED vars
  BY <1>5 DEF vars, Sent, Answered
<1>. QED  BY <1>1, <1>2, <1>3, <1>4, <1>5 DEF Next

\* Whatever requests and batches run at once, and whichever of them fail, wait
\* for each other or are cut off: a reader sees single rows change, and batches
\* whole or not at all, the last feature per id winning (DbFunctionProvider and
\* upsert_many implement FeatureStore).
THEOREM WritesStayAtomic == Spec => WritesAreAtomic
BY BatchesKeepTrack, InitImplements, NextImplements, PTL
   DEF Spec, WritesAreAtomic, Store!Spec

-----------------------------------------------------------------------------
(* The inductive invariant: what is in a cell, a row and a batch.           *)

\* Objects are JSON and hold of the stripped keys just the stamped ones;
\* scalars are texts.
CellInv(col, v) ==
    /\ col.isObject => v = Absent \/ IsJson(v)
    /\ col.isObject /\ v.json = "object" =>
          (DOMAIN v.members) \cap col.stripped = col.stamped
    /\ ~ col.isObject => v = Absent \/ v.json = "string"
    /\ col.rule = "timestamp_iso" => v = Now

\* A scalar that copies the outward identifier has something to copy.
CopiesHaveSource(row) ==
    \A name \in DOMAIN plan.columns :
        /\ plan.columns[name].rule = "outward_identifier"
        /\ Len(plan.outward) = 1
        /\ row.cells[name] # Absent
        => row.cells[plan.outward[1]] # Absent

RowInv(row) ==
    /\ row.geometry = "valid" \/ (row.geometry = "null" /\ plan.geometryNullable)
    /\ DOMAIN row.cells = DOMAIN plan.columns
    /\ \A name \in DOMAIN plan.columns :
          /\ CellIsSound(name, row.cells[name])
          /\ CellInv(plan.columns[name], row.cells[name])
    /\ CopiesHaveSource(row)

\* A session without a batch holds nothing; the features a batch is through
\* with were accepted; a batch that is done has an id for each of them.
SessionInv(b) ==
    /\ b.pc \in {"idle", "failed"} =>
          b.features = <<>> /\ b.next = 1 /\ b.ids = <<>>
    /\ b.pc = "running" =>
          \A n \in 1 .. b.next - 1 : CanBeUpserted(b.features[n])
    /\ b.pc = "done" =>
          /\ Progress(b) /\ b.next = Len(b.features) + 1
          /\ \A n \in DOMAIN b.features :
                NamedIds(plan, b.features[n]) # {} => b.ids[n] \in NamedIds(plan, b.features[n])

SafeInv ==
    /\ coll \in Collections /\ plan = TablePlan(Resolved[coll])
    /\ started \in 0 .. MaxBatches
    /\ DOMAIN table \subseteq Ids
    /\ \A i \in DOMAIN table : RowInv(table[i])
    /\ \A s \in Sessions : SessionInv(batch[s])

-----------------------------------------------------------------------------
(* What _build_table makes of a collection.                                 *)

\* A path of two names is the pair of them.
LEMMA TwoNames ==
    ASSUME NEW p \in Seq(STRING), Len(p) = 2
    PROVE  p = <<p[1], p[2]>>
OBVIOUS

\* The keys a column stamps and injects are stripped; what is stripped is
\* declared and demanded of nobody.
LEMMA StrippedAreSupplied ==
    ASSUME NEW c \in Collections, NEW name \in DOMAIN Resolved[c].fields,
           NEW k \in StripKeys(Resolved[c], name)
    PROVE  /\ k \in DOMAIN Resolved[c].fields[name].children
           /\ ServerSupplied(Resolved[c], <<name, k>>)
<1>. DEFINE r == Resolved[c]
<1>1. CASE k \in OutwardKeys(r, name)
  <2>1. Len(r.outward) = 2 /\ r.outward[1] = name /\ k = r.outward[2]
    BY <1>1 DEF OutwardKeys
  <2>2. r.outward # <<>>
    BY <2>1
  <2>3. r.outward \in Seq(STRING) /\ k \in DOMAIN r.fields[name].children
    BY <2>1, <2>2, InputsAssumption
  <2>4. r.outward = <<name, k>>
    BY <2>1, <2>3, TwoNames
  <2>. QED  BY <2>3, <2>4 DEF ServerSupplied
<1>2. CASE k \notin OutwardKeys(r, name)
  <2>1. PICK token \in {"outward_identifier", "timestamp_iso"} :
           k \in ManagedKeys(r, name, token)
    BY <1>2 DEF StripKeys
  <2>2. PICK p \in DOMAIN r.managed : Len(p) = 2 /\ p[1] = name /\ k = p[2]
    BY <2>1 DEF ManagedKeys
  <2>3. p \in Seq(STRING) /\ k \in DOMAIN r.fields[name].children
    BY <2>2, InputsAssumption
  <2>4. p = <<name, k>>
    BY <2>2, <2>3, TwoNames
  <2>. QED  BY <2>3, <2>4 DEF ServerSupplied
<1>. QED  BY <1>1, <1>2

LEMMA StampedAreStripped ==
    ASSUME NEW r, NEW name
    PROVE  /\ ManagedKeys(r, name, "timestamp_iso") \subseteq StripKeys(r, name)
           /\ InjectKeys(r, name) \subseteq StripKeys(r, name)
BY DEF StripKeys, InjectKeys

IsPlan == coll \in Collections /\ plan = TablePlan(Resolved[coll])

LEMMA PlanFacts ==
    ASSUME IsPlan
    PROVE  /\ DOMAIN plan.columns = DOMAIN Resolved[coll].fields
           /\ plan.outward = Resolved[coll].outward
           /\ \A name \in DOMAIN plan.columns :
                 plan.columns[name] = Column(Resolved[coll], name)
BY DEF IsPlan, TablePlan

LEMMA ColumnFields ==
    ASSUME NEW r, NEW name
    PROVE  LET col == Column(r, name)
               fld == r.fields[name]
           IN  /\ col.stripped = StripKeys(r, name) /\ col.injected = InjectKeys(r, name)
               /\ col.stamped = ManagedKeys(r, name, "timestamp_iso")
               /\ col.rule = IF fld.type = "jsonb" THEN "none" ELSE WriteRule(r, name)
               /\ col.isObject <=> fld.type = "jsonb"
               /\ DOMAIN col.children = DOMAIN fld.children
               /\ \A k \in DOMAIN fld.children :
                     ServerSupplied(r, <<name, k>>) => ~ col.children[k].demanded
<1>. DEFINE fld == r.fields[name]
            kind == fld.type = "jsonb"
            demand(k) == fld.children[k].required /\ ~ ServerSupplied(r, <<name, k>>)
            children == [k \in DOMAIN fld.children |->
                           [type |-> fld.children[k].type,
                            codes |-> fld.children[k].codes,
                            demanded |-> demand(k)]]
            rule == IF fld.type = "jsonb" THEN "none" ELSE WriteRule(r, name)
            strip == StripKeys(r, name)
            inject == InjectKeys(r, name)
            stamp == ManagedKeys(r, name, "timestamp_iso")
            nullable == ~ fld.required
            col == [isObject |-> kind, nullable |-> nullable, stripped |-> strip,
                    injected |-> inject, stamped |-> stamp, codes |-> fld.codes,
                    rule |-> rule, children |-> children]
<1>1. Column(r, name) = col
  BY Zenon DEF Column
<1>2. ASSUME NEW k \in DOMAIN fld.children, ServerSupplied(r, <<name, k>>)
      PROVE  ~ children[k].demanded
  BY <1>2
<1>3. DOMAIN children = DOMAIN fld.children
  OBVIOUS
<1>4. (kind <=> fld.type = "jsonb") /\ rule = IF fld.type = "jsonb" THEN "none" ELSE WriteRule(r, name)
  OBVIOUS
<1>. HIDE DEF kind, nullable, rule, strip, inject, stamp, children
<1>5. (col.isObject <=> kind) /\ col.rule = rule /\ col.children = children
      /\ col.stripped = strip /\ col.injected = inject /\ col.stamped = stamp
  OBVIOUS
<1>. HIDE DEF col
<1>. QED  BY <1>1, <1>2, <1>3, <1>4, <1>5 DEF strip, inject, stamp

LEMMA ColumnFacts ==
    ASSUME IsPlan, NEW name \in DOMAIN plan.columns
    PROVE  LET col == plan.columns[name]
           IN  /\ col.stamped \subseteq col.stripped /\ col.injected \subseteq col.stripped
               /\ col.stripped \subseteq DOMAIN col.children
               /\ \A k \in col.stripped : ~ col.children[k].demanded
               /\ ~ col.isObject => col.stripped = {}
               /\ col.isObject => col.rule = "none"
               /\ col.rule \in {"none", "outward_identifier", "timestamp_iso"}
               /\ col.rule = "outward_identifier" => plan.outward # <<>>
<1>. DEFINE r == Resolved[coll]
            col == plan.columns[name]
            fld == r.fields[name]
<1>0. coll \in Collections /\ name \in DOMAIN r.fields /\ col = Column(r, name)
      /\ plan.outward = r.outward
  BY PlanFacts DEF IsPlan
<1>1. /\ col.stripped = StripKeys(r, name) /\ col.injected = InjectKeys(r, name)
      /\ col.stamped = ManagedKeys(r, name, "timestamp_iso")
      /\ DOMAIN col.children = DOMAIN fld.children
      /\ col.isObject <=> fld.type = "jsonb"
      /\ col.rule = IF fld.type = "jsonb" THEN "none" ELSE WriteRule(r, name)
  BY <1>0, ColumnFields
<1>2. \A k \in DOMAIN fld.children :
         ServerSupplied(r, <<name, k>>) => ~ col.children[k].demanded
  BY <1>0, ColumnFields
<1>. HIDE DEF col, fld, r
<1>3. col.stamped \subseteq col.stripped /\ col.injected \subseteq col.stripped
  BY <1>1, StampedAreStripped
<1>4. \A k \in col.stripped :
         k \in DOMAIN fld.children /\ ServerSupplied(r, <<name, k>>)
  BY <1>0, <1>1, StrippedAreSupplied DEF r, fld
<1>5. ~ col.isObject => DOMAIN fld.children = {}
  BY <1>0, <1>1, InputsAssumption DEF r, fld
<1>6. col.rule \in {"none", "outward_identifier", "timestamp_iso"}
  BY <1>0, <1>1, InputsAssumption DEF WriteRule, r
<1>7. col.rule = "outward_identifier" => r.outward # <<>>
  BY <1>0, <1>1, BatchesAssumption DEF Builds, r, fld
<1>8. col.stripped \subseteq DOMAIN col.children
  BY <1>1, <1>4
<1>9. \A k \in col.stripped : ~ col.children[k].demanded
  BY <1>2, <1>4
<1>10. ~ col.isObject => col.stripped = {}
  BY <1>4, <1>5
<1>11. col.isObject => col.rule = "none"
  BY <1>1
<1>. QED  BY <1>0, <1>3, <1>6, <1>7, <1>8, <1>9, <1>10, <1>11 DEF col

-----------------------------------------------------------------------------
(* What a write makes of one value.                                         *)

LEMMA PropertyIsJson ==
    ASSUME NEW f, IsFeature(f), NEW name
    PROVE  LET v == Property(f, name)
           IN  /\ name \notin DOMAIN f.properties => v = Absent
               /\ name \in DOMAIN f.properties => IsJson(v)
               /\ v.json = "absent" => v = Absent
BY DEF IsFeature, Property, Get, Object, Absent, IsJson

LEMMA StoredValue ==
    ASSUME NEW col, col.stamped \subseteq col.stripped,
           NEW v, v = Absent \/ IsJson(v),
           StoredObject(col, v) # Error
    PROVE  LET w == StoredObject(col, v)
           IN  /\ w = Absent \/ IsJson(w)
               /\ w = Absent <=> v = Absent
               /\ w.json = v.json
               /\ w.json = "object" =>
                     /\ (DOMAIN w.members) \cap col.stripped = col.stamped
                     /\ DOMAIN w.members \subseteq (DOMAIN v.members) \cup col.stamped
                     /\ \A k \in col.stripped :
                           Get(w, k) = IF k \in col.stamped THEN Now ELSE Absent
               /\ w.json = "null" => col.stripped = {}
               /\ \A k : k \notin col.stripped => Get(w, k) = Get(v, k)
<1>1. CASE col.stripped = {} \/ v.json = "absent"
  <2>1. StoredObject(col, v) = v
    BY <1>1 DEF StoredObject
  <2>. QED  BY <1>1, <2>1 DEF IsJson, Absent
<1>2. CASE col.stripped # {} /\ v.json # "absent"
  <2>1. v.json = "object"
    BY <1>2 DEF StoredObject
  <2>. DEFINE keys == ((DOMAIN v.members) \ col.stripped) \cup col.stamped
              m == [k \in keys |-> IF k \in col.stamped THEN Now ELSE v.members[k]]
              w == Object(m)
  <2>2. StoredObject(col, v) = w
    BY <1>2, <2>1 DEF StoredObject
  <2>3. w.json = "object" /\ w.members = m
    BY DEF Object
  <2>4. DOMAIN m = keys /\ m = [k \in DOMAIN m |-> m[k]]
        /\ \A k \in keys : m[k] = IF k \in col.stamped THEN Now ELSE v.members[k]
    OBVIOUS
  <2>. HIDE DEF m
  <2>5. IsJson(w)
    BY <2>3, <2>4 DEF IsJson
  <2>6. \A k : Get(w, k) = IF k \in keys THEN m[k] ELSE Absent
    BY <2>3, <2>4 DEF Get
  <2>7. \A k : Get(v, k) = IF k \in DOMAIN v.members THEN v.members[k] ELSE Absent
    BY <2>1 DEF Get
  <2>8. w # Absent /\ v # Absent
    BY <2>1, <2>3 DEF Absent
  <2>. HIDE DEF w
  <2>. QED  BY <2>1, <2>2, <2>3, <2>4, <2>5, <2>6, <2>7, <2>8
<1>. QED  BY <1>1, <1>2

LEMMA ObjectStaysSound ==
    ASSUME NEW col, col.stamped \subseteq col.stripped,
           col.stripped \subseteq DOMAIN col.children,
           NEW v, v = Absent \/ IsJson(v),
           v.json \in {"absent", "null", "object"}, ObjectIsValid(col, v),
           StoredObject(col, v) # Error, v # Absent
    PROVE  ObjectIsSound(col, StoredObject(col, v))
<1>. DEFINE w == StoredObject(col, v)
<1>0. v.json \in {"null", "object"}
  BY DEF IsJson
<1>1. /\ w.json = v.json
      /\ w.json = "object" =>
            /\ DOMAIN w.members \subseteq (DOMAIN v.members) \cup col.stamped
            /\ \A k \in col.stripped :
                  Get(w, k) = IF k \in col.stamped THEN Now ELSE Absent
      /\ w.json = "null" => col.stripped = {}
      /\ \A k : k \notin col.stripped => Get(w, k) = Get(v, k)
  BY StoredValue
<1>. HIDE DEF w
<1>2. \/ w.json = "object" /\ DOMAIN w.members \subseteq DOMAIN col.children
      \/ w.json = "null" /\ col.stripped = {}
  BY <1>0, <1>1 DEF ObjectIsValid
<1>3. \A k \in (DOMAIN col.children) \ col.stripped : ChildIsValid(col.children[k], w, k)
  BY <1>1 DEF ObjectIsValid, ChildIsValid
<1>4. \A k \in col.stripped : Get(w, k) = IF k \in col.stamped THEN Now ELSE Absent
  BY <1>0, <1>1
<1>. QED  BY <1>2, <1>3, <1>4 DEF ObjectIsSound, w

LEMMA TextIsText ==
    ASSUME NEW v
    PROVE  AsText(v) = Absent \/ AsText(v).json = "string"
BY DEF AsText, Text, Absent

LEMMA TextOfNothing == AsText(Absent) = Absent /\ AsText(Null) = Absent
BY DEF AsText, Absent, Null

\* Any column of any write that its checks let through, PATCH or not.
LEMMA CellIsKept ==
    ASSUME IsPlan, NEW f, IsFeature(f), NEW partial \in BOOLEAN,
           CodesAreValid(plan, f), ObjectsAreValid(plan, f, partial),
           NEW name \in DOMAIN plan.columns,
           Cell(plan, f, name) # Error,
           plan.columns[name].nullable \/ Cell(plan, f, name) # Absent
    PROVE  /\ CellIsSound(name, Cell(plan, f, name))
           /\ CellInv(plan.columns[name], Cell(plan, f, name))
<1>. DEFINE col == plan.columns[name]
            v == Property(f, name)
            w == Cell(plan, f, name)
<1>0. /\ col.stamped \subseteq col.stripped
      /\ col.stripped \subseteq DOMAIN col.children
      /\ col.isObject => col.rule = "none"
      /\ col.rule \in {"none", "outward_identifier", "timestamp_iso"}
  BY ColumnFacts
<1>1. v = Absent \/ IsJson(v)
  BY PropertyIsJson
<1>2. w = Absent => col.nullable
  OBVIOUS
<1>3. CASE col.isObject
  <2>1. w = StoredObject(col, v)
    BY <1>3 DEF Cell
  <2>2. CellInv(col, w)
    <3>1. w = Absent \/ IsJson(w)
      BY <2>1, <1>0, <1>1, StoredValue
    <3>2. w.json = "object" => (DOMAIN w.members) \cap col.stripped = col.stamped
      BY <2>1, <1>0, <1>1, StoredValue
    <3>. HIDE DEF w, col
    <3>. QED  BY <3>1, <3>2, <1>0, <1>3 DEF CellInv
  <2>3. ASSUME name \in Declared(plan), w # Absent
        PROVE  ObjectIsSound(col, w)
    <3>1. v # Absent
      BY <2>1, <2>3, <1>0, <1>1, StoredValue
    <3>2. v.json \in {"absent", "null", "object"} /\ ObjectIsValid(col, v)
      BY <2>3 DEF ObjectsAreValid
    <3>. QED  BY <3>1, <3>2, <2>1, <1>0, <1>1, ObjectStaysSound
  <2>. QED  BY <2>2, <2>3, <1>2, <1>3 DEF CellIsSound
<1>4. CASE ~ col.isObject
  <2>1. w = IF col.rule # "none" THEN ServerValue(plan, col, f) ELSE AsText(v)
    BY <1>4 DEF Cell
  <2>2. w = Absent \/ w.json = "string"
    BY <2>1, TextIsText DEF ServerValue, Now, Text
  <2>3. col.rule = "timestamp_iso" => w = Now
    BY <2>1 DEF ServerValue
  <2>4. col.rule = "none" /\ col.codes # {} /\ w # Absent => w.text \in col.codes
    BY <2>1, <1>4 DEF CodesAreValid
  <2>5. name \notin Declared(plan)
    BY <1>4 DEF Declared
  <2>6. CellIsSound(name, w)
    BY <2>4, <2>5, <1>2, <1>4 DEF CellIsSound
  <2>7. CellInv(col, w)
    BY <2>2, <2>3, <1>4 DEF CellInv
  <2>. QED  BY <2>6, <2>7
<1>. QED  BY <1>3, <1>4

\* Where a copy of the outward identifier is written, so is its source.
LEMMA CopyComesWithSource ==
    ASSUME IsPlan, NEW f, IsFeature(f), NEW name \in DOMAIN plan.columns,
           plan.columns[name].rule = "outward_identifier",
           Len(plan.outward) = 1, Cell(plan, f, name) # Absent
    PROVE  LET source == plan.outward[1]
           IN  /\ source \in DOMAIN plan.columns
               /\ source \in DOMAIN f.properties
               /\ Cell(plan, f, source) # Error => Cell(plan, f, source) # Absent
<1>. DEFINE o == plan.outward[1]
            v == Property(f, o)
            col == plan.columns[o]
<1>1. o \in DOMAIN plan.columns
  <2>1. coll \in Collections /\ plan.outward # <<>>
    BY ColumnFacts DEF IsPlan
  <2>. QED  BY <2>1, PlanFacts, InputsAssumption
<1>2. /\ col.stamped \subseteq col.stripped
      /\ col.rule \in {"none", "outward_identifier", "timestamp_iso"}
  BY <1>1, ColumnFacts
<1>3. ~ plan.columns[name].isObject
  BY ColumnFacts
<1>4. Cell(plan, f, name) = AsText(v)
  BY <1>3 DEF Cell, ServerValue
<1>5. AsText(v) # Absent /\ v # Absent
  BY <1>4, TextOfNothing
<1>6. o \in DOMAIN f.properties /\ IsJson(v)
  BY <1>5, PropertyIsJson
<1>7. ASSUME Cell(plan, f, o) # Error  PROVE Cell(plan, f, o) # Absent
  <2>1. CASE col.isObject
    <3>1. Cell(plan, f, o) = StoredObject(col, v)
      BY <2>1 DEF Cell
    <3>. QED  BY <3>1, <1>2, <1>5, <1>6, <1>7, StoredValue
  <2>2. CASE ~ col.isObject /\ col.rule = "none"
    BY <2>2, <1>5 DEF Cell
  <2>3. CASE ~ col.isObject /\ col.rule = "timestamp_iso"
    BY <2>3 DEF Cell, ServerValue, Now, Text, Absent
  <2>4. CASE ~ col.isObject /\ col.rule = "outward_identifier"
    BY <2>4, <1>5 DEF Cell, ServerValue
  <2>. QED  BY <1>2, <2>1, <2>2, <2>3, <2>4
<1>. QED  BY <1>1, <1>6, <1>7

-----------------------------------------------------------------------------
(* Rows.                                                                    *)

\* A complete write stores what the description wants.
LEMMA FullRowIsKept ==
    ASSUME IsPlan, NEW f, IsFeature(f), Complete(f)
    PROVE  RowInv(FullRow(plan, f))
<1>. DEFINE row == FullRow(plan, f)
<1>1. row.geometry = f.geometry /\ DOMAIN row.cells = DOMAIN plan.columns
      /\ \A name \in DOMAIN plan.columns : row.cells[name] = Cell(plan, f, name)
  BY DEF FullRow
<1>2. \A name \in DOMAIN plan.columns :
         /\ row.cells[name] # Error
         /\ plan.columns[name].nullable \/ row.cells[name] # Absent
  BY DEF Complete, Storable
<1>. HIDE DEF row
<1>3. CodesAreValid(plan, f) /\ ObjectsAreValid(plan, f, FALSE)
      /\ GeometryIsValid(plan, f, FALSE)
  BY DEF Complete, Passes
<1>4. row.geometry = "valid" \/ (row.geometry = "null" /\ plan.geometryNullable)
  BY <1>1, <1>3 DEF GeometryIsValid
<1>5. \A name \in DOMAIN plan.columns :
         CellIsSound(name, row.cells[name]) /\ CellInv(plan.columns[name], row.cells[name])
  BY <1>1, <1>2, <1>3, CellIsKept
<1>6. CopiesHaveSource(row)
  BY <1>1, <1>2, CopyComesWithSource DEF CopiesHaveSource
<1>. QED  BY <1>1, <1>4, <1>5, <1>6 DEF RowInv, row

\* A partial write of such a row leaves one behind.
LEMMA PatchedRowIsKept ==
    ASSUME IsPlan, NEW f, IsFeature(f), Passes(plan, f, TRUE),
           NEW old, RowInv(old), Storable(plan, PatchedRow(plan, f, old))
    PROVE  RowInv(PatchedRow(plan, f, old))
<1>. DEFINE row == PatchedRow(plan, f, old)
            Written(name) == name \in DOMAIN f.properties \/ plan.columns[name].rule # "none"
<1>1. /\ row.geometry = IF f.geometry = "absent" THEN old.geometry ELSE f.geometry
      /\ DOMAIN row.cells = DOMAIN plan.columns
      /\ \A name \in DOMAIN plan.columns :
            row.cells[name] = IF Written(name) THEN Cell(plan, f, name) ELSE old.cells[name]
  BY DEF PatchedRow
<1>2. \A name \in DOMAIN plan.columns :
         /\ row.cells[name] # Error
         /\ plan.columns[name].nullable \/ row.cells[name] # Absent
  BY DEF Storable
<1>. HIDE DEF row
<1>3. CodesAreValid(plan, f) /\ ObjectsAreValid(plan, f, TRUE)
      /\ GeometryIsValid(plan, f, TRUE)
  BY DEF Passes
<1>4. row.geometry = "valid" \/ (row.geometry = "null" /\ plan.geometryNullable)
  BY <1>1, <1>3 DEF GeometryIsValid, RowInv
<1>5. ASSUME NEW name \in DOMAIN plan.columns
      PROVE  CellIsSound(name, row.cells[name]) /\ CellInv(plan.columns[name], row.cells[name])
  <2>1. CASE Written(name)
    BY <2>1, <1>1, <1>2, <1>3, CellIsKept
  <2>2. CASE ~ Written(name)
    BY <2>2, <1>1 DEF RowInv
  <2>. QED  BY <2>1, <2>2
<1>6. CopiesHaveSource(row)
  <2>. SUFFICES ASSUME NEW name \in DOMAIN plan.columns,
                       plan.columns[name].rule = "outward_identifier",
                       Len(plan.outward) = 1, row.cells[name] # Absent
                PROVE  row.cells[plan.outward[1]] # Absent
    BY DEF CopiesHaveSource
  <2>1. row.cells[name] = Cell(plan, f, name)
    BY <1>1
  <2>2. plan.outward[1] \in DOMAIN plan.columns /\ Written(plan.outward[1])
        /\ (Cell(plan, f, plan.outward[1]) # Error => Cell(plan, f, plan.outward[1]) # Absent)
    BY <2>1, CopyComesWithSource
  <2>. QED  BY <2>2, <1>1, <1>2
<1>. QED  BY <1>1, <1>4, <1>5, <1>6 DEF RowInv, row

-----------------------------------------------------------------------------
(* Reading a row and writing it back.                                       *)

LEMMA ReadProperty ==
    ASSUME NEW row, NEW i, NEW name \in DOMAIN plan.columns
    PROVE  Property(ReadFeature(plan, row, i), name) = ReadCell(plan, row, i, name)
BY DEF Property, ReadFeature, Get, Object

LEMMA ReadObject ==
    ASSUME NEW row, NEW i, NEW name, row.cells[name].json = "object"
    PROVE  LET v == row.cells[name]
               keys == plan.columns[name].injected
               r == ReadCell(plan, row, i, name)
           IN  /\ r.json = "object"
               /\ DOMAIN r.members = (DOMAIN v.members) \cup keys
               /\ r = Object([k \in DOMAIN r.members |-> r.members[k]])
               /\ \A k : Get(r, k) = IF k \in keys THEN Text(TextOf[i]) ELSE Get(v, k)
<1>. DEFINE v == row.cells[name]
            keys == plan.columns[name].injected
            dom == (DOMAIN v.members) \cup keys
            m == [k \in dom |-> IF k \in keys THEN Text(TextOf[i]) ELSE v.members[k]]
            r == Object(m)
<1>1. ReadCell(plan, row, i, name) = r
  BY DEF ReadCell, Absent
<1>2. r.json = "object" /\ r.members = m
  BY DEF Object
<1>3. DOMAIN m = dom /\ m = [k \in DOMAIN m |-> m[k]]
      /\ \A k \in dom : m[k] = IF k \in keys THEN Text(TextOf[i]) ELSE v.members[k]
  OBVIOUS
<1>. HIDE DEF m
<1>4. \A k : Get(r, k) = IF k \in dom THEN m[k] ELSE Absent
  BY <1>2, <1>3 DEF Get
<1>5. \A k : Get(v, k) = IF k \in DOMAIN v.members THEN v.members[k] ELSE Absent
  BY DEF Get
<1>6. r = Object([k \in DOMAIN r.members |-> r.members[k]])
  BY <1>2, <1>3
<1>. HIDE DEF r
<1>. QED  BY <1>1, <1>2, <1>3, <1>4, <1>5, <1>6

\* An object read and stored again is what was stored.
LEMMA ObjectComesBack ==
    ASSUME IsPlan, NEW row, RowInv(row), NEW i, NEW name \in DOMAIN plan.columns,
           plan.columns[name].isObject,
           row.cells[name].json \notin {"absent", "null"},
           name \in Declared(plan) => row.cells[name].json = "object"
    PROVE  StoredObject(plan.columns[name], ReadCell(plan, row, i, name)) = row.cells[name]
<1>. DEFINE col == plan.columns[name]
            v == row.cells[name]
            r == ReadCell(plan, row, i, name)
<1>0. col.stamped \subseteq col.stripped /\ col.injected \subseteq col.stripped
      /\ col.stripped \subseteq DOMAIN col.children
  BY ColumnFacts
<1>1. IsJson(v) /\ (v.json = "object" => (DOMAIN v.members) \cap col.stripped = col.stamped)
  BY DEF RowInv, CellInv, Absent
<1>2. CASE v.json # "object"
  <2>1. col.stripped = {}
    BY <1>0, <1>2 DEF Declared
  <2>2. r = v
    BY <1>2 DEF ReadCell, Absent
  <2>. QED  BY <2>1, <2>2 DEF StoredObject
<1>3. CASE v.json = "object"
  <2>1. /\ r.json = "object" /\ DOMAIN r.members = (DOMAIN v.members) \cup col.injected
        /\ r = Object([k \in DOMAIN r.members |-> r.members[k]])
        /\ \A k : Get(r, k) = IF k \in col.injected THEN Text(TextOf[i]) ELSE Get(v, k)
    BY <1>3, ReadObject
  <2>. HIDE DEF r
  <2>2. \A k \in DOMAIN r.members : k \notin col.injected => r.members[k] = v.members[k]
    BY <2>1, <1>3 DEF Get
  <2>3. v = Object([k \in DOMAIN v.members |-> v.members[k]])
    BY <1>1, <1>3 DEF IsJson
  <2>4. CASE col.stripped = {}
    <3>1. DOMAIN r.members = DOMAIN v.members
      BY <2>1, <2>4, <1>0
    <3>2. \A k \in DOMAIN v.members : r.members[k] = v.members[k]
      BY <3>1, <2>2, <2>4, <1>0
    <3>3. [k \in DOMAIN r.members |-> r.members[k]] = [k \in DOMAIN v.members |-> v.members[k]]
      BY <3>1, <3>2
    <3>4. r = v
      BY <3>3, <2>1, <2>3
    <3>. QED  BY <3>4, <2>4 DEF StoredObject, r
  <2>5. CASE col.stripped # {}
    <3>. DEFINE keys == ((DOMAIN r.members) \ col.stripped) \cup col.stamped
                m == [k \in keys |-> IF k \in col.stamped THEN Now ELSE r.members[k]]
    <3>1. StoredObject(col, r) = Object(m)
      BY <2>1, <2>5 DEF StoredObject
    <3>2. keys = DOMAIN v.members
      BY <2>1, <1>0, <1>1, <1>3
    <3>3. ASSUME NEW k \in keys
          PROVE  (IF k \in col.stamped THEN Now ELSE r.members[k]) = v.members[k]
      <4>1. CASE k \in col.stamped
        <5>1. name \in Declared(plan)
          BY <4>1, <1>0 DEF Declared
        <5>2. Get(v, k) = Now
          <6>1. ObjectIsSound(col, v)
            BY <5>1, <1>3 DEF RowInv, CellIsSound, Absent
          <6>. QED  BY <6>1, <4>1, <1>0 DEF ObjectIsSound
        <5>. QED  BY <5>2, <4>1, <3>2, <3>3, <1>3 DEF Get
      <4>2. CASE k \notin col.stamped
        BY <4>2, <2>2, <1>0
      <4>. QED  BY <4>1, <4>2
    <3>4. m = [k \in DOMAIN v.members |-> v.members[k]]
      BY <3>2, <3>3
    <3>. HIDE DEF m
    <3>. QED  BY <3>1, <3>4, <2>3 DEF r
  <2>. QED  BY <2>4, <2>5
<1>. QED  BY <1>2, <1>3

\* So does a scalar.
LEMMA ScalarComesBack ==
    ASSUME IsPlan, NEW row, RowInv(row), NEW i, NEW name \in DOMAIN plan.columns,
           ~ plan.columns[name].isObject
    PROVE  AsText(ReadCell(plan, row, i, name)) = row.cells[name]
<1>. DEFINE v == row.cells[name]
<1>1. v = Absent \/ v.json = "string"
  BY DEF RowInv, CellInv
<1>2. CASE v = Absent
  BY <1>2, TextOfNothing DEF ReadCell
<1>3. CASE v.json = "string"
  <2>1. ReadCell(plan, row, i, name) = v
    BY <1>3 DEF ReadCell, Absent
  <2>2. AsText(v) = v
    BY <1>3 DEF AsText
  <2>. QED  BY <2>1, <2>2
<1>. QED  BY <1>1, <1>2, <1>3

\* What is read of an object passes the checks of a write.
LEMMA ReadObjectIsValid ==
    ASSUME IsPlan, SuppliesTexts, NEW row, RowInv(row), NEW i,
           NEW name \in Declared(plan),
           row.cells[name].json \notin {"absent", "null"}
    PROVE  LET r == ReadCell(plan, row, i, name)
           IN  r.json = "object" /\ ObjectIsValid(plan.columns[name], r)
<1>. DEFINE col == plan.columns[name]
            v == row.cells[name]
            r == ReadCell(plan, row, i, name)
<1>0. /\ name \in DOMAIN plan.columns
      /\ col.injected \subseteq col.stripped /\ col.stripped \subseteq DOMAIN col.children
      /\ \A k \in col.stripped : ~ col.children[k].demanded
  <2>1. name \in DOMAIN plan.columns
    BY DEF Declared
  <2>. QED  BY <2>1, ColumnFacts
<1>1. ObjectIsSound(col, v) /\ v.json = "object"
  BY <1>0 DEF RowInv, CellIsSound, ObjectIsSound, Absent
<1>2. /\ r.json = "object" /\ DOMAIN r.members = (DOMAIN v.members) \cup col.injected
      /\ \A k : Get(r, k) = IF k \in col.injected THEN Text(TextOf[i]) ELSE Get(v, k)
  BY <1>1, ReadObject
<1>. HIDE DEF r
<1>3. DOMAIN r.members \subseteq DOMAIN col.children
  BY <1>0, <1>1, <1>2 DEF ObjectIsSound
<1>4. ASSUME NEW k \in DOMAIN col.children
      PROVE  ChildIsValid(col.children[k], r, k)
  <2>1. CASE k \in col.injected \cup (col.stripped \cap col.stamped)
    <3>1. PICK t : Get(r, k) = Text(t)
      <4>1. CASE k \in col.injected
        BY <4>1, <1>2
      <4>2. CASE k \notin col.injected
        BY <4>2, <2>1, <1>1, <1>2 DEF ObjectIsSound, Now
      <4>. QED  BY <4>1, <4>2
    <3>2. col.children[k].codes = {} /\ JsonTypeOf(col.children[k].type) = "string"
      BY <2>1 DEF SuppliesTexts
    <3>. QED  BY <3>1, <3>2 DEF ChildIsValid, Text
  <2>2. CASE k \in col.stripped /\ k \notin col.injected /\ k \notin col.stamped
    <3>1. Get(r, k) = Absent
      BY <2>2, <1>1, <1>2 DEF ObjectIsSound
    <3>. QED  BY <3>1, <2>2, <1>0 DEF ChildIsValid, Absent
  <2>3. CASE k \notin col.stripped
    <3>1. Get(r, k) = Get(v, k) /\ ChildIsValid(col.children[k], v, k)
      BY <2>3, <1>0, <1>1, <1>2 DEF ObjectIsSound
    <3>. QED  BY <3>1, <1>1, <1>2 DEF ChildIsValid
  <2>. QED  BY <2>1, <2>2, <2>3
<1>. QED  BY <1>2, <1>3, <1>4 DEF ObjectIsValid, r

LEMMA ReadIdentifier ==
    ASSUME NEW row, NEW i, NEW name, NEW key \in plan.columns[name].injected
    PROVE  AsText(Get(ReadCell(plan, row, i, name), key)) \in {Absent, Text(TextOf[i])}
<1>. DEFINE r == ReadCell(plan, row, i, name)
<1>1. CASE row.cells[name].json = "object"
  <2>1. Get(r, key) = Text(TextOf[i])
    BY <1>1 DEF ReadCell, Get, Object, Absent
  <2>2. AsText(Text(TextOf[i])) = Text(TextOf[i])
    BY DEF AsText, Text
  <2>. QED  BY <2>1, <2>2
<1>2. CASE row.cells[name].json # "object"
  <2>1. r.json # "object"
    BY <1>2 DEF ReadCell, Null
  <2>2. Get(r, key) = Absent
    BY <2>1 DEF Get
  <2>. QED  BY <2>2, TextOfNothing
<1>. QED  BY <1>1, <1>2

\* A read names no identifier but the row's own.
LEMMA ReadMatches ==
    ASSUME IsPlan, NEW row, NEW i
    PROVE  MatchesOutward(plan, ReadFeature(plan, row, i), i)
<1>. DEFINE f == ReadFeature(plan, row, i)
<1>1. CASE OiColumns(plan) = {}
  BY <1>1 DEF MatchesOutward, OiText, Disagree
<1>2. CASE OiColumns(plan) # {}
  <2>. DEFINE name == CHOOSE n \in OiColumns(plan) : TRUE
              key == CHOOSE k \in plan.columns[name].injected : TRUE
  <2>1. name \in DOMAIN plan.columns /\ key \in plan.columns[name].injected
    BY <1>2 DEF OiColumns
  <2>2. OiText(plan, f) = AsText(Get(Property(f, name), key))
    BY <1>2 DEF OiText
  <2>. HIDE DEF name, key
  <2>3. OiText(plan, f) \in {Absent, Text(TextOf[i])}
    BY <2>1, <2>2, ReadProperty, ReadIdentifier
  <2>. QED  BY <2>3 DEF MatchesOutward, Disagree
<1>. QED  BY <1>1, <1>2

\* A text, a number, a boolean or an object reads as a text.
LEMMA ValuesHaveTexts ==
    ASSUME NEW v, IsJson(v), v.json # "null"
    PROVE  AsText(v) # Absent
<1>1. CASE v.json = "string"
  BY <1>1 DEF AsText, Absent
<1>2. CASE v.json = "number"
  BY <1>2 DEF AsText, Absent, Text
<1>3. CASE v.json = "boolean"
  BY <1>3 DEF AsText, Absent, Text
<1>4. CASE v.json = "object"
  BY <1>4 DEF AsText, Absent, Text
<1>. QED  BY <1>1, <1>2, <1>3, <1>4 DEF IsJson

\* A copy of the outward identifier that must be there finds its source in what is read.
LEMMA ReadHasSource ==
    ASSUME IsPlan, NEW row, RowInv(row), NEW i, NEW name \in DOMAIN plan.columns,
           plan.columns[name].rule = "outward_identifier",
           ~ plan.columns[name].nullable,
           \A n \in DOMAIN plan.columns :
              plan.columns[n].isObject => row.cells[n].json \notin {"absent", "null"}
    PROVE  ServerValue(plan, plan.columns[name], ReadFeature(plan, row, i)) # Absent
<1>. DEFINE f == ReadFeature(plan, row, i)
            o == plan.outward[1]
            v == row.cells[o]
            r == ReadCell(plan, row, i, o)
<1>0. plan.outward # <<>> /\ coll \in Collections
  BY ColumnFacts DEF IsPlan
<1>1. /\ plan.outward \in Seq(STRING) /\ Len(plan.outward) \in 1 .. 2
      /\ o \in DOMAIN plan.columns
      /\ Len(plan.outward) = 2 => plan.outward[2] \in DOMAIN Resolved[coll].fields[o].children
  BY <1>0, PlanFacts, InputsAssumption
<1>2. Property(f, o) = r
  BY <1>1, ReadProperty
<1>3. row.cells[name] # Absent
  BY DEF RowInv, CellIsSound
<1>4. CellIsSound(o, v) /\ CellInv(plan.columns[o], v)
  BY <1>1 DEF RowInv
<1>5. CASE Len(plan.outward) = 1
  <2>1. ServerValue(plan, plan.columns[name], f) = AsText(r)
    BY <1>2, <1>5 DEF ServerValue
  <2>2. v # Absent
    BY <1>3, <1>5 DEF RowInv, CopiesHaveSource
  <2>3. CASE ~ plan.columns[o].isObject
    BY <2>1, <2>2, <2>3, <1>1, ScalarComesBack
  <2>4. CASE plan.columns[o].isObject /\ v.json = "object"
    <3>1. r.json = "object"
      BY <2>4, ReadObject
    <3>2. AsText(r) # Absent
      BY <3>1 DEF AsText, Text, Absent
    <3>. QED  BY <2>1, <3>2
  <2>5. CASE plan.columns[o].isObject /\ v.json # "object"
    <3>1. r = v
      BY <2>2, <2>5 DEF ReadCell
    <3>2. IsJson(v) /\ v.json # "null"
      BY <2>2, <2>5, <1>1, <1>4 DEF CellInv
    <3>. QED  BY <2>1, <3>1, <3>2, ValuesHaveTexts
  <2>. QED  BY <2>3, <2>4, <2>5
<1>6. CASE Len(plan.outward) = 2
  <2>. DEFINE key == plan.outward[2]
              col == plan.columns[o]
  <2>1. ServerValue(plan, plan.columns[name], f) = AsText(Get(r, key))
    BY <1>2, <1>6 DEF ServerValue
  <2>2. key \in col.injected
    <3>1. OutwardKeys(Resolved[coll], o) = {key}
      BY <1>6, PlanFacts DEF OutwardKeys
    <3>2. col.injected = InjectKeys(Resolved[coll], o)
      BY <1>1, PlanFacts, ColumnFields
    <3>. QED  BY <3>1, <3>2 DEF InjectKeys
  <2>3. col.isObject /\ o \in Declared(plan)
    <3>1. key \in DOMAIN col.children /\ col.stripped # {}
      BY <2>2, <1>1, ColumnFacts
    <3>2. col.isObject
      BY <3>1, <1>1, ColumnFacts
    <3>. QED  BY <3>1, <3>2, <1>1 DEF Declared
  <2>4. v.json = "object"
    BY <2>3, <1>1, <1>4 DEF CellIsSound, ObjectIsSound, Absent
  <2>5. Get(r, key) = Text(TextOf[i])
    BY <2>2, <2>4 DEF ReadCell, Get, Object, Absent
  <2>6. AsText(Text(TextOf[i])) # Absent
    BY DEF AsText, Text, Absent
  <2>. QED  BY <2>1, <2>5, <2>6
<1>. QED  BY <1>1, <1>5, <1>6

LEMMA RowComesBack ==
    ASSUME IsPlan, SuppliesTexts, NEW row, RowInv(row), NEW i,
           \A name \in DOMAIN plan.columns :
              plan.columns[name].isObject => row.cells[name].json \notin {"absent", "null"}
    PROVE  LET f == ReadFeature(plan, row, i)
               again == FullRow(plan, f)
           IN  /\ Passes(plan, f, FALSE)
               /\ MatchesOutward(plan, f, i)
               /\ Storable(plan, again)
               /\ again.geometry = row.geometry
               /\ \A name \in DOMAIN plan.columns :
                     plan.columns[name].rule # "outward_identifier" =>
                        again.cells[name] = row.cells[name]
<1>. DEFINE f == ReadFeature(plan, row, i)
            again == FullRow(plan, f)
<1>1. f.geometry = row.geometry
  BY DEF ReadFeature
<1>2. \A name \in DOMAIN plan.columns : Property(f, name) = ReadCell(plan, row, i, name)
  BY ReadProperty
<1>3. /\ again.geometry = f.geometry
      /\ \A name \in DOMAIN plan.columns : again.cells[name] = Cell(plan, f, name)
  BY DEF FullRow
<1>. HIDE DEF again, f
<1>4. Passes(plan, f, FALSE)
  <2>1. GeometryIsValid(plan, f, FALSE)
    BY <1>1 DEF RowInv, GeometryIsValid
  <2>2. CodesAreValid(plan, f)
    <3>. SUFFICES ASSUME NEW name \in DOMAIN plan.columns,
                         ~ plan.columns[name].isObject, plan.columns[name].rule = "none",
                         plan.columns[name].codes # {}, AsText(Property(f, name)) # Absent
                  PROVE  AsText(Property(f, name)).text \in plan.columns[name].codes
      BY DEF CodesAreValid
    <3>1. AsText(Property(f, name)) = row.cells[name]
      BY <1>2, ScalarComesBack
    <3>. QED  BY <3>1 DEF RowInv, CellIsSound
  <2>3. ObjectsAreValid(plan, f, FALSE)
    <3>. SUFFICES ASSUME NEW name \in Declared(plan)
                  PROVE  /\ Property(f, name).json = "object"
                         /\ ObjectIsValid(plan.columns[name], Property(f, name))
      BY DEF ObjectsAreValid
    <3>1. name \in DOMAIN plan.columns /\ plan.columns[name].isObject
      BY DEF Declared
    <3>. QED  BY <3>1, <1>2, ReadObjectIsValid
  <2>. QED  BY <2>1, <2>2, <2>3 DEF Passes
<1>5. MatchesOutward(plan, f, i)
  BY ReadMatches DEF f
<1>6. ASSUME NEW name \in DOMAIN plan.columns,
             plan.columns[name].rule # "outward_identifier"
      PROVE  Cell(plan, f, name) = row.cells[name]
  <2>1. CASE plan.columns[name].isObject
    <3>1. row.cells[name].json \notin {"absent", "null"}
      BY <2>1
    <3>2. name \in Declared(plan) => row.cells[name].json = "object"
      BY <3>1 DEF RowInv, CellIsSound, ObjectIsSound, Absent
    <3>3. StoredObject(plan.columns[name], ReadCell(plan, row, i, name)) = row.cells[name]
      BY <2>1, <3>1, <3>2, ObjectComesBack
    <3>. QED  BY <2>1, <3>3, <1>2 DEF Cell
  <2>2. CASE ~ plan.columns[name].isObject /\ plan.columns[name].rule = "none"
    BY <2>2, <1>2, ScalarComesBack DEF Cell
  <2>3. CASE ~ plan.columns[name].isObject /\ plan.columns[name].rule = "timestamp_iso"
    BY <2>3 DEF Cell, ServerValue, RowInv, CellInv
  <2>. QED  BY <1>6, <2>1, <2>2, <2>3, ColumnFacts
<1>7. Storable(plan, again)
  <2>. SUFFICES ASSUME NEW name \in DOMAIN plan.columns
                PROVE  /\ Cell(plan, f, name) # Error
                       /\ plan.columns[name].nullable \/ Cell(plan, f, name) # Absent
    BY <1>3 DEF Storable
  <2>0. CellIsSound(name, row.cells[name]) /\ CellInv(plan.columns[name], row.cells[name])
    BY DEF RowInv
  <2>1. CASE plan.columns[name].rule # "outward_identifier"
    <3>1. row.cells[name] # Error
      BY <2>0 DEF CellInv, Error, Absent, IsJson
    <3>. QED  BY <2>1, <3>1, <2>0, <1>6 DEF CellIsSound
  <2>2. CASE plan.columns[name].rule = "outward_identifier"
    <3>1. ~ plan.columns[name].isObject
      BY <2>2, ColumnFacts
    <3>2. Cell(plan, f, name) = ServerValue(plan, plan.columns[name], f)
      BY <2>2, <3>1 DEF Cell
    <3>3. Cell(plan, f, name) = Absent \/ Cell(plan, f, name).json = "string"
      BY <3>2, <2>2, TextIsText DEF ServerValue
    <3>4. Cell(plan, f, name) # Error
      BY <3>3 DEF Error, Absent
    <3>. QED  BY <2>2, <3>2, <3>4, ReadHasSource DEF f
  <2>. QED  BY <2>1, <2>2
<1>. QED  BY <1>1, <1>3, <1>4, <1>5, <1>6, <1>7 DEF again, f

-----------------------------------------------------------------------------
(* Every step keeps the invariant.                                          *)

LEMMA InitSafe == Init => SafeInv
BY BatchesAssumption DEF Init, SafeInv, SessionInv, NewBatch, NoRows

LEMMA SafeStays ==
    ASSUME UNCHANGED <<coll, plan>>
    PROVE  /\ \A row : RowInv(row)' <=> RowInv(row)
           /\ \A b : SessionInv(b)' <=> SessionInv(b)
<1>1. \A f : CanBeUpserted(f)' <=> CanBeUpserted(f)
  BY DEF CanBeUpserted, Complete
<1>2. \A name, v : CellIsSound(name, v)' <=> CellIsSound(name, v)
  BY DEF CellIsSound
<1>3. \A row : CopiesHaveSource(row)' <=> CopiesHaveSource(row)
  BY DEF CopiesHaveSource
<1>4. \A b : Progress(b)' <=> Progress(b)
  BY DEF Progress
<1>5. \A row : RowInv(row)' <=> RowInv(row)
  BY <1>2, <1>3 DEF RowInv
<1>6. \A b : SessionInv(b)' <=> SessionInv(b)
  BY <1>1, <1>4 DEF SessionInv
<1>. QED  BY <1>5, <1>6

\* A step that writes such rows under ids, and leaves the sessions as they may be.
LEMMA SafeStep ==
    ASSUME SafeInv, UNCHANGED <<coll, plan>>, started' \in 0 .. MaxBatches,
           DOMAIN table' \subseteq Ids,
           \A i \in DOMAIN table' : RowInv(table'[i]),
           \A s \in Sessions : SessionInv(batch'[s])
    PROVE  SafeInv'
<1>1. (\A i \in DOMAIN table : RowInv(table[i]))'
  BY SafeStays
<1>2. (\A s \in Sessions : SessionInv(batch[s]))'
  BY SafeStays
<1>3. (coll \in Collections)' /\ (plan = TablePlan(Resolved[coll]))'
  BY DEF SafeInv
<1>. QED  BY <1>1, <1>2, <1>3 DEF SafeInv

LEMMA PutKeepsSafe ==
    ASSUME SafeInv, UNCHANGED <<coll, plan, batch, started>>,
           NEW i \in Ids, NEW row, RowInv(row), table' = Put(table, i, row)
    PROVE  SafeInv'
<1>1. DOMAIN table' = (DOMAIN table) \cup {i}
      /\ \A k \in DOMAIN table' : table'[k] = IF k = i THEN row ELSE table[k]
  BY DEF Put
<1>2. DOMAIN table' \subseteq Ids /\ \A k \in DOMAIN table' : RowInv(table'[k])
  BY <1>1 DEF SafeInv
<1>. QED  BY <1>2, SafeStep DEF SafeInv

LEMMA OfferedAreFeatures ==
    ASSUME SafeInv
    PROVE  /\ \A f \in Offered[coll] : IsFeature(f)
           /\ \A fs \in Lists[coll] : \A n \in DOMAIN fs : IsFeature(fs[n])
BY InputsAssumption DEF SafeInv

LEMMA RequestKeepsSafe == SafeInv /\ Request => SafeInv'
<1>. SUFFICES ASSUME SafeInv, Request  PROVE SafeInv'
  OBVIOUS
<1>0. IsPlan
  BY DEF SafeInv, IsPlan
<1>1. ASSUME NEW f \in Offered[coll], Complete(f)
      PROVE  RowInv(FullRow(plan, f))
  BY <1>0, <1>1, OfferedAreFeatures, FullRowIsKept
<1>2. ASSUME NEW f \in Offered[coll], CreateFeature(f)  PROVE SafeInv'
  <2>1. PICK i \in NewIds(f) : table' = Put(table, i, FullRow(plan, f))
    BY <1>2 DEF CreateFeature
  <2>2. UNCHANGED <<coll, plan, batch, started>> /\ Complete(f)
    BY <1>2 DEF CreateFeature, OnlyTable
  <2>. QED  BY <2>1, <2>2, <1>1, NewIdsAreIds, PutKeepsSafe
<1>3. ASSUME NEW f \in Offered[coll], UpsertFeature(f)  PROVE SafeInv'
  <2>1. PICK i \in NewIds(f) : table' = Put(table, i, FullRow(plan, f))
    BY <1>3 DEF UpsertFeature
  <2>2. UNCHANGED <<coll, plan, batch, started>> /\ Complete(f)
    BY <1>3 DEF UpsertFeature, CanBeUpserted, OnlyTable
  <2>. QED  BY <2>1, <2>2, <1>1, NewIdsAreIds, PutKeepsSafe
<1>4. ASSUME NEW i \in Ids, NEW f \in Offered[coll], ReplaceFeature(i, f)
      PROVE  SafeInv'
  <2>1. /\ table' = Put(table, i, FullRow(plan, f)) /\ Complete(f)
        /\ UNCHANGED <<coll, plan, batch, started>>
    BY <1>4 DEF ReplaceFeature, OnlyTable
  <2>. QED  BY <2>1, <1>1, PutKeepsSafe
<1>5. ASSUME NEW i \in Ids, NEW f \in Offered[coll], UpdateFeature(i, f)
      PROVE  SafeInv'
  <2>1. /\ table' = Put(table, i, PatchedRow(plan, f, table[i])) /\ i \in DOMAIN table
        /\ Passes(plan, f, TRUE) /\ Storable(plan, PatchedRow(plan, f, table[i]))
        /\ UNCHANGED <<coll, plan, batch, started>>
    BY <1>5 DEF UpdateFeature, OnlyTable
  <2>2. RowInv(table[i]) /\ IsFeature(f)
    BY <2>1, OfferedAreFeatures DEF SafeInv
  <2>3. RowInv(PatchedRow(plan, f, table[i]))
    BY <2>1, <2>2, <1>0, PatchedRowIsKept
  <2>. QED  BY <2>1, <2>3, PutKeepsSafe
<1>6. ASSUME NEW i \in Ids, DeleteFeature(i)  PROVE SafeInv'
  <2>1. table' = Without(table, i) /\ UNCHANGED <<coll, plan, batch, started>>
    BY <1>6 DEF DeleteFeature, OnlyTable
  <2>2. DOMAIN table' = (DOMAIN table) \ {i}
        /\ \A k \in DOMAIN table' : table'[k] = table[k]
    BY <2>1 DEF Without
  <2>. QED  BY <2>1, <2>2, SafeStep DEF SafeInv
<1>. QED  BY <1>2, <1>3, <1>4, <1>5, <1>6 DEF Request

\* A step of one session that leaves the table alone.
LEMMA SessionStep ==
    ASSUME IInv, SafeInv, UNCHANGED <<coll, plan, table>>, started' \in 0 .. MaxBatches,
           NEW s \in Sessions, NEW b, SessionInv(b), batch' = [batch EXCEPT ![s] = b]
    PROVE  SafeInv'
<1>1. \A t \in Sessions : batch'[t] = IF t = s THEN b ELSE batch[t]
  BY DEF IInv
<1>2. \A t \in Sessions : SessionInv(batch'[t])
  BY <1>1 DEF SafeInv
<1>. QED  BY <1>2, SafeStep DEF SafeInv

LEMMA StartKeepsSafe ==
    ASSUME IInv, SafeInv, NEW s \in Sessions, StartBatch(s) PROVE SafeInv'
<1>1. PICK fs \in Lists[coll] : batch' = [batch EXCEPT ![s] = NewBatch("running", fs)]
  BY DEF StartBatch
<1>2. SessionInv(NewBatch("running", fs))
  BY DEF SessionInv, NewBatch
<1>3. started' \in 0 .. MaxBatches /\ UNCHANGED <<coll, plan, table>>
  BY BatchesAssumption DEF StartBatch, SafeInv
<1>. QED  BY <1>1, <1>2, <1>3, SessionStep

LEMMA FailKeepsSafe ==
    ASSUME IInv, SafeInv, NEW s \in Sessions, FailBatch(s) PROVE SafeInv'
<1>1. SessionInv(NewBatch("failed", <<>>))
  BY DEF SessionInv, NewBatch
<1>2. started' \in 0 .. MaxBatches /\ UNCHANGED <<coll, plan, table>>
  BY DEF FailBatch, Quiet, SafeInv
<1>3. batch' = [batch EXCEPT ![s] = NewBatch("failed", <<>>)]
  BY DEF FailBatch
<1>. QED  BY <1>1, <1>2, <1>3, SessionStep

LEMMA UpsertNextKeepsSafe ==
    ASSUME IInv, SafeInv, NEW s \in Sessions, UpsertNext(s) PROVE SafeInv'
<1>. DEFINE a == batch[s]
            m == a.next
<1>1. PICK i \in BatchIds(s) :
         batch' = [batch EXCEPT ![s] =
                [pc |-> "running", features |-> @.features, next |-> @.next + 1,
                 wrote |-> Put(@.wrote, i, FullRow(plan, Current(s))),
                 ids |-> Append(@.ids, i)]]
  BY DEF UpsertNext
<1>. DEFINE b == [pc |-> "running", features |-> a.features, next |-> m + 1,
                  wrote |-> Put(a.wrote, i, FullRow(plan, Current(s))),
                  ids |-> Append(a.ids, i)]
<1>2. batch' = [batch EXCEPT ![s] = b]
  BY <1>1 DEF IInv
<1>3. b.pc = "running" /\ b.features = a.features /\ b.next = m + 1
  OBVIOUS
<1>4. a.pc = "running" /\ Current(s) = a.features[m] /\ CanBeUpserted(Current(s))
  BY DEF UpsertNext, Running, Current
<1>5. m \in Nat
  BY <1>4 DEF IInv, BatchInv, Progress
<1>6. \A n \in 1 .. m - 1 : CanBeUpserted(a.features[n])
  BY <1>4 DEF SafeInv, SessionInv
<1>. HIDE DEF b, a, m
<1>7. \A n \in 1 .. b.next - 1 : CanBeUpserted(b.features[n])
  BY <1>3, <1>4, <1>5, <1>6
<1>8. SessionInv(b)
  BY <1>3, <1>7 DEF SessionInv
<1>9. started' \in 0 .. MaxBatches /\ UNCHANGED <<coll, plan, table>>
  BY DEF UpsertNext, Quiet, SafeInv
<1>. QED  BY <1>2, <1>8, <1>9, SessionStep

LEMMA EndBatchKeepsSafe ==
    ASSUME IInv, SafeInv, NEW s \in Sessions, EndBatch(s) PROVE SafeInv'
<1>. DEFINE a == batch[s]
            b == [pc |-> "done", features |-> a.features, next |-> a.next,
                  wrote |-> NoRows, ids |-> a.ids]
<1>0. IsPlan
  BY DEF SafeInv, IsPlan
<1>1. /\ a.pc = "running" /\ a.next - 1 = Len(a.features)
      /\ table' = Over(a.wrote, table)
      /\ UNCHANGED <<coll, plan>>
      /\ \A t \in Sessions : batch'[t] = IF t = s THEN b ELSE batch[t]
  BY EndBatchSteps
<1>2. b.pc = "done" /\ b.features = a.features /\ b.next = a.next /\ b.ids = a.ids
  OBVIOUS
<1>. HIDE DEF b, a
<1>3. Progress(a) /\ LastWins(a) /\ Assigned(a)
      /\ \A n \in 1 .. a.next - 1 : CanBeUpserted(a.features[n])
  BY <1>1 DEF IInv, BatchInv, SafeInv, SessionInv, a
<1>4. DOMAIN a.features = 1 .. a.next - 1 /\ a.next \in Nat
  BY <1>1, <1>3, BatchesAssumption DEF Progress, SafeInv
<1>5. \A k \in DOMAIN a.wrote : RowInv(a.wrote[k]) /\ k \in Ids
  <2>. SUFFICES ASSUME NEW k \in DOMAIN a.wrote
                PROVE  RowInv(a.wrote[k]) /\ k \in Ids
    OBVIOUS
  <2>1. PICK n \in 1 .. a.next - 1 :
           a.ids[n] = k /\ a.wrote[k] = FullRow(plan, a.features[n])
    BY <1>3 DEF LastWins
  <2>2. IsFeature(a.features[n]) /\ Complete(a.features[n])
    BY <1>3, <1>4, OfferedAreFeatures DEF Progress, CanBeUpserted
  <2>3. k \in Ids
    BY <2>1, <1>3, <1>4 DEF Progress
  <2>. QED  BY <2>1, <2>2, <2>3, <1>0, FullRowIsKept
<1>6. DOMAIN table' \subseteq Ids /\ \A k \in DOMAIN table' : RowInv(table'[k])
  BY <1>1, <1>5 DEF Over, SafeInv
<1>7. SessionInv(b)
  <2>1. Progress(b)
    BY <1>2, <1>3 DEF Progress
  <2>2. b.next = Len(b.features) + 1
    BY <1>1, <1>2, <1>4
  <2>3. \A n \in DOMAIN b.features :
           NamedIds(plan, b.features[n]) # {} => b.ids[n] \in NamedIds(plan, b.features[n])
    BY <1>2, <1>3, <1>4 DEF Assigned
  <2>. QED  BY <2>1, <2>2, <2>3, <1>2 DEF SessionInv
<1>8. \A t \in Sessions : SessionInv(batch'[t])
  BY <1>1, <1>7 DEF SafeInv
<1>9. started' \in 0 .. MaxBatches
  BY DEF EndBatch, Quiet, SafeInv
<1>. QED  BY <1>1, <1>6, <1>8, <1>9, SafeStep

LEMMA NextKeepsSafe == IInv /\ SafeInv /\ [Next]_vars => SafeInv'
<1>. SUFFICES ASSUME IInv, SafeInv, [Next]_vars  PROVE SafeInv'
  OBVIOUS
<1>1. CASE Request
  BY <1>1, RequestKeepsSafe
<1>2. ASSUME NEW s \in Sessions, StartBatch(s)  PROVE SafeInv'
  BY <1>2, StartKeepsSafe
<1>3. ASSUME NEW s \in Sessions, Advance(s)  PROVE SafeInv'
  <2>1. CASE UpsertNext(s)
    BY <2>1, UpsertNextKeepsSafe
  <2>2. CASE FailBatch(s)
    BY <2>2, FailKeepsSafe
  <2>3. CASE EndBatch(s)
    BY <2>3, EndBatchKeepsSafe
  <2>. QED  BY <1>3, <2>1, <2>2, <2>3 DEF Advance, RefuseNext, BreakDeadlock
<1>4. ASSUME NEW s \in Sessions, LoseConnection(s)  PROVE SafeInv'
  BY <1>4, FailKeepsSafe DEF LoseConnection
<1>5. CASE UNCHANGED vars
  BY <1>5, SafeStep DEF vars, SafeInv
<1>. QED  BY <1>1, <1>2, <1>3, <1>4, <1>5 DEF Next

-----------------------------------------------------------------------------
(* The theorems.                                                            *)

\* What is in the rows and what the sessions were answered: every row is what
\* some accepted write made, whichever of the four write functions it was, and
\* a batch holds the ids its features got.
THEOREM WritesKeepTrack == Spec => []SafeInv
<1>1. IInv /\ SafeInv /\ [Next]_vars => SafeInv'
  BY NextKeepsSafe
<1>. QED  BY InitSafe, <1>1, BatchesKeepTrack, PTL DEF Spec

\* Rows keep the columns of the plan, and a batch the array it was sent.
THEOREM TablesAreTyped == Spec => []TypeOK
<1>1. IInv /\ SafeInv => TypeOK
  <2>. SUFFICES ASSUME IInv, SafeInv  PROVE TypeOK
    OBVIOUS
  <2>1. \A i \in DOMAIN table : DOMAIN table[i].cells = DOMAIN plan.columns
    BY DEF SafeInv, RowInv
  <2>2. ASSUME NEW s \in Sessions
        PROVE  /\ batch[s].features \in {<<>>} \cup Lists[coll]
               /\ batch[s].next \in 1 .. Len(batch[s].features) + 1
               /\ Len(batch[s].ids) = batch[s].next - 1
    <3>1. CASE batch[s].pc \in {"idle", "failed"}
      BY <3>1 DEF SafeInv, SessionInv
    <3>2. CASE batch[s].pc \in {"running", "done"}
      <4>1. Progress(batch[s])
        BY <3>2 DEF IInv, BatchInv, SafeInv, SessionInv
      <4>2. Len(batch[s].features) \in Nat
        BY <4>1, BatchesAssumption DEF Progress, SafeInv
      <4>. QED  BY <4>1, <4>2 DEF Progress
    <3>. QED  BY <3>1, <3>2 DEF IInv, BatchInv
  <2>3. DOMAIN batch = Sessions
    BY DEF IInv
  <2>. QED  BY <2>1, <2>2, <2>3 DEF TypeOK, SafeInv
<1>. QED  BY <1>1, BatchesKeepTrack, WritesKeepTrack, PTL

\* No sequence of creates, replaces, patches, upserts and batches leaves a row
\* that the description does not allow.
THEOREM RowsStaySound == Spec => []RowsKeepToDescription
<1>1. SafeInv => RowsKeepToDescription
  BY DEF SafeInv, RowInv, RowsKeepToDescription, RowIsSound
<1>. QED  BY <1>1, WritesKeepTrack, PTL

\* Whatever wrote a row, a PUT of what is read of it is accepted and leaves it
\* as it is.
THEOREM ReadsComeBack == Spec => []ReadsCanBeWrittenBack
<1>1. SafeInv => ReadsCanBeWrittenBack
  <2>. SUFFICES ASSUME SafeInv, SuppliesTexts, NEW i \in DOMAIN table,
                       \A name \in DOMAIN plan.columns :
                          plan.columns[name].isObject =>
                             table[i].cells[name].json \notin {"absent", "null"}
                PROVE  LET row == table[i]
                           f == ReadFeature(plan, row, i)
                           again == FullRow(plan, f)
                       IN  /\ Passes(plan, f, FALSE)
                           /\ MatchesOutward(plan, f, i)
                           /\ Storable(plan, again)
                           /\ again.geometry = row.geometry
                           /\ \A name \in DOMAIN plan.columns :
                                 plan.columns[name].rule # "outward_identifier" =>
                                    again.cells[name] = row.cells[name]
    BY DEF ReadsCanBeWrittenBack
  <2>1. IsPlan /\ RowInv(table[i])
    BY DEF SafeInv, IsPlan
  <2>. QED  BY <2>1, RowComesBack
<1>. QED  BY <1>1, WritesKeepTrack, PTL

\* A feature names one id at most.
LEMMA OneNamedId ==
    ASSUME NEW p, NEW f, NEW i \in NamedIds(p, f)
    PROVE  NamedIds(p, f) = {i}
<1>. DEFINE raw == IF IdText(f) # Absent THEN IdText(f) ELSE OiText(p, f)
<1>1. NamedIds(p, f) = {UuidOf[t] : t \in {u \in DOMAIN UuidOf : raw = Text(u)}}
  BY DEF NamedIds
<1>2. \A u, w : Text(u) = Text(w) => u = w
  BY DEF Text
<1>. HIDE DEF raw
<1>. QED  BY <1>1, <1>2

\* Whatever other requests and batches do in between, the ids a batch is
\* answered with are those of its features, one each and in their order.
THEOREM AnswersKeepOrder == Spec => []BatchAnswersInOrder
<1>1. SafeInv => BatchAnswersInOrder
  <2>. SUFFICES ASSUME SafeInv, NEW s \in Sessions, batch[s].pc = "done"
                PROVE  /\ Len(batch[s].ids) = Len(batch[s].features)
                       /\ \A n \in DOMAIN batch[s].features :
                             NamedIds(plan, batch[s].features[n]) \subseteq {batch[s].ids[n]}
    BY DEF BatchAnswersInOrder
  <2>1. /\ Progress(batch[s]) /\ batch[s].next = Len(batch[s].features) + 1
        /\ \A n \in DOMAIN batch[s].features :
              NamedIds(plan, batch[s].features[n]) # {} =>
                 batch[s].ids[n] \in NamedIds(plan, batch[s].features[n])
    BY DEF SafeInv, SessionInv
  <2>2. Len(batch[s].features) \in Nat
    BY <2>1, BatchesAssumption DEF Progress, SafeInv
  <2>3. Len(batch[s].ids) = Len(batch[s].features)
    BY <2>1, <2>2 DEF Progress
  <2>4. ASSUME NEW n \in DOMAIN batch[s].features
        PROVE  NamedIds(plan, batch[s].features[n]) \subseteq {batch[s].ids[n]}
    <3>1. CASE NamedIds(plan, batch[s].features[n]) = {}
      BY <3>1
    <3>2. CASE NamedIds(plan, batch[s].features[n]) # {}
      <4>1. batch[s].ids[n] \in NamedIds(plan, batch[s].features[n])
        BY <3>2, <2>1
      <4>. QED  BY <4>1, OneNamedId
    <3>. QED  BY <3>1, <3>2
  <2>. QED  BY <2>3, <2>4
<1>. QED  BY <1>1, WritesKeepTrack, PTL
=============================================================================
