------------------------- MODULE ImportPipelineSafety -------------------------
(* What the event table and the counters of a job say, proved for every set   *)
(* of jobs and replicas, every chunking and every number of faults.           *)
EXTENDS ImportPipelineProofs, FiniteSetTheorems

USE DEF NullId

BatchTypes == {"import.batch.succeeded", "import.batch.failed"}

\* The events gcjobs records itself, without a message id.
OwnTypes == {"import.accepted", "import.completed.failed"}

-----------------------------------------------------------------------------
(* Which steps touch the database.                                            *)

\* A step leaves the database alone, or is one transaction of
\* record_import_event; what gcjobs records itself (no message id) announces
\* no batch, no success and no total, and anything else is an entry of the
\* stream with its id.
Recording(mid, e) ==
    /\ RecordImportEvent(mid, e)
    /\ \/ mid = NullId /\ e.type \in OwnTypes /\ e.total = NoTotal
       \/ mid \in 1 .. Len(stream) /\ e = stream[mid]
    /\ UNCHANGED <<stream, stored, importer>>

LEMMA DatabaseSteps ==
    ASSUME TypeOK, [Next]_vars
    PROVE  \/ UNCHANGED gcjobsDb
           \/ \E mid \in Nat, e \in Event : Recording(mid, e)
<1>1. ASSUME NEW r \in Replicas, NEW j \in Jobs, QueueImportRequest(r, j)
      PROVE  \E mid \in Nat, e \in Event : Recording(mid, e)
  <2> DEFINE ev == EventOf(j, "import.accepted", "accepted")
  <2>1. ev \in Event /\ ev.type \in OwnTypes /\ ev.total = NoTotal
    BY DEF EventOf, Event, EventTypes, Phases, OwnTypes
  <2>2. Recording(NullId, ev)
    BY <1>1, <2>1 DEF QueueImportRequest, Recording, redis
  <2> HIDE DEF ev
  <2>3. QED
    BY <2>1, <2>2
<1>2. ASSUME NEW j \in Jobs, RecordForwardingFailure(j)
      PROVE  \E mid \in Nat, e \in Event : Recording(mid, e)
  <2> DEFINE ev == EventOf(j, "import.completed.failed", "forwarding")
  <2>1. ev \in Event /\ ev.type \in OwnTypes /\ ev.total = NoTotal
    BY DEF EventOf, Event, EventTypes, Phases, OwnTypes
  <2>2. Recording(NullId, ev)
    BY <1>2, <2>1 DEF RecordForwardingFailure, Recording, redis
  <2> HIDE DEF ev
  <2>3. QED
    BY <2>1, <2>2
<1>3. ASSUME NEW r \in Replicas, RecordMessage(r)
      PROVE  \E mid \in Nat, e \in Event : Recording(mid, e)
  <2>1. PICK m \in listener[r].batch :
          RecordImportEvent(m, stream[m]) /\ UNCHANGED <<redis, listenerOnly>>
    BY <1>3 DEF RecordMessage
  <2>2. m \in 1 .. delivered
    BY DEF TypeOK
  <2>3. m \in 1 .. Len(stream) /\ m \in Nat
    BY <2>2 DEF TypeOK
  <2>4. stream[m] \in Event
    BY <2>3 DEF TypeOK
  <2>5. Recording(m, stream[m])
    BY <2>1, <2>3 DEF Recording, redis, listenerOnly
  <2>6. QED
    BY <2>3, <2>4, <2>5
<1>4. ASSUME NEW j \in Jobs, Proxy(j), ~ RecordForwardingFailure(j)
      PROVE  UNCHANGED gcjobsDb
  BY <1>4 DEF Proxy, ProxySend, ProxyFails, ProxySucceeds, CheckIfRunning
<1>5. ASSUME NEW j \in Jobs, ConnectionBreaks(j) \/ ProxyTaskDies(j)
      PROVE  UNCHANGED gcjobsDb
  BY <1>5 DEF ConnectionBreaks, ProxyTaskDies
<1>6. ASSUME NEW j \in Jobs, Importer(j) \/ ImporterBreaks(j)
      PROVE  UNCHANGED gcjobsDb
  BY <1>6 DEF Importer, RejectRequest, StartImport, ParsingFails, StatsParsed,
       StatsCompleted, Parsed, BatchUpserted, BatchFails, BatchSucceeded,
       BatchFailed, ImportFailed, ImportSucceeded, ImporterBreaks, importerOnly
<1>7. ASSUME NEW r \in Replicas, Listener(r), ~ RecordMessage(r)
      PROVE  UNCHANGED gcjobsDb
  BY <1>7 DEF Listener, ClaimIdleEntries, NothingToClaim, ReadNewEntries,
       NothingToRead, AckMessage
<1>8. ASSUME NEW r \in Replicas, ListenerStops(r) \/ GoDown(r) \/ ComeUp(r)
      PROVE  UNCHANGED gcjobsDb
  BY <1>8 DEF ListenerStops, GoDown, ComeUp
<1>9. IdleTimePasses \/ UNCHANGED vars => UNCHANGED gcjobsDb
  BY DEF IdleTimePasses, vars, gcjobsDb
<1>10. QED
  BY <1>1, <1>2, <1>3, <1>4, <1>5, <1>6, <1>7, <1>8, <1>9 DEF Next

-----------------------------------------------------------------------------
(* The batch counters of a job.                                               *)

CountInv == IsFiniteSet(eventTable) /\ CountersMatchEvents

\* One transaction counts a batch exactly when it adds its event.
LEMMA RecordCounts ==
    ASSUME TypeOK, CountInv, NEW mid \in Nat, NEW e \in Event, Recording(mid, e)
    PROVE  CountInv'
<1> DEFINE t == [mid |-> mid, event |-> e]
<1>1. CASE UNCHANGED gcjobsDb
  BY <1>1 DEF CountInv, CountersMatchEvents, EventsOf, gcjobsDb
<1>2. CASE /\ ~ AlreadyRecorded(mid)
           /\ eventTable' = eventTable \cup {t}
           /\ run' = [run EXCEPT ![e.job] = UpdatedRow(@, e)]
  <2>1. IsFiniteSet(eventTable')
    BY <1>2, FS_AddElement DEF CountInv
  <2>2. mid = NullId => e.type \notin BatchTypes
    BY DEF Recording, OwnTypes, BatchTypes
  <2>3. mid # NullId => t \notin eventTable
    BY <1>2 DEF AlreadyRecorded, RecordedIds
  <2>4. ASSUME NEW j \in Jobs, NEW type \in BatchTypes
        PROVE  Cardinality(EventsOf(j, type)') =
                 Cardinality(EventsOf(j, type))
                   + (IF e.job = j THEN AddsBatch(e, type) ELSE 0)
    <3>1. IsFiniteSet(EventsOf(j, type))
      BY FS_Subset DEF CountInv, EventsOf
    <3>2. Cardinality(EventsOf(j, type)) \in Nat
      BY <3>1, FS_CardinalityType
    <3>3. CASE e.job = j /\ e.type = type
      <4>1. EventsOf(j, type)' = EventsOf(j, type) \cup {t}
        BY <1>2, <3>3 DEF EventsOf
      <4>2. t \notin EventsOf(j, type)
        BY <2>2, <2>3, <3>3 DEF EventsOf
      <4>3. Cardinality(EventsOf(j, type) \cup {t}) = Cardinality(EventsOf(j, type)) + 1
        BY <3>1, <4>2, FS_AddElement
      <4>4. QED
        BY <3>3, <4>1, <4>3 DEF AddsBatch
    <3>4. CASE ~ (e.job = j /\ e.type = type)
      <4>1. EventsOf(j, type)' = EventsOf(j, type)
        BY <1>2, <3>4 DEF EventsOf
      <4>2. QED
        BY <3>2, <3>4, <4>1 DEF AddsBatch
    <3>5. QED
      BY <3>3, <3>4
  <2>5. ASSUME NEW j \in Jobs
        PROVE  /\ run'[j].okBatches = run[j].okBatches
                    + (IF e.job = j THEN AddsBatch(e, "import.batch.succeeded") ELSE 0)
               /\ run'[j].badBatches = run[j].badBatches
                    + (IF e.job = j THEN AddsBatch(e, "import.batch.failed") ELSE 0)
    BY <1>2 DEF UpdatedRow, TypeOK, Row
  <2>6. ASSUME NEW j \in Jobs
        PROVE  /\ run'[j].okBatches =
                    Cardinality(EventsOf(j, "import.batch.succeeded")')
               /\ run'[j].badBatches =
                    Cardinality(EventsOf(j, "import.batch.failed")')
    BY <2>4, <2>5 DEF CountInv, CountersMatchEvents, BatchTypes
  <2>7. QED
    BY <2>1, <2>6 DEF CountInv, CountersMatchEvents
<1>3. QED
  BY <1>1, <1>2 DEF Recording, RecordImportEvent

\* The counters match and the event table stays finite, in every reachable state.
LEMMA CountInvHolds == Spec => []CountInv
<1>1. Init => CountInv
  <2> SUFFICES ASSUME Init PROVE CountInv
    OBVIOUS
  <2>1. \A j, type : EventsOf(j, type) = {}
    BY DEF Init, EventsOf
  <2>2. QED
    BY <2>1, FS_EmptySet DEF Init, CountInv, CountersMatchEvents, AbsentRow
<1>2. TypeOK /\ CountInv /\ [Next]_vars => CountInv'
  <2> SUFFICES ASSUME TypeOK, CountInv, [Next]_vars PROVE CountInv'
    OBVIOUS
  <2>1. CASE UNCHANGED gcjobsDb
    BY <2>1 DEF CountInv, CountersMatchEvents, EventsOf, gcjobsDb
  <2>2. CASE \E mid \in Nat, e \in Event : Recording(mid, e)
    BY <2>2, RecordCounts
  <2>3. QED
    BY <2>1, <2>2, DatabaseSteps
<1>3. QED
  BY <1>1, <1>2, TypeCorrect, PTL DEF Spec

\* However often messages are delivered again, and by whatever process, the
\* batch counters of a job are the numbers of its distinct batch events.
THEOREM CountersAreExact == Spec => []CountersMatchEvents
<1>1. CountInv => CountersMatchEvents
  BY DEF CountInv
<1>2. QED
  BY <1>1, CountInvHolds, PTL

-----------------------------------------------------------------------------
(* At-least-once delivery.                                                    *)

\* A listener about to acknowledge has recorded the message.
AckHolds ==
    \A r \in Replicas : listener[r].pc = "ack" =>
        \A m \in listener[r].batch : IsCurrent(r, m) => m \in RecordedIds

DeliveryInv == AckHolds /\ AckedWereRecorded

\* Nothing that was recorded is forgotten.
LEMMA RecordedGrow ==
    ASSUME TypeOK, [Next]_vars
    PROVE  RecordedIds \subseteq RecordedIds'
<1>1. eventTable \subseteq eventTable'
  BY DatabaseSteps DEF Recording, RecordImportEvent, gcjobsDb
<1>2. QED
  BY <1>1 DEF RecordedIds

\* Steps that change neither the listeners nor the group keep the invariant:
\* recording and trimming only help.
LEMMA DeliveryElsewhere ==
    ASSUME TypeOK, TypeOK', DeliveryInv, [Next]_vars,
           UNCHANGED <<listener, group>>, trimmed <= trimmed'
    PROVE  DeliveryInv'
<1>1. RecordedIds \subseteq RecordedIds'
  BY RecordedGrow
<1>2. AckHolds'
  BY <1>1 DEF DeliveryInv, AckHolds, IsCurrent
<1>3. AckedWereRecorded'
  <2>1. \A m \in 1 .. delivered : m <= trimmed => m <= trimmed'
    <3>1. trimmed \in Nat /\ trimmed' \in Nat /\ delivered \in Nat
      BY DEF TypeOK
    <3>2. QED
      BY <3>1
  <2>2. QED
    BY <1>1, <2>1 DEF DeliveryInv, AckedWereRecorded, group
<1>4. QED
  BY <1>2, <1>3 DEF DeliveryInv

\* A delivery hands out every entry that is still there, up to the new
\* last-delivered-id: none is skipped.
LEMMA NothingSkipped ==
    ASSUME TypeOK, NEW d \in NextUnread, NEW m \in 1 .. d,
           m > delivered, m > trimmed
    PROVE  m \in NextUnread
<1> DEFINE before(n) == {k \in Unread : k < n}
<1>1. Len(stream) \in Nat
  BY DEF TypeOK
<1>2. IsFiniteSet(1 .. Len(stream))
  BY <1>1, FS_Interval
<1>3. d \in 1 .. Len(stream) /\ Cardinality(before(d)) < ReadCount
  BY DEF NextUnread, Unread
<1>4. IsFiniteSet(before(d))
  BY <1>2, FS_Subset DEF Unread
<1>5. before(m) \subseteq before(d)
  BY <1>1, <1>3 DEF Unread
<1>6. /\ IsFiniteSet(before(m))
      /\ Cardinality(before(m)) <= Cardinality(before(d))
  BY <1>4, <1>5, FS_Subset
<1>7. Cardinality(before(m)) \in Nat /\ Cardinality(before(d)) \in Nat
  BY <1>4, <1>6, FS_CardinalityType
<1>8. Cardinality(before(m)) < ReadCount
  BY <1>3, <1>6, <1>7, LimitsAssumption
<1>9. m \in Unread
  BY <1>1, <1>3 DEF Unread
<1>10. QED
  BY <1>8, <1>9 DEF NextUnread

LEMMA DeliveryByListener ==
    ASSUME TypeOK, DeliveryInv, [Next]_vars, NEW r \in Replicas, Listener(r)
    PROVE  DeliveryInv'
<1>a. RecordedIds \subseteq RecordedIds'
  BY RecordedGrow
<1>b. ASSUME listener' = [listener EXCEPT ![r] = listener'[r]],
             listener'[r].pc = "ack" =>
               \A m \in listener'[r].batch : IsCurrent(r, m)' => m \in RecordedIds'
      PROVE  AckHolds'
  <2>1. \A s \in Replicas \ {r} : listener'[s] = listener[s]
    BY <1>b DEF TypeOK
  <2>2. QED
    BY <1>a, <1>b, <2>1 DEF DeliveryInv, AckHolds, IsCurrent
<1>c. ASSUME NEW from, NEW to, Step(r, from, to)
      PROVE  listener'[r] = to /\ listener' = [listener EXCEPT ![r] = listener'[r]]
  BY <1>c DEF Step, TypeOK
<1>d. ASSUME UNCHANGED <<trimmed, delivered>>, pending \ Vanished(r) \subseteq pending'
      PROVE  AckedWereRecorded'
  <2>1. \A m \in Vanished(r) : m <= trimmed
    BY DEF Vanished
  <2>2. QED
    BY <1>a, <1>d, <2>1 DEF DeliveryInv, AckedWereRecorded
<1>1. CASE ClaimIdleEntries(r)
  <2>1. PICK c \in NextCursors(Claimed(r)) :
          Step(r, "claim", [pc |-> "record", batch |-> Claimed(r), cursor |-> c])
    BY <1>1 DEF ClaimIdleEntries
  <2>2. listener'[r].pc # "ack"
    BY <1>c, <2>1
  <2>3. AckHolds'
    BY <1>b, <1>c, <2>1, <2>2
  <2>4. AckedWereRecorded'
    BY <1>1, <1>d DEF ClaimIdleEntries
  <2>5. QED
    BY <2>3, <2>4 DEF DeliveryInv
<1>2. CASE NothingToClaim(r)
  <2>1. Step(r, "claim", [pc |-> "read", batch |-> {}, cursor |-> 0])
    BY <1>2 DEF NothingToClaim
  <2>2. AckHolds'
    BY <1>b, <1>c, <2>1
  <2>3. AckedWereRecorded'
    BY <1>2, <1>d DEF NothingToClaim
  <2>4. QED
    BY <2>2, <2>3 DEF DeliveryInv
<1>3. CASE ReadNewEntries(r)
  <2>1. /\ Step(r, "read", [listener[r] EXCEPT !.pc = "record", !.batch = NextUnread])
        /\ delivered' \in NextUnread
        /\ pending' = pending \cup NextUnread
        /\ UNCHANGED trimmed
    BY <1>3 DEF ReadNewEntries
  <2>2. listener'[r].pc = "record"
    <3>1. [listener[r] EXCEPT !.pc = "record", !.batch = NextUnread].pc = "record"
      BY DEF TypeOK
    <3>2. QED
      BY <1>c, <2>1, <3>1
  <2>3. AckHolds'
    BY <1>b, <1>c, <2>1, <2>2
  <2>4. AckedWereRecorded'
    <3> SUFFICES ASSUME NEW m \in 1 .. delivered', ~ (m <= trimmed)
                 PROVE  m \in RecordedIds' \cup pending'
      BY <2>1 DEF AckedWereRecorded
    <3>1. CASE m <= delivered
      BY <1>a, <2>1, <3>1 DEF DeliveryInv, AckedWereRecorded, TypeOK
    <3>2. CASE m > delivered
      <4>1. m > trimmed
        BY DEF TypeOK
      <4>2. m \in NextUnread
        BY <2>1, <3>2, <4>1, NothingSkipped
      <4>3. QED
        BY <2>1, <4>2
    <3>3. QED
      BY <3>1, <3>2 DEF TypeOK
  <2>5. QED
    BY <2>3, <2>4 DEF DeliveryInv
<1>4. CASE NothingToRead(r)
  <2>1. Step(r, "read", [listener[r] EXCEPT !.pc = "claim"])
    BY <1>4 DEF NothingToRead
  <2>2. listener'[r].pc = "claim"
    BY <1>c, <2>1 DEF TypeOK
  <2>3. AckHolds'
    BY <1>b, <1>c, <2>1, <2>2
  <2>4. AckedWereRecorded'
    BY <1>4, <1>d DEF NothingToRead, redis
  <2>5. QED
    BY <2>3, <2>4 DEF DeliveryInv
<1>5. CASE RecordMessage(r)
  <2>1. PICK m \in listener[r].batch :
          /\ IsCurrent(r, m)
          /\ Step(r, "record", [listener[r] EXCEPT !.pc = "ack"])
          /\ RecordImportEvent(m, stream[m])
          /\ UNCHANGED <<redis, listenerOnly>>
    BY <1>5 DEF RecordMessage
  <2>2. m \in Nat \ {0}
    BY DEF TypeOK
  <2>3. m \in RecordedIds'
    <3>1. CASE AlreadyRecorded(m)
      BY <1>a, <3>1 DEF AlreadyRecorded
    <3>2. CASE [mid |-> m, event |-> stream[m]] \in eventTable'
      BY <2>2, <3>2 DEF RecordedIds
    <3>3. QED
      BY <2>1, <3>1, <3>2 DEF RecordImportEvent
  <2>4. listener'[r].batch = listener[r].batch
    BY <1>c, <2>1 DEF TypeOK
  <2>5. \A k \in listener'[r].batch : IsCurrent(r, k)' => k = m
    BY <2>1, <2>4 DEF IsCurrent, TypeOK
  <2>6. AckHolds'
    BY <1>b, <1>c, <2>1, <2>3, <2>5
  <2>7. AckedWereRecorded'
    BY <1>d, <2>1 DEF redis
  <2>8. QED
    BY <2>6, <2>7 DEF DeliveryInv
<1>6. CASE AckMessage(r)
  <2>1. PICK m \in listener[r].batch :
          /\ IsCurrent(r, m)
          /\ Step(r, "ack",
                  [listener[r] EXCEPT
                      !.pc = IF listener[r].batch = {m} THEN "claim" ELSE "record",
                      !.batch = @ \ {m}])
          /\ pending' = pending \ {m}
          /\ UNCHANGED <<gcjobsDb, trimmed, delivered>>
    BY <1>6 DEF AckMessage
  <2>2. m \in RecordedIds
    BY <2>1 DEF Step, DeliveryInv, AckHolds
  <2>3. listener'[r].pc # "ack"
    <3> DEFINE to == [listener[r] EXCEPT
                        !.pc = IF listener[r].batch = {m} THEN "claim" ELSE "record",
                        !.batch = @ \ {m}]
    <3>1. to.pc # "ack"
      BY DEF TypeOK
    <3>2. QED
      BY <1>c, <2>1, <3>1
  <2>4. AckHolds'
    BY <1>b, <1>c, <2>1, <2>3
  <2>5. AckedWereRecorded'
    BY <1>a, <2>1, <2>2 DEF DeliveryInv, AckedWereRecorded
  <2>6. QED
    BY <2>4, <2>5 DEF DeliveryInv
<1>7. QED
  BY <1>1, <1>2, <1>3, <1>4, <1>5, <1>6 DEF Listener

\* No message the group has handed out is lost: it is recorded, or pending for
\* the next claim, or the stream's cap has dropped it.
THEOREM NothingAckedIsLost == Spec => []AckedWereRecorded
<1>1. Init => DeliveryInv
  BY DEF Init, DeliveryInv, AckHolds, AckedWereRecorded, FreshListener
<1>2. TypeOK /\ TypeOK' /\ DeliveryInv /\ [Next]_vars => DeliveryInv'
  <2> SUFFICES ASSUME TypeOK, TypeOK', DeliveryInv, [Next]_vars PROVE DeliveryInv'
    OBVIOUS
  <2>a. trimmed \in Nat
    BY DEF TypeOK
  <2>1. ASSUME NEW j \in Jobs, NEW r \in Replicas,
               QueueImportRequest(r, j) \/ Proxy(j)
                 \/ ConnectionBreaks(j) \/ ProxyTaskDies(j)
        PROVE  UNCHANGED <<listener, group>> /\ trimmed <= trimmed'
    BY <2>a, <2>1
       DEF QueueImportRequest, Proxy, ProxySend, ProxyFails, ProxySucceeds,
           CheckIfRunning, RecordForwardingFailure, ConnectionBreaks,
           ProxyTaskDies, redis, group
  <2>2. ASSUME NEW e, Publish(e) PROVE UNCHANGED group /\ trimmed <= trimmed'
    BY <2>a, <2>2, LimitsAssumption DEF Publish, redis, group, TypeOK
  <2>3. ASSUME NEW j \in Jobs, Importer(j) \/ ImporterBreaks(j)
        PROVE  UNCHANGED <<listener, group>> /\ trimmed <= trimmed'
    BY <2>a, <2>2, <2>3
       DEF Importer, RejectRequest, StartImport, ParsingFails, StatsParsed,
           StatsCompleted, Parsed, BatchUpserted, BatchFails, BatchSucceeded,
           BatchFailed, ImportFailed, ImportSucceeded, ImporterBreaks,
           importerOnly, redis, group
  <2>4. ASSUME NEW r \in Replicas, ListenerStops(r) \/ GoDown(r) \/ ComeUp(r)
        PROVE  DeliveryInv'
    <3>1. UNCHANGED <<trimmed, delivered, pending, eventTable>>
      BY <2>4 DEF ListenerStops, GoDown, ComeUp, redis, gcjobsDb
    <3>2. /\ listener'[r].pc # "ack"
          /\ \A s \in Replicas \ {r} : listener'[s] = listener[s]
      BY <2>4 DEF ListenerStops, GoDown, ComeUp, DownListener, FreshListener, TypeOK
    <3>3. AckHolds'
      BY <3>1, <3>2 DEF DeliveryInv, AckHolds, IsCurrent, RecordedIds
    <3>4. AckedWereRecorded'
      BY <3>1 DEF DeliveryInv, AckedWereRecorded, RecordedIds
    <3>5. QED
      BY <3>3, <3>4 DEF DeliveryInv
  <2>5. CASE IdleTimePasses \/ UNCHANGED vars
    <3>1. UNCHANGED <<trimmed, delivered, pending, eventTable, listener>>
      BY <2>5 DEF IdleTimePasses, vars, gcjobsDb
    <3>2. QED
      BY <3>1 DEF DeliveryInv, AckHolds, AckedWereRecorded, IsCurrent, RecordedIds
  <2>6. QED
    <3>1. PICK s : s \in Replicas
      BY ReplicasAssumption
    <3>2. QED
      BY <2>1, <2>3, <2>4, <2>5, <3>1, DeliveryByListener, DeliveryElsewhere DEF Next
<1>3. DeliveryInv => AckedWereRecorded
  BY DEF DeliveryInv
<1>4. QED
  BY <1>1, <1>2, <1>3, TypeCorrect, PTL DEF Spec

-----------------------------------------------------------------------------
(* Counted batches are stored batches.                                        *)

Succeeded == "import.batch.succeeded"

\* The entries of the stream that announce a stored batch of job j.
Sent(j) == {m \in 1 .. Len(stream) : stream[m].job = j /\ stream[m].type = Succeeded}

\* A recorded batch event, and every event with a message id, is an entry of
\* the stream.
FromStream ==
    \A t \in eventTable : t.mid # NullId \/ t.event.type = Succeeded =>
        t.mid \in 1 .. Len(stream) /\ t.event = stream[t.mid]

\* The handler of a job has announced at most the batches before the current
\* one, and those are stored.
SentWereStored(j) ==
    /\ Cardinality(Sent(j)) <= importer[j].batch - 1
    /\ 1 .. importer[j].batch - 1 \subseteq stored[j]
    /\ importer[j].pc = "upserted" => importer[j].batch \in stored[j]

StoreInv == FromStream /\ \A j \in Jobs : SentWereStored(j)

LEMMA SentFinite ==
    ASSUME TypeOK, NEW j \in Jobs
    PROVE  IsFiniteSet(Sent(j)) /\ Cardinality(Sent(j)) \in Nat
<1>1. IsFiniteSet(1 .. Len(stream))
  BY FS_Interval DEF TypeOK
<1>2. IsFiniteSet(Sent(j))
  BY <1>1, FS_Subset DEF Sent
<1>3. QED
  BY <1>2, FS_CardinalityType

\* The counter of a job is the number of its recorded events; these are
\* distinct entries of the stream, each sent after its batch was stored.
LEMMA StoreInvSuffices ==
    ASSUME TypeOK, CountInv, StoreInv
    PROVE  SucceededWereStored
<1> SUFFICES ASSUME NEW j \in Jobs
             PROVE  run[j].okBatches <= Cardinality(stored[j])
  BY DEF SucceededWereStored
<1> DEFINE E == EventsOf(j, Succeeded)
           idOf == [t \in E |-> t.mid]
           b == importer[j].batch
<1>1. run[j].okBatches = Cardinality(E)
  BY DEF CountInv, CountersMatchEvents, Succeeded
<1>2. \A t \in E : t.mid \in Sent(j)
  BY DEF EventsOf, StoreInv, FromStream, Sent
<1>3. \A t, u \in E : t.mid = u.mid => t = u
  <2> SUFFICES ASSUME NEW t \in E, NEW u \in E, t.mid = u.mid PROVE t = u
    OBVIOUS
  <2>1. t.event = u.event
    BY DEF EventsOf, StoreInv, FromStream
  <2>2. t \in [mid : Nat, event : Event] /\ u \in [mid : Nat, event : Event]
    BY DEF TypeOK, EventsOf
  <2>3. QED
    BY <2>1, <2>2
<1>4. idOf \in Injection(E, Sent(j))
  BY <1>2, <1>3 DEF Injection, IsInjective
<1>5. Cardinality(E) <= Cardinality(Sent(j))
  BY <1>4, SentFinite, FS_Injection
<1>6. b \in Nat \ {0}
  BY DEF TypeOK, Handler
<1>7. Cardinality(1 .. b - 1) = b - 1
  <2>1. ASSUME NEW n \in Nat PROVE Cardinality(1 .. n) = n
    BY <2>1, FS_Interval
  <2>2. b - 1 \in Nat
    BY <1>6
  <2>3. QED
    BY <2>1, <2>2
<1>8. IsFiniteSet(stored[j])
  <2>1. IsFiniteSet(Batches)
    BY FS_Interval, BatchSizesAssumption DEF Batches
  <2>2. QED
    BY <2>1, FS_Subset DEF TypeOK
<1>9. Cardinality(1 .. b - 1) <= Cardinality(stored[j]) /\ Cardinality(stored[j]) \in Nat
  BY <1>8, FS_Subset, FS_CardinalityType DEF StoreInv, SentWereStored
<1>10. Cardinality(E) \in Nat
  BY FS_Subset, FS_CardinalityType DEF CountInv, EventsOf
<1>11. QED
  BY <1>1, <1>5, <1>6, <1>7, <1>9, <1>10, SentFinite DEF StoreInv, SentWereStored

\* Publishing adds at most the entry of one event, and changes no other.
LEMMA PublishSent ==
    ASSUME TypeOK, NEW e \in Event, Publish(e), NEW j \in Jobs
    PROVE  /\ ~ (e.job = j /\ e.type = Succeeded) => Sent(j)' = Sent(j)
           /\ Cardinality(Sent(j)') <= Cardinality(Sent(j)) + 1
           /\ Len(stream) <= Len(stream')
           /\ \A m \in 1 .. Len(stream) : stream'[m] = stream[m]
<1>1. Len(stream) \in Nat
  BY DEF TypeOK
<1>2. CASE stream' = stream
  <2>1. Sent(j)' = Sent(j)
    BY <1>2 DEF Sent
  <2>2. Cardinality(Sent(j)) <= Cardinality(Sent(j)) + 1
    BY SentFinite
  <2>3. QED
    BY <1>1, <1>2, <2>1, <2>2
<1>3. CASE stream' = Append(stream, e)
  <2> DEFINE n == Len(stream) + 1
  <2>1. /\ Len(stream') = n
        /\ stream'[n] = e
        /\ \A m \in 1 .. Len(stream) : stream'[m] = stream[m]
    BY <1>3 DEF TypeOK
  <2>2. CASE e.job = j /\ e.type = Succeeded
    <3>1. Sent(j)' = Sent(j) \cup {n}
      BY <1>1, <2>1, <2>2 DEF Sent
    <3>2. n \notin Sent(j)
      BY <1>1 DEF Sent
    <3>3. Cardinality(Sent(j)') = Cardinality(Sent(j)) + 1
      BY <3>1, <3>2, SentFinite, FS_AddElement
    <3>4. Cardinality(Sent(j)') <= Cardinality(Sent(j)) + 1
      BY <3>3, SentFinite
    <3>5. QED
      BY <1>1, <2>1, <2>2, <3>4
  <2>3. CASE ~ (e.job = j /\ e.type = Succeeded)
    <3>1. Sent(j)' = Sent(j)
      BY <1>1, <2>1, <2>3 DEF Sent
    <3>2. QED
      BY <1>1, <2>1, <2>3, <3>1, SentFinite
  <2>4. QED
    BY <2>2, <2>3
<1>4. QED
  BY <1>2, <1>3 DEF Publish, redis

\* Entries of the stream never change, and rows of the event table are not
\* taken out of it.
LEMMA FromStreamKept ==
    ASSUME TypeOK, [Next]_vars, FromStream,
           Len(stream) <= Len(stream'), Len(stream') \in Nat,
           \A m \in 1 .. Len(stream) : stream'[m] = stream[m]
    PROVE  FromStream'
<1>1. Len(stream) \in Nat
  BY DEF TypeOK
<1>2. CASE UNCHANGED gcjobsDb
  BY <1>1, <1>2 DEF FromStream, gcjobsDb
<1>3. ASSUME NEW mid \in Nat, NEW e \in Event, Recording(mid, e)
      PROVE  FromStream'
  BY <1>1, <1>3 DEF Recording, RecordImportEvent, FromStream, gcjobsDb, OwnTypes,
     Succeeded
<1>4. QED
  BY <1>2, <1>3, DatabaseSteps

\* A step that leaves the stream alone, stores no less and moves no handler past
\* its batch keeps what is known of a job.
LEMMA SentKept ==
    ASSUME TypeOK, NEW j \in Jobs, SentWereStored(j), Sent(j)' = Sent(j),
           importer'[j].batch = importer[j].batch,
           stored[j] \subseteq stored'[j],
           importer'[j].pc = "upserted" =>
             importer[j].pc = "upserted" \/ importer[j].batch \in stored'[j]
    PROVE  SentWereStored(j)'
  BY DEF SentWereStored

\* The steps of the handler of job i keep what is known of job j.
LEMMA SentByImporter ==
    ASSUME TypeOK, StoreInv, NEW i \in Jobs, NEW j \in Jobs,
           Importer(i) \/ ImporterBreaks(i)
    PROVE  SentWereStored(j)'
<1>a. SentWereStored(j)
  BY DEF StoreInv
<1>b. ASSUME NEW from, NEW to, Importing(i, from, to)
      PROVE  /\ importer'[j].batch = importer[j].batch
             /\ importer'[j].pc = "upserted" =>
                  importer[j].pc = "upserted" \/ (i = j /\ to = "upserted")
  BY <1>b DEF Importing, TypeOK, Handler
<1>c. ASSUME NEW from, NEW to, Importing(i, from, to), to # "upserted",
             NEW e \in Event, Publish(e), e.type # Succeeded, UNCHANGED stored
      PROVE  SentWereStored(j)'
  <2>1. Sent(j)' = Sent(j)
    BY <1>c, PublishSent
  <2>2. QED
    BY <1>a, <1>b, <1>c, <2>1, SentKept
<1>d. TotalFeatures \in Nat
  BY BatchSizesAssumption
<1>e. ASSUME UNCHANGED stream PROVE Sent(j)' = Sent(j)
  BY <1>e DEF Sent
<1>f. ASSUME NEW type \in EventTypes, NEW phase \in Phases, type # Succeeded
      PROVE  LET plain == EventOf(i, type, phase)
                 total == [plain EXCEPT !.total = TotalFeatures]
             IN  /\ plain \in Event /\ plain.type # Succeeded
                 /\ total \in Event /\ total.type # Succeeded
  BY <1>d, <1>f DEF EventOf, Event
<1> USE DEF EventTypes, Phases, Succeeded
<1>1. CASE RejectRequest(i)
  BY <1>1, <1>a, <1>b, <1>e, SentKept DEF RejectRequest, redis
<1>2. CASE StartImport(i)
  BY <1>2, <1>c, <1>f DEF StartImport
<1>3. CASE ParsingFails(i)
  BY <1>3, <1>c, <1>f DEF ParsingFails
<1>4. CASE StatsParsed(i)
  BY <1>4, <1>c, <1>f DEF StatsParsed
<1>5. CASE StatsCompleted(i)
  BY <1>5, <1>c, <1>f DEF StatsCompleted
<1>6. CASE Parsed(i)
  BY <1>6, <1>c, <1>f DEF Parsed
<1>7. CASE BatchUpserted(i)
  <2>1. /\ Importing(i, "importing", "upserted")
        /\ stored' = [stored EXCEPT ![i] = @ \cup {importer[i].batch}]
        /\ UNCHANGED stream
    BY <1>7 DEF BatchUpserted, redis
  <2>2. stored[j] \subseteq stored'[j] /\ (i = j => importer[j].batch \in stored'[j])
    BY <2>1 DEF TypeOK
  <2>3. QED
    BY <1>a, <1>b, <1>e, <2>1, <2>2, SentKept
<1>8. CASE BatchFails(i)
  <2>1. /\ Importing(i, "importing", "rejected")
        /\ UNCHANGED stream
    BY <1>8 DEF BatchFails, redis
  <2>2. stored[j] \subseteq stored'[j]
    BY <1>8 DEF BatchFails, TypeOK
  <2>3. QED
    BY <1>a, <1>b, <1>e, <2>1, <2>2, SentKept
<1>9. CASE BatchSucceeded(i)
  <2> DEFINE e == BatchEvent(i, "import.batch.succeeded")
             b == importer[i].batch
  <2>1. /\ importer[i].pc = "upserted"
        /\ Publish(e)
        /\ importer' = [importer EXCEPT ![i] = [pc |-> "importing", batch |-> @.batch + 1]]
        /\ UNCHANGED stored
    BY <1>9 DEF BatchSucceeded
  <2>2. b \in Nat \ {0} /\ b \in Batches
    BY <2>1 DEF TypeOK, Handler
  <2>3. BatchSizes[b] \in Nat
    BY <2>2, BatchSizesAssumption DEF Batches
  <2>4. e \in Event /\ e.job = i
    BY <1>d, <2>3 DEF BatchEvent, EventOf, Event
  <2>5. CASE i = j
    <3>1. importer'[j].batch = b + 1 /\ importer'[j].pc = "importing"
      BY <2>1, <2>5 DEF TypeOK
    <3>2. Cardinality(Sent(j)') <= Cardinality(Sent(j)) + 1
      BY <2>1, <2>4, PublishSent
    <3>3. Cardinality(Sent(j)) \in Nat /\ Cardinality(Sent(j)) <= b - 1
      BY <1>a, <2>5, SentFinite DEF SentWereStored
    <3>4. Cardinality(Sent(j)') \in Nat
      <4>1. IsFiniteSet(1 .. Len(stream'))
        BY <2>1, <2>4, PublishType, FS_Interval
      <4>2. IsFiniteSet(Sent(j)')
        BY <4>1, FS_Subset DEF Sent
      <4>3. QED
        BY <4>2, FS_CardinalityType
    <3>5. 1 .. b \subseteq stored[j]
      <4>1. 1 .. b - 1 \subseteq stored[j] /\ b \in stored[j]
        BY <1>a, <2>1, <2>5 DEF SentWereStored
      <4>2. 1 .. b \subseteq (1 .. b - 1) \cup {b}
        BY <2>2
      <4>3. QED
        BY <4>1, <4>2
    <3>6. Cardinality(Sent(j)') <= (b + 1) - 1 /\ (b + 1) - 1 = b
      BY <2>2, <3>2, <3>3, <3>4
    <3>7. QED
      BY <2>1, <3>1, <3>5, <3>6 DEF SentWereStored
  <2>6. CASE i # j
    <3>1. Sent(j)' = Sent(j)
      BY <2>1, <2>4, <2>6, PublishSent
    <3>2. importer'[j] = importer[j]
      BY <2>1, <2>6 DEF TypeOK
    <3>3. QED
      BY <1>a, <2>1, <3>1, <3>2, SentKept
  <2>7. QED
    BY <2>5, <2>6
<1>10. CASE BatchFailed(i)
  <2>1. importer[i].batch \in Batches
    BY <1>10 DEF BatchFailed, Importing, TypeOK, Handler
  <2>2. BatchSizes[importer[i].batch] \in Nat
    BY <2>1, BatchSizesAssumption DEF Batches
  <2>3. /\ BatchEvent(i, "import.batch.failed") \in Event
        /\ BatchEvent(i, "import.batch.failed").type # Succeeded
    BY <1>d, <2>2 DEF BatchEvent, EventOf, Event
  <2>4. QED
    BY <1>10, <1>c, <2>3 DEF BatchFailed
<1>11. CASE ImportFailed(i)
  BY <1>11, <1>c, <1>f DEF ImportFailed
<1>12. CASE ImportSucceeded(i)
  BY <1>12, <1>c, <1>f DEF ImportSucceeded
<1>13. CASE ImporterBreaks(i)
  <2>1. importer' = [importer EXCEPT ![i].pc = "error"] /\ UNCHANGED <<stream, stored>>
    BY <1>13 DEF ImporterBreaks, redis
  <2>2. /\ importer'[j].batch = importer[j].batch
        /\ importer'[j].pc = "upserted" => importer[j].pc = "upserted"
    BY <2>1 DEF TypeOK, Handler
  <2>3. QED
    BY <1>a, <1>e, <2>1, <2>2, SentKept
<1>14. QED
  BY <1>1, <1>2, <1>3, <1>4, <1>5, <1>6, <1>7, <1>8, <1>9, <1>10, <1>11, <1>12,
     <1>13 DEF Importer

\* Every other step leaves the stream and the stored batches alone, and moves
\* no handler past the point where it receives a request.
LEMMA SentElsewhere ==
    ASSUME TypeOK, StoreInv, NEW j \in Jobs, UNCHANGED <<stream, stored>>,
           \/ UNCHANGED importer
           \/ \E i \in Jobs : importer' = [importer EXCEPT ![i].pc = "received"]
    PROVE  SentWereStored(j)'
<1>1. /\ importer'[j].batch = importer[j].batch
      /\ importer'[j].pc = "upserted" => importer[j].pc = "upserted"
  <2>1. CASE UNCHANGED importer
    BY <2>1
  <2>2. ASSUME NEW i \in Jobs, importer' = [importer EXCEPT ![i].pc = "received"]
        PROVE  /\ importer'[j].batch = importer[j].batch
               /\ importer'[j].pc = "upserted" => importer[j].pc = "upserted"
    BY <2>2 DEF TypeOK, Handler
  <2>3. QED
    BY <2>1, <2>2
<1>2. Sent(j)' = Sent(j)
  BY DEF Sent
<1>3. QED
  BY <1>1, <1>2, SentKept DEF StoreInv

\* Every announced batch is stored, in every reachable state.
LEMMA StoreInvHolds == Spec => []StoreInv
<1>1. Init => StoreInv
  <2> SUFFICES ASSUME Init PROVE StoreInv
    OBVIOUS
  <2>1. FromStream
    BY DEF Init, FromStream
  <2>2. ASSUME NEW j \in Jobs PROVE SentWereStored(j)
    <3>1. Sent(j) = {}
      BY DEF Init, Sent
    <3>2. importer[j] = [pc |-> "none", batch |-> 1]
      BY DEF Init
    <3>3. QED
      BY <3>1, <3>2, FS_EmptySet DEF SentWereStored
  <2>3. QED
    BY <2>1, <2>2 DEF StoreInv
<1>2. TypeOK /\ TypeOK' /\ StoreInv /\ [Next]_vars => StoreInv'
  <2> SUFFICES ASSUME TypeOK, TypeOK', StoreInv, [Next]_vars PROVE StoreInv'
    OBVIOUS
  <2>a. Len(stream) \in Nat /\ Len(stream') \in Nat
    BY DEF TypeOK
  <2>b. ASSUME UNCHANGED <<stream, stored>>,
               \/ UNCHANGED importer
               \/ \E i \in Jobs : importer' = [importer EXCEPT ![i].pc = "received"]
        PROVE  StoreInv'
    BY <2>a, <2>b, SentElsewhere, FromStreamKept DEF StoreInv
  <2>1. ASSUME NEW i \in Jobs, Importer(i) \/ ImporterBreaks(i) PROVE StoreInv'
    <3>1. Len(stream) <= Len(stream') /\ \A m \in 1 .. Len(stream) : stream'[m] = stream[m]
      <4>1. \/ UNCHANGED stream
            \/ \E e : stream' = Append(stream, e)
        BY <2>1 DEF Importer, RejectRequest, StartImport, ParsingFails, StatsParsed,
             StatsCompleted, Parsed, BatchUpserted, BatchFails, BatchSucceeded,
             BatchFailed, ImportFailed, ImportSucceeded, ImporterBreaks, Publish, redis
      <4>2. QED
        BY <2>a, <4>1 DEF TypeOK
    <3>2. FromStream'
      BY <2>a, <3>1, FromStreamKept DEF StoreInv
    <3>3. QED
      BY <2>1, <3>2, SentByImporter DEF StoreInv
  <2>2. ASSUME NEW j \in Jobs, NEW r \in Replicas,
               QueueImportRequest(r, j) \/ Proxy(j)
                 \/ ConnectionBreaks(j) \/ ProxyTaskDies(j)
        PROVE  StoreInv'
    BY <2>b, <2>2
       DEF QueueImportRequest, Proxy, ProxySend, ProxyFails, ProxySucceeds,
           CheckIfRunning, RecordForwardingFailure, ConnectionBreaks,
           ProxyTaskDies, redis
  <2>3. ASSUME NEW r \in Replicas,
               Listener(r) \/ ListenerStops(r) \/ GoDown(r) \/ ComeUp(r)
        PROVE  StoreInv'
    BY <2>b, <2>3
       DEF Listener, ClaimIdleEntries, NothingToClaim, ReadNewEntries,
           NothingToRead, RecordMessage, AckMessage, ListenerStops, GoDown,
           ComeUp, redis, listenerOnly
  <2>4. CASE IdleTimePasses \/ UNCHANGED vars
    BY <2>b, <2>4 DEF IdleTimePasses, vars
  <2>5. QED
    <3>1. PICK s : s \in Replicas
      BY ReplicasAssumption
    <3>2. QED
      BY <2>1, <2>2, <2>3, <2>4, <3>1 DEF Next
<1>3. QED
  BY <1>1, <1>2, TypeCorrect, PTL DEF Spec

\* What gcjobs reports as succeeded is stored: no redelivery, reordering, loss or
\* crash makes a job count more succeeded batches than geocomponents holds of it.
THEOREM SucceededAreStored == Spec => []SucceededWereStored
<1>1. TypeOK /\ CountInv /\ StoreInv => SucceededWereStored
  BY StoreInvSuffices
<1>2. QED
  BY <1>1, StoreInvHolds, CountInvHolds, TypeCorrect, PTL

-----------------------------------------------------------------------------
(* A successful job is a whole one.                                           *)

Finished == "import.completed.succeeded"

\* The handler of a job starts once, when the request reaches it, has stored
\* nothing before its first batch and ends well only with all of them or none;
\* success is announced, and recorded, only after that.
EndsWhole(j) ==
    /\ proxy[j].pc \in {"none", "queued"} => importer[j].pc = "none"
    /\ importer[j].pc \in {"none", "received", "parsing", "stats"} => stored[j] = {}
    /\ importer[j].pc = "ok" => stored[j] \in {Batches, {}}
    /\ run[j].status = "completed" => importer[j].pc = "ok"
    /\ \A m \in 1 .. Len(stream) :
         stream[m].job = j /\ stream[m].type = Finished => importer[j].pc = "ok"

WholeInv == \A j \in Jobs : EndsWhole(j)

\* The status of a row is "completed" after an event only if that event says so.
LEMMA StatusOf ==
    ASSUME NEW row \in Row, NEW e \in Event, UpdatedRow(row, e).status = "completed"
    PROVE  e.type = Finished
<1>1. CASE e.type = "import.completed.succeeded"
  BY <1>1 DEF Finished
<1>2. CASE e.type \in {"import.completed.failed", "import.batch.failed"}
  <2>1. UpdatedRow(row, e).status = "failed"
    BY <1>2, Zenon DEF UpdatedRow, StatusFor
  <2>2. QED
    BY <2>1
<1>3. CASE e.type \notin {"import.completed.succeeded", "import.completed.failed",
                          "import.batch.failed"}
  <2>1. UpdatedRow(row, e).status = "running"
    BY <1>3, Zenon DEF UpdatedRow, StatusFor
  <2>2. QED
    BY <2>1
<1>4. QED
  BY <1>1, <1>2, <1>3

\* After publishing, an entry is an old one or the new event.
LEMMA PublishedEntries ==
    ASSUME TypeOK, NEW e \in Event, Publish(e), NEW m \in 1 .. Len(stream')
    PROVE  \/ m \in 1 .. Len(stream) /\ stream'[m] = stream[m]
           \/ stream'[m] = e
<1>1. Len(stream) \in Nat
  BY DEF TypeOK
<1>2. CASE stream' = stream
  BY <1>2
<1>3. CASE stream' = Append(stream, e)
  <2>1. /\ Len(stream') = Len(stream) + 1
        /\ stream'[Len(stream) + 1] = e
        /\ \A k \in 1 .. Len(stream) : stream'[k] = stream[k]
    BY <1>3 DEF TypeOK
  <2>2. m = Len(stream) + 1 \/ m \in 1 .. Len(stream)
    BY <1>1, <2>1
  <2>3. QED
    BY <2>1, <2>2
<1>4. QED
  BY <1>2, <1>3 DEF Publish, redis

\* The steps of the handler of job i keep what is known of job j.
LEMMA WholeByImporter ==
    ASSUME TypeOK, StoreInv, WholeInv, NEW i \in Jobs, NEW j \in Jobs,
           Importer(i) \/ ImporterBreaks(i)
    PROVE  EndsWhole(j)'
<1>a. EndsWhole(i) /\ EndsWhole(j)
  BY DEF WholeInv
<1>b. ASSUME NEW from, NEW to, Importing(i, from, to)
      PROVE  /\ importer[i].pc = from /\ importer'[i].pc = to
             /\ i # j => importer'[j] = importer[j]
  BY <1>b DEF Importing, TypeOK, Handler
<1>c. ASSUME UNCHANGED <<run, proxy>>,
             importer[i].pc \notin {"none", "ok"},
             i # j => importer'[j] = importer[j] /\ stored'[j] = stored[j],
             importer'[i].pc \in {"none", "received", "parsing", "stats"} =>
               stored'[i] = {},
             importer'[i].pc = "ok" => stored'[i] \in {Batches, {}},
             \A m \in 1 .. Len(stream') :
               \/ m \in 1 .. Len(stream) /\ stream'[m] = stream[m]
               \/ /\ stream'[m].job = i
                  /\ stream'[m].type = Finished => importer'[i].pc = "ok"
      PROVE  EndsWhole(j)'
  <2>1. CASE i = j
    BY <1>a, <1>c, <2>1 DEF EndsWhole
  <2>2. CASE i # j
    BY <1>a, <1>c, <2>2 DEF EndsWhole
  <2>3. QED
    BY <2>1, <2>2
\* A handler that only moves on and publishes ...
<1>d. ASSUME NEW from, NEW to, Importing(i, from, to), from \notin {"none", "ok"},
             to \notin {"none", "received", "parsing", "stats"} \/ stored[i] = {},
             to = "ok" => stored[i] \in {Batches, {}},
             NEW e \in Event, Publish(e), e.job = i, e.type = Finished => to = "ok",
             UNCHANGED <<run, proxy, stored>>
      PROVE  EndsWhole(j)'
  <2>1. \A m \in 1 .. Len(stream') :
          \/ m \in 1 .. Len(stream) /\ stream'[m] = stream[m]
          \/ stream'[m] = e
    BY <1>d, PublishedEntries
  <2>2. importer[i].pc = from /\ importer'[i].pc = to
    BY <1>b, <1>d
  <2>3. i # j => importer'[j] = importer[j]
    BY <1>b, <1>d
  <2>4. QED
    BY <1>c, <1>d, <2>1, <2>2, <2>3
\* ... or only moves on and perhaps stores.
<1>e. ASSUME importer[i].pc \notin {"none", "ok"},
             importer'[i].pc \in {"upserted", "rejected", "error"},
             i # j => importer'[j] = importer[j] /\ stored'[j] = stored[j],
             UNCHANGED <<run, proxy, stream>>
      PROVE  EndsWhole(j)'
  BY <1>c, <1>e
<1>f. TotalFeatures \in Nat
  BY BatchSizesAssumption
<1>g. ASSUME NEW type \in EventTypes, NEW phase \in Phases
      PROVE  LET plain == EventOf(i, type, phase)
                 total == [plain EXCEPT !.total = TotalFeatures]
             IN  /\ plain \in Event /\ plain.job = i /\ plain.type = type
                 /\ total \in Event /\ total.job = i /\ total.type = type
  BY <1>f DEF EventOf, Event
<1>h. ASSUME NEW type \in EventTypes, importer[i].batch \in Batches
      PROVE  /\ BatchEvent(i, type) \in Event
             /\ BatchEvent(i, type).job = i /\ BatchEvent(i, type).type = type
  <2>1. BatchSizes[importer[i].batch] \in Nat
    BY <1>h, BatchSizesAssumption DEF Batches
  <2>2. "importing" \in Phases
    BY DEF Phases
  <2>3. QED
    BY <1>f, <1>h, <2>1, <2>2 DEF BatchEvent, EventOf, Event
<1> USE DEF EventTypes, Phases, Finished, importerOnly, gcjobsDb
<1>1. CASE RejectRequest(i)
  BY <1>1, <1>b, <1>e DEF RejectRequest, redis
<1>2. CASE StartImport(i)
  <2>1. stored[i] = {}
    BY <1>2, <1>a DEF StartImport, Importing, EndsWhole
  <2>2. QED
    BY <1>2, <1>d, <1>g, <2>1 DEF StartImport
<1>3. CASE ParsingFails(i)
  BY <1>3, <1>d, <1>g DEF ParsingFails
<1>4. CASE StatsParsed(i)
  <2>1. stored[i] = {}
    BY <1>4, <1>a DEF StatsParsed, Importing, EndsWhole
  <2>2. QED
    BY <1>4, <1>d, <1>g, <2>1 DEF StatsParsed
<1>5. CASE StatsCompleted(i)
  <2>1. stored[i] = {}
    BY <1>5, <1>a DEF StatsCompleted, Importing, EndsWhole
  <2>2. QED
    BY <1>5, <1>d, <1>g, <2>1 DEF StatsCompleted
<1>6. CASE Parsed(i)
  BY <1>6, <1>d, <1>g DEF Parsed
<1>7. CASE BatchUpserted(i)
  <2>1. i # j => stored'[j] = stored[j]
    BY <1>7 DEF BatchUpserted, TypeOK
  <2>2. QED
    BY <1>7, <1>b, <1>e, <2>1 DEF BatchUpserted, redis
<1>8. CASE BatchFails(i)
  <2>1. i # j => stored'[j] = stored[j]
    BY <1>8 DEF BatchFails, TypeOK
  <2>2. QED
    BY <1>8, <1>b, <1>e, <2>1 DEF BatchFails, redis
<1>9. CASE BatchSucceeded(i)
  <2> DEFINE e == BatchEvent(i, "import.batch.succeeded")
  <2>1. importer[i].batch \in Batches
    BY <1>9 DEF BatchSucceeded, TypeOK, Handler
  <2>2. e \in Event /\ e.job = i /\ e.type = "import.batch.succeeded"
    BY <1>h, <2>1
  <2>3. Publish(e)
    BY <1>9 DEF BatchSucceeded
  <2> HIDE DEF e
  <2>4. \A m \in 1 .. Len(stream') :
          \/ m \in 1 .. Len(stream) /\ stream'[m] = stream[m]
          \/ stream'[m] = e
    BY <2>2, <2>3, PublishedEntries
  <2>5. /\ importer[i].pc = "upserted" /\ importer'[i].pc = "importing"
        /\ i # j => importer'[j] = importer[j]
    BY <1>9 DEF BatchSucceeded, TypeOK
  <2>6. UNCHANGED <<run, proxy, stored>>
    BY <1>9 DEF BatchSucceeded
  <2>7. QED
    BY <1>c, <2>2, <2>4, <2>5, <2>6
<1>10. CASE BatchFailed(i)
  <2>1. importer[i].batch \in Batches
    BY <1>10 DEF BatchFailed, Importing, TypeOK, Handler
  <2>2. QED
    BY <1>10, <1>d, <1>h, <2>1 DEF BatchFailed
<1>11. CASE ImportFailed(i)
  BY <1>11, <1>d, <1>g DEF ImportFailed
<1>12. CASE ImportSucceeded(i)
  <2>1. stored[i] = Batches
    <3>1. 1 .. importer[i].batch - 1 \subseteq stored[i] /\ stored[i] \subseteq Batches
      BY DEF StoreInv, SentWereStored, TypeOK
    <3>2. importer[i].batch \in Nat \ {0} /\ importer[i].batch \notin Batches
      BY <1>12 DEF ImportSucceeded, TypeOK, Handler
    <3>3. Len(BatchSizes) \in Nat
      BY BatchSizesAssumption
    <3>4. Batches \subseteq 1 .. importer[i].batch - 1
      BY <3>2, <3>3 DEF Batches
    <3>5. QED
      BY <3>1, <3>4
  <2>2. QED
    BY <1>12, <1>d, <1>g, <2>1 DEF ImportSucceeded
<1>13. CASE ImporterBreaks(i)
  <2>1. /\ importer[i].pc \notin {"none", "ok"} /\ importer'[i].pc = "error"
        /\ i # j => importer'[j] = importer[j]
    BY <1>13 DEF ImporterBreaks, Active, TypeOK, Handler
  <2>2. QED
    BY <1>13, <1>e, <2>1 DEF ImporterBreaks, redis
<1>14. QED
  BY <1>1, <1>2, <1>3, <1>4, <1>5, <1>6, <1>7, <1>8, <1>9, <1>10, <1>11, <1>12,
     <1>13 DEF Importer

\* The steps of gcjobs neither publish nor store; the request reaches a handler
\* that has not started, and what is recorded is an event the job has sent.
LEMMA WholeElsewhere ==
    ASSUME TypeOK, WholeInv, [Next]_vars, NEW j \in Jobs, UNCHANGED <<stream, stored>>,
           \/ /\ UNCHANGED importer
              /\ proxy'[j].pc \in {"none", "queued"} => proxy[j].pc \in {"none", "queued"}
           \/ \E i \in Jobs :
                /\ proxy[i].pc = "queued"
                /\ proxy' = [proxy EXCEPT ![i].pc = "sent"]
                /\ importer' = [importer EXCEPT ![i].pc = "received"]
    PROVE  EndsWhole(j)'
<1>a. EndsWhole(j)
  BY DEF WholeInv
<1>1. \/ importer'[j].pc = importer[j].pc
         /\ (proxy'[j].pc \in {"none", "queued"} => proxy[j].pc \in {"none", "queued"})
      \/ /\ proxy[j].pc = "queued" /\ proxy'[j].pc = "sent"
         /\ importer'[j].pc = "received"
  BY DEF TypeOK, Handler
<1>2. importer[j].pc = "ok" => importer'[j].pc = "ok"
  BY <1>a, <1>1 DEF EndsWhole
<1>3. run'[j].status = "completed" => importer[j].pc = "ok"
  <2>1. CASE UNCHANGED gcjobsDb
    BY <1>a, <2>1 DEF EndsWhole, gcjobsDb
  <2>2. ASSUME NEW mid \in Nat, NEW e \in Event, Recording(mid, e),
               run'[j].status = "completed", run'[j] # run[j]
        PROVE  importer[j].pc = "ok"
    <3>1. e.job = j /\ run'[j] = UpdatedRow(run[j], e)
      BY <2>2 DEF Recording, RecordImportEvent, gcjobsDb, TypeOK
    <3>2. e.type = Finished
      BY <2>2, <3>1, StatusOf DEF TypeOK
    <3>3. mid \in 1 .. Len(stream) /\ e = stream[mid]
      BY <2>2, <3>2 DEF Recording, OwnTypes, Finished
    <3>4. QED
      BY <1>a, <3>1, <3>2, <3>3 DEF EndsWhole
  <2>3. QED
    BY <1>a, <2>1, <2>2, DatabaseSteps DEF EndsWhole
<1>4. QED
  BY <1>a, <1>1, <1>2, <1>3 DEF EndsWhole

\* Every job keeps to this, in every reachable state.
LEMMA WholeInvHolds == Spec => []WholeInv
<1>1. Init => WholeInv
  <2> SUFFICES ASSUME Init, NEW j \in Jobs PROVE EndsWhole(j)
    BY DEF WholeInv
  <2>1. 1 .. Len(stream) = {}
    BY DEF Init
  <2>2. importer[j].pc = "none" /\ stored[j] = {} /\ run[j].status = "absent"
    BY DEF Init, AbsentRow
  <2>3. QED
    BY <2>1, <2>2 DEF EndsWhole
<1>2. TypeOK /\ StoreInv /\ WholeInv /\ [Next]_vars => WholeInv'
  <2> SUFFICES ASSUME TypeOK, StoreInv, WholeInv, [Next]_vars, NEW j \in Jobs
               PROVE  EndsWhole(j)'
    BY DEF WholeInv
  <2>a. ASSUME UNCHANGED <<stream, stored, importer, proxy>> PROVE EndsWhole(j)'
    BY <2>a, WholeElsewhere
  <2>1. ASSUME NEW i \in Jobs, Importer(i) \/ ImporterBreaks(i) PROVE EndsWhole(j)'
    BY <2>1, WholeByImporter
  <2>2. ASSUME NEW i \in Jobs, ProxySend(i) PROVE EndsWhole(j)'
    BY <2>2, WholeElsewhere DEF ProxySend, redis
  <2>3. ASSUME NEW i \in Jobs, NEW r \in Replicas,
               \/ QueueImportRequest(r, i) \/ ProxyFails(i) \/ ProxySucceeds(i)
               \/ CheckIfRunning(i) \/ RecordForwardingFailure(i)
               \/ ConnectionBreaks(i) \/ ProxyTaskDies(i) \/ GoDown(r)
        PROVE  EndsWhole(j)'
    <3>1. UNCHANGED <<stream, stored, importer>>
      BY <2>3 DEF QueueImportRequest, ProxyFails, ProxySucceeds, CheckIfRunning,
           RecordForwardingFailure, ConnectionBreaks, ProxyTaskDies, GoDown, redis
    <3>2. proxy'[j].pc \in {"none", "queued"} => proxy[j].pc \in {"none", "queued"}
      <4>1. CASE GoDown(r)
        <5>1. proxy'[j].pc = "lost" \/ proxy'[j] = proxy[j]
          BY <4>1 DEF GoDown, TypeOK
        <5>2. QED
          BY <5>1
      <4>2. CASE QueueImportRequest(r, i)
        BY <4>2 DEF QueueImportRequest, TypeOK
      <4>3. CASE \/ ProxyFails(i) \/ ProxySucceeds(i) \/ CheckIfRunning(i)
                 \/ RecordForwardingFailure(i) \/ ConnectionBreaks(i)
                 \/ ProxyTaskDies(i)
        <5>1. PICK to \in {"failing", "done", "checked", "lost"} :
                proxy' = [proxy EXCEPT ![i].pc = to]
          BY <4>3 DEF ProxyFails, ProxySucceeds, CheckIfRunning,
             RecordForwardingFailure, ConnectionBreaks, ProxyTaskDies
        <5>2. proxy'[j].pc = to \/ proxy'[j] = proxy[j]
          BY <5>1 DEF TypeOK
        <5>3. QED
          BY <5>2
      <4>4. QED
        BY <2>3, <4>1, <4>2, <4>3
    <3>3. QED
      BY <3>1, <3>2, WholeElsewhere
  <2>4. ASSUME NEW r \in Replicas, Listener(r) \/ ListenerStops(r) \/ ComeUp(r)
        PROVE  EndsWhole(j)'
    BY <2>a, <2>4
       DEF Listener, ClaimIdleEntries, NothingToClaim, ReadNewEntries,
           NothingToRead, RecordMessage, AckMessage, ListenerStops, ComeUp,
           redis, listenerOnly
  <2>5. CASE IdleTimePasses \/ UNCHANGED vars
    BY <2>a, <2>5 DEF IdleTimePasses, vars
  <2>6. QED
    <3>1. PICK s : s \in Replicas
      BY ReplicasAssumption
    <3>2. QED
      BY <2>1, <2>2, <2>3, <2>4, <2>5, <3>1 DEF Next, Proxy
<1>3. QED
  BY <1>1, <1>2, StoreInvHolds, TypeCorrect, PTL DEF Spec

\* A job that shows "successful" is in the dataset as a whole, or was only
\* counted: no crash, loss or late event makes a partial import look complete.
THEOREM SuccessIsWhole == Spec => []NoPartialSuccess
<1>1. TypeOK /\ WholeInv => NoPartialSuccess
  <2>1. ASSUME NEW row \in Row, MapStatus(row) = "successful"
        PROVE  row.status = "completed"
    <3>1. row.status # "completed" => MapStatus(row) \in {"failed", "accepted", "running"}
      BY Zenon DEF MapStatus
    <3>2. QED
      BY <2>1, <3>1
  <2>2. QED
    BY <2>1 DEF WholeInv, EndsWhole, NoPartialSuccess, TypeOK
<1>2. QED
  BY <1>1, WholeInvHolds, TypeCorrect, PTL

-----------------------------------------------------------------------------
(* Progress stays within the total.                                           *)

\* One way to cut the features into the batches.
BatchOf ==
    CHOOSE batchOf \in [1 .. TotalFeatures -> Batches] :
        \A b \in Batches : BatchSizes[b] = Cardinality(FeaturesOf(b, batchOf))

\* The entries of the stream that report on a batch of job j.
Announced(j) ==
    {m \in 1 .. Len(stream) : stream[m].job = j /\ stream[m].type \in BatchTypes}

\* The features of the batches whose reports are recorded, when "owner" says
\* which batch an entry reports on.
Covered(j, owner) ==
    {f \in 1 .. TotalFeatures :
        \E m \in Announced(j) \cap RecordedIds : owner[m] = BatchOf[f]}

\* No batch is reported on twice, and only those the handler is done with; the
\* features a row counts as processed are those of the recorded reports.
Owns(j, owner) ==
    /\ \A m, n \in Announced(j) : owner[m] = owner[n] => m = n
    /\ \A m \in Announced(j) :
        /\ stream[m].size = BatchSizes[owner[m]]
        /\ owner[m] <= importer[j].batch
        /\ owner[m] = importer[j].batch => importer[j].pc \in {"failing", "error"}
    /\ Processed(run[j]) = Cardinality(Covered(j, owner))

TotalsAgree ==
    /\ \A m \in 1 .. Len(stream) : stream[m].total \in {NoTotal, TotalFeatures}
    /\ \A j \in Jobs : run[j].total \in {NoTotal, TotalFeatures}

TotalInv ==
    /\ RecordedIds \subseteq 1 .. Len(stream)
    /\ TotalsAgree
    /\ \A j \in Jobs : \E owner \in [Announced(j) -> Batches] : Owns(j, owner)

LEMMA ChosenChunks ==
    /\ BatchOf \in [1 .. TotalFeatures -> Batches]
    /\ \A b \in Batches : BatchSizes[b] = Cardinality(FeaturesOf(b, BatchOf))
BY ChunkingAssumption DEF BatchOf

\* What is covered is part of the import.
LEMMA CoveredFinite ==
    ASSUME NEW S \in SUBSET (1 .. TotalFeatures)
    PROVE  /\ IsFiniteSet(S)
           /\ Cardinality(S) \in Nat
           /\ Cardinality(S) <= TotalFeatures
<1>1. TotalFeatures \in Nat
  BY BatchSizesAssumption
<1>2. IsFiniteSet(1 .. TotalFeatures) /\ Cardinality(1 .. TotalFeatures) = TotalFeatures
  <2>1. ASSUME NEW n \in Nat PROVE IsFiniteSet(1 .. n) /\ Cardinality(1 .. n) = n
    BY <2>1, FS_Interval
  <2>2. QED
    BY <1>1, <2>1
<1>3. IsFiniteSet(S) /\ Cardinality(S) <= Cardinality(1 .. TotalFeatures)
  BY <1>2, FS_Subset
<1>4. QED
  BY <1>2, <1>3, FS_CardinalityType

LEMMA TotalInvSuffices ==
    ASSUME TypeOK, TotalInv
    PROVE  ProgressWithinTotal
<1> SUFFICES ASSUME NEW j \in Jobs, run[j].total # NoTotal
             PROVE  Processed(run[j]) <= run[j].total
  BY DEF ProgressWithinTotal
<1>1. PICK owner \in [Announced(j) -> Batches] : Owns(j, owner)
  BY DEF TotalInv
<1>2. Covered(j, owner) \in SUBSET (1 .. TotalFeatures)
  BY DEF Covered
<1>3. Cardinality(Covered(j, owner)) <= TotalFeatures
  BY <1>2, CoveredFinite
<1>4. run[j].total = TotalFeatures
  BY DEF TotalInv, TotalsAgree
<1>5. QED
  BY <1>1, <1>3, <1>4 DEF Owns

\* A row counts the features of a batch report, and nothing else, and takes its
\* total from the event.
LEMMA UpdateCounts ==
    ASSUME NEW row \in Row, NEW e \in Event
    PROVE  /\ Processed(UpdatedRow(row, e)) =
                Processed(row) + (IF e.type \in BatchTypes THEN e.size ELSE 0)
           /\ UpdatedRow(row, e).total \in {row.total, e.total}
BY DEF UpdatedRow, Processed, AddsFeatures, BatchTypes, Row, Event

\* A report adds the features of its batch to those that are covered.
LEMMA CoverMore ==
    ASSUME TypeOK, NEW j \in Jobs, NEW owner \in [Announced(j) -> Batches],
           Owns(j, owner), NEW m \in Announced(j), m \notin RecordedIds,
           Announced(j)' = Announced(j), RecordedIds' = RecordedIds \cup {m}
    PROVE  Cardinality(Covered(j, owner)') =
             Cardinality(Covered(j, owner)) + stream[m].size
<1> DEFINE F == FeaturesOf(owner[m], BatchOf)
           C == Covered(j, owner)
<1>1. F \in SUBSET (1 .. TotalFeatures) /\ C \in SUBSET (1 .. TotalFeatures)
  BY DEF FeaturesOf, Covered
<1>2. IsFiniteSet(F) /\ IsFiniteSet(C) /\ Cardinality(F) \in Nat /\ Cardinality(C) \in Nat
  BY <1>1, CoveredFinite
<1>3. Cardinality(F) = stream[m].size
  BY ChosenChunks DEF Owns
<1>4. Covered(j, owner)' = C \cup F
  BY DEF Covered, FeaturesOf
<1>5. C \cap F = {}
  BY DEF Covered, FeaturesOf, Owns
<1>6. Cardinality(C \cup F) = Cardinality(C) + Cardinality(F)
  <2> HIDE DEF C, F
  <2>1. Cardinality(C \cup F) = Cardinality(C) + Cardinality(F) - Cardinality(C \cap F)
    BY <1>2, FS_Union
  <2>2. Cardinality(C \cap F) = 0
    BY <1>5, FS_EmptySet
  <2>3. QED
    BY <1>2, <2>1, <2>2
<1>7. QED
  BY <1>3, <1>4, <1>6

\* One transaction of record_import_event counts an entry when it records it.
LEMMA RecordTotals ==
    ASSUME TypeOK, TotalInv, NEW mid \in Nat, NEW e \in Event, Recording(mid, e)
    PROVE  TotalInv'
<1>1. CASE UNCHANGED gcjobsDb
  <2>1. \A j, owner : Owns(j, owner)' <=> Owns(j, owner)
    BY <1>1 DEF Recording, Owns, Announced, Covered, RecordedIds, gcjobsDb
  <2>2. \A j : Announced(j)' = Announced(j)
    BY DEF Recording, Announced
  <2>3. RecordedIds' = RecordedIds /\ UNCHANGED <<stream, run>>
    BY <1>1 DEF Recording, RecordedIds, gcjobsDb
  <2>4. QED
    BY <2>1, <2>2, <2>3 DEF TotalInv, TotalsAgree
<1>2. CASE /\ ~ AlreadyRecorded(mid)
           /\ eventTable' = eventTable \cup {[mid |-> mid, event |-> e]}
           /\ run' = [run EXCEPT ![e.job] = UpdatedRow(@, e)]
  <2> DEFINE row == [mid |-> mid, event |-> e]
  <2>1. RecordedIds' = RecordedIds \cup ({mid} \ {NullId})
    <3>1. \A x : x \in RecordedIds' <=> x # NullId /\ \E t \in eventTable \cup {row} : x = t.mid
      BY <1>2 DEF RecordedIds
    <3>2. \A x : x \in RecordedIds <=> x # NullId /\ \E t \in eventTable : x = t.mid
      BY DEF RecordedIds
    <3>3. row.mid = mid
      OBVIOUS
    <3> HIDE DEF row
    <3>4. QED
      BY <3>1, <3>2, <3>3
  <2>2. mid # NullId => mid \in 1 .. Len(stream) /\ e = stream[mid] /\ mid \notin RecordedIds
    BY <1>2 DEF Recording, AlreadyRecorded
  <2>3. /\ e.type \in BatchTypes => mid # NullId
        /\ e.total \in {NoTotal, TotalFeatures}
    BY <2>2 DEF Recording, OwnTypes, BatchTypes, TotalInv, TotalsAgree
  <2>4. RecordedIds' \subseteq 1 .. Len(stream')
    BY <2>1, <2>2 DEF TotalInv, Recording
  <2>5. e.job \in Jobs /\ e.size \in Nat
    BY DEF Event
  <2>6. TotalsAgree'
    <3>1. ASSUME NEW j \in Jobs PROVE run'[j].total \in {NoTotal, TotalFeatures}
      <4>1. CASE e.job = j
        <5>1. run'[j] = UpdatedRow(run[j], e) /\ run[j] \in Row
          BY <1>2, <4>1 DEF TypeOK
        <5>2. run'[j].total \in {run[j].total, e.total}
          BY <5>1, UpdateCounts
        <5>3. QED
          BY <2>3, <5>2 DEF TotalInv, TotalsAgree
      <4>2. CASE e.job # j
        BY <1>2, <2>5, <4>2 DEF TypeOK, TotalInv, TotalsAgree
      <4>3. QED
        BY <4>1, <4>2
    <3>2. QED
      BY <3>1 DEF TotalInv, TotalsAgree, Recording
  <2>7. ASSUME NEW j \in Jobs
        PROVE  \E owner \in [Announced(j) -> Batches]' : Owns(j, owner)'
    <3>1. PICK owner \in [Announced(j) -> Batches] : Owns(j, owner)
      BY DEF TotalInv
    <3>2. Announced(j)' = Announced(j)
      BY DEF Recording, Announced
    <3>3. Processed(run'[j]) = Cardinality(Covered(j, owner)')
      <4>1. CASE e.job = j /\ e.type \in BatchTypes
        <5>1. mid \in Announced(j) /\ stream[mid] = e
          BY <2>2, <2>3, <4>1 DEF Announced
        <5>2. RecordedIds' = RecordedIds \cup {mid} /\ mid \notin RecordedIds
          BY <2>1, <2>2, <2>3, <4>1
        <5>3. Cardinality(Covered(j, owner)') = Cardinality(Covered(j, owner)) + e.size
          BY <3>1, <3>2, <5>1, <5>2, CoverMore
        <5>4. run'[j] = UpdatedRow(run[j], e) /\ run[j] \in Row
          BY <1>2, <4>1 DEF TypeOK
        <5>5. Processed(run'[j]) = Processed(run[j]) + e.size
          BY <4>1, <5>4, UpdateCounts
        <5>6. QED
          BY <3>1, <5>3, <5>5 DEF Owns
      <4>2. CASE ~ (e.job = j /\ e.type \in BatchTypes)
        <5>1. Announced(j) \cap RecordedIds' = Announced(j) \cap RecordedIds
          BY <2>1, <2>2, <4>2 DEF Announced
        <5>2. Covered(j, owner)' = Covered(j, owner)
          BY <3>2, <5>1 DEF Covered
        <5>3. Processed(run'[j]) = Processed(run[j])
          <6>1. CASE e.job = j
            <7>1. run'[j] = UpdatedRow(run[j], e) /\ run[j] \in Row
              BY <1>2, <6>1 DEF TypeOK
            <7>2. Processed(run'[j]) = Processed(run[j]) + 0 /\ Processed(run[j]) \in Nat
              BY <4>2, <6>1, <7>1, UpdateCounts DEF Processed, Row
            <7>3. QED
              BY <7>2
          <6>2. CASE e.job # j
            BY <1>2, <2>5, <6>2 DEF TypeOK
          <6>3. QED
            BY <6>1, <6>2
        <5>4. QED
          BY <3>1, <5>2, <5>3 DEF Owns
      <4>3. QED
        BY <4>1, <4>2
    <3>4. Owns(j, owner)'
      BY <3>1, <3>2, <3>3 DEF Owns, Recording
    <3>5. QED
      BY <3>1, <3>2, <3>4
  <2>8. QED
    BY <2>4, <2>6, <2>7 DEF TotalInv
<1>3. QED
  BY <1>1, <1>2 DEF Recording, RecordImportEvent

\* A step that leaves the database alone, reports on no batch of a job and moves
\* its handler to no other batch keeps the owners of its reports.
LEMMA OwnersKept ==
    ASSUME TypeOK, TotalInv, NEW j \in Jobs, UNCHANGED gcjobsDb,
           Announced(j)' = Announced(j),
           \A m \in Announced(j) : stream'[m] = stream[m],
           importer'[j].batch = importer[j].batch,
           importer[j].pc \in {"failing", "error"} =>
             importer'[j].pc \in {"failing", "error"}
    PROVE  \E owner \in [Announced(j) -> Batches]' : Owns(j, owner)'
<1>1. PICK owner \in [Announced(j) -> Batches] : Owns(j, owner)
  BY DEF TotalInv
<1>2. Covered(j, owner)' = Covered(j, owner) /\ run' = run
  BY DEF Covered, RecordedIds, gcjobsDb
<1>3. Owns(j, owner)'
  BY <1>1, <1>2 DEF Owns
<1>4. QED
  BY <1>1, <1>3

\* What publishing an event does to the reports of job j.
LEMMA PublishAnnounced ==
    ASSUME TypeOK, NEW e \in Event, Publish(e), NEW j \in Jobs
    PROVE  /\ \A m \in 1 .. Len(stream) : m \in 1 .. Len(stream') /\ stream'[m] = stream[m]
           /\ \A m \in 1 .. Len(stream') :
                \/ m \in 1 .. Len(stream) /\ stream'[m] = stream[m]
                \/ stream'[m] = e
           /\ ~ (e.job = j /\ e.type \in BatchTypes) => Announced(j)' = Announced(j)
           /\ \/ Announced(j)' = Announced(j)
              \/ /\ Announced(j)' = Announced(j) \cup {Len(stream) + 1}
                 /\ stream'[Len(stream) + 1] = e
<1>1. Len(stream) \in Nat
  BY DEF TypeOK
<1>2. CASE stream' = stream
  BY <1>2 DEF Announced
<1>3. CASE stream' = Append(stream, e)
  <2>1. /\ Len(stream') = Len(stream) + 1
        /\ stream'[Len(stream) + 1] = e
        /\ \A k \in 1 .. Len(stream) : stream'[k] = stream[k]
    BY <1>3 DEF TypeOK
  <2>2. 1 .. Len(stream') = (1 .. Len(stream)) \cup {Len(stream) + 1}
    BY <1>1, <2>1
  <2>3. Len(stream) + 1 \notin 1 .. Len(stream)
    BY <1>1
  <2> DEFINE n == Len(stream) + 1
  <2> HIDE DEF n
  <2>4. /\ stream'[n] = e
        /\ 1 .. Len(stream') = (1 .. Len(stream)) \cup {n}
        /\ n \notin 1 .. Len(stream)
    BY <2>1, <2>2, <2>3 DEF n
  <2>5. CASE e.job = j /\ e.type \in BatchTypes
    <3>1. Announced(j)' = Announced(j) \cup {n}
      BY <2>1, <2>4, <2>5 DEF Announced
    <3>2. QED
      BY <2>1, <2>4, <2>5, <3>1 DEF n
  <2>6. CASE ~ (e.job = j /\ e.type \in BatchTypes)
    <3>1. Announced(j)' = Announced(j)
      BY <2>1, <2>4, <2>6 DEF Announced
    <3>2. QED
      BY <2>1, <2>4, <3>1
  <2>7. QED
    BY <2>5, <2>6
<1>4. QED
  BY <1>2, <1>3 DEF Publish, redis

\* The report on the current batch of job i gets an owner of its own: earlier
\* reports are on earlier batches, and the handler is done with this one.
LEMMA OwnerAdded ==
    ASSUME TypeOK, TotalInv, NEW i \in Jobs, NEW e \in Event, Publish(e),
           UNCHANGED gcjobsDb,
           e.job = i, e.type \in BatchTypes,
           importer[i].batch \in Batches, e.size = BatchSizes[importer[i].batch],
           importer[i].pc \notin {"failing", "error"},
           \/ importer'[i].batch = importer[i].batch + 1
           \/ importer'[i].batch = importer[i].batch /\ importer'[i].pc = "failing"
    PROVE  \E owner \in [Announced(i) -> Batches]' : Owns(i, owner)'
<1> DEFINE b == importer[i].batch
           A == Announced(i)
           n == Len(stream) + 1
<1>1. PICK owner \in [Announced(i) -> Batches] : Owns(i, owner)
  BY DEF TotalInv
<1>2. \A m \in A : owner[m] < b
  <2>1. \A m \in A : owner[m] <= b /\ owner[m] # b /\ owner[m] \in Batches
    BY <1>1 DEF Owns
  <2>2. QED
    BY <2>1 DEF Batches
<1>3. b \in Nat
  BY DEF Batches
<1>4. /\ \A m \in A : stream'[m] = stream[m]
      /\ \/ A' = A
         \/ A' = A \cup {n} /\ stream'[n] = e
  BY PublishAnnounced DEF Announced
<1>5. n \notin 1 .. Len(stream)
  BY DEF TypeOK
<1>6. RecordedIds' = RecordedIds /\ run' = run /\ Batches' = Batches
  BY DEF RecordedIds, gcjobsDb, Batches
<1>7. n \notin A /\ n \notin RecordedIds
  BY <1>5 DEF TotalInv, Announced
<1>8. PICK next \in [A' -> Batches] :
        /\ \A m \in A' \cap A : next[m] = owner[m]
        /\ n \in A' => next[n] = b
  <2> DEFINE f == [m \in A' |-> IF m = n THEN b ELSE owner[m]]
  <2>1. /\ \A m \in A' \cap A : f[m] = owner[m]
        /\ n \in A' => f[n] = b
        /\ f \in [A' -> Batches]
    BY <1>1, <1>4, <1>7
  <2> HIDE DEF f
  <2>2. QED
    BY <2>1
<1> HIDE DEF n
<1>9. \A m, k \in A' : next[m] = next[k] => m = k
  <2> SUFFICES ASSUME NEW m \in A', NEW k \in A', next[m] = next[k] PROVE m = k
    OBVIOUS
  <2>1. CASE m \in A /\ k \in A
    BY <1>1, <1>8, <2>1 DEF Owns
  <2>2. CASE m \notin A \/ k \notin A
    BY <1>1, <1>2, <1>3, <1>4, <1>8, <2>2 DEF Batches
  <2>3. QED
    BY <2>1, <2>2
<1>10. ASSUME NEW m \in A'
       PROVE  /\ stream'[m].size = BatchSizes[next[m]]
              /\ next[m] <= importer'[i].batch
              /\ next[m] = importer'[i].batch => importer'[i].pc \in {"failing", "error"}
  <2>1. next[m] \in Nat /\ next[m] <= b
    BY <1>1, <1>2, <1>3, <1>4, <1>8 DEF Batches
  <2>2. stream'[m].size = BatchSizes[next[m]]
    BY <1>1, <1>4, <1>8 DEF Owns
  <2>3. QED
    BY <1>3, <2>1, <2>2
<1>11. Covered(i, next)' = Covered(i, owner)
  <2>1. \A m \in RecordedIds : m \in A' <=> m \in A
    BY <1>4, <1>7
  <2>2. \A m \in A \cap RecordedIds : next[m] = owner[m]
    BY <1>8, <2>1
  <2>3. A' \cap RecordedIds' = A \cap RecordedIds
    BY <1>6, <2>1
  <2> HIDE DEF A
  <2>4. Covered(i, next)' =
          {f \in 1 .. TotalFeatures : \E m \in A' \cap RecordedIds' : next[m] = BatchOf[f]}
    BY DEF Covered, A
  <2>5. Covered(i, owner) =
          {f \in 1 .. TotalFeatures : \E m \in A \cap RecordedIds : owner[m] = BatchOf[f]}
    BY DEF Covered, A
  <2>6. QED
    BY <2>2, <2>3, <2>4, <2>5
<1>12. Owns(i, next)'
  BY <1>1, <1>6, <1>9, <1>10, <1>11 DEF Owns
<1>13. QED
  BY <1>6, <1>8, <1>12

\* The steps of the handler of job i report on its current batch or on none.
LEMMA TotalsByImporter ==
    ASSUME TypeOK, TotalInv, NEW i \in Jobs, Importer(i) \/ ImporterBreaks(i)
    PROVE  TotalInv'
<1>a. TotalFeatures \in Nat
  BY BatchSizesAssumption
<1>b. ASSUME NEW from, NEW to, Importing(i, from, to), NEW j \in Jobs
      PROVE  /\ importer'[j].batch = importer[j].batch
             /\ i # j => importer'[j] = importer[j]
             /\ importer[i].pc = from /\ importer'[i].pc = to
  BY <1>b DEF Importing, TypeOK, Handler
<1>c. ASSUME UNCHANGED gcjobsDb,
             \A m \in 1 .. Len(stream) : m \in 1 .. Len(stream') /\ stream'[m] = stream[m],
             \A m \in 1 .. Len(stream') :
                \/ m \in 1 .. Len(stream) /\ stream'[m] = stream[m]
                \/ stream'[m].total \in {NoTotal, TotalFeatures}
      PROVE  (RecordedIds \subseteq 1 .. Len(stream))' /\ TotalsAgree'
  BY <1>c DEF TotalInv, TotalsAgree, RecordedIds, gcjobsDb
\* A handler that moves on without a report ...
<1>d. ASSUME NEW from, NEW to, Importing(i, from, to), from # "error",
             from = "failing" => to = "error",
             NEW e \in Event, Publish(e), e.type \notin BatchTypes,
             e.total \in {NoTotal, TotalFeatures}, UNCHANGED gcjobsDb
      PROVE  TotalInv'
  <2>1. (RecordedIds \subseteq 1 .. Len(stream))' /\ TotalsAgree'
    BY <1>c, <1>d, PublishAnnounced
  <2>2. ASSUME NEW j \in Jobs
        PROVE  \E owner \in [Announced(j) -> Batches]' : Owns(j, owner)'
    <3>1. Announced(j)' = Announced(j) /\ \A m \in Announced(j) : stream'[m] = stream[m]
      BY <1>d, PublishAnnounced DEF Announced
    <3>2. /\ importer'[j].batch = importer[j].batch
          /\ importer[j].pc \in {"failing", "error"} =>
               importer'[j].pc \in {"failing", "error"}
      BY <1>b, <1>d
    <3>3. QED
      BY <1>d, <3>1, <3>2, OwnersKept
  <2>3. QED
    BY <2>1, <2>2 DEF TotalInv
\* ... without publishing at all ...
<1>e. ASSUME NEW from, NEW to, Importing(i, from, to), from # "error",
             from = "failing" => to = "error", UNCHANGED <<gcjobsDb, stream>>
      PROVE  TotalInv'
  <2>1. (RecordedIds \subseteq 1 .. Len(stream))' /\ TotalsAgree'
    BY <1>c, <1>e
  <2>2. ASSUME NEW j \in Jobs
        PROVE  \E owner \in [Announced(j) -> Batches]' : Owns(j, owner)'
    <3>1. Announced(j)' = Announced(j) /\ \A m \in Announced(j) : stream'[m] = stream[m]
      BY <1>e DEF Announced
    <3>2. /\ importer'[j].batch = importer[j].batch
          /\ importer[j].pc \in {"failing", "error"} =>
               importer'[j].pc \in {"failing", "error"}
      BY <1>b, <1>e
    <3>3. QED
      BY <1>e, <3>1, <3>2, OwnersKept
  <2>3. QED
    BY <2>1, <2>2 DEF TotalInv
\* ... or with the report on its batch.
<1>f. ASSUME NEW e \in Event, Publish(e), e.job = i, e.type \in BatchTypes,
             e.total = TotalFeatures, UNCHANGED gcjobsDb,
             importer[i].batch \in Batches, e.size = BatchSizes[importer[i].batch],
             importer[i].pc \notin {"failing", "error"},
             \/ importer'[i].batch = importer[i].batch + 1
             \/ importer'[i].batch = importer[i].batch /\ importer'[i].pc = "failing",
             \A j \in Jobs : i # j => importer'[j] = importer[j]
      PROVE  TotalInv'
  <2>1. (RecordedIds \subseteq 1 .. Len(stream))' /\ TotalsAgree'
    BY <1>c, <1>f, PublishAnnounced
  <2>2. ASSUME NEW j \in Jobs
        PROVE  \E owner \in [Announced(j) -> Batches]' : Owns(j, owner)'
    <3>1. CASE i = j
      BY <1>f, <3>1, OwnerAdded
    <3>2. CASE i # j
      <4>1. Announced(j)' = Announced(j) /\ \A m \in Announced(j) : stream'[m] = stream[m]
        BY <1>f, <3>2, PublishAnnounced DEF Announced
      <4>2. QED
        BY <1>f, <3>2, <4>1, OwnersKept
    <3>3. QED
      BY <3>1, <3>2
  <2>3. QED
    BY <2>1, <2>2 DEF TotalInv
<1>g. ASSUME NEW type \in EventTypes, NEW phase \in Phases
      PROVE  LET plain == EventOf(i, type, phase)
                 total == [plain EXCEPT !.total = TotalFeatures]
             IN  /\ plain \in Event /\ plain.type = type /\ plain.total = NoTotal
                 /\ total \in Event /\ total.type = type /\ total.total = TotalFeatures
  BY <1>a, <1>g DEF EventOf, Event
<1>h. ASSUME NEW type \in BatchTypes, importer[i].batch \in Batches
      PROVE  LET e == BatchEvent(i, type)
             IN  /\ e \in Event /\ e.job = i /\ e.type = type
                 /\ e.total = TotalFeatures /\ e.size = BatchSizes[importer[i].batch]
  <2>1. BatchSizes[importer[i].batch] \in Nat
    BY <1>h, BatchSizesAssumption DEF Batches
  <2>2. "importing" \in Phases /\ type \in EventTypes
    BY DEF Phases, BatchTypes, EventTypes
  <2>3. QED
    BY <1>a, <2>1, <2>2 DEF BatchEvent, EventOf, Event
<1> USE DEF EventTypes, Phases, BatchTypes, importerOnly
<1>1. CASE RejectRequest(i)
  BY <1>1, <1>e DEF RejectRequest, redis
<1>2. CASE StartImport(i)
  BY <1>2, <1>d, <1>g DEF StartImport
<1>3. CASE ParsingFails(i)
  BY <1>3, <1>d, <1>g DEF ParsingFails
<1>4. CASE StatsParsed(i)
  BY <1>4, <1>d, <1>g DEF StatsParsed
<1>5. CASE StatsCompleted(i)
  BY <1>5, <1>d, <1>g DEF StatsCompleted
<1>6. CASE Parsed(i)
  BY <1>6, <1>d, <1>g DEF Parsed
<1>7. CASE BatchUpserted(i)
  BY <1>7, <1>e DEF BatchUpserted, redis
<1>8. CASE BatchFails(i)
  BY <1>8, <1>e DEF BatchFails, redis
<1>9. CASE BatchSucceeded(i)
  <2> DEFINE e == BatchEvent(i, "import.batch.succeeded")
  <2>1. importer[i].batch \in Batches /\ importer[i].pc = "upserted"
    BY <1>9 DEF BatchSucceeded, TypeOK, Handler
  <2>2. /\ e \in Event /\ e.job = i /\ e.type \in BatchTypes
        /\ e.total = TotalFeatures /\ e.size = BatchSizes[importer[i].batch]
    BY <1>h, <2>1
  <2>3. Publish(e) /\ UNCHANGED gcjobsDb
    BY <1>9 DEF BatchSucceeded
  <2> HIDE DEF e
  <2>4. /\ importer'[i].batch = importer[i].batch + 1
        /\ \A j \in Jobs : i # j => importer'[j] = importer[j]
    BY <1>9 DEF BatchSucceeded, TypeOK
  <2>5. QED
    BY <1>f, <2>1, <2>2, <2>3, <2>4
<1>10. CASE BatchFailed(i)
  <2> DEFINE e == BatchEvent(i, "import.batch.failed")
  <2>1. importer[i].batch \in Batches /\ importer[i].pc = "rejected"
    BY <1>10 DEF BatchFailed, Importing, TypeOK, Handler
  <2>2. /\ e \in Event /\ e.job = i /\ e.type \in BatchTypes
        /\ e.total = TotalFeatures /\ e.size = BatchSizes[importer[i].batch]
    BY <1>h, <2>1
  <2>3. Publish(e) /\ UNCHANGED gcjobsDb
    BY <1>10 DEF BatchFailed
  <2> HIDE DEF e
  <2>4. /\ importer'[i].batch = importer[i].batch /\ importer'[i].pc = "failing"
        /\ \A j \in Jobs : i # j => importer'[j] = importer[j]
    BY <1>10, <1>b DEF BatchFailed
  <2>5. QED
    BY <1>f, <2>1, <2>2, <2>3, <2>4
<1>11. CASE ImportFailed(i)
  BY <1>11, <1>d, <1>g DEF ImportFailed
<1>12. CASE ImportSucceeded(i)
  BY <1>12, <1>d, <1>g DEF ImportSucceeded
<1>13. CASE ImporterBreaks(i)
  <2>1. Importing(i, importer[i].pc, "error") /\ importer[i].pc # "error"
    BY <1>13 DEF ImporterBreaks, Active, Importing
  <2>2. QED
    BY <1>13, <1>e, <2>1 DEF ImporterBreaks, redis
<1>14. QED
  BY <1>1, <1>2, <1>3, <1>4, <1>5, <1>6, <1>7, <1>8, <1>9, <1>10, <1>11, <1>12,
     <1>13 DEF Importer

LEMMA TotalInvHolds == Spec => []TotalInv
<1>1. Init => TotalInv
  <2> SUFFICES ASSUME Init PROVE TotalInv
    OBVIOUS
  <2>1. RecordedIds = {} /\ 1 .. Len(stream) = {}
    BY DEF Init, RecordedIds
  <2>2. ASSUME NEW j \in Jobs
        PROVE  \E owner \in [Announced(j) -> Batches] : Owns(j, owner)
    <3>1. Announced(j) = {}
      BY <2>1 DEF Announced
    <3>2. PICK owner : owner = [m \in Announced(j) |-> 0]
      OBVIOUS
    <3>3. owner \in [Announced(j) -> Batches]
      BY <3>1, <3>2
    <3>4. Covered(j, owner) = {} /\ Processed(run[j]) = 0
      BY <3>1 DEF Init, Covered, Processed, AbsentRow
    <3>5. Owns(j, owner)
      BY <3>1, <3>4, FS_EmptySet DEF Owns
    <3>6. QED
      BY <3>3, <3>5
  <2>3. TotalsAgree
    BY <2>1 DEF Init, TotalsAgree, AbsentRow
  <2>4. QED
    BY <2>1, <2>2, <2>3 DEF TotalInv
<1>2. TypeOK /\ WholeInv /\ TotalInv /\ [Next]_vars => TotalInv'
  <2> SUFFICES ASSUME TypeOK, WholeInv, TotalInv, [Next]_vars PROVE TotalInv'
    OBVIOUS
  <2>a. ASSUME NEW mid \in Nat, NEW e \in Event, Recording(mid, e) PROVE TotalInv'
    BY <2>a, RecordTotals
  <2>b. ASSUME UNCHANGED <<gcjobsDb, stream>>,
               \A j \in Jobs :
                 /\ importer'[j].batch = importer[j].batch
                 /\ importer[j].pc \in {"failing", "error"} =>
                      importer'[j].pc \in {"failing", "error"}
        PROVE  TotalInv'
    <3>1. \A j \in Jobs : \E owner \in [Announced(j) -> Batches]' : Owns(j, owner)'
      BY <2>b, OwnersKept DEF Announced
    <3>2. (RecordedIds \subseteq 1 .. Len(stream))' /\ TotalsAgree'
      BY <2>b DEF TotalInv, TotalsAgree, RecordedIds, gcjobsDb
    <3>3. QED
      BY <3>1, <3>2 DEF TotalInv
  <2>1. ASSUME NEW i \in Jobs, Importer(i) \/ ImporterBreaks(i) PROVE TotalInv'
    BY <2>1, TotalsByImporter
  <2>2. ASSUME NEW i \in Jobs, ProxySend(i) PROVE TotalInv'
    <3>1. importer[i].pc = "none"
      BY <2>2 DEF ProxySend, WholeInv, EndsWhole
    <3>2. \A j \in Jobs :
            /\ importer'[j].batch = importer[j].batch
            /\ importer[j].pc \in {"failing", "error"} =>
                 importer'[j].pc \in {"failing", "error"}
      BY <2>2, <3>1 DEF ProxySend, TypeOK, Handler
    <3>3. QED
      BY <2>2, <2>b, <3>2 DEF ProxySend, redis
  <2>3. CASE UNCHANGED <<stream, importer>>
    BY <2>3, <2>a, <2>b, DatabaseSteps
  <2>4. \/ UNCHANGED <<stream, importer>>
        \/ \E i \in Jobs : Importer(i) \/ ImporterBreaks(i) \/ ProxySend(i)
    BY DEF Next, vars, Proxy, ProxyFails, ProxySucceeds, CheckIfRunning,
       RecordForwardingFailure, ConnectionBreaks, ProxyTaskDies, QueueImportRequest,
       Listener, ClaimIdleEntries, NothingToClaim, ReadNewEntries, NothingToRead,
       RecordMessage, AckMessage, ListenerStops, GoDown, ComeUp, IdleTimePasses,
       redis, listenerOnly
  <2>5. QED
    BY <2>1, <2>2, <2>3, <2>4
<1>3. QED
  BY <1>1, <1>2, WholeInvHolds, TypeCorrect, PTL DEF Spec

\* The progress a job shows stays within its total: a report that is delivered
\* twice counts once, and no batch both succeeds and fails.
THEOREM ProgressIsBounded == Spec => []ProgressWithinTotal
<1>1. TypeOK /\ TotalInv => ProgressWithinTotal
  BY TotalInvSuffices
<1>2. QED
  BY <1>1, TotalInvHolds, TypeCorrect, PTL

-----------------------------------------------------------------------------
(* The summary of a successful job.                                           *)

\* Entry m ends job j well.
Ends(j, m) == stream[m].job = j /\ stream[m].type = Finished

\* Between two batches a handler has stored exactly those before its current
\* one, and unless an event was lost it has announced each of them.
StoredShape(j) ==
    /\ importer[j].pc \in {"none", "received", "parsing", "stats"} =>
         importer[j].batch = 1
    /\ importer[j].pc \in {"none", "received", "parsing", "stats", "importing", "ok"} =>
         stored[j] = 1 .. importer[j].batch - 1
    /\ importer[j].pc = "upserted" => stored[j] = 1 .. importer[j].batch
    /\ budget.lost = MaxLost => Cardinality(Sent(j)) = importer[j].batch - 1

\* The end of a job comes after all its batches in the stream, and a job is
\* completed when its end has been recorded.
EndsLast(j) ==
    /\ \A m \in 1 .. Len(stream) : Ends(j, m) => \A k \in Sent(j) : k < m
    /\ run[j].status = "completed" => \E m \in RecordedIds : Ends(j, m)

BudgetInv ==
    /\ budget.crashes <= MaxCrashes
    /\ budget.errors <= MaxErrors
    /\ budget.breaks <= MaxBreaks
    /\ budget.lost <= MaxLost

ShapeInv == BudgetInv /\ \A j \in Jobs : StoredShape(j) /\ EndsLast(j)

\* Faults are only used up.
LEMMA BudgetShrinks ==
    ASSUME TypeOK, [Next]_vars
    PROVE  /\ budget'.crashes <= budget.crashes
           /\ budget'.errors <= budget.errors
           /\ budget'.breaks <= budget.breaks
           /\ budget'.lost <= budget.lost
           /\ BudgetInv => BudgetInv'
<1>1. budget \in Budget /\ budget.crashes \in Nat /\ budget.errors \in Nat
        /\ budget.breaks \in Nat /\ budget.lost \in Nat
  BY DEF TypeOK, Budget
<1>2. \/ UNCHANGED budget
      \/ budget' = [budget EXCEPT !.crashes = @ - 1]
      \/ budget' = [budget EXCEPT !.errors = @ - 1]
      \/ budget' = [budget EXCEPT !.breaks = @ - 1]
      \/ budget' = [budget EXCEPT !.lost = @ - 1]
  <2>1. ASSUME NEW i \in Jobs, Importer(i) \/ ImporterBreaks(i)
        PROVE  \/ UNCHANGED budget
               \/ budget' = [budget EXCEPT !.breaks = @ - 1]
               \/ budget' = [budget EXCEPT !.lost = @ - 1]
    BY <2>1 DEF Importer, RejectRequest, StartImport, ParsingFails, StatsParsed,
       StatsCompleted, Parsed, BatchUpserted, BatchFails, BatchSucceeded,
       BatchFailed, ImportFailed, ImportSucceeded, ImporterBreaks, Publish
  <2>2. ASSUME NEW i \in Jobs, NEW r \in Replicas,
               QueueImportRequest(r, i) \/ Proxy(i)
                 \/ ConnectionBreaks(i) \/ ProxyTaskDies(i)
        PROVE  \/ UNCHANGED budget
               \/ budget' = [budget EXCEPT !.breaks = @ - 1]
               \/ budget' = [budget EXCEPT !.errors = @ - 1]
    BY <2>2 DEF QueueImportRequest, Proxy, ProxySend, ProxyFails, ProxySucceeds,
       CheckIfRunning, RecordForwardingFailure, ConnectionBreaks, ProxyTaskDies
  <2>3. ASSUME NEW r \in Replicas,
               Listener(r) \/ ListenerStops(r) \/ GoDown(r) \/ ComeUp(r)
        PROVE  \/ UNCHANGED budget
               \/ budget' = [budget EXCEPT !.errors = @ - 1]
               \/ budget' = [budget EXCEPT !.crashes = @ - 1]
    BY <2>3 DEF Listener, ClaimIdleEntries, NothingToClaim, ReadNewEntries,
       NothingToRead, RecordMessage, AckMessage, ListenerStops, GoDown, ComeUp,
       listenerOnly
  <2>4. PICK s : s \in Replicas
    BY ReplicasAssumption
  <2>5. QED
    BY <2>1, <2>2, <2>3, <2>4 DEF Next, IdleTimePasses, vars
<1>3. /\ budget'.crashes \in {budget.crashes, budget.crashes - 1}
      /\ budget'.errors \in {budget.errors, budget.errors - 1}
      /\ budget'.breaks \in {budget.breaks, budget.breaks - 1}
      /\ budget'.lost \in {budget.lost, budget.lost - 1}
  BY <1>1, <1>2 DEF Budget
<1>4. /\ budget'.crashes <= budget.crashes
      /\ budget'.errors <= budget.errors
      /\ budget'.breaks <= budget.breaks
      /\ budget'.lost <= budget.lost
      /\ budget'.crashes \in Int /\ budget'.errors \in Int
      /\ budget'.breaks \in Int /\ budget'.lost \in Int
  BY <1>1, <1>3
<1>5. BudgetInv => BudgetInv'
  BY <1>1, <1>4, LimitsAssumption DEF BudgetInv
<1>6. QED
  BY <1>4, <1>5

\* What publishing adds to the batches a job has announced.
LEMMA PublishShape ==
    ASSUME TypeOK, NEW e \in Event, Publish(e), NEW j \in Jobs
    PROVE  /\ Sent(j) \subseteq 1 .. Len(stream)
           /\ \A m \in 1 .. Len(stream') :
                \/ m \in 1 .. Len(stream) /\ stream'[m] = stream[m]
                \/ m = Len(stream) + 1 /\ stream'[m] = e
           /\ e.job = j /\ e.type = Succeeded /\ budget'.lost = budget.lost =>
                Cardinality(Sent(j)') = Cardinality(Sent(j)) + 1
<1>1. Len(stream) \in Nat
  BY DEF TypeOK
<1>2. Sent(j) \subseteq 1 .. Len(stream)
  BY DEF Sent
<1>3. CASE stream' = Append(stream, e)
  <2> DEFINE n == Len(stream) + 1
  <2>1. /\ Len(stream') = n
        /\ stream'[n] = e
        /\ \A m \in 1 .. Len(stream) : stream'[m] = stream[m]
    BY <1>3 DEF TypeOK
  <2>2. \A m \in 1 .. Len(stream') : m \in 1 .. Len(stream) \/ m = n
    BY <1>1, <2>1
  <2>3. ASSUME e.job = j, e.type = Succeeded
        PROVE  Cardinality(Sent(j)') = Cardinality(Sent(j)) + 1
    <3>1. Sent(j)' = Sent(j) \cup {n}
      BY <1>1, <2>1, <2>3 DEF Sent
    <3>2. n \notin Sent(j)
      BY <1>1 DEF Sent
    <3>3. QED
      BY <3>1, <3>2, SentFinite, FS_AddElement
  <2>4. QED
    BY <1>2, <2>1, <2>2, <2>3
<1>4. CASE UNCHANGED stream /\ budget.lost > 0 /\ budget' = [budget EXCEPT !.lost = @ - 1]
  <2>1. budget'.lost # budget.lost
    BY <1>4 DEF TypeOK, Budget
  <2>2. QED
    BY <1>2, <1>4, <2>1
<1>5. QED
  BY <1>3, <1>4 DEF Publish, redis

\* After publishing, the end of a job is still behind all its batches: the end of
\* job j is announced after them, and nothing follows it.
LEMMA EndsLastByPublish ==
    ASSUME TypeOK, WholeInv, NEW i \in Jobs, NEW j \in Jobs, EndsLast(j),
           NEW e \in Event, Publish(e), e.job = i, importer[i].pc # "ok",
           RecordedIds \subseteq 1 .. Len(stream), UNCHANGED gcjobsDb
    PROVE  EndsLast(j)'
<1>1. /\ Sent(j) \subseteq 1 .. Len(stream)
      /\ \A m \in 1 .. Len(stream') :
           \/ m \in 1 .. Len(stream) /\ stream'[m] = stream[m]
           \/ m = Len(stream) + 1 /\ stream'[m] = e
  BY PublishShape
<1>2. Len(stream) \in Nat
  BY DEF TypeOK
<1>3. ASSUME NEW m \in 1 .. Len(stream'), Ends(j, m)', NEW k \in Sent(j)'
      PROVE  k < m
  <2>1. CASE m \in 1 .. Len(stream) /\ stream'[m] = stream[m]
    <3>1. Ends(j, m)
      BY <1>3, <2>1 DEF Ends
    <3>2. importer[j].pc = "ok"
      BY <2>1, <3>1 DEF WholeInv, EndsWhole, Ends
    <3>3. i # j
      BY <3>2
    <3>4. k \in Sent(j)
      BY <1>3, <3>3, PublishSent
    <3>5. QED
      BY <2>1, <3>1, <3>4 DEF EndsLast
  <2>2. CASE m = Len(stream) + 1 /\ stream'[m] = e
    <3>1. e.type # Succeeded
      BY <1>3, <2>2 DEF Ends, Finished, Succeeded
    <3>2. k \in Sent(j)
      BY <1>3, <3>1, PublishSent
    <3>3. QED
      BY <1>1, <1>2, <2>2, <3>2
  <2>3. QED
    BY <1>1, <2>1, <2>2
<1>4. run'[j].status = "completed" => \E m \in RecordedIds' : Ends(j, m)'
  <2>1. \A m \in 1 .. Len(stream) : stream'[m] = stream[m]
    BY PublishSent
  <2>2. RecordedIds' = RecordedIds /\ run' = run
    BY DEF RecordedIds, gcjobsDb
  <2>3. QED
    BY <2>1, <2>2 DEF EndsLast, Ends
<1>5. QED
  BY <1>3, <1>4 DEF EndsLast

LEMMA EndsLastKept ==
    ASSUME NEW j \in Jobs, EndsLast(j), UNCHANGED <<stream, gcjobsDb>>
    PROVE  EndsLast(j)'
BY DEF EndsLast, Ends, Sent, RecordedIds, gcjobsDb

\* The steps of the handler of job i keep the shape of job j.
LEMMA ShapeByImporter ==
    ASSUME TypeOK, WholeInv, ShapeInv, RecordedIds \subseteq 1 .. Len(stream),
           [Next]_vars, NEW i \in Jobs, NEW j \in Jobs,
           Importer(i) \/ ImporterBreaks(i)
    PROVE  StoredShape(j)' /\ EndsLast(j)'
<1>a. StoredShape(j) /\ StoredShape(i) /\ EndsLast(j)
  BY DEF ShapeInv
<1>b. ASSUME NEW from, NEW to, Importing(i, from, to)
      PROVE  /\ importer[i].pc = from /\ importer'[i].pc = to
             /\ importer'[i].batch = importer[i].batch
             /\ i # j => importer'[j] = importer[j]
  BY <1>b DEF Importing, TypeOK, Handler
<1>c. budget'.lost = MaxLost => budget.lost = MaxLost
  <2>1. budget'.lost <= budget.lost /\ budget.lost <= MaxLost
    BY BudgetShrinks DEF ShapeInv, BudgetInv
  <2>2. budget.lost \in Nat /\ MaxLost \in Nat
    BY LimitsAssumption DEF TypeOK, Budget
  <2>3. QED
    BY <2>1, <2>2
\* Another job than j.
<1>d. ASSUME i # j, importer'[j] = importer[j], stored'[j] = stored[j],
             Sent(j)' = Sent(j)
      PROVE  StoredShape(j)'
  BY <1>a, <1>c, <1>d DEF StoredShape
\* Job j moves on and publishes something else than a stored batch ...
<1>e. ASSUME NEW from, NEW to, Importing(i, from, to),
             from \notin {"none", "ok"},
             to \in {"parsing", "stats"} => from \in {"received", "parsing"},
             to \in {"importing", "ok"} =>
               from \in {"received", "parsing", "stats", "importing"},
             to \notin {"none", "received", "upserted"},
             NEW e \in Event, Publish(e), e.job = i, e.type # Succeeded,
             UNCHANGED <<gcjobsDb, stored>>
      PROVE  StoredShape(j)' /\ EndsLast(j)'
  <2>1. Sent(j)' = Sent(j)
    BY <1>e, PublishSent
  <2>2. importer[i].pc = from /\ importer'[i].pc = to /\ importer'[i].batch = importer[i].batch
    BY <1>b, <1>e
  <2>3. EndsLast(j)'
    BY <1>a, <1>e, <2>2, EndsLastByPublish
  <2>4. CASE i = j
    BY <1>a, <1>c, <1>e, <2>1, <2>2, <2>3, <2>4 DEF StoredShape
  <2>5. CASE i # j
    BY <1>b, <1>d, <1>e, <2>1, <2>3, <2>5
  <2>6. QED
    BY <2>4, <2>5
\* ... or moves on without publishing.
<1>f. ASSUME NEW from, NEW to, Importing(i, from, to),
             UNCHANGED <<gcjobsDb, stream>>,
             i # j => stored'[j] = stored[j],
             to \in {"rejected", "error", "upserted"},
             to = "upserted" /\ i = j => stored'[j] = 1 .. importer[j].batch
      PROVE  StoredShape(j)' /\ EndsLast(j)'
  <2>1. Sent(j)' = Sent(j)
    BY <1>f DEF Sent
  <2>2. importer'[i].pc = to /\ importer'[i].batch = importer[i].batch
    BY <1>b, <1>f
  <2>3. EndsLast(j)'
    BY <1>a, <1>f, EndsLastKept
  <2>4. CASE i = j
    BY <1>a, <1>c, <1>f, <2>1, <2>2, <2>3, <2>4 DEF StoredShape
  <2>5. CASE i # j
    BY <1>b, <1>d, <1>f, <2>1, <2>3, <2>5
  <2>6. QED
    BY <2>4, <2>5
<1>g. ASSUME NEW type \in EventTypes, NEW phase \in Phases
      PROVE  LET plain == EventOf(i, type, phase)
                 total == [plain EXCEPT !.total = TotalFeatures]
             IN  /\ plain \in Event /\ plain.job = i /\ plain.type = type
                 /\ total \in Event /\ total.job = i /\ total.type = type
  BY <1>g, BatchSizesAssumption DEF EventOf, Event
<1>h. ASSUME NEW type \in BatchTypes, importer[i].batch \in Batches
      PROVE  /\ BatchEvent(i, type) \in Event
             /\ BatchEvent(i, type).job = i /\ BatchEvent(i, type).type = type
  <2>1. BatchSizes[importer[i].batch] \in Nat
    BY <1>h, BatchSizesAssumption DEF Batches
  <2>2. "importing" \in Phases /\ type \in EventTypes
    BY DEF Phases, BatchTypes, EventTypes
  <2>3. QED
    BY <2>1, <2>2, BatchSizesAssumption DEF BatchEvent, EventOf, Event
<1> USE DEF EventTypes, Phases, Succeeded, importerOnly
<1>1. CASE RejectRequest(i)
  BY <1>1, <1>f DEF RejectRequest, redis
<1>2. CASE StartImport(i)
  BY <1>2, <1>e, <1>g DEF StartImport
<1>3. CASE ParsingFails(i)
  BY <1>3, <1>e, <1>g DEF ParsingFails
<1>4. CASE StatsParsed(i)
  BY <1>4, <1>e, <1>g DEF StatsParsed
<1>5. CASE StatsCompleted(i)
  BY <1>5, <1>e, <1>g DEF StatsCompleted
<1>6. CASE Parsed(i)
  BY <1>6, <1>e, <1>g DEF Parsed
<1>7. CASE BatchUpserted(i)
  <2>1. i # j => stored'[j] = stored[j]
    BY <1>7 DEF BatchUpserted, TypeOK
  <2>2. ASSUME i = j PROVE stored'[j] = 1 .. importer[j].batch
    <3>1. stored[j] = 1 .. importer[j].batch - 1
      BY <1>7, <1>a, <2>2 DEF BatchUpserted, Importing, StoredShape
    <3>2. stored'[j] = stored[j] \cup {importer[j].batch}
      BY <1>7, <2>2 DEF BatchUpserted, TypeOK
    <3>3. importer[j].batch \in Nat \ {0}
      BY DEF TypeOK, Handler
    <3>4. QED
      BY <3>1, <3>2, <3>3
  <2>3. QED
    BY <1>7, <1>f, <2>1, <2>2 DEF BatchUpserted, redis
<1>8. CASE BatchFails(i)
  <2>1. i # j => stored'[j] = stored[j]
    BY <1>8 DEF BatchFails, TypeOK
  <2>2. QED
    BY <1>8, <1>f, <2>1 DEF BatchFails, redis
<1>9. CASE BatchSucceeded(i)
  <2> DEFINE e == BatchEvent(i, "import.batch.succeeded")
             b == importer[i].batch
  <2>1. b \in Batches /\ importer[i].pc = "upserted"
    BY <1>9 DEF BatchSucceeded, TypeOK, Handler
  <2>2. e \in Event /\ e.job = i /\ e.type = Succeeded
    BY <1>h, <2>1 DEF BatchTypes
  <2>3. Publish(e) /\ UNCHANGED <<gcjobsDb, stored>>
    BY <1>9 DEF BatchSucceeded
  <2> HIDE DEF e
  <2>4. EndsLast(j)'
    BY <1>a, <2>1, <2>2, <2>3, EndsLastByPublish
  <2>5. /\ importer'[i] = [pc |-> "importing", batch |-> b + 1]
        /\ i # j => importer'[j] = importer[j]
    BY <1>9 DEF BatchSucceeded, TypeOK
  <2>6. CASE i = j
    <3>1. b \in Nat /\ (b + 1) - 1 = b /\ (b - 1) + 1 = b
      BY <2>1 DEF Batches
    <3>2. stored'[j] = 1 .. (b + 1) - 1
      BY <1>a, <2>1, <2>3, <2>6, <3>1 DEF StoredShape
    <3>3. ASSUME budget'.lost = MaxLost
          PROVE  Cardinality(Sent(j)') = (b + 1) - 1
      <4>1. budget'.lost = budget.lost
        BY <1>c, <3>3
      <4>2. Cardinality(Sent(j)) = b - 1
        BY <1>a, <1>c, <2>6, <3>3 DEF StoredShape
      <4>3. Cardinality(Sent(j)') = Cardinality(Sent(j)) + 1
        BY <2>2, <2>3, <2>6, <4>1, PublishShape
      <4>4. QED
        BY <3>1, <4>2, <4>3
    <3>4. QED
      BY <2>4, <2>5, <2>6, <3>2, <3>3 DEF StoredShape
  <2>7. CASE i # j
    <3>1. Sent(j)' = Sent(j)
      BY <2>2, <2>3, <2>7, PublishSent
    <3>2. QED
      BY <1>d, <2>3, <2>4, <2>5, <2>7, <3>1
  <2>8. QED
    BY <2>6, <2>7
<1>10. CASE BatchFailed(i)
  <2>1. importer[i].batch \in Batches
    BY <1>10 DEF BatchFailed, Importing, TypeOK, Handler
  <2>2. /\ BatchEvent(i, "import.batch.failed") \in Event
        /\ BatchEvent(i, "import.batch.failed").job = i
        /\ BatchEvent(i, "import.batch.failed").type # Succeeded
    BY <1>h, <2>1 DEF BatchTypes
  <2>3. QED
    BY <1>10, <1>e, <2>2 DEF BatchFailed
<1>11. CASE ImportFailed(i)
  BY <1>11, <1>e, <1>g DEF ImportFailed
<1>12. CASE ImportSucceeded(i)
  BY <1>12, <1>e, <1>g DEF ImportSucceeded
<1>13. CASE ImporterBreaks(i)
  <2>1. Importing(i, importer[i].pc, "error")
    BY <1>13 DEF ImporterBreaks, Importing
  <2>2. QED
    BY <1>13, <1>f, <2>1 DEF ImporterBreaks, redis
<1>14. QED
  BY <1>1, <1>2, <1>3, <1>4, <1>5, <1>6, <1>7, <1>8, <1>9, <1>10, <1>11, <1>12,
     <1>13 DEF Importer

\* Whoever records an event records an end only when it completes the job.
LEMMA EndsLastElsewhere ==
    ASSUME TypeOK, [Next]_vars, NEW j \in Jobs, EndsLast(j), UNCHANGED stream
    PROVE  EndsLast(j)'
<1>1. ASSUME run'[j].status = "completed"
      PROVE  \E m \in RecordedIds' : Ends(j, m)
  <2>1. RecordedIds \subseteq RecordedIds'
    BY RecordedGrow
  <2>2. CASE run'[j] = run[j]
    BY <1>1, <2>1, <2>2 DEF EndsLast
  <2>3. ASSUME NEW mid \in Nat, NEW e \in Event, Recording(mid, e), run'[j] # run[j]
        PROVE  \E m \in RecordedIds' : Ends(j, m)
    <3>1. /\ e.job = j /\ run'[j] = UpdatedRow(run[j], e)
          /\ [mid |-> mid, event |-> e] \in eventTable'
      BY <2>3 DEF Recording, RecordImportEvent, gcjobsDb, TypeOK
    <3>2. e.type = Finished
      BY <1>1, <3>1, StatusOf DEF TypeOK
    <3>3. mid \in 1 .. Len(stream) /\ e = stream[mid]
      BY <2>3, <3>2 DEF Recording, OwnTypes, Finished
    <3>4. mid \in RecordedIds'
      <4>1. mid # NullId
        BY <3>3
      <4>2. [mid |-> mid, event |-> e].mid = mid
        OBVIOUS
      <4>3. QED
        BY <3>1, <4>1, <4>2 DEF RecordedIds
    <3>5. QED
      BY <3>1, <3>2, <3>3, <3>4 DEF Ends
  <2>4. CASE UNCHANGED gcjobsDb
    BY <2>2, <2>4 DEF gcjobsDb
  <2>5. QED
    BY <2>2, <2>3, <2>4, DatabaseSteps
<1>2. QED
  BY <1>1 DEF EndsLast, Ends, Sent

LEMMA ShapeInvHolds == Spec => []ShapeInv
<1>1. Init => ShapeInv
  <2> SUFFICES ASSUME Init PROVE ShapeInv
    OBVIOUS
  <2>1. 1 .. Len(stream) = {} /\ RecordedIds = {}
    BY DEF Init, RecordedIds
  <2>2. BudgetInv
    BY LimitsAssumption DEF Init, BudgetInv
  <2>3. ASSUME NEW j \in Jobs PROVE StoredShape(j) /\ EndsLast(j)
    <3>1. Sent(j) = {}
      BY <2>1 DEF Sent
    <3>2. /\ importer[j] = [pc |-> "none", batch |-> 1] /\ stored[j] = {}
          /\ run[j].status = "absent"
      BY DEF Init, AbsentRow
    <3>3. QED
      BY <2>1, <3>1, <3>2, FS_EmptySet DEF StoredShape, EndsLast
  <2>4. QED
    BY <2>2, <2>3 DEF ShapeInv
<1>2. TypeOK /\ StoreInv /\ WholeInv /\ ShapeInv /\ [Next]_vars => ShapeInv'
  <2> SUFFICES ASSUME TypeOK, StoreInv, WholeInv, ShapeInv, [Next]_vars
               PROVE  ShapeInv'
    OBVIOUS
  <2>a. BudgetInv' /\ (budget'.lost = MaxLost => budget.lost = MaxLost)
    <3>1. budget.lost \in Nat /\ MaxLost \in Nat
      BY LimitsAssumption DEF TypeOK, Budget
    <3>2. QED
      BY <3>1, BudgetShrinks DEF ShapeInv, BudgetInv
  <2>b. RecordedIds \subseteq 1 .. Len(stream)
    BY DEF StoreInv, FromStream, RecordedIds
  <2>c. ASSUME UNCHANGED <<stream, stored>>,
               \A j \in Jobs :
                 /\ importer'[j].batch = importer[j].batch
                 /\ \/ importer'[j].pc = importer[j].pc
                    \/ importer[j].pc = "none" /\ importer'[j].pc = "received"
        PROVE  ShapeInv'
    <3> SUFFICES ASSUME NEW j \in Jobs PROVE StoredShape(j)' /\ EndsLast(j)'
      BY <2>a DEF ShapeInv
    <3>1. EndsLast(j)'
      BY <2>c, EndsLastElsewhere DEF ShapeInv
    <3>2. Sent(j)' = Sent(j)
      BY <2>c DEF Sent
    <3>3. StoredShape(j)'
      BY <2>a, <2>c, <3>2 DEF ShapeInv, StoredShape
    <3>4. QED
      BY <3>1, <3>3
  <2>1. ASSUME NEW i \in Jobs, Importer(i) \/ ImporterBreaks(i) PROVE ShapeInv'
    BY <2>1, <2>a, <2>b, ShapeByImporter DEF ShapeInv
  <2>2. ASSUME NEW i \in Jobs, ProxySend(i) PROVE ShapeInv'
    <3>1. importer[i].pc = "none" /\ UNCHANGED <<stream, stored>>
      BY <2>2 DEF ProxySend, WholeInv, EndsWhole, redis
    <3>2. \A j \in Jobs :
            /\ importer'[j].batch = importer[j].batch
            /\ \/ importer'[j].pc = importer[j].pc
               \/ importer[j].pc = "none" /\ importer'[j].pc = "received"
      BY <2>2, <3>1 DEF ProxySend, TypeOK, Handler
    <3>3. QED
      BY <2>c, <3>1, <3>2
  <2>3. CASE UNCHANGED <<stream, stored, importer>>
    BY <2>3, <2>c
  <2>4. \/ UNCHANGED <<stream, stored, importer>>
        \/ \E i \in Jobs : Importer(i) \/ ImporterBreaks(i) \/ ProxySend(i)
    BY DEF Next, vars, Proxy, ProxyFails, ProxySucceeds, CheckIfRunning,
       RecordForwardingFailure, ConnectionBreaks, ProxyTaskDies, QueueImportRequest,
       Listener, ClaimIdleEntries, NothingToClaim, ReadNewEntries, NothingToRead,
       RecordMessage, AckMessage, ListenerStops, GoDown, ComeUp, IdleTimePasses,
       redis, listenerOnly
  <2>5. QED
    BY <2>1, <2>2, <2>3, <2>4
<1>3. QED
  BY <1>1, <1>2, StoreInvHolds, WholeInvHolds, TypeCorrect, PTL DEF Spec

\* What has been handed out is recorded up to the listener's current message.
Ordered(r) ==
    /\ listener[r].pc \in {"claim", "read", "record", "ack"}
    /\ listener[r].pc \in {"claim", "read"} => listener[r].batch = {}
    /\ pending = listener[r].batch
    /\ \A m \in listener[r].batch : \A k \in 1 .. delivered :
         m <= k => k \in listener[r].batch
    /\ RecordedIds =
         {m \in 1 .. delivered :
            \/ m \notin listener[r].batch
            \/ listener[r].pc = "ack" /\ IsCurrent(r, m)}

Calm == Undisturbed /\ OneListener /\ trimmed = 0

OrderInv == Calm => \A r \in Replicas : Ordered(r)

\* It cannot have been less calm before.
LEMMA CalmBefore ==
    ASSUME TypeOK, BudgetInv, [Next]_vars, Calm'
    PROVE  Calm /\ UNCHANGED budget
<1>1. budget \in Budget
  BY DEF TypeOK
<1>2. /\ budget'.crashes = MaxCrashes /\ budget'.errors = MaxErrors
      /\ budget'.breaks = MaxBreaks /\ budget'.lost = MaxLost
  BY DEF Calm, Undisturbed
<1>3. /\ budget.crashes = MaxCrashes /\ budget.errors = MaxErrors
      /\ budget.breaks = MaxBreaks /\ budget.lost = MaxLost
  BY <1>1, <1>2, BudgetShrinks, LimitsAssumption DEF BudgetInv, Budget
<1>4. Undisturbed /\ UNCHANGED budget
  BY <1>1, <1>3 DEF Budget, Undisturbed, Calm
<1>5. trimmed <= trimmed'
  <2>1. trimmed \in Nat
    BY DEF TypeOK
  <2>2. ASSUME NEW i \in Jobs, Importer(i) \/ ImporterBreaks(i)
        PROVE  trimmed' = trimmed
                 \/ trimmed' \in trimmed .. (Len(stream) + 1 - StreamCap)
    BY <2>2 DEF Importer, RejectRequest, StartImport, ParsingFails, StatsParsed,
       StatsCompleted, Parsed, BatchUpserted, BatchFails, BatchSucceeded,
       BatchFailed, ImportFailed, ImportSucceeded, ImporterBreaks, Publish, redis
  <2>3. ASSUME NEW i \in Jobs, Importer(i) \/ ImporterBreaks(i)
        PROVE  trimmed <= trimmed'
    BY <2>1, <2>2, <2>3
  <2>4. \/ UNCHANGED trimmed
        \/ \E i \in Jobs : Importer(i) \/ ImporterBreaks(i)
    BY DEF Next, vars, Proxy, ProxySend, ProxyFails, ProxySucceeds, CheckIfRunning,
       RecordForwardingFailure, ConnectionBreaks, ProxyTaskDies, QueueImportRequest,
       Listener, ClaimIdleEntries, NothingToClaim, ReadNewEntries, NothingToRead,
       RecordMessage, AckMessage, ListenerStops, GoDown, ComeUp, IdleTimePasses,
       redis, listenerOnly
  <2>5. QED
    BY <2>1, <2>3, <2>4
<1>6. trimmed = 0
  BY <1>5 DEF Calm, TypeOK
<1>7. QED
  BY <1>4, <1>6 DEF Calm, OneListener

LEMMA OrderKept ==
    ASSUME NEW r \in Replicas, Ordered(r),
           UNCHANGED <<delivered, pending, listener>>, RecordedIds' = RecordedIds
    PROVE  Ordered(r)'
BY DEF Ordered, IsCurrent

\* The steps of the only listener keep the order.
LEMMA OrderByListener ==
    ASSUME TypeOK, TypeOK', NEW r \in Replicas, Ordered(r), trimmed = 0, Listener(r)
    PROVE  Ordered(r)'
<1>a. ASSUME NEW from, NEW to, Step(r, from, to)
      PROVE  listener[r].pc = from /\ listener'[r] = to
  BY <1>a DEF Step, TypeOK
<1>b. UNCHANGED gcjobsDb => RecordedIds' = RecordedIds
  BY DEF RecordedIds, gcjobsDb
<1>c. /\ delivered \in Nat /\ delivered' \in Nat
      /\ listener[r].batch \subseteq 1 .. delivered
  BY DEF TypeOK
<1>1. CASE ClaimIdleEntries(r)
  <2>1. listener[r].pc = "claim" /\ Claimable(r) # {}
    BY <1>1, <1>a DEF ClaimIdleEntries
  <2>2. pending = {}
    BY <2>1 DEF Ordered
  <2>3. QED
    BY <2>1, <2>2 DEF Claimable, TypeOK
<1>2. CASE NothingToClaim(r)
  <2>1. /\ listener[r].pc = "claim"
        /\ listener'[r] = [pc |-> "read", batch |-> {}, cursor |-> 0]
        /\ pending' = pending \ Vanished(r)
        /\ UNCHANGED <<gcjobsDb, delivered>>
    BY <1>2, <1>a DEF NothingToClaim
  <2>2. pending = {} /\ pending' = {}
    BY <2>1 DEF Ordered
  <2>3. RecordedIds = 1 .. delivered
    BY <2>1, <2>2 DEF Ordered
  <2>4. QED
    BY <1>b, <2>1, <2>2, <2>3 DEF Ordered
<1>3. CASE ReadNewEntries(r)
  <2>1. /\ listener[r].pc = "read"
        /\ listener'[r] = [listener[r] EXCEPT !.pc = "record", !.batch = NextUnread]
        /\ delivered' \in NextUnread
        /\ \A m \in NextUnread : m <= delivered'
        /\ pending' = pending \cup NextUnread
        /\ UNCHANGED gcjobsDb
    BY <1>3, <1>a DEF ReadNewEntries
  <2>2. pending' = NextUnread /\ RecordedIds = 1 .. delivered
    BY <2>1 DEF Ordered
  <2>3. listener'[r].pc = "record" /\ listener'[r].batch = NextUnread
    BY <2>1 DEF TypeOK
  <2>4. \A m \in NextUnread : m \in Nat /\ m > delivered
    BY DEF NextUnread, Unread, TypeOK
  <2>5. \A m \in 1 .. delivered' : m > delivered => m \in NextUnread
    <3> SUFFICES ASSUME NEW m \in 1 .. delivered', m > delivered PROVE m \in NextUnread
      OBVIOUS
    <3>1. m > trimmed
      OBVIOUS
    <3>2. QED
      BY <2>1, <3>1, NothingSkipped
  <2>6. \A m \in NextUnread : \A k \in 1 .. delivered' : m <= k => k \in NextUnread
    BY <1>c, <2>4, <2>5
  <2>7. 1 .. delivered = {m \in 1 .. delivered' : m \notin NextUnread}
    <3>1. delivered <= delivered'
      BY <1>c, <2>1, <2>4
    <3>2. QED
      BY <1>c, <2>4, <2>5, <3>1
  <2>8. QED
    BY <1>b, <2>1, <2>2, <2>3, <2>6, <2>7 DEF Ordered
<1>4. CASE NothingToRead(r)
  <2>1. /\ listener[r].pc = "read"
        /\ listener'[r] = [listener[r] EXCEPT !.pc = "claim"]
        /\ UNCHANGED <<gcjobsDb, pending, delivered>>
    BY <1>4, <1>a DEF NothingToRead, redis
  <2>2. listener'[r].pc = "claim" /\ listener'[r].batch = listener[r].batch
    BY <2>1 DEF TypeOK
  <2>3. listener[r].batch = {} /\ RecordedIds = 1 .. delivered
    BY <2>1 DEF Ordered
  <2>4. QED
    BY <1>b, <2>1, <2>2, <2>3 DEF Ordered
<1>5. CASE RecordMessage(r)
  <2>1. PICK m \in listener[r].batch :
          /\ IsCurrent(r, m)
          /\ Step(r, "record", [listener[r] EXCEPT !.pc = "ack"])
          /\ RecordImportEvent(m, stream[m])
          /\ UNCHANGED <<redis, listenerOnly>>
    BY <1>5 DEF RecordMessage
  <2>2. /\ listener[r].pc = "record" /\ listener'[r].pc = "ack"
        /\ listener'[r].batch = listener[r].batch
        /\ UNCHANGED <<pending, delivered>>
    BY <1>a, <2>1 DEF TypeOK, redis
  <2>3. m \in 1 .. delivered /\ m # NullId
    BY <1>c
  <2>4. RecordedIds' = RecordedIds \cup {m}
    <3>1. CASE AlreadyRecorded(m) /\ UNCHANGED gcjobsDb
      BY <1>b, <3>1 DEF AlreadyRecorded
    <3>2. CASE eventTable' = eventTable \cup {[mid |-> m, event |-> stream[m]]}
      <4> DEFINE row == [mid |-> m, event |-> stream[m]]
      <4>1. \A x : x \in RecordedIds' <=> x # NullId /\ \E t \in eventTable \cup {row} : x = t.mid
        BY <3>2 DEF RecordedIds
      <4>2. \A x : x \in RecordedIds <=> x # NullId /\ \E t \in eventTable : x = t.mid
        BY DEF RecordedIds
      <4>3. row.mid = m
        OBVIOUS
      <4> HIDE DEF row
      <4>4. QED
        BY <2>3, <4>1, <4>2, <4>3
    <3>3. QED
      BY <2>1, <3>1, <3>2 DEF RecordImportEvent
  <2>5. \A k \in 1 .. delivered : IsCurrent(r, k) <=> k = m
    BY <1>c, <2>1 DEF IsCurrent
  <2>6. \A k : IsCurrent(r, k)' <=> IsCurrent(r, k)
    BY <2>2 DEF IsCurrent
  <2>7. RecordedIds = {k \in 1 .. delivered : k \notin listener[r].batch}
    BY <2>2 DEF Ordered
  <2>8. RecordedIds' =
          {k \in 1 .. delivered : k \notin listener[r].batch \/ IsCurrent(r, k)'}
    BY <2>3, <2>4, <2>5, <2>6, <2>7
  <2>9. QED
    BY <2>2, <2>8 DEF Ordered
<1>6. CASE AckMessage(r)
  <2>1. PICK m \in listener[r].batch :
          /\ IsCurrent(r, m)
          /\ Step(r, "ack",
                  [listener[r] EXCEPT
                      !.pc = IF listener[r].batch = {m} THEN "claim" ELSE "record",
                      !.batch = @ \ {m}])
          /\ pending' = pending \ {m}
          /\ UNCHANGED <<gcjobsDb, delivered>>
    BY <1>6 DEF AckMessage
  <2>2. /\ listener[r].pc = "ack"
        /\ listener'[r].pc = IF listener[r].batch = {m} THEN "claim" ELSE "record"
        /\ listener'[r].batch = listener[r].batch \ {m}
    <3> DEFINE to == [listener[r] EXCEPT
                        !.pc = IF listener[r].batch = {m} THEN "claim" ELSE "record",
                        !.batch = @ \ {m}]
    <3>1. /\ to.pc = IF listener[r].batch = {m} THEN "claim" ELSE "record"
          /\ to.batch = listener[r].batch \ {m}
      BY DEF TypeOK
    <3>2. listener[r].pc = "ack" /\ listener'[r] = to
      BY <1>a, <2>1
    <3>3. QED
      BY <3>1, <3>2
  <2>3. m \in 1 .. delivered /\ \A k \in listener[r].batch : m <= k
    BY <1>c, <2>1 DEF IsCurrent
  <2>4. \A k \in 1 .. delivered : IsCurrent(r, k) <=> k = m
    BY <1>c, <2>1 DEF IsCurrent
  <2>5. RecordedIds' = {k \in 1 .. delivered : k \notin listener'[r].batch}
    BY <1>b, <2>1, <2>2, <2>4 DEF Ordered
  <2>6. \A x \in listener'[r].batch : \A k \in 1 .. delivered :
          x <= k => k \in listener'[r].batch
    <3> SUFFICES ASSUME NEW x \in listener[r].batch, x # m,
                        NEW k \in 1 .. delivered, x <= k
                 PROVE  k \in listener[r].batch /\ k # m
      BY <2>2
    <3>1. k \in listener[r].batch
      BY DEF Ordered
    <3>2. k # m
      BY <1>c, <2>3
    <3>3. QED
      BY <3>1, <3>2
  <2>7. QED
    BY <2>1, <2>2, <2>5, <2>6 DEF Ordered
<1>7. QED
  BY <1>1, <1>2, <1>3, <1>4, <1>5, <1>6 DEF Listener

\* A completed job has recorded its end, and with it everything before.
LEMMA OrderInvSuffices ==
    ASSUME TypeOK, CountInv, StoreInv, WholeInv, ShapeInv, OrderInv
    PROVE  ResultsAreComplete
<1> SUFFICES ASSUME Calm, NEW j \in Jobs, MapStatus(run[j]) = "successful"
             PROVE  run[j].okBatches = Cardinality(stored[j])
  BY DEF ResultsAreComplete, Calm
<1> DEFINE E == EventsOf(j, Succeeded)
           idOf == [t \in E |-> t.mid]
           b == importer[j].batch
<1>1. PICK r : r \in Replicas
  BY ReplicasAssumption
<1>2. Ordered(r)
  BY <1>1 DEF OrderInv
<1>3. run[j].status = "completed"
  <2>1. ASSUME NEW row \in Row, MapStatus(row) = "successful"
        PROVE  row.status = "completed"
    <3>1. row.status # "completed" => MapStatus(row) \in {"failed", "accepted", "running"}
      BY Zenon DEF MapStatus
    <3>2. QED
      BY <2>1, <3>1
  <2>2. QED
    BY <2>1 DEF TypeOK
<1>4. PICK m \in RecordedIds : Ends(j, m)
  BY <1>3 DEF ShapeInv, EndsLast
<1>5. m \in 1 .. delivered /\ delivered \in Nat /\ delivered <= Len(stream)
  BY <1>2 DEF Ordered, TypeOK
<1>6. \A k \in Sent(j) : k < m /\ k \in 1 .. delivered
  <2>1. m \in 1 .. Len(stream)
    BY <1>5 DEF TypeOK
  <2>2. \A k \in Sent(j) : k \in Nat \ {0} /\ k < m
    BY <1>4, <2>1 DEF ShapeInv, EndsLast, Sent
  <2>3. QED
    BY <1>5, <2>2
<1>7. Sent(j) \subseteq RecordedIds
  <2> SUFFICES ASSUME NEW k \in Sent(j), k \in listener[r].batch PROVE FALSE
    BY <1>2, <1>6 DEF Ordered
  <2>1. m \in listener[r].batch
    BY <1>2, <1>5, <1>6 DEF Ordered
  <2>2. IsCurrent(r, m)
    BY <1>2, <2>1 DEF Ordered
  <2>3. m <= k
    BY <2>2 DEF IsCurrent
  <2>4. QED
    BY <1>5, <1>6, <2>3
<1>8. idOf \in Bijection(E, Sent(j))
  <2>1. \A t \in E : t.mid \in Sent(j) /\ t.event = stream[t.mid]
    BY DEF EventsOf, StoreInv, FromStream, Sent
  <2>2. \A t, u \in E : t.mid = u.mid => t = u
    <3> SUFFICES ASSUME NEW t \in E, NEW u \in E, t.mid = u.mid PROVE t = u
      OBVIOUS
    <3>1. t.event = u.event
      BY <2>1
    <3>2. t \in [mid : Nat, event : Event] /\ u \in [mid : Nat, event : Event]
      BY DEF TypeOK, EventsOf
    <3>3. QED
      BY <3>1, <3>2
  <2>3. \A k \in Sent(j) : \E t \in E : t.mid = k
    <3> SUFFICES ASSUME NEW k \in Sent(j) PROVE \E t \in E : t.mid = k
      OBVIOUS
    <3>1. PICK t \in eventTable : t.mid = k /\ k # NullId
      BY <1>7 DEF RecordedIds
    <3>2. t.event = stream[k]
      BY <3>1 DEF StoreInv, FromStream
    <3>3. t \in E
      BY <3>1, <3>2 DEF EventsOf, Sent
    <3>4. QED
      BY <3>1, <3>3
  <2> HIDE DEF E
  <2>4. \A t \in E : idOf[t] = t.mid
    OBVIOUS
  <2>5. idOf \in Injection(E, Sent(j))
    BY <2>1, <2>2, <2>4 DEF Injection, IsInjective
  <2>6. idOf \in Surjection(E, Sent(j))
    BY <2>1, <2>3, <2>4 DEF Surjection
  <2>7. QED
    BY <2>5, <2>6 DEF Bijection
<1>9. Cardinality(E) = Cardinality(Sent(j))
  <2>1. IsFiniteSet(E)
    BY FS_Subset DEF CountInv, EventsOf
  <2>2. ExistsBijection(E, Sent(j))
    BY <1>8 DEF ExistsBijection
  <2> HIDE DEF E
  <2>3. QED
    BY <2>1, <2>2, FS_Bijection
<1>10. run[j].okBatches = Cardinality(E)
  BY DEF CountInv, CountersMatchEvents, Succeeded
<1>11. Cardinality(Sent(j)) = b - 1 /\ stored[j] = 1 .. b - 1
  <2>1. importer[j].pc = "ok"
    BY <1>3 DEF WholeInv, EndsWhole
  <2>2. budget.lost = MaxLost
    BY DEF Calm, Undisturbed
  <2>3. QED
    BY <2>1, <2>2 DEF ShapeInv, StoredShape
<1>12. Cardinality(1 .. b - 1) = b - 1
  <2>1. ASSUME NEW n \in Nat PROVE Cardinality(1 .. n) = n
    BY <2>1, FS_Interval
  <2>2. b - 1 \in Nat
    BY DEF TypeOK, Handler
  <2>3. QED
    BY <2>1, <2>2
<1>13. QED
  BY <1>9, <1>10, <1>11, <1>12

\* While nothing fails and one process listens, the summary of a successful job
\* counts every batch that was stored.
THEOREM SummariesAreComplete == Spec => []ResultsAreComplete
<1>1. Init => OrderInv
  <2> SUFFICES ASSUME Init, NEW r \in Replicas PROVE Ordered(r)
    BY DEF OrderInv
  <2>1. RecordedIds = {} /\ 1 .. delivered = {}
    BY DEF Init, RecordedIds
  <2>2. QED
    BY <2>1 DEF Init, Ordered, FreshListener
<1>2. TypeOK /\ TypeOK' /\ ShapeInv /\ OrderInv /\ [Next]_vars => OrderInv'
  <2> SUFFICES ASSUME TypeOK, TypeOK', ShapeInv, OrderInv, [Next]_vars, Calm',
                      NEW r \in Replicas
               PROVE  Ordered(r)'
    BY DEF OrderInv
  <2>1. Calm /\ UNCHANGED budget
    BY CalmBefore DEF ShapeInv
  <2>2. Ordered(r) /\ listener[r].pc # "down" /\ trimmed = 0
    BY <2>1 DEF OrderInv, Ordered, Calm
  <2>3. \A s \in Replicas : s = r
    BY <2>1 DEF Calm, OneListener
  <2>4. CASE Listener(r)
    BY <2>2, <2>4, OrderByListener
  <2>5. budget \in Budget
    BY DEF TypeOK
  <2>6. /\ budget.crashes > 0 => [budget EXCEPT !.crashes = @ - 1] # budget
        /\ budget.errors > 0 => [budget EXCEPT !.errors = @ - 1] # budget
    BY <2>5 DEF Budget
  <2>7. CASE ~ Listener(r)
    <3>1. UNCHANGED <<delivered, pending, listener>>
      <4>1. ASSUME NEW i \in Jobs, Importer(i) \/ ImporterBreaks(i)
            PROVE  UNCHANGED <<delivered, pending, listener>>
        BY <4>1 DEF Importer, RejectRequest, StartImport, ParsingFails, StatsParsed,
           StatsCompleted, Parsed, BatchUpserted, BatchFails, BatchSucceeded,
           BatchFailed, ImportFailed, ImportSucceeded, ImporterBreaks, Publish,
           importerOnly, redis, group
      <4>2. ASSUME NEW i \in Jobs, NEW s \in Replicas,
                   QueueImportRequest(s, i) \/ Proxy(i)
                     \/ ConnectionBreaks(i) \/ ProxyTaskDies(i)
            PROVE  UNCHANGED <<delivered, pending, listener>>
        BY <4>2 DEF QueueImportRequest, Proxy, ProxySend, ProxyFails, ProxySucceeds,
           CheckIfRunning, RecordForwardingFailure, ConnectionBreaks, ProxyTaskDies,
           redis
      <4>3. ~ (ListenerStops(r) \/ GoDown(r) \/ ComeUp(r))
        BY <2>1, <2>2, <2>6 DEF ListenerStops, GoDown, ComeUp
      <4>4. QED
        BY <2>3, <2>7, <4>1, <4>2, <4>3 DEF Next, vars, IdleTimePasses
    <3>2. RecordedIds' = RecordedIds
      <4>1. ASSUME NEW i \in Jobs, NEW e \in Event, RecordImportEvent(NullId, e)
            PROVE  RecordedIds' = RecordedIds
        <5>1. CASE UNCHANGED gcjobsDb
          BY <5>1 DEF RecordedIds, gcjobsDb
        <5>2. CASE eventTable' = eventTable \cup {[mid |-> NullId, event |-> e]}
          <6> DEFINE row == [mid |-> NullId, event |-> e]
          <6>1. /\ \A x : x \in RecordedIds' <=>
                       x # NullId /\ \E t \in eventTable \cup {row} : x = t.mid
                /\ \A x : x \in RecordedIds <=> x # NullId /\ \E t \in eventTable : x = t.mid
            BY <5>2 DEF RecordedIds
          <6>2. row.mid = NullId
            OBVIOUS
          <6> HIDE DEF row
          <6>3. QED
            BY <6>1, <6>2
        <5>3. QED
          BY <4>1, <5>1, <5>2 DEF RecordImportEvent
      <4>2. ASSUME NEW i \in Jobs, NEW s \in Replicas, QueueImportRequest(s, i)
            PROVE  RecordedIds' = RecordedIds
        <5>1. EventOf(i, "import.accepted", "accepted") \in Event
          BY DEF EventOf, Event, EventTypes, Phases
        <5>2. QED
          BY <4>1, <4>2, <5>1 DEF QueueImportRequest
      <4>3. ASSUME NEW i \in Jobs, RecordForwardingFailure(i)
            PROVE  RecordedIds' = RecordedIds
        <5>1. EventOf(i, "import.completed.failed", "forwarding") \in Event
          BY DEF EventOf, Event, EventTypes, Phases
        <5>2. QED
          BY <4>1, <4>3, <5>1 DEF RecordForwardingFailure
      <4>4. CASE UNCHANGED gcjobsDb
        BY <4>4 DEF RecordedIds, gcjobsDb
      <4>5. \/ UNCHANGED gcjobsDb
            \/ \E i \in Jobs : \/ \E s \in Replicas : QueueImportRequest(s, i)
                               \/ RecordForwardingFailure(i)
        BY <2>3, <2>7 DEF Next, vars, Proxy, ProxySend, ProxyFails, ProxySucceeds,
           CheckIfRunning, ConnectionBreaks, ProxyTaskDies, Importer,
           RejectRequest, StartImport, ParsingFails, StatsParsed,
           StatsCompleted, Parsed, BatchUpserted, BatchFails, BatchSucceeded,
           BatchFailed, ImportFailed, ImportSucceeded, ImporterBreaks,
           importerOnly, ListenerStops, GoDown, ComeUp, IdleTimePasses, gcjobsDb
      <4>6. QED
        BY <4>2, <4>3, <4>4, <4>5
    <3>3. QED
      BY <2>2, <3>1, <3>2, OrderKept
  <2>8. QED
    BY <2>4, <2>7
<1>3. TypeOK /\ CountInv /\ StoreInv /\ WholeInv /\ ShapeInv /\ OrderInv
        => ResultsAreComplete
  BY OrderInvSuffices
<1>4. QED
  BY <1>1, <1>2, <1>3, CountInvHolds, StoreInvHolds, WholeInvHolds, ShapeInvHolds,
     TypeCorrect, PTL DEF Spec

-----------------------------------------------------------------------------
(* The ledger.                                                                *)

Failed == "import.batch.failed"

\* Entry m reports a failed batch of job j.
Reports(j, m) == stream[m].job = j /\ stream[m].type = Failed

\* The dataset holds the batches up to the one the handler is at, with or
\* without it.
EndsAt(j) == stored[j] \in {1 .. importer[j].batch - 1, 1 .. importer[j].batch}

\* An entry that reports success is about a batch that is stored; one that
\* reports failure is about the batch the handler stopped at, is the only one of
\* its job, and the job counts it when it is recorded.
Told(j) ==
    /\ \A m \in 1 .. Len(stream) : stream[m].job = j /\ stream[m].type \in BatchTypes =>
          /\ stream[m].phase = "importing"
          /\ stream[m].total = TotalFeatures
    /\ \A m \in 1 .. Len(stream) : stream[m].job = j /\ stream[m].type = Succeeded =>
          \E b \in stored[j] : stream[m].size = BatchSizes[b]
    /\ \A m \in 1 .. Len(stream) : Reports(j, m) =>
          /\ importer[j].pc \in {"failing", "error"}
          /\ importer[j].batch \in Batches
          /\ stream[m].size = BatchSizes[importer[j].batch]
    /\ \A m, n \in 1 .. Len(stream) : Reports(j, m) /\ Reports(j, n) => m = n
    /\ run[j].badBatches # 0 => \E m \in RecordedIds : Reports(j, m)

LedgerInv == \A j \in Jobs : EndsAt(j) /\ Told(j)

\* The handler of a job stays at its batch and says nothing of one.
LEMMA ToldKept ==
    ASSUME TypeOK, TotalInv, NEW j \in Jobs, Told(j), UNCHANGED gcjobsDb,
           stored[j] \subseteq stored'[j],
           importer[j].pc \in {"failing", "error"} =>
              /\ importer'[j].pc \in {"failing", "error"}
              /\ importer'[j].batch = importer[j].batch,
           \A m \in 1 .. Len(stream) : m \in 1 .. Len(stream') /\ stream'[m] = stream[m],
           \A m \in 1 .. Len(stream') :
              \/ m \in 1 .. Len(stream) /\ stream'[m] = stream[m]
              \/ stream'[m].job # j \/ stream'[m].type \notin BatchTypes
    PROVE  Told(j)'
<1>1. /\ RecordedIds' = RecordedIds /\ run' = run
      /\ RecordedIds \subseteq 1 .. Len(stream)
  BY DEF TotalInv, RecordedIds, gcjobsDb
<1>2. \A m \in 1 .. Len(stream') :
        stream'[m].job = j /\ stream'[m].type \in BatchTypes =>
          m \in 1 .. Len(stream) /\ stream'[m] = stream[m]
  OBVIOUS
<1>3. \A m \in 1 .. Len(stream') : Reports(j, m)' => m \in 1 .. Len(stream) /\ Reports(j, m)
  BY <1>2 DEF Reports, Failed, BatchTypes
<1>4. \A m \in RecordedIds : Reports(j, m) => Reports(j, m)'
  BY <1>1 DEF Reports
<1>5. \A m \in 1 .. Len(stream') : stream'[m].job = j /\ stream'[m].type = Succeeded =>
        \E b \in stored'[j] : stream'[m].size = BatchSizes[b]
  BY <1>2 DEF Told, Succeeded, BatchTypes
<1>6. \A m \in 1 .. Len(stream') : Reports(j, m)' =>
        /\ importer'[j].pc \in {"failing", "error"}
        /\ importer'[j].batch \in Batches
        /\ stream'[m].size = BatchSizes[importer'[j].batch]
  BY <1>2, <1>3 DEF Told, Reports, BatchTypes, Failed
<1>7. \A m \in 1 .. Len(stream') : stream'[m].job = j /\ stream'[m].type \in BatchTypes =>
         stream'[m].phase = "importing" /\ stream'[m].total = TotalFeatures
  BY <1>2 DEF Told
<1>8. \A m, n \in 1 .. Len(stream') : Reports(j, m)' /\ Reports(j, n)' => m = n
  BY <1>3 DEF Told
<1>9. run'[j].badBatches # 0 => \E m \in RecordedIds' : Reports(j, m)'
  BY <1>1, <1>4 DEF Told
<1> QED
  BY <1>5, <1>6, <1>7, <1>8, <1>9 DEF Told

\* A report on the current batch, which is stored if it is one of success.
LEMMA ToldMore ==
    ASSUME TypeOK, TotalInv, NEW j \in Jobs, EndsAt(j), Told(j), UNCHANGED <<gcjobsDb, stored>>,
           importer[j].pc \in {"upserted", "rejected"}, importer[j].batch \in Batches,
           NEW e \in Event, Publish(e), e.job = j, e.type \in BatchTypes,
           e.phase = "importing", e.total = TotalFeatures,
           e.size = BatchSizes[importer[j].batch],
           e.type = Succeeded => importer[j].batch \in stored[j],
           e.type = Failed => importer'[j].pc = "failing" /\ importer'[j].batch = importer[j].batch
    PROVE  Told(j)'
<1>1. /\ RecordedIds' = RecordedIds /\ run' = run
      /\ RecordedIds \subseteq 1 .. Len(stream)
  BY DEF TotalInv, RecordedIds, gcjobsDb
<1>2. /\ \A m \in 1 .. Len(stream) : m \in 1 .. Len(stream') /\ stream'[m] = stream[m]
      /\ \A m \in 1 .. Len(stream') :
           \/ m \in 1 .. Len(stream) /\ stream'[m] = stream[m]
           \/ stream'[m] = e
  BY PublishAnnounced
<1>3. \A m, n \in 1 .. Len(stream') :
        m \notin 1 .. Len(stream) /\ n \notin 1 .. Len(stream) => m = n
  <2>1. Len(stream') \in {Len(stream), Len(stream) + 1} /\ Len(stream) \in Nat
    BY DEF Publish, redis, TypeOK
  <2> QED
    BY <2>1
<1>4. \A m \in 1 .. Len(stream) : ~ Reports(j, m)
  BY DEF Told
<1>5. \A m \in 1 .. Len(stream') : Reports(j, m)' =>
         m \notin 1 .. Len(stream) /\ stream'[m] = e /\ e.type = Failed
  BY <1>2, <1>4 DEF Reports
<1>6. run'[j].badBatches = 0
  <2>1. run[j].badBatches = 0
    BY <1>1, <1>4 DEF Told
  <2> QED
    BY <1>1, <2>1
<1>7. \A m \in 1 .. Len(stream') : stream'[m].job = j /\ stream'[m].type \in BatchTypes =>
         stream'[m].phase = "importing" /\ stream'[m].total = TotalFeatures
  BY <1>2 DEF Told
<1>8. \A m \in 1 .. Len(stream') : stream'[m].job = j /\ stream'[m].type = Succeeded =>
        \E b \in stored'[j] : stream'[m].size = BatchSizes[b]
  BY <1>2 DEF Told
<1>9. \A m \in 1 .. Len(stream') : Reports(j, m)' =>
        /\ importer'[j].pc \in {"failing", "error"}
        /\ importer'[j].batch \in Batches
        /\ stream'[m].size = BatchSizes[importer'[j].batch]
  BY <1>5
<1>10. \A m, n \in 1 .. Len(stream') : Reports(j, m)' /\ Reports(j, n)' => m = n
  BY <1>3, <1>5
<1> QED
  BY <1>6, <1>7, <1>8, <1>9, <1>10 DEF Told

\* One transaction of record_import_event counts a failed batch when it records
\* the report.
LEMMA ToldByRecording ==
    ASSUME TypeOK, TotalInv, NEW j \in Jobs, Told(j),
           NEW mid \in Nat, NEW e \in Event, Recording(mid, e)
    PROVE  Told(j)'
<1>1. UNCHANGED <<stream, stored, importer>>
  BY DEF Recording
<1>2. ASSUME run'[j].badBatches # 0
      PROVE  \E m \in RecordedIds' : Reports(j, m)'
  <2>1. CASE UNCHANGED gcjobsDb
    BY <1>1, <1>2, <2>1 DEF gcjobsDb, RecordedIds, Told, Reports
  <2>2. CASE /\ ~ AlreadyRecorded(mid)
             /\ eventTable' = eventTable \cup {[mid |-> mid, event |-> e]}
             /\ run' = [run EXCEPT ![e.job] = UpdatedRow(@, e)]
    <3>1. RecordedIds \subseteq RecordedIds' /\ (mid # NullId => mid \in RecordedIds')
      <4> DEFINE row == [mid |-> mid, event |-> e]
      <4>1. /\ \A x : x \in RecordedIds'
                  <=> x # NullId /\ \E t \in eventTable \cup {row} : x = t.mid
            /\ \A x : x \in RecordedIds <=> x # NullId /\ \E t \in eventTable : x = t.mid
        BY <2>2 DEF RecordedIds
      <4>2. row.mid = mid
        OBVIOUS
      <4> HIDE DEF row
      <4> QED
        BY <4>1, <4>2
    <3>2. CASE e.job = j /\ e.type = Failed
      <4>1. mid \in 1 .. Len(stream) /\ e = stream[mid] /\ mid # NullId
        BY <3>2 DEF Recording, OwnTypes, Failed
      <4>2. Reports(j, mid)'
        BY <1>1, <3>2, <4>1 DEF Reports
      <4> QED
        BY <3>1, <4>1, <4>2
    <3>3. CASE ~ (e.job = j /\ e.type = Failed)
      <4>1. run'[j].badBatches = run[j].badBatches
        <5>1. CASE e.job = j
          <6>1. run'[j] = UpdatedRow(run[j], e) /\ run[j] \in Row
            BY <2>2, <5>1 DEF TypeOK
          <6>2. run'[j].badBatches = run[j].badBatches + 0
            BY <3>3, <5>1, <6>1 DEF UpdatedRow, AddsBatch, Failed
          <6> QED
            BY <6>1, <6>2 DEF Row
        <5>2. CASE e.job # j
          BY <2>2, <5>2 DEF TypeOK, Event
        <5> QED
          BY <5>1, <5>2
      <4>2. PICK m \in RecordedIds : Reports(j, m)
        BY <1>2, <4>1 DEF Told
      <4> QED
        BY <1>1, <3>1, <4>2 DEF Reports
    <3> QED
      BY <3>2, <3>3
  <2> QED
    BY <2>1, <2>2 DEF Recording, RecordImportEvent
<1> QED
  BY <1>1, <1>2 DEF Told, Reports

\* The steps of the handler of job i.
LEMMA LedgerByImporter ==
    ASSUME TypeOK, TotalInv, ShapeInv, LedgerInv, NEW i \in Jobs,
           Importer(i) \/ ImporterBreaks(i), NEW j \in Jobs
    PROVE  EndsAt(j)' /\ Told(j)'
<1>a. EndsAt(j) /\ Told(j) /\ StoredShape(j)
  BY DEF LedgerInv, ShapeInv
<1>b. ASSUME NEW from, NEW to, Importing(i, from, to)
      PROVE  /\ importer'[j].batch = importer[j].batch
             /\ i # j => importer'[j] = importer[j]
             /\ importer[i].pc = from /\ importer'[i].pc = to
  BY <1>b DEF Importing, TypeOK, Handler
<1>c. TotalFeatures \in Nat
  BY BatchSizesAssumption
\* What is published about another job does not matter.
<1>d. ASSUME NEW e \in Event, Publish(e), e.job # j \/ e.type \notin BatchTypes,
             UNCHANGED <<gcjobsDb, stored>>,
             importer'[j].batch = importer[j].batch,
             importer[j].pc \in {"failing", "error"} =>
                importer'[j].pc \in {"failing", "error"}
      PROVE  EndsAt(j)' /\ Told(j)'
  <2>1. /\ \A m \in 1 .. Len(stream) : m \in 1 .. Len(stream') /\ stream'[m] = stream[m]
        /\ \A m \in 1 .. Len(stream') :
             \/ m \in 1 .. Len(stream) /\ stream'[m] = stream[m]
             \/ stream'[m] = e
    BY <1>d, PublishAnnounced
  <2>2. Told(j)'
    BY <1>a, <1>d, <2>1, ToldKept
  <2> QED
    BY <1>a, <1>d, <2>2 DEF EndsAt
\* A handler that moves on and perhaps stores its batch.
<1>e. ASSUME NEW from, NEW to, Importing(i, from, to), UNCHANGED <<gcjobsDb, stream>>,
             from # "error", from = "failing" => to = "error",
             i # j => stored'[j] = stored[j],
             \/ stored'[i] = stored[i]
             \/ from = "importing" /\ stored'[i] = stored[i] \cup {importer[i].batch}
      PROVE  EndsAt(j)' /\ Told(j)'
  <2>1. /\ importer'[j].batch = importer[j].batch
        /\ i # j => importer'[j] = importer[j]
        /\ importer[i].pc = from /\ importer'[i].pc = to
    BY <1>b, <1>e
  <2>2. EndsAt(j)'
    <3>1. CASE stored'[j] = stored[j]
      BY <1>a, <2>1, <3>1 DEF EndsAt
    <3>2. CASE stored'[j] # stored[j]
      <4>1. i = j /\ importer[j].pc = "importing"
        BY <1>e, <2>1, <3>2
      <4>2. stored'[j] = 1 .. importer[j].batch - 1 \cup {importer[j].batch}
        BY <1>a, <1>e, <3>2, <4>1 DEF StoredShape
      <4>3. importer[j].batch \in Nat \ {0}
        BY DEF TypeOK, Handler
      <4>4. stored'[j] = 1 .. importer[j].batch
        BY <4>2, <4>3
      <4> QED
        BY <2>1, <4>4 DEF EndsAt
    <3> QED
      BY <3>1, <3>2
  <2>3. Told(j)'
    <3>1. stored[j] \subseteq stored'[j]
      BY <1>e
    <3>2. importer[j].pc \in {"failing", "error"} =>
            /\ importer'[j].pc \in {"failing", "error"}
            /\ importer'[j].batch = importer[j].batch
      BY <1>e, <2>1
    <3> QED
      BY <1>a, <1>e, <3>1, <3>2, ToldKept
  <2> QED
    BY <2>2, <2>3
\* A handler that moves on and publishes something else than a report.
<1>f. ASSUME NEW from, NEW to, Importing(i, from, to), from # "error",
             from = "failing" => to = "error", NEW e \in Event, Publish(e),
             e.type \notin BatchTypes, UNCHANGED <<gcjobsDb, stored>>
      PROVE  EndsAt(j)' /\ Told(j)'
  BY <1>b, <1>d, <1>f
<1>g. ASSUME NEW type \in EventTypes, NEW phase \in Phases
      PROVE  LET plain == EventOf(i, type, phase)
                 total == [plain EXCEPT !.total = TotalFeatures]
             IN  /\ plain \in Event /\ plain.type = type
                 /\ total \in Event /\ total.type = type
  BY <1>c, <1>g DEF EventOf, Event
<1>h. ASSUME NEW type \in BatchTypes, importer[i].batch \in Batches
      PROVE  LET e == BatchEvent(i, type)
             IN  /\ e \in Event /\ e.job = i /\ e.type = type /\ e.phase = "importing"
                 /\ e.total = TotalFeatures /\ e.size = BatchSizes[importer[i].batch]
  <2>1. BatchSizes[importer[i].batch] \in Nat
    BY <1>h, BatchSizesAssumption DEF Batches
  <2>2. "importing" \in Phases /\ type \in EventTypes
    BY DEF Phases, BatchTypes, EventTypes
  <2> QED
    BY <1>c, <2>1, <2>2 DEF BatchEvent, EventOf, Event
<1> USE DEF EventTypes, Phases, BatchTypes, importerOnly
<1>1. CASE RejectRequest(i)
  BY <1>1, <1>e DEF RejectRequest, redis
<1>2. CASE StartImport(i)
  BY <1>2, <1>f, <1>g DEF StartImport
<1>3. CASE ParsingFails(i)
  BY <1>3, <1>f, <1>g DEF ParsingFails
<1>4. CASE StatsParsed(i)
  BY <1>4, <1>f, <1>g DEF StatsParsed
<1>5. CASE StatsCompleted(i)
  BY <1>5, <1>f, <1>g DEF StatsCompleted
<1>6. CASE Parsed(i)
  BY <1>6, <1>f, <1>g DEF Parsed
<1>7. CASE BatchUpserted(i)
  <2>1. /\ i # j => stored'[j] = stored[j]
        /\ stored'[i] = stored[i] \cup {importer[i].batch}
    BY <1>7 DEF BatchUpserted, TypeOK
  <2> QED
    BY <1>7, <1>e, <2>1 DEF BatchUpserted, redis
<1>8. CASE BatchFails(i)
  <2>1. /\ i # j => stored'[j] = stored[j]
        /\ stored'[i] \in {stored[i], stored[i] \cup {importer[i].batch}}
    BY <1>8 DEF BatchFails, TypeOK
  <2> QED
    BY <1>8, <1>e, <2>1 DEF BatchFails, redis
<1>9. CASE BatchSucceeded(i)
  <2> DEFINE e == BatchEvent(i, "import.batch.succeeded")
  <2>1. importer[i].batch \in Batches /\ importer[i].pc = "upserted"
    BY <1>9 DEF BatchSucceeded, TypeOK, Handler
  <2>2. /\ e \in Event /\ e.job = i /\ e.type = "import.batch.succeeded"
        /\ e.phase = "importing" /\ e.total = TotalFeatures
        /\ e.size = BatchSizes[importer[i].batch]
    BY <1>h, <2>1
  <2>3. Publish(e) /\ UNCHANGED <<gcjobsDb, stored>>
    BY <1>9 DEF BatchSucceeded
  <2> HIDE DEF e
  <2>4. /\ importer'[i] = [pc |-> "importing", batch |-> importer[i].batch + 1]
        /\ i # j => importer'[j] = importer[j]
    BY <1>9 DEF BatchSucceeded, TypeOK
  <2>5. CASE i = j
    <3>1. stored[j] = 1 .. importer[j].batch /\ importer[j].batch \in Nat \ {0}
      BY <1>a, <2>1, <2>5 DEF StoredShape, TypeOK, Handler
    <3>2. importer[j].batch \in stored[j] /\ EndsAt(j)'
      BY <2>3, <2>4, <2>5, <3>1 DEF EndsAt
    <3>3. Told(j)'
      BY <1>a, <2>1, <2>2, <2>3, <2>4, <2>5, <3>2, ToldMore DEF Succeeded, Failed
    <3> QED
      BY <3>2, <3>3
  <2>6. CASE i # j
    BY <1>d, <2>2, <2>3, <2>4, <2>6
  <2> QED
    BY <2>5, <2>6
<1>10. CASE BatchFailed(i)
  <2> DEFINE e == BatchEvent(i, "import.batch.failed")
  <2>1. importer[i].batch \in Batches /\ importer[i].pc = "rejected"
    BY <1>10 DEF BatchFailed, Importing, TypeOK, Handler
  <2>2. /\ e \in Event /\ e.job = i /\ e.type = "import.batch.failed"
        /\ e.phase = "importing" /\ e.total = TotalFeatures
        /\ e.size = BatchSizes[importer[i].batch]
    BY <1>h, <2>1
  <2>3. Publish(e) /\ UNCHANGED <<gcjobsDb, stored>>
    BY <1>10 DEF BatchFailed
  <2> HIDE DEF e
  <2>4. /\ importer'[j].batch = importer[j].batch
        /\ i # j => importer'[j] = importer[j]
        /\ importer'[i].pc = "failing"
    BY <1>10, <1>b DEF BatchFailed
  <2>5. CASE i = j
    <3>1. EndsAt(j)'
      BY <1>a, <2>3, <2>4 DEF EndsAt
    <3>2. Told(j)'
      BY <1>a, <2>1, <2>2, <2>3, <2>4, <2>5, ToldMore DEF Succeeded, Failed
    <3> QED
      BY <3>1, <3>2
  <2>6. CASE i # j
    BY <1>d, <2>2, <2>3, <2>4, <2>6
  <2> QED
    BY <2>5, <2>6
<1>11. CASE ImportFailed(i)
  BY <1>11, <1>f, <1>g DEF ImportFailed
<1>12. CASE ImportSucceeded(i)
  BY <1>12, <1>f, <1>g DEF ImportSucceeded
<1>13. CASE ImporterBreaks(i)
  <2>1. Importing(i, importer[i].pc, "error") /\ importer[i].pc # "error"
    BY <1>13 DEF ImporterBreaks, Active, Importing
  <2> QED
    BY <1>13, <1>e, <2>1 DEF ImporterBreaks, redis
<1> QED
  BY <1>1, <1>2, <1>3, <1>4, <1>5, <1>6, <1>7, <1>8, <1>9, <1>10, <1>11, <1>12,
     <1>13 DEF Importer

LEMMA LedgerInvHolds == Spec => []LedgerInv
<1>1. Init => LedgerInv
  <2> SUFFICES ASSUME Init, NEW j \in Jobs PROVE EndsAt(j) /\ Told(j)
    BY DEF LedgerInv
  <2>1. 1 .. Len(stream) = {} /\ run[j].badBatches = 0
    BY DEF Init, AbsentRow
  <2>2. importer[j] = [pc |-> "none", batch |-> 1] /\ stored[j] = {}
    BY DEF Init
  <2> QED
    BY <2>1, <2>2 DEF EndsAt, Told
<1>2. TypeOK /\ WholeInv /\ TotalInv /\ ShapeInv /\ LedgerInv /\ [Next]_vars => LedgerInv'
  <2> SUFFICES ASSUME TypeOK, WholeInv, TotalInv, ShapeInv, LedgerInv, [Next]_vars,
                      NEW j \in Jobs
               PROVE  EndsAt(j)' /\ Told(j)'
    BY DEF LedgerInv
  <2>a. EndsAt(j) /\ Told(j)
    BY DEF LedgerInv
  <2>1. ASSUME NEW i \in Jobs, Importer(i) \/ ImporterBreaks(i)
        PROVE  EndsAt(j)' /\ Told(j)'
    BY <2>1, LedgerByImporter
  <2>2. ASSUME NEW i \in Jobs, ProxySend(i) PROVE EndsAt(j)' /\ Told(j)'
    <3>1. importer[i].pc = "none" /\ UNCHANGED <<stream, stored, gcjobsDb>>
      BY <2>2 DEF ProxySend, WholeInv, EndsWhole, redis
    <3>2. /\ importer'[j].batch = importer[j].batch
          /\ importer[j].pc \in {"failing", "error"} => importer'[j] = importer[j]
      BY <2>2, <3>1 DEF ProxySend, TypeOK, Handler
    <3>3. Told(j)'
      BY <2>a, <3>1, <3>2, ToldKept
    <3> QED
      BY <2>a, <3>1, <3>2, <3>3 DEF EndsAt
  <2>3. CASE UNCHANGED <<stream, stored, importer>>
    <3>1. EndsAt(j)'
      BY <2>a, <2>3 DEF EndsAt
    <3>2. CASE UNCHANGED gcjobsDb
      <4>1. Told(j)'
        BY <2>a, <2>3, <3>2, ToldKept
      <4> QED
        BY <3>1, <4>1
    <3>3. ASSUME NEW mid \in Nat, NEW e \in Event, Recording(mid, e)
          PROVE  Told(j)'
      BY <2>a, <3>3, ToldByRecording
    <3> QED
      BY <3>1, <3>2, <3>3, DatabaseSteps
  <2>4. \/ UNCHANGED <<stream, stored, importer>>
        \/ \E i \in Jobs : Importer(i) \/ ImporterBreaks(i) \/ ProxySend(i)
    BY DEF Next, vars, Proxy, ProxyFails, ProxySucceeds, CheckIfRunning,
       RecordForwardingFailure, ConnectionBreaks, ProxyTaskDies, QueueImportRequest,
       Listener, ClaimIdleEntries, NothingToClaim, ReadNewEntries, NothingToRead,
       RecordMessage, AckMessage, ListenerStops, GoDown, ComeUp, IdleTimePasses,
       redis, listenerOnly
  <2> QED
    BY <2>1, <2>2, <2>3, <2>4
<1> QED
  BY <1>1, <1>2, WholeInvHolds, TotalInvHolds, ShapeInvHolds, TypeCorrect, PTL DEF Spec

\* What an event makes of a row, by its type.
LEMMA UpdatesByType ==
    ASSUME NEW row \in Row, NEW e \in Event
    PROVE  /\ e.type = Succeeded => UpdatedRow(row, e) =
                [status |-> "running", phase |-> e.phase,
                 total |-> IF e.total = NoTotal THEN row.total ELSE e.total,
                 okFeatures |-> row.okFeatures + e.size, badFeatures |-> row.badFeatures,
                 okBatches |-> row.okBatches + 1, badBatches |-> row.badBatches,
                 finished |-> row.finished]
           /\ e.type = Failed => UpdatedRow(row, e) =
                [status |-> "failed", phase |-> e.phase,
                 total |-> IF e.total = NoTotal THEN row.total ELSE e.total,
                 okFeatures |-> row.okFeatures, badFeatures |-> row.badFeatures + e.size,
                 okBatches |-> row.okBatches, badBatches |-> row.badBatches + 1,
                 finished |-> TRUE]
           /\ e.type \notin BatchTypes => UpdatedRow(row, e) =
                [status |-> StatusFor(e), phase |-> e.phase,
                 total |-> IF e.total = NoTotal THEN row.total ELSE e.total,
                 okFeatures |-> row.okFeatures, badFeatures |-> row.badFeatures,
                 okBatches |-> row.okBatches, badBatches |-> row.badBatches,
                 finished |-> row.finished \/ StatusFor(e) # "running"]
           /\ StatusFor(e) \in {"running", "completed", "failed"}
<1>1. /\ row.okFeatures + 0 = row.okFeatures /\ row.badFeatures + 0 = row.badFeatures
      /\ row.okBatches + 0 = row.okBatches /\ row.badBatches + 0 = row.badBatches
      /\ row.finished \in BOOLEAN
  BY DEF Row
<1>2. CASE e.type = Succeeded
  <2>1. StatusFor(e) = "running" /\ ~ IsTerminalEvent(e)
    <3>1. e.type \notin {"import.completed.succeeded", "import.completed.failed",
                         "import.batch.failed"}
      BY <1>2 DEF Succeeded
    <3> QED
      BY <3>1, Zenon DEF StatusFor, IsTerminalEvent
  <2> QED
    BY <1>1, <1>2, <2>1 DEF UpdatedRow, AddsFeatures, AddsBatch, Succeeded, Failed, BatchTypes
<1>3. CASE e.type = Failed
  <2>1. StatusFor(e) = "failed" /\ IsTerminalEvent(e)
    <3>1. e.type \in {"import.completed.failed", "import.batch.failed"}
          /\ e.type # "import.completed.succeeded"
      BY <1>3 DEF Failed
    <3> QED
      BY <3>1, Zenon DEF StatusFor, IsTerminalEvent
  <2> QED
    BY <1>1, <1>3, <2>1 DEF UpdatedRow, AddsFeatures, AddsBatch, Succeeded, Failed, BatchTypes
<1>4. CASE e.type \notin BatchTypes
  <2>1. /\ StatusFor(e) \in {"running", "completed", "failed"}
        /\ IsTerminalEvent(e) <=> StatusFor(e) # "running"
    <3>1. CASE e.type = "import.completed.succeeded"
      <4>1. StatusFor(e) = "completed"
        BY <3>1, Zenon DEF StatusFor
      <4> QED
        BY <3>1, <4>1 DEF IsTerminalEvent
    <3>2. CASE e.type \in {"import.completed.failed", "import.batch.failed"}
      <4>1. StatusFor(e) = "failed"
        BY <3>2, Zenon DEF StatusFor
      <4> QED
        BY <3>2, <4>1 DEF IsTerminalEvent
    <3>3. CASE e.type \notin {"import.completed.succeeded", "import.completed.failed",
                              "import.batch.failed"}
      <4>1. StatusFor(e) = "running"
        BY <3>3, Zenon DEF StatusFor
      <4> QED
        BY <3>3, <4>1 DEF IsTerminalEvent
    <3> QED
      BY <3>1, <3>2, <3>3
  <2>2. (row.finished \/ IsTerminalEvent(e)) = (row.finished \/ StatusFor(e) # "running")
    BY <2>1
  <2>3. /\ AddsFeatures(e, "import.batch.succeeded") = 0
        /\ AddsFeatures(e, "import.batch.failed") = 0
        /\ AddsBatch(e, "import.batch.succeeded") = 0
        /\ AddsBatch(e, "import.batch.failed") = 0
    BY <1>4 DEF BatchTypes, AddsFeatures, AddsBatch
  <2> QED
    BY <1>1, <1>4, <2>1, <2>2, <2>3 DEF UpdatedRow, Succeeded, Failed, BatchTypes
<1> QED
  BY <1>2, <1>3, <1>4 DEF BatchTypes, Succeeded, Failed

RowFields == {"status", "phase", "total", "okFeatures", "badFeatures", "okBatches",
              "badBatches", "finished"}

\* What is known of a state, as far as the ledger goes.
Known == TypeOK /\ WholeInv /\ TotalInv /\ ShapeInv /\ LedgerInv
             /\ SucceededWereStored /\ ProgressWithinTotal

\* A transaction of record_import_event counts a batch or changes the status.
LEMMA RecordingInLedger ==
    ASSUME Known, Known', NEW mid \in Nat, NEW e \in Event, Recording(mid, e),
           ~ AlreadyRecorded(mid), run' = [run EXCEPT ![e.job] = UpdatedRow(@, e)]
    PROVE  Ledger!Next
<1> DEFINE j == e.job
           old == run[j]
           new == run'[j]
<1>1. /\ j \in Jobs /\ old \in Row /\ e.size \in Nat /\ e.phase \in Phases
      /\ new = UpdatedRow(old, e)
  BY DEF Known, TypeOK, Event
<1>2. run' = [run EXCEPT ![j] = new] /\ UNCHANGED <<stored, stream>>
  BY <1>1 DEF Recording
<1>3. e.type \in BatchTypes \cup {Finished} => mid \in 1 .. Len(stream) /\ e = stream[mid]
  BY DEF Recording, OwnTypes, BatchTypes, Finished
<1>4. e.total \in {NoTotal, TotalFeatures}
  BY DEF Recording, Known, TotalInv, TotalsAgree
<1>5. e.type \in BatchTypes => e.phase = "importing" /\ e.total = TotalFeatures
  BY <1>1, <1>3 DEF Known, LedgerInv, Told
<1>6. TotalFeatures \in Nat /\ NoTotal \notin Nat
  BY BatchSizesAssumption DEF NoTotal
<1>7. new.total = TotalFeatures => Processed(new) <= TotalFeatures
  BY <1>1, <1>6 DEF Known, ProgressWithinTotal
<1>8. \A row : Ledger!Show(j, row)
                   <=> run' = [run EXCEPT ![j] = row] /\ stored' = stored
  BY DEF Ledger!Show
<1>9. Ledger!Show(j, new)
  BY <1>2, <1>8
<1>10. ASSUME NEW row PROVE Ledger!Processed(row) = Processed(row)
  BY DEF Ledger!Processed, Processed
<1> SUFFICES Ledger!CountSucceeded(j) \/ Ledger!CountFailed(j) \/ Ledger!ChangeStatus(j)
  BY <1>1 DEF Ledger!Next
<1> HIDE DEF j, old, new
<1>11. CASE e.type = Succeeded
  <2>1. new = [status |-> "running", phase |-> "importing", total |-> TotalFeatures,
               okFeatures |-> old.okFeatures + e.size, badFeatures |-> old.badFeatures,
               okBatches |-> old.okBatches + 1, badBatches |-> old.badBatches,
               finished |-> old.finished]
    BY <1>1, <1>5, <1>6, <1>11, UpdatesByType DEF BatchTypes, Succeeded
  <2>2. PICK b \in stored[j] : e.size = BatchSizes[b]
    BY <1>1, <1>3, <1>11 DEF Known, LedgerInv, Told, BatchTypes, Succeeded, j
  <2>3. Processed(new) = Processed(old) + e.size
    BY <1>1, <2>1 DEF Processed, Row
  <2>4. Processed(old) + BatchSizes[b] <= TotalFeatures
    BY <1>7, <2>1, <2>2, <2>3
  <2>5. old.okBatches + 1 \in stored[j]
    <3>1. new.okBatches <= Cardinality(stored[j])
      BY <1>1, <1>2 DEF Known, SucceededWereStored, new
    <3>2. PICK n \in Nat : stored[j] = 1 .. n
      <4>1. /\ stored[j] \in {1 .. importer[j].batch - 1, 1 .. importer[j].batch}
            /\ importer[j].batch \in Nat \ {0}
        BY <1>1 DEF Known, LedgerInv, EndsAt, TypeOK, Handler
      <4>2. importer[j].batch - 1 \in Nat
        BY <4>1
      <4> QED
        BY <4>1, <4>2
    <3>3. Cardinality(stored[j]) = n
      BY <3>2, FS_Interval
    <3> QED
      BY <1>1, <2>1, <3>1, <3>2, <3>3 DEF Row
  <2>6. ASSUME NEW r, r = [old EXCEPT
                         !.status = "running", !.phase = "importing",
                         !.total = TotalFeatures, !.okFeatures = @ + BatchSizes[b],
                         !.okBatches = @ + 1]
        PROVE  r = new
    <3>1. DOMAIN r = RowFields
      BY <1>1, <2>6 DEF Row, RowFields
    <3>2. /\ r.status = "running"
          /\ r.phase = "importing"
          /\ r.total = TotalFeatures
          /\ r.okFeatures = old.okFeatures + BatchSizes[b]
          /\ r.okBatches = old.okBatches + 1
      BY <1>1, <2>6 DEF Row
    <3>3. /\ r.badFeatures = old.badFeatures
          /\ r.badBatches = old.badBatches
          /\ r.finished = old.finished
      BY <1>1, <2>6 DEF Row
    <3>4. r = [f \in RowFields |-> r[f]]
      BY <2>6, <3>1 DEF RowFields
    <3> QED
      BY <2>1, <2>2, <3>2, <3>3, <3>4 DEF RowFields
  <2>7. Ledger!Show(j, [run[j] EXCEPT
                         !.status = "running", !.phase = "importing",
                         !.total = TotalFeatures, !.okFeatures = @ + BatchSizes[b],
                         !.okBatches = @ + 1])
    BY <1>9, <2>6, Zenon DEF old
  <2>8. Ledger!Processed(run[j]) + BatchSizes[b] <= TotalFeatures
    BY <1>10, <2>4 DEF old
  <2>9. run[j].okBatches + 1 \in stored[j]
    BY <2>5 DEF old
  <2> QED
    BY <2>2, <2>7, <2>8, <2>9, Zenon DEF Ledger!CountSucceeded
<1>12. CASE e.type = Failed
  <2>1. Reports(j, mid) /\ mid \in 1 .. Len(stream) /\ mid \notin RecordedIds
    BY <1>3, <1>12 DEF Reports, BatchTypes, Failed, AlreadyRecorded, j
  <2>2. /\ importer[j].batch \in Batches
        /\ e.size = BatchSizes[importer[j].batch]
        /\ stored[j] \in {1 .. importer[j].batch - 1, 1 .. importer[j].batch}
    BY <1>1, <1>3, <1>12, <2>1 DEF Known, LedgerInv, Told, EndsAt, BatchTypes, Failed
  <2>3. old.badBatches = 0
    <3>1. \A m \in RecordedIds : m \in 1 .. Len(stream)
      BY DEF Known, TotalInv
    <3> QED
      BY <1>1, <2>1, <3>1 DEF Known, LedgerInv, Told, old
  <2>4. new = [status |-> "failed", phase |-> "importing", total |-> TotalFeatures,
               okFeatures |-> old.okFeatures, badFeatures |-> old.badFeatures + e.size,
               okBatches |-> old.okBatches, badBatches |-> 1, finished |-> TRUE]
    BY <1>1, <1>5, <1>6, <1>12, <2>3, UpdatesByType DEF BatchTypes, Failed
  <2>5. Processed(new) = Processed(old) + e.size
    BY <1>1, <2>4 DEF Processed, Row
  <2>6. Processed(old) + BatchSizes[importer[j].batch] <= TotalFeatures
    BY <1>7, <2>2, <2>4, <2>5
  <2>7. ASSUME NEW r, r = [old EXCEPT
                         !.status = "failed", !.phase = "importing",
                         !.total = TotalFeatures,
                         !.badFeatures = @ + BatchSizes[importer[j].batch],
                         !.badBatches = 1, !.finished = TRUE]
        PROVE  r = new
    <3>1. DOMAIN r = RowFields
      BY <1>1, <2>7 DEF Row, RowFields
    <3>2. /\ r.status = "failed"
          /\ r.phase = "importing"
          /\ r.total = TotalFeatures
          /\ r.badFeatures = old.badFeatures + BatchSizes[importer[j].batch]
          /\ r.badBatches = 1
          /\ r.finished = TRUE
      BY <1>1, <2>7 DEF Row
    <3>3. /\ r.okFeatures = old.okFeatures
          /\ r.okBatches = old.okBatches
      BY <1>1, <2>7 DEF Row
    <3>4. r = [f \in RowFields |-> r[f]]
      BY <2>7, <3>1 DEF RowFields
    <3> QED
      BY <2>2, <2>4, <3>2, <3>3, <3>4 DEF RowFields
  <2>8. importer[j].batch \in Ledger!Batches
    BY <2>2 DEF Batches, Ledger!Batches
  <2>9. Ledger!Show(j, [run[j] EXCEPT
                         !.status = "failed", !.phase = "importing",
                         !.total = TotalFeatures,
                         !.badFeatures = @ + BatchSizes[importer[j].batch],
                         !.badBatches = 1, !.finished = TRUE])
    BY <1>9, <2>7, Zenon DEF old
  <2>10. Ledger!Processed(run[j]) + BatchSizes[importer[j].batch] <= TotalFeatures
    BY <1>10, <2>6 DEF old
  <2>11. run[j].badBatches = 0
    BY <2>3 DEF old
  <2> QED
    BY <2>2, <2>8, <2>9, <2>10, <2>11, Zenon DEF Ledger!CountFailed
<1>13. CASE e.type \notin BatchTypes
  <2> DEFINE status == StatusFor(e)
             total == IF e.total = NoTotal THEN old.total ELSE e.total
  <2>1. /\ new = [status |-> status, phase |-> e.phase, total |-> total,
                  okFeatures |-> old.okFeatures, badFeatures |-> old.badFeatures,
                  okBatches |-> old.okBatches, badBatches |-> old.badBatches,
                  finished |-> old.finished \/ status # "running"]
        /\ status \in {"running", "completed", "failed"}
    BY <1>1, <1>13, UpdatesByType
  <2>2. total \in {old.total, TotalFeatures}
    BY <1>4
  <2> HIDE DEF status, total
  <2>3. status = "completed" => stored[j] \in {Batches, {}}
    BY <1>1, <1>2, <2>1 DEF Known, WholeInv, EndsWhole, new
  <2>4. ASSUME NEW r, r = [old EXCEPT
                         !.status = status, !.phase = e.phase, !.total = total,
                         !.finished = @ \/ status # "running"]
        PROVE  r = new
    <3>1. DOMAIN r = RowFields
      BY <1>1, <2>4 DEF Row, RowFields
    <3>2. /\ r.status = status
          /\ r.phase = e.phase
          /\ r.total = total
          /\ r.finished = (old.finished \/ status # "running")
      BY <1>1, <2>4 DEF Row
    <3>3. /\ r.okFeatures = old.okFeatures
          /\ r.badFeatures = old.badFeatures
          /\ r.okBatches = old.okBatches
          /\ r.badBatches = old.badBatches
      BY <1>1, <2>4 DEF Row
    <3>4. r = [f \in RowFields |-> r[f]]
      BY <2>4, <3>1 DEF RowFields
    <3> QED
      BY <2>1, <3>2, <3>3, <3>4 DEF RowFields
  <2>5. Batches = Ledger!Batches /\ e.phase \in Ledger!Phases
    BY <1>1 DEF Batches, Ledger!Batches, Phases, Ledger!Phases
  <2>6. Ledger!Show(j, [run[j] EXCEPT
                         !.status = status, !.phase = e.phase, !.total = total,
                         !.finished = @ \/ status # "running"])
    BY <1>9, <2>4 DEF old
  <2>7. total \in {run[j].total, TotalFeatures}
    BY <2>2 DEF old
  <2>8. status = "completed" => stored[j] \in {Ledger!Batches, {}}
    BY <2>3, <2>5
  <2>9. e.phase \in Ledger!Phases
    BY <2>5
  <2> QED
    BY <2>1, <2>6, <2>7, <2>8, <2>9, Zenon DEF Ledger!ChangeStatus
<1> QED
  BY <1>11, <1>12, <1>13 DEF BatchTypes, Succeeded, Failed

\* A batch that gets into the dataset is the next one.
LEMMA StoringInLedger ==
    ASSUME Known, NEW j \in Jobs, BatchUpserted(j) \/ BatchFails(j), stored' # stored
    PROVE  Ledger!Next
<1>1. /\ importer[j].pc = "importing" /\ importer[j].batch \in Batches
      /\ run' = run
      /\ stored' = [stored EXCEPT ![j] = @ \cup {importer[j].batch}]
  BY DEF BatchUpserted, BatchFails, Importing, importerOnly, gcjobsDb
<1> DEFINE b == importer[j].batch
<1>2. stored[j] = 1 .. b - 1 /\ b \in Nat \ {0}
  BY <1>1 DEF Known, ShapeInv, StoredShape, TypeOK, Handler
<1>3. stored[j] \cup {b} = 1 .. b
  BY <1>2
<1>4. run[j].status # "completed"
  BY <1>1 DEF Known, WholeInv, EndsWhole
<1>5. run[j].badBatches = 0
  <2>1. \A m \in RecordedIds : ~ Reports(j, m)
    BY <1>1 DEF Known, LedgerInv, Told, TotalInv
  <2> QED
    BY <2>1 DEF Known, LedgerInv, Told
<1>6. b \in Ledger!Batches
  BY <1>1 DEF Batches, Ledger!Batches
<1> HIDE DEF b
<1>7. stored' = [stored EXCEPT ![j] = 1 .. b]
  BY <1>1, <1>3 DEF b
<1>8. Ledger!StoreBatch(j)
  BY <1>1, <1>2, <1>4, <1>5, <1>6, <1>7 DEF Ledger!StoreBatch
<1> QED
  BY <1>8 DEF Ledger!Next

\* No other step touches the dataset or the row of a job.
LEMMA StoringSteps ==
    ASSUME [Next]_vars, stored' # stored
    PROVE  \E j \in Jobs : BatchUpserted(j) \/ BatchFails(j)
BY DEF Next, vars, Proxy, ProxySend, ProxyFails, ProxySucceeds, CheckIfRunning,
   RecordForwardingFailure, ConnectionBreaks, ProxyTaskDies, QueueImportRequest,
   Importer, RejectRequest, StartImport, ParsingFails, StatsParsed, StatsCompleted,
   Parsed, BatchSucceeded, BatchFailed, ImportFailed, ImportSucceeded, ImporterBreaks,
   Listener, ClaimIdleEntries, NothingToClaim, ReadNewEntries, NothingToRead,
   RecordMessage, AckMessage, ListenerStops, GoDown, ComeUp, IdleTimePasses,
   redis, listenerOnly, importerOnly

LEMMA StepsInLedger ==
    ASSUME Known, Known', [Next]_vars
    PROVE  [Ledger!Next]_<<stored, run>>
<1>1. CASE stored' # stored
  BY <1>1, StoringSteps, StoringInLedger
<1>2. CASE stored' = stored
  <2>1. CASE UNCHANGED gcjobsDb
    BY <1>2, <2>1 DEF gcjobsDb
  <2>2. ASSUME NEW mid \in Nat, NEW e \in Event, Recording(mid, e)
        PROVE  [Ledger!Next]_<<stored, run>>
    <3>1. CASE UNCHANGED gcjobsDb
      BY <1>2, <3>1 DEF gcjobsDb
    <3>2. CASE ~ AlreadyRecorded(mid) /\ run' = [run EXCEPT ![e.job] = UpdatedRow(@, e)]
      BY <2>2, <3>2, RecordingInLedger
    <3> QED
      BY <2>2, <3>1, <3>2 DEF Recording, RecordImportEvent
  <2> QED
    BY <2>1, <2>2, DatabaseSteps DEF Known
<1> QED
  BY <1>1, <1>2

\* Whatever crashes, is lost, is delivered twice or overtakes something else, a
\* client who polls the job (gcjobs/storage.py) and looks into the dataset sees
\* the batches of an import appear in order and each counted once, after it is
\* there: ImportPipeline implements BatchLedger.
THEOREM PipelineKeepsTheLedger == Spec => KeepsTheLedger
<1>1. Init => Ledger!Init
  BY DEF Init, Ledger!Init, AbsentRow, Ledger!AbsentRow, NoTotal, Ledger!NoTotal
<1>2. Known /\ Known' /\ [Next]_vars => [Ledger!Next]_<<stored, run>>
  BY StepsInLedger
<1>3. Spec => []Known
  BY TypeCorrect, WholeInvHolds, TotalInvHolds, ShapeInvHolds, LedgerInvHolds,
     SucceededAreStored, ProgressIsBounded, PTL DEF Known
<1> QED
  BY <1>1, <1>2, <1>3, PTL DEF Spec, KeepsTheLedger, Ledger!Spec
=============================================================================
