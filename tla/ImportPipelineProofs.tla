------------------------- MODULE ImportPipelineProofs -------------------------
(* Proofs about ImportPipeline for every set of jobs and replicas, every      *)
(* chunking and every bound.                                                  *)
EXTENDS ImportPipeline, TLAPS

USE DEF NoTotal, NullId

-----------------------------------------------------------------------------
(* Operators on rows and events.                                              *)

\* An event step of a job is well typed, with or without counts.
LEMMA EventOfType ==
    ASSUME NEW j \in Jobs, NEW type \in EventTypes, NEW phase \in Phases,
           NEW total \in Nat, NEW size \in Nat
    PROVE  /\ EventOf(j, type, phase) \in Event
           /\ [EventOf(j, type, phase) EXCEPT !.total = total] \in Event
           /\ [EventOf(j, type, phase) EXCEPT !.total = total, !.size = size] \in Event
  BY DEF EventOf, Event

\* Recording an event turns a row into a row.
LEMMA UpdatedRowType ==
    ASSUME NEW row \in Row, NEW e \in Event
    PROVE  UpdatedRow(row, e) \in Row
  BY DEF UpdatedRow, Row, Event, StatusFor, AddsFeatures, AddsBatch, IsTerminalEvent

\* One transaction of record_import_event keeps both tables well typed.
LEMMA RecordType ==
    ASSUME TypeOK, NEW mid \in Nat, NEW e \in Event, RecordImportEvent(mid, e)
    PROVE  /\ run' \in [Jobs -> Row]
           /\ eventTable' \subseteq [mid : Nat, event : Event]
<1>1. CASE UNCHANGED gcjobsDb
  BY <1>1 DEF TypeOK, gcjobsDb
<1>2. CASE /\ eventTable' = eventTable \cup {[mid |-> mid, event |-> e]}
           /\ run' = [run EXCEPT ![e.job] = UpdatedRow(@, e)]
  <2>1. e.job \in Jobs
    BY DEF Event
  <2>2. UpdatedRow(run[e.job], e) \in Row
    BY <2>1, UpdatedRowType DEF TypeOK
  <2>3. run' \in [Jobs -> Row]
    BY <1>2, <2>1, <2>2 DEF TypeOK
  <2>4. QED
    BY <1>2, <2>3 DEF TypeOK
<1>3. QED
  BY <1>1, <1>2 DEF RecordImportEvent

\* Using up a fault leaves a natural number of them.
LEMMA SpendType ==
    ASSUME NEW b \in Budget
    PROVE  /\ b.crashes > 0 => [b EXCEPT !.crashes = @ - 1] \in Budget
           /\ b.errors > 0 => [b EXCEPT !.errors = @ - 1] \in Budget
           /\ b.breaks > 0 => [b EXCEPT !.breaks = @ - 1] \in Budget
           /\ b.lost > 0 => [b EXCEPT !.lost = @ - 1] \in Budget
  BY DEF Budget

\* Appending an entry, trimming old ones or losing the entry keeps the stream
\* and the group well typed.
LEMMA PublishType ==
    ASSUME TypeOK, NEW e \in Event, Publish(e)
    PROVE  /\ stream' \in Seq(Event)
           /\ Len(stream') \in Nat
           /\ Len(stream) <= Len(stream')
           /\ trimmed' \in 0 .. Len(stream')
           /\ delivered' \in 0 .. Len(stream')
           /\ pending' \subseteq 1 .. delivered'
           /\ idle' \subseteq pending'
           /\ budget' \in Budget
<1> USE DEF TypeOK
<1>1. CASE /\ stream' = Append(stream, e)
           /\ trimmed' \in {trimmed} \cup trimmed .. (Len(stream) + 1 - StreamCap)
           /\ UNCHANGED <<group, budget>>
  <2>1. Len(stream') = Len(stream) + 1 /\ stream' \in Seq(Event)
    BY <1>1
  <2>2. trimmed' \in 0 .. Len(stream')
    BY <1>1, <2>1, LimitsAssumption
  <2>3. QED
    BY <1>1, <2>1, <2>2 DEF group
<1>2. CASE /\ budget.lost > 0
           /\ budget' = [budget EXCEPT !.lost = @ - 1]
           /\ UNCHANGED redis
  <2>1. budget' \in Budget
    BY <1>2, SpendType
  <2>2. Len(stream) \in Nat
    OBVIOUS
  <2>3. QED
    BY <1>2, <2>1, <2>2 DEF redis
<1>3. QED
  BY <1>1, <1>2 DEF Publish
-----------------------------------------------------------------------------
(* Type correctness.                                                         *)

\* The steps of gcjobs outside the listener keep the types.
LEMMA ProxyTypes ==
    ASSUME TypeOK, NEW j \in Jobs, NEW r \in Replicas,
           \/ QueueImportRequest(r, j)
           \/ Proxy(j)
           \/ ConnectionBreaks(j)
           \/ ProxyTaskDies(j)
    PROVE  TypeOK'
<1>1. CASE QueueImportRequest(r, j)
  <2>1. EventOf(j, "import.accepted", "accepted") \in Event
    BY EventOfType DEF EventTypes, Phases
  <2>2. /\ run' \in [Jobs -> Row]
        /\ eventTable' \subseteq [mid : Nat, event : Event]
    BY <1>1, <2>1, RecordType DEF QueueImportRequest
  <2>3. proxy' \in [Jobs -> [pc : ProxyPcs, at : Replicas \cup {Nowhere}]]
    BY <1>1 DEF QueueImportRequest, TypeOK, ProxyPcs
  <2>4. QED
    BY <1>1, <2>2, <2>3 DEF QueueImportRequest, TypeOK, redis
<1>2. CASE ProxySend(j)
  <2>1. [importer[j] EXCEPT !.pc = "received"] \in Handler
    BY DEF TypeOK, Handler, ImporterPcs
  <2>2. importer' \in [Jobs -> Handler]
    BY <1>2, <2>1 DEF ProxySend, TypeOK
  <2>3. QED
    BY <1>2, <2>2 DEF ProxySend, TypeOK, ProxyPcs, gcjobsDb, redis
<1>3. CASE ProxyFails(j)
  BY <1>3 DEF ProxyFails, TypeOK, ProxyPcs, gcjobsDb, redis
<1>4. CASE ProxySucceeds(j)
  BY <1>4 DEF ProxySucceeds, TypeOK, ProxyPcs, gcjobsDb, redis
<1>5. CASE CheckIfRunning(j)
  BY <1>5 DEF CheckIfRunning, TypeOK, ProxyPcs, gcjobsDb, redis
<1>6. CASE RecordForwardingFailure(j)
  <2>1. EventOf(j, "import.completed.failed", "forwarding") \in Event
    BY EventOfType DEF EventTypes, Phases
  <2>2. /\ run' \in [Jobs -> Row]
        /\ eventTable' \subseteq [mid : Nat, event : Event]
    BY <1>6, <2>1, RecordType DEF RecordForwardingFailure
  <2>3. proxy' \in [Jobs -> [pc : ProxyPcs, at : Replicas \cup {Nowhere}]]
    BY <1>6 DEF RecordForwardingFailure, TypeOK, ProxyPcs
  <2>4. QED
    BY <1>6, <2>2, <2>3 DEF RecordForwardingFailure, TypeOK, redis
<1>7. CASE ConnectionBreaks(j)
  <2>1. budget' \in Budget
    BY <1>7, SpendType DEF ConnectionBreaks, TypeOK
  <2>2. QED
    BY <1>7, <2>1 DEF ConnectionBreaks, TypeOK, ProxyPcs, gcjobsDb, redis
<1>8. CASE ProxyTaskDies(j)
  <2>1. budget' \in Budget
    BY <1>8, SpendType DEF ProxyTaskDies, TypeOK
  <2>2. QED
    BY <1>8, <2>1 DEF ProxyTaskDies, TypeOK, ProxyPcs, gcjobsDb, redis
<1>9. QED
  BY <1>1, <1>2, <1>3, <1>4, <1>5, <1>6, <1>7, <1>8 DEF Proxy

\* A step of gcimport that publishes an event, moves its handler on and leaves
\* everything else alone keeps the types.
LEMMA PublishingTypes ==
    ASSUME TypeOK, NEW e \in Event, Publish(e),
           importer' \in [Jobs -> Handler],
           UNCHANGED <<importerOnly, stored>>
    PROVE  TypeOK'
<1>1. /\ stream' \in Seq(Event)
      /\ trimmed' \in 0 .. Len(stream')
      /\ delivered' \in 0 .. Len(stream')
      /\ pending' \subseteq 1 .. delivered'
      /\ idle' \subseteq pending'
      /\ budget' \in Budget
  BY PublishType
<1>2. delivered' = delivered
  BY DEF Publish, group, redis
<1>3. QED
  BY <1>1, <1>2 DEF TypeOK, importerOnly, gcjobsDb

\* The steps of gcimport keep the types.
LEMMA ImporterTypes ==
    ASSUME TypeOK, NEW j \in Jobs, Importer(j) \/ ImporterBreaks(j)
    PROVE  TypeOK'
<1> DEFINE waiting == {"upserted", "rejected"}
<1>a. ASSUME NEW from, NEW to \in ImporterPcs, Importing(j, from, to),
             to \notin waiting \/ importer[j].batch \in Batches
      PROVE  importer' \in [Jobs -> Handler]
  <2>1. importer[j] \in [pc : ImporterPcs, batch : Nat \ {0}]
    BY DEF TypeOK, Handler
  <2>2. [importer[j] EXCEPT !.pc = to] \in Handler
    BY <1>a, <2>1 DEF Handler
  <2>3. QED
    BY <1>a, <2>2 DEF Importing, TypeOK
<1>b. TotalFeatures \in Nat
  BY BatchSizesAssumption
<1>c. ASSUME NEW from, NEW to \in ImporterPcs \ waiting, NEW e \in Event,
             Importing(j, from, to), Publish(e), UNCHANGED <<importerOnly, stored>>
      PROVE  TypeOK'
  BY <1>a, <1>c, PublishingTypes
<1>d. ASSUME importer[j].batch \in Batches
      PROVE  [stored EXCEPT ![j] = @ \cup {importer[j].batch}]
               \in [Jobs -> SUBSET Batches]
  <2>1. stored[j] \cup {importer[j].batch} \in SUBSET Batches
    BY <1>d DEF TypeOK
  <2>2. QED
    BY <2>1 DEF TypeOK
<1>e. ASSUME importer[j].pc \in waiting
      PROVE  /\ importer[j].batch \in Batches
             /\ BatchSizes[importer[j].batch] \in Nat
  <2>1. importer[j].batch \in Batches
    BY <1>e DEF TypeOK, Handler
  <2>2. QED
    BY <2>1, BatchSizesAssumption DEF Batches
<1> USE DEF ImporterPcs
<1>1. CASE RejectRequest(j)
  <2>1. importer' \in [Jobs -> Handler]
    BY <1>1, <1>a DEF RejectRequest
  <2>2. QED
    BY <1>1, <2>1 DEF RejectRequest, TypeOK, importerOnly, gcjobsDb, redis
<1>2. CASE StartImport(j)
  BY <1>2, <1>c, EventOfType DEF StartImport, EventTypes, Phases
<1>3. CASE ParsingFails(j)
  BY <1>3, <1>c, EventOfType DEF ParsingFails, EventTypes, Phases
<1>4. CASE StatsParsed(j)
  BY <1>4, <1>b, <1>c, EventOfType DEF StatsParsed, EventTypes, Phases
<1>5. CASE StatsCompleted(j)
  BY <1>5, <1>b, <1>c, EventOfType DEF StatsCompleted, EventTypes, Phases
<1>6. CASE Parsed(j)
  BY <1>6, <1>b, <1>c, EventOfType DEF Parsed, EventTypes, Phases
<1>7. CASE BatchUpserted(j)
  <2>1. importer' \in [Jobs -> Handler]
    BY <1>7, <1>a DEF BatchUpserted
  <2>2. stored' \in [Jobs -> SUBSET Batches]
    BY <1>7, <1>d DEF BatchUpserted
  <2>3. QED
    BY <1>7, <2>1, <2>2 DEF BatchUpserted, TypeOK, importerOnly, gcjobsDb, redis
<1>8. CASE BatchFails(j)
  <2>1. importer' \in [Jobs -> Handler]
    BY <1>8, <1>a DEF BatchFails
  <2>2. stored' \in [Jobs -> SUBSET Batches]
    BY <1>8, <1>d DEF BatchFails, TypeOK
  <2>3. QED
    BY <1>8, <2>1, <2>2 DEF BatchFails, TypeOK, importerOnly, gcjobsDb, redis
<1>9. CASE BatchSucceeded(j)
  <2>1. BatchEvent(j, "import.batch.succeeded") \in Event
    BY <1>9, <1>b, <1>e, EventOfType DEF BatchSucceeded, BatchEvent, EventTypes, Phases
  <2>2. [pc |-> "importing", batch |-> importer[j].batch + 1] \in Handler
    BY DEF TypeOK, Handler
  <2>3. importer' \in [Jobs -> Handler]
    BY <1>9, <2>2 DEF BatchSucceeded, TypeOK
  <2>4. QED
    BY <1>9, <2>1, <2>3, PublishingTypes DEF BatchSucceeded
<1>10. CASE BatchFailed(j)
  <2>1. BatchEvent(j, "import.batch.failed") \in Event
    BY <1>10, <1>b, <1>e, EventOfType
       DEF BatchFailed, Importing, BatchEvent, EventTypes, Phases
  <2>2. QED
    BY <1>10, <1>c, <2>1 DEF BatchFailed
<1>11. CASE ImportFailed(j)
  BY <1>11, <1>b, <1>c, EventOfType DEF ImportFailed, EventTypes, Phases
<1>12. CASE ImportSucceeded(j)
  BY <1>12, <1>b, <1>c, EventOfType DEF ImportSucceeded, EventTypes, Phases
<1>13. CASE ImporterBreaks(j)
  <2>1. budget' \in Budget
    BY <1>13, SpendType DEF ImporterBreaks, TypeOK
  <2>2. [importer[j] EXCEPT !.pc = "error"] \in Handler
    BY DEF TypeOK, Handler
  <2>3. importer' \in [Jobs -> Handler]
    BY <1>13, <2>2 DEF ImporterBreaks, TypeOK
  <2>4. QED
    BY <1>13, <2>1, <2>3 DEF ImporterBreaks, TypeOK, importerOnly, gcjobsDb, redis
<1>14. QED
  BY <1>1, <1>2, <1>3, <1>4, <1>5, <1>6, <1>7, <1>8, <1>9, <1>10, <1>11, <1>12,
     <1>13 DEF Importer

\* The steps of a listener keep the types.
LEMMA ListenerTypes ==
    ASSUME TypeOK, NEW r \in Replicas, Listener(r)
    PROVE  TypeOK'
<1> DEFINE state == [pc : ListenerPcs, batch : SUBSET (1 .. delivered), cursor : Nat]
<1>a. ASSUME NEW from, NEW to \in state, Step(r, from, to)
      PROVE  listener' \in [Replicas -> state]
  BY <1>a DEF Step, TypeOK
<1>b. delivered \in Nat
  BY DEF TypeOK
<1> USE DEF ListenerPcs
<1>1. CASE ClaimIdleEntries(r)
  <2>1. PICK c \in NextCursors(Claimed(r)) :
          Step(r, "claim", [pc |-> "record", batch |-> Claimed(r), cursor |-> c])
    BY <1>1 DEF ClaimIdleEntries
  <2>2. c \in Nat
    BY DEF NextCursors, TypeOK
  <2>3. Claimed(r) \subseteq 1 .. delivered
    BY DEF Claimed, Claimable, TypeOK
  <2>4. listener' \in [Replicas -> state]
    BY <1>a, <2>1, <2>2, <2>3
  <2>5. idle' \subseteq pending' /\ pending' \subseteq 1 .. delivered
    BY <1>1 DEF ClaimIdleEntries, TypeOK
  <2>6. QED
    BY <1>1, <2>4, <2>5 DEF ClaimIdleEntries, TypeOK, gcjobsDb, listenerOnly
<1>2. CASE NothingToClaim(r)
  <2>1. listener' \in [Replicas -> state]
    BY <1>2, <1>a DEF NothingToClaim
  <2>2. idle' \subseteq pending' /\ pending' \subseteq 1 .. delivered
    BY <1>2 DEF NothingToClaim, TypeOK
  <2>3. QED
    BY <1>2, <2>1, <2>2 DEF NothingToClaim, TypeOK, gcjobsDb, listenerOnly
<1>3. CASE ReadNewEntries(r)
  <2>1. delivered' \in Nat /\ delivered' <= Len(stream) /\ delivered < delivered'
    BY <1>3, <1>b DEF ReadNewEntries, NextUnread, Unread
  <2>2. NextUnread \subseteq 1 .. delivered'
    BY <1>3, <2>1 DEF ReadNewEntries, NextUnread, Unread
  <2>3. 1 .. delivered \subseteq 1 .. delivered'
    BY <1>b, <2>1
  <2>4. [listener[r] EXCEPT !.pc = "record", !.batch = NextUnread] \in state'
    BY <2>2, <2>3 DEF TypeOK
  <2>5. \A s \in Replicas : listener[s] \in state'
    BY <2>3 DEF TypeOK
  <2>6. listener' = [listener EXCEPT ![r] = [listener[r] EXCEPT !.pc = "record",
                                                               !.batch = NextUnread]]
    BY <1>3 DEF ReadNewEntries, Step
  <2>7. listener \in [Replicas -> state']
    BY <2>5 DEF TypeOK
  <2>8. listener' \in [Replicas -> state']
    BY <2>4, <2>6, <2>7
  <2>9. pending' \subseteq 1 .. delivered' /\ idle' \subseteq pending'
    BY <1>3, <2>2, <2>3 DEF ReadNewEntries, TypeOK
  <2>10. QED
    BY <1>3, <2>1, <2>8, <2>9 DEF ReadNewEntries, TypeOK, gcjobsDb, listenerOnly
<1>4. CASE NothingToRead(r)
  <2>1. [listener[r] EXCEPT !.pc = "claim"] \in state
    BY DEF TypeOK
  <2>2. listener' \in [Replicas -> state]
    BY <1>4, <1>a, <2>1 DEF NothingToRead
  <2>3. QED
    BY <1>4, <2>2 DEF NothingToRead, TypeOK, gcjobsDb, redis, listenerOnly
<1>5. CASE RecordMessage(r)
  <2>1. PICK m \in listener[r].batch :
          /\ Step(r, "record", [listener[r] EXCEPT !.pc = "ack"])
          /\ RecordImportEvent(m, stream[m])
          /\ UNCHANGED <<redis, listenerOnly>>
    BY <1>5 DEF RecordMessage
  <2>2. m \in Nat /\ stream[m] \in Event
    <3>1. m \in 1 .. delivered
      BY DEF TypeOK
    <3>2. m \in 1 .. Len(stream)
      BY <3>1 DEF TypeOK
    <3>3. QED
      BY <3>2 DEF TypeOK
  <2>3. /\ run' \in [Jobs -> Row]
        /\ eventTable' \subseteq [mid : Nat, event : Event]
    BY <2>1, <2>2, RecordType
  <2>4. [listener[r] EXCEPT !.pc = "ack"] \in state
    BY DEF TypeOK
  <2>5. listener' \in [Replicas -> state]
    BY <1>a, <2>1, <2>4
  <2>6. QED
    BY <2>1, <2>3, <2>5 DEF TypeOK, redis, listenerOnly
<1>6. CASE AckMessage(r)
  <2>1. PICK m \in listener[r].batch :
          /\ Step(r, "ack",
                  [listener[r] EXCEPT
                      !.pc = IF listener[r].batch = {m} THEN "claim" ELSE "record",
                      !.batch = @ \ {m}])
          /\ pending' = pending \ {m}
          /\ idle' = idle \ {m}
          /\ UNCHANGED <<gcjobsDb, stream, trimmed, delivered, listenerOnly>>
    BY <1>6 DEF AckMessage
  <2>2. [listener[r] EXCEPT
            !.pc = IF listener[r].batch = {m} THEN "claim" ELSE "record",
            !.batch = @ \ {m}] \in state
    BY DEF TypeOK
  <2>3. listener' \in [Replicas -> state]
    BY <1>a, <2>1, <2>2
  <2>4. QED
    BY <2>1, <2>3 DEF TypeOK, gcjobsDb, listenerOnly
<1>7. QED
  BY <1>1, <1>2, <1>3, <1>4, <1>5, <1>6 DEF Listener

\* Crashes, restarts, a listener that stops and the passing of time keep the
\* types.
LEMMA ProcessTypes ==
    ASSUME TypeOK, NEW r \in Replicas,
           ListenerStops(r) \/ GoDown(r) \/ ComeUp(r) \/ IdleTimePasses
    PROVE  TypeOK'
<1> USE DEF ListenerPcs
<1>1. CASE ListenerStops(r)
  <2>1. budget' \in Budget
    BY <1>1, SpendType DEF ListenerStops, TypeOK
  <2>2. QED
    BY <1>1, <2>1 DEF ListenerStops, TypeOK, DownListener, gcjobsDb, redis
<1>2. CASE GoDown(r)
  <2>1. budget' \in Budget
    BY <1>2, SpendType DEF GoDown, TypeOK
  <2>2. proxy' \in [Jobs -> [pc : ProxyPcs, at : Replicas \cup {Nowhere}]]
    BY <1>2 DEF GoDown, TypeOK, ProxyPcs
  <2>3. listener' \in [Replicas -> [pc : ListenerPcs, batch : SUBSET (1 .. delivered),
                                    cursor : Nat]]
    BY <1>2 DEF GoDown, TypeOK, DownListener
  <2>4. QED
    BY <1>2, <2>1, <2>2, <2>3 DEF GoDown, TypeOK, gcjobsDb, redis
<1>3. CASE ComeUp(r)
  BY <1>3 DEF ComeUp, TypeOK, FreshListener, gcjobsDb, redis, listenerOnly
<1>4. CASE IdleTimePasses
  BY <1>4 DEF IdleTimePasses, TypeOK, gcjobsDb
<1>5. QED
  BY <1>1, <1>2, <1>3, <1>4

\* Every state the services can reach is well typed: among others, ids in the
\* consumer group's lists are ids of stream entries, and no batch beyond the
\* chunks of an import is ever stored (TypeOK).
THEOREM TypeCorrect == Spec => []TypeOK
<1>1. Init => TypeOK
  <2>1. BatchSizes \in Seq(Nat)
    BY BatchSizesAssumption
  <2>2. QED
    BY <2>1, LimitsAssumption
       DEF Init, TypeOK, AbsentRow, Row, FreshListener, ListenerPcs, ProxyPcs,
           ImporterPcs, Handler, Budget
<1>2. TypeOK /\ [Next]_vars => TypeOK'
  <2> SUFFICES ASSUME TypeOK, [Next]_vars PROVE TypeOK'
    OBVIOUS
  <2>0. PICK s : s \in Replicas
    BY ReplicasAssumption
  <2>1. ASSUME NEW j \in Jobs,
               \/ \E r \in Replicas : QueueImportRequest(r, j)
               \/ Proxy(j) \/ ConnectionBreaks(j) \/ ProxyTaskDies(j)
        PROVE  TypeOK'
    BY <2>0, <2>1, ProxyTypes
  <2>2. ASSUME NEW j \in Jobs, Importer(j) \/ ImporterBreaks(j) PROVE TypeOK'
    BY <2>2, ImporterTypes
  <2>3. ASSUME NEW r \in Replicas, Listener(r) PROVE TypeOK'
    BY <2>3, ListenerTypes
  <2>4. ASSUME NEW r \in Replicas, ListenerStops(r) \/ GoDown(r) \/ ComeUp(r)
        PROVE  TypeOK'
    BY <2>4, ProcessTypes
  <2>5. CASE IdleTimePasses
    BY <2>0, <2>5, ProcessTypes
  <2>6. CASE UNCHANGED vars
    BY <2>6 DEF TypeOK, vars
  <2>7. QED
    BY <2>1, <2>2, <2>3, <2>4, <2>5, <2>6 DEF Next
<1>3. QED
  BY <1>1, <1>2, PTL DEF Spec
=============================================================================
