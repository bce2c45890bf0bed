--------------------------- MODULE EdgeProxyProofs ---------------------------
(***************************************************************************)
(* The edge proxy keeps its types, and lets nobody in on an approval that  *)
(* is older than the cache's Ttl and one call to gccore.                   *)
(***************************************************************************)
EXTENDS EdgeProxy, TLAPS

\* A yes on its way to a handler is at most as old as the handler's wait.
YesIsRecent ==
    \A h \in Handlers :
        Asking(h) /\ handler[h].verdict = "yes" => since <= handler[h].waited

\* An approval that gccore would give now has no age.
ApprovalIsNow == approving => since = 0

\* The inductive invariant: the age bound of the cached approval rests on that
\* of the answers that are still on their way.
Inductive == TypeOK /\ CacheIsRecent /\ YesIsRecent /\ ApprovalIsNow

\* A new handler is well typed.
LEMMA NewHandlerType ==
    ASSUME NEW pc \in Pcs, NEW q \in Request
    PROVE  NewHandler(pc, q) \in Handler
BY LimitsAssumption DEF NewHandler, Handler, Verdicts, Upstreams, Statuses

LEMMA IdleType == Idle \in Handler
<1>1. NoRequest \in Request
    BY LimitsAssumption DEF NoRequest, Request, Methods, Paths
<1> QED BY <1>1, NewHandlerType DEF Idle, Pcs

\* Every initial state satisfies the invariant.
LEMMA InitInductive == Init => Inductive
<1> SUFFICES ASSUME Init PROVE Inductive
    OBVIOUS
<1>1. handler \in [Handlers -> Handler]
    BY IdleType DEF Init
<1>2. \A h \in Handlers : handler[h].pc = "idle"
    BY DEF Init, Idle, NewHandler
<1>3. since \in 0 .. TooLong
    BY LimitsAssumption DEF Init, TooLong
<1> QED BY <1>1, <1>2, <1>3, LimitsAssumption
        DEF Init, Inductive, TypeOK, CacheIsRecent, YesIsRecent, ApprovalIsNow, Asking

\* What a handler does to itself, as long as it has no yes under way.
LEMMA OneHandler ==
    ASSUME Inductive, NEW h \in Handlers, NEW new \in Handler,
           handler' = [handler EXCEPT ![h] = new],
           new.pc = "asking" /\ new.verdict = "yes" => since <= new.waited,
           UNCHANGED <<approving, since>>,
           cached' \in 0 .. Ttl,
           cached' > 0 => since + cached' <= Ttl + MaxWait
    PROVE  Inductive'
<1>1. handler' \in [Handlers -> Handler]
    BY DEF Inductive, TypeOK
<1>2. \A g \in Handlers : handler'[g] = IF g = h THEN new ELSE handler[g]
    BY DEF Inductive, TypeOK
<1>3. TypeOK'
    BY <1>1 DEF Inductive, TypeOK, TooLong
<1>4. CacheIsRecent'
    BY DEF CacheIsRecent
<1>5. YesIsRecent'
    BY <1>2 DEF Inductive, YesIsRecent, Asking
<1>6. ApprovalIsNow'
    BY DEF Inductive, ApprovalIsNow
<1> QED BY <1>3, <1>4, <1>5, <1>6 DEF Inductive

\* The same where the cache stays as it is.
LEMMA OneHandlerOnly ==
    ASSUME Inductive, NEW h \in Handlers, NEW new \in Handler,
           handler' = [handler EXCEPT ![h] = new],
           new.pc = "asking" /\ new.verdict = "yes" => since <= new.waited,
           UNCHANGED <<cached, approving, since>>
    PROVE  Inductive'
BY OneHandler DEF Inductive, TypeOK, CacheIsRecent

\* A response ends the call.
LEMMA RespondKeeps ==
    ASSUME Inductive, NEW h \in Handlers, NEW s \in Statuses, Respond(h, s)
    PROVE  Inductive'
<1>1. handler[h].request \in Request
    BY DEF Inductive, TypeOK, Handler
<1> DEFINE new == [NewHandler("answered", handler[h].request) EXCEPT !.status = s]
<1>2. new \in Handler /\ new.pc = "answered"
    <2>1. NewHandler("answered", handler[h].request) \in Handler
        BY <1>1, NewHandlerType DEF Pcs
    <2> QED BY <2>1 DEF Handler, NewHandler
<1>3. handler' = [handler EXCEPT ![h] = new]
    BY DEF Respond
<1> HIDE DEF new
<1> QED BY <1>2, <1>3, OneHandlerOnly DEF Respond

\* Every step keeps the invariant.
LEMMA NextInductive == Inductive /\ [Next]_vars => Inductive'
<1> SUFFICES ASSUME Inductive, [Next]_vars PROVE Inductive'
    OBVIOUS
<1>1. ASSUME NEW h \in Handlers, NEW q \in Request, Receive(h, q) PROVE Inductive'
    <2> DEFINE new == NewHandler(IF Exempt(q) \/ cached > 0 THEN "admitted" ELSE "asking", q)
    <2>1. new \in Handler
        BY NewHandlerType DEF Pcs
    <2>2. new.verdict = "none"
        BY DEF NewHandler
    <2>3. handler' = [handler EXCEPT ![h] = new] /\ UNCHANGED <<cached, approving, since>>
        BY <1>1 DEF Receive, AfterLookup
    <2> HIDE DEF new
    <2> QED BY <2>1, <2>2, <2>3, OneHandlerOnly
<1>2. ASSUME NEW h \in Handlers, Decide(h) PROVE Inductive'
    <2> DEFINE new == [handler[h] EXCEPT !.verdict = IF approving THEN "yes" ELSE "no"]
    <2>1. new \in Handler
        BY DEF Inductive, TypeOK, Handler, Verdicts
    <2>2. new.verdict = "yes" => since <= new.waited
        BY LimitsAssumption DEF Inductive, TypeOK, ApprovalIsNow, Handler
    <2>3. handler' = [handler EXCEPT ![h] = new] /\ UNCHANGED <<cached, approving, since>>
        BY <1>2 DEF Decide
    <2> HIDE DEF new
    <2> QED BY <2>1, <2>2, <2>3, OneHandlerOnly
<1>3. ASSUME NEW h \in Handlers, GccoreFails(h) PROVE Inductive'
    <2> DEFINE new == [handler[h] EXCEPT !.verdict = "broken"]
    <2>1. new \in Handler /\ new.verdict = "broken"
        BY DEF Inductive, TypeOK, Handler, Verdicts
    <2>2. handler' = [handler EXCEPT ![h] = new] /\ UNCHANGED <<cached, approving, since>>
        BY <1>3 DEF GccoreFails
    <2> HIDE DEF new
    <2> QED BY <2>1, <2>2, OneHandlerOnly
<1>4. ASSUME NEW h \in Handlers, HearYes(h) PROVE Inductive'
    <2> DEFINE new == NewHandler("admitted", handler[h].request)
    <2>1. new \in Handler
        BY NewHandlerType DEF Inductive, TypeOK, Handler, Pcs
    <2>2. new.pc = "admitted"
        BY DEF NewHandler
    <2>3. /\ handler' = [handler EXCEPT ![h] = new]
          /\ cached' = Ttl
          /\ UNCHANGED <<approving, since>>
        BY <1>4 DEF HearYes
    \* The answer is no older than the call.
    <2>4. since \in Nat /\ since <= MaxWait
        <3>1. since <= handler[h].waited
            BY <1>4 DEF HearYes, Inductive, YesIsRecent
        <3>2. handler[h].waited \in 0 .. MaxWait /\ since \in 0 .. TooLong
            BY DEF Inductive, TypeOK, Handler
        <3> QED BY <3>1, <3>2, LimitsAssumption DEF TooLong
    <2>5. cached' \in 0 .. Ttl /\ since + cached' <= Ttl + MaxWait
        BY <2>3, <2>4, LimitsAssumption
    <2> HIDE DEF new
    <2> QED BY <2>1, <2>2, <2>3, <2>5, OneHandler
<1>5. ASSUME NEW h \in Handlers, HearNo(h) PROVE Inductive'
    BY <1>5, RespondKeeps DEF HearNo, Statuses
<1>6. ASSUME NEW h \in Handlers, TimesOut(h) PROVE Inductive'
    BY <1>6, RespondKeeps DEF TimesOut, Statuses
<1>7. ASSUME NEW h \in Handlers, Forward(h) PROVE Inductive'
    <2>1. CASE IsLocal(handler[h].request)
        BY <1>7, <2>1, RespondKeeps DEF Forward, Statuses
    <2>2. CASE ~ IsLocal(handler[h].request)
        <3> DEFINE q == handler[h].request
                   new == [handler[h] EXCEPT
                              !.pc = IF HasContent(q) THEN "sending" ELSE "reading",
                              !.to = Upstream(q)]
        <3>1. new \in Handler /\ new.pc # "asking"
            BY DEF Inductive, TypeOK, Handler, Pcs, Upstream, Upstreams
        <3>2. handler' = [handler EXCEPT ![h] = new] /\ UNCHANGED <<cached, approving, since>>
            BY <1>7, <2>2 DEF Forward
        <3> HIDE DEF new
        <3> QED BY <3>1, <3>2, OneHandlerOnly
    <2> QED BY <2>1, <2>2
<1>8. ASSUME NEW h \in Handlers, SendChunk(h) PROVE Inductive'
    <2>1. CASE Respond(h, "413")
        BY <2>1, RespondKeeps DEF Statuses
    <2>2. CASE ~ Respond(h, "413")
        <3> DEFINE new == [handler[h] EXCEPT !.sent = @ + 1]
        <3>1. ~ OverLimit(handler[h].sent + 1)
            BY <1>8, <2>2 DEF SendChunk
        <3>2. new \in Handler /\ new.pc # "asking"
            BY <1>8, <3>1, LimitsAssumption
            DEF SendChunk, Inductive, TypeOK, Handler, OverLimit
        <3>3. handler' = [handler EXCEPT ![h] = new] /\ UNCHANGED <<cached, approving, since>>
            BY <1>8, <2>2 DEF SendChunk
        <3> HIDE DEF new
        <3> QED BY <3>2, <3>3, OneHandlerOnly
    <2> QED BY <2>1, <2>2
<1>9. ASSUME NEW h \in Handlers, BodySent(h) PROVE Inductive'
    <2> DEFINE new == [handler[h] EXCEPT !.pc = "reading"]
    <2>1. new \in Handler /\ new.pc = "reading"
        BY DEF Inductive, TypeOK, Handler, Pcs
    <2>2. handler' = [handler EXCEPT ![h] = new] /\ UNCHANGED <<cached, approving, since>>
        BY <1>9 DEF BodySent
    <2> HIDE DEF new
    <2> QED BY <2>1, <2>2, OneHandlerOnly
<1>10. ASSUME NEW h \in Handlers, ConnectionFails(h) \/ UpstreamAnswers(h) PROVE Inductive'
    BY <1>10, RespondKeeps DEF ConnectionFails, UpstreamAnswers, Statuses
<1>11. ASSUME NEW h \in Handlers, Finish(h) PROVE Inductive'
    <2>1. Idle.pc = "idle"
        BY DEF Idle, NewHandler
    <2>2. handler' = [handler EXCEPT ![h] = Idle] /\ UNCHANGED <<cached, approving, since>>
        BY <1>11 DEF Finish
    <2> QED BY <2>1, <2>2, IdleType, OneHandlerOnly
<1>12. ASSUME PolicyChanges PROVE Inductive'
    <2>1. since \in Nat /\ since' = 0
        BY <1>12 DEF PolicyChanges, Inductive, TypeOK
    <2>2. TypeOK'
        BY <1>12, LimitsAssumption DEF PolicyChanges, Inductive, TypeOK, TooLong
    <2>3. CacheIsRecent' /\ ApprovalIsNow'
        BY <1>12, <2>1, LimitsAssumption
        DEF PolicyChanges, Inductive, TypeOK, CacheIsRecent, ApprovalIsNow
    <2>4. YesIsRecent'
        BY <1>12, <2>1, LimitsAssumption
        DEF PolicyChanges, Inductive, TypeOK, YesIsRecent, Asking, Handler
    <2> QED BY <2>2, <2>3, <2>4 DEF Inductive
<1>13. ASSUME Tick PROVE Inductive'
    <2>1. /\ since \in 0 .. TooLong /\ cached \in 0 .. Ttl /\ approving \in BOOLEAN
          /\ TooLong \in Nat
        BY LimitsAssumption DEF Inductive, TypeOK, TooLong
    <2>2. /\ cached' = IF cached = 0 THEN 0 ELSE cached - 1
          /\ since' = IF approving THEN 0
                      ELSE IF since = TooLong THEN since ELSE since + 1
          /\ approving' = approving
        BY <1>13 DEF Tick
    <2>3. ASSUME NEW h \in Handlers
          PROVE  /\ handler'[h] \in Handler
                 /\ handler'[h].pc = handler[h].pc
                 /\ handler'[h].verdict = handler[h].verdict
                 /\ Asking(h) => handler'[h].waited = handler[h].waited + 1
        <3>1. handler[h] \in Handler
            BY DEF Inductive, TypeOK
        <3>2. CASE ~ Asking(h)
            BY <1>13, <3>1, <3>2 DEF Tick
        <3>3. CASE Asking(h)
            <4>1. handler[h].waited + 1 \in 0 .. MaxWait
                BY <1>13, <3>1, <3>3, LimitsAssumption DEF Tick, Handler
            <4>2. handler'[h] = [handler[h] EXCEPT !.waited = @ + 1]
                BY <1>13, <3>3 DEF Tick
            <4> QED BY <3>1, <4>1, <4>2 DEF Handler
        <3> QED BY <3>2, <3>3
    <2>4. handler' \in [Handlers -> Handler]
        BY <1>13, <2>3 DEF Tick
    <2>5. TypeOK'
        BY <2>1, <2>2, <2>4, LimitsAssumption DEF TypeOK, TooLong
    <2>6. CacheIsRecent'
        BY <2>1, <2>2, LimitsAssumption DEF Inductive, CacheIsRecent, TooLong
    <2>7. YesIsRecent'
        <3> SUFFICES ASSUME NEW h \in Handlers, Asking(h)', handler'[h].verdict = "yes"
                     PROVE  since' <= handler'[h].waited
            BY DEF YesIsRecent
        <3>1. Asking(h) /\ since <= handler[h].waited
            BY <2>3 DEF Asking, Inductive, YesIsRecent
        <3>2. handler[h].waited \in Nat
            BY LimitsAssumption DEF Inductive, TypeOK, Handler
        <3> QED BY <2>1, <2>2, <2>3, <3>1, <3>2
    <2>8. ApprovalIsNow'
        BY <2>2 DEF ApprovalIsNow
    <2> QED BY <2>5, <2>6, <2>7, <2>8 DEF Inductive
<1>14. ASSUME Restart PROVE Inductive'
    <2>1. handler' \in [Handlers -> Handler] /\ \A h \in Handlers : handler'[h].pc = "idle"
        BY <1>14, IdleType DEF Restart, Idle, NewHandler
    <2> QED BY <1>14, <2>1, LimitsAssumption
            DEF Restart, Inductive, TypeOK, CacheIsRecent, YesIsRecent, ApprovalIsNow,
                Asking, TooLong
<1>15. CASE UNCHANGED vars
    BY <1>15 DEF vars, Inductive, TypeOK, CacheIsRecent, YesIsRecent, ApprovalIsNow,
                 Asking, TooLong
<1> QED BY <1>1, <1>2, <1>3, <1>4, <1>5, <1>6, <1>7, <1>8, <1>9, <1>10, <1>11, <1>12,
           <1>13, <1>14, <1>15 DEF Next, Serve

\* The invariant holds in every reachable state.
LEMMA AlwaysInductive == Spec => []Inductive
BY InitInductive, NextInductive, PTL DEF Spec

\* The variables keep their types, and no handler ever passes on more than
\* MaxUpload chunks (bounded_request_stream).
THEOREM TypesAreKept == Spec => []TypeOK
<1>1. Inductive => TypeOK
    BY DEF Inductive
<1> QED BY <1>1, AlwaysInductive, PTL

\* What is left of a cached approval and its age stay within one entry's life
\* and one call to gccore (TTLCache of create_app).
THEOREM CacheStaysRecent == Spec => []CacheIsRecent
<1>1. Inductive => CacheIsRecent
    BY DEF Inductive
<1> QED BY <1>1, AlwaysInductive, PTL

\* A step lets a request in on an approval of at most that age: a cached one,
\* or the answer to its own call (_authorize_request).
LEMMA AdmissionIsRecent ==
    ASSUME Inductive, Next, NEW g \in Handlers, Admits(g)
    PROVE  since <= Ttl + MaxWait
<1>0. /\ since \in Nat /\ cached \in 0 .. Ttl
      /\ \A h \in Handlers : handler[h].waited \in 0 .. MaxWait
      /\ \A h \in Handlers : handler[h] \in Handler
    BY DEF Inductive, TypeOK, Handler
<1>1. ASSUME NEW h \in Handlers, NEW q \in Request, Receive(h, q)
      PROVE  since <= Ttl + MaxWait
    <2>1. g = h /\ cached > 0
        BY <1>1 DEF Receive, Admits, Inductive, TypeOK, NewHandler
    <2> QED BY <1>0, <2>1, LimitsAssumption DEF Inductive, CacheIsRecent
<1>2. ASSUME NEW h \in Handlers, HearYes(h)
      PROVE  since <= Ttl + MaxWait
    BY <1>0, <1>2, LimitsAssumption DEF HearYes, Inductive, YesIsRecent
<1>3. ASSUME NEW h \in Handlers,
             Decide(h) \/ GccoreFails(h) \/ HearNo(h) \/ TimesOut(h) \/ Forward(h)
             \/ SendChunk(h) \/ BodySent(h) \/ ConnectionFails(h) \/ UpstreamAnswers(h)
             \/ Finish(h)
      PROVE  FALSE
    BY <1>0, <1>3 DEF Admits, Decide, GccoreFails, HearNo, TimesOut, Forward, SendChunk,
       BodySent, ConnectionFails, UpstreamAnswers, Finish, Respond, NewHandler, Idle,
       Inductive, TypeOK, Handler
<1>4. ASSUME PolicyChanges \/ Tick \/ Restart PROVE FALSE
    BY <1>0, <1>4 DEF Admits, PolicyChanges, Tick, Restart, Idle, NewHandler, Handler
<1> QED BY <1>1, <1>2, <1>3, <1>4 DEF Next, Serve

\* Nobody is let in on an approval older than the cache keeps it and one call
\* takes, for any number of requests at once and any limits.
THEOREM ApprovalsDoAge == Spec => ApprovalsAge
<1>1. Inductive /\ [Next]_vars => [\A h \in Handlers : Admits(h) => since <= Ttl + MaxWait]_vars
    <2> SUFFICES ASSUME Inductive, Next, NEW h \in Handlers, Admits(h)
                 PROVE  since <= Ttl + MaxWait
        OBVIOUS
    <2> QED BY AdmissionIsRecent
<1> QED BY <1>1, AlwaysInductive, PTL DEF Spec, ApprovalsAge

\* A handler that answers for the upload limit as it should.
UploadIsFair(x) ==
    /\ x.status = "413" => x.request.length > MaxUpload
    /\ x.pc = "reading" /\ HasContent(x.request) => x.sent = x.request.length

\* A step changes one handler, and changes it fairly.
LEMMA OneUpload ==
    ASSUME TypeOK, UploadLimitIsExact, NEW h \in Handlers, NEW new,
           handler' = [handler EXCEPT ![h] = new], UploadIsFair(new)
    PROVE  UploadLimitIsExact'
BY DEF TypeOK, UploadLimitIsExact, UploadIsFair

\* A response other than 413, or one to a body over the limit.
LEMMA RespondIsFair ==
    ASSUME TypeOK, UploadLimitIsExact, NEW h \in Handlers, NEW s \in Statuses,
           Respond(h, s), s = "413" => handler[h].request.length > MaxUpload
    PROVE  UploadLimitIsExact'
<1> DEFINE new == [NewHandler("answered", handler[h].request) EXCEPT !.status = s]
<1>1. UploadIsFair(new)
    BY DEF UploadIsFair, NewHandler
<1>2. handler' = [handler EXCEPT ![h] = new]
    BY DEF Respond
<1> HIDE DEF new
<1> QED BY <1>1, <1>2, OneUpload

\* The limit is exact after every step.
LEMMA NextKeepsLimit ==
    TypeOK /\ UploadLimitIsExact /\ [Next]_vars => UploadLimitIsExact'
<1> SUFFICES ASSUME TypeOK, UploadLimitIsExact, [Next]_vars PROVE UploadLimitIsExact'
    OBVIOUS
<1>1. ASSUME NEW h \in Handlers, NEW pc \in {"asking", "admitted"}, NEW q,
             handler' = [handler EXCEPT ![h] = NewHandler(pc, q)]
      PROVE  UploadLimitIsExact'
    <2>1. UploadIsFair(NewHandler(pc, q))
        BY DEF UploadIsFair, NewHandler
    <2> QED BY <1>1, <2>1, OneUpload
<1>2. ASSUME NEW h \in Handlers, NEW q \in Request, Receive(h, q) PROVE UploadLimitIsExact'
    BY <1>1, <1>2 DEF Receive
<1>3. ASSUME NEW h \in Handlers, Decide(h) \/ GccoreFails(h) PROVE UploadLimitIsExact'
    BY <1>3 DEF Decide, GccoreFails, Asking, TypeOK, Handler, UploadLimitIsExact
<1>4. ASSUME NEW h \in Handlers, HearYes(h) PROVE UploadLimitIsExact'
    BY <1>1, <1>4 DEF HearYes
<1>5. ASSUME NEW h \in Handlers, HearNo(h) \/ TimesOut(h) PROVE UploadLimitIsExact'
    BY <1>5, RespondIsFair DEF HearNo, TimesOut, Statuses
<1>6. ASSUME NEW h \in Handlers, Forward(h) PROVE UploadLimitIsExact'
    <2>1. CASE Respond(h, "ok")
        BY <2>1, RespondIsFair DEF Statuses
    <2>2. CASE ~ Respond(h, "ok")
        BY <1>6, <2>2 DEF Forward, TypeOK, Handler, UploadLimitIsExact
    <2> QED BY <2>1, <2>2
<1>7. ASSUME NEW h \in Handlers, SendChunk(h) PROVE UploadLimitIsExact'
    <2>1. handler[h].sent \in Nat /\ handler[h].request.length \in Nat
        BY LimitsAssumption DEF TypeOK, Handler, Request
    <2>2. CASE Respond(h, "413")
        <3>1. CASE handler[h].request.length > MaxUpload
            BY <2>2, <3>1, RespondIsFair DEF Statuses
        <3>2. CASE ~ handler[h].request.length > MaxUpload
            <4>1. ~ OverLimit(handler[h].request.length) /\ ~ OverLimit(handler[h].sent + 1)
                BY <1>7, <2>1, <3>2, LimitsAssumption DEF SendChunk, OverLimit
            <4>2. handler' = [handler EXCEPT ![h].sent = @ + 1]
                BY <1>7, <4>1 DEF SendChunk
            <4> QED BY <1>7, <4>2 DEF SendChunk, TypeOK, Handler, UploadLimitIsExact
        <3> QED BY <3>1, <3>2
    <2>3. CASE ~ Respond(h, "413")
        <3>1. handler' = [handler EXCEPT ![h].sent = @ + 1]
            BY <1>7, <2>3 DEF SendChunk
        <3> QED BY <1>7, <3>1 DEF SendChunk, TypeOK, Handler, UploadLimitIsExact
    <2> QED BY <2>2, <2>3
<1>8. ASSUME NEW h \in Handlers, BodySent(h) PROVE UploadLimitIsExact'
    BY <1>8 DEF BodySent, TypeOK, Handler, UploadLimitIsExact
<1>9. ASSUME NEW h \in Handlers, ConnectionFails(h) \/ UpstreamAnswers(h)
      PROVE  UploadLimitIsExact'
    BY <1>9, RespondIsFair DEF ConnectionFails, UpstreamAnswers, Statuses
<1>10. Idle.status = "none" /\ Idle.pc = "idle"
    BY DEF Idle, NewHandler
<1>11. ASSUME NEW h \in Handlers, Finish(h) PROVE UploadLimitIsExact'
    BY <1>10, <1>11 DEF Finish, TypeOK, UploadLimitIsExact
<1>12. CASE Restart
    BY <1>10, <1>12 DEF Restart, UploadLimitIsExact
<1>13. CASE Tick
    BY <1>13 DEF Tick, Asking, TypeOK, Handler, UploadLimitIsExact
<1>14. CASE PolicyChanges \/ UNCHANGED vars
    BY <1>14 DEF PolicyChanges, vars, UploadLimitIsExact
<1> QED BY <1>2, <1>3, <1>4, <1>5, <1>6, <1>7, <1>8, <1>9, <1>11, <1>12, <1>13, <1>14
        DEF Next, Serve

\* A 413 means a body over the limit, and what an upstream answers it has
\* received whole, for every limit (bounded_request_stream).
THEOREM UploadsAreLimited == Spec => []UploadLimitIsExact
<1>1. Init => UploadLimitIsExact
    <2>1. Idle.status = "none" /\ Idle.pc = "idle"
        BY DEF Idle, NewHandler
    <2> QED BY <2>1 DEF Init, UploadLimitIsExact
<1> QED BY <1>1, NextKeepsLimit, TypesAreKept, PTL DEF Spec
=============================================================================
