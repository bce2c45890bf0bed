------------------------------ MODULE EdgeProxy ------------------------------
(***************************************************************************)
(* gcapi, the public edge: every request is authorized at gccore, or by an *)
(* approval that is still in the in-process TTL cache, and then passed to  *)
(* geocomponents or gcjobs with its body streamed within a limit           *)
(* (gcapi/app.py, gcapi/transport.py, gccore/app.py).                      *)
(*                                                                         *)
(* A step is what the handler of one request does between two awaits.      *)
(* Time is counted in ticks.  The client id is always null, so the cache   *)
(* has one entry and its size limit never matters.                         *)
(***************************************************************************)
EXTENDS Integers

CONSTANTS
    Handlers,    \* requests in progress at once
    Ttl,         \* AUTH_CACHE_TTL_SECONDS, in ticks
    MaxWait,     \* the longest a call to gccore takes, in ticks
    MaxUpload,   \* GCAPI_MAX_UPLOAD_BYTES, in chunks
    UseGcjobs    \* GCAPI_GCJOBS_URL is set

ASSUME LimitsAssumption ==
    /\ Ttl \in Nat \ {0}
    /\ MaxWait \in Nat
    /\ MaxUpload \in Nat
    /\ UseGcjobs \in BOOLEAN

VARIABLES
    handler,    \* the handler of each request
    cached,     \* ticks the cached approval is still good for, 0: no entry
    approving,  \* what gccore would answer now
    since       \* ticks since gccore would last have approved, up to TooLong

vars == <<handler, cached, approving, since>>

-----------------------------------------------------------------------------
(* Requests.                                                                *)

Methods == {"OPTIONS", "GET", "POST"}

\* Paths as far as routing tells them apart; "jobs" is a path that
\* GCJOBS_PROXY_PATH_RE matches.
Paths == {"healthz", "jobs", "other"}

\* A body that the proxy passes on: one chunk more than the limit is as good as
\* any longer one.  A content-length only matters if it declares too much.
Request ==
    {q \in [method : Methods, path : Paths, length : 0 .. MaxUpload + 1,
            declared : BOOLEAN] :
        /\ q.declared => q.length > MaxUpload
        /\ q.method \in {"GET", "OPTIONS"} => q.length = 0 /\ ~ q.declared}

NoRequest == [method |-> "GET", path |-> "other", length |-> 0, declared |-> FALSE]

Exempt(q) == q.method = "OPTIONS" \/ q.path = "healthz"

\* _upstream_base_url
Upstream(q) == IF UseGcjobs /\ q.path = "jobs" THEN "gcjobs" ELSE "geocomponents"

\* The body of a GET, HEAD or OPTIONS request is not passed on.
HasContent(q) == q.method \notin {"GET", "OPTIONS"}

\* Only a GET of /healthz is answered here, by the route above the catch-all.
IsLocal(q) == q.path = "healthz" /\ q.method = "GET"

Pcs == {"idle", "asking", "admitted", "sending", "reading", "answered"}
Verdicts == {"none", "yes", "no", "broken"}
Statuses == {"none", "ok", "401", "413", "500", "502", "504"}
Upstreams == {"none", "gcjobs", "geocomponents"}

Handler == [pc : Pcs, request : Request, verdict : Verdicts, waited : 0 .. MaxWait,
            sent : 0 .. MaxUpload, to : Upstreams, status : Statuses]

NewHandler(pc, q) ==
    [pc |-> pc, request |-> q, verdict |-> "none", waited |-> 0, sent |-> 0,
     to |-> "none", status |-> "none"]

Idle == NewHandler("idle", NoRequest)

\* More ticks than the properties tell apart.
TooLong == Ttl + MaxWait + 1

Init ==
    /\ handler = [h \in Handlers |-> Idle]
    /\ cached = 0
    /\ approving \in BOOLEAN
    /\ since = IF approving THEN 0 ELSE TooLong

-----------------------------------------------------------------------------
(* gccore and the clock.                                                    *)

\* Another gccore is deployed; the one of this repository approves whenever the
\* client id is null, which it always is.
PolicyChanges ==
    /\ approving' = ~ approving
    /\ since' = 0
    /\ UNCHANGED <<handler, cached>>

Asking(h) == handler[h].pc = "asking"

Decide(h) ==
    /\ Asking(h)
    /\ handler[h].verdict = "none"
    /\ handler' = [handler EXCEPT ![h].verdict = IF approving THEN "yes" ELSE "no"]
    /\ UNCHANGED <<cached, approving, since>>

\* An error status, invalid JSON or no object, or a connection that fails.
GccoreFails(h) ==
    /\ Asking(h)
    /\ handler[h].verdict = "none"
    /\ handler' = [handler EXCEPT ![h].verdict = "broken"]
    /\ UNCHANGED <<cached, approving, since>>

\* A call to gccore that takes MaxWait ticks ends before the next one.
Tick ==
    /\ \A h \in Handlers : Asking(h) => handler[h].waited < MaxWait
    /\ handler' = [h \in Handlers |->
                      IF Asking(h) THEN [handler[h] EXCEPT !.waited = @ + 1]
                      ELSE handler[h]]
    /\ cached' = IF cached = 0 THEN 0 ELSE cached - 1
    /\ since' = IF approving THEN 0 ELSE IF since = TooLong THEN since ELSE since + 1
    /\ UNCHANGED approving

-----------------------------------------------------------------------------
(* gcapi: authorization.                                                    *)

\* Mutant: a hit renews the entry.
RenewedByHit(q) == IF Exempt(q) \/ cached = 0 THEN cached ELSE Ttl

\* What a request leaves of the cache: a lookup changes nothing.
AfterLookup(q) == cached

\* authorize_request_context up to its first await.
Receive(h, q) ==
    /\ handler[h].pc = "idle"
    /\ handler' = [handler EXCEPT ![h] =
          NewHandler(IF Exempt(q) \/ cached > 0 THEN "admitted" ELSE "asking", q)]
    /\ cached' = AfterLookup(q)
    /\ UNCHANGED <<approving, since>>

\* The rest of _authorize_request, once there is an answer.
HearYes(h) ==
    /\ Asking(h)
    /\ handler[h].verdict = "yes"
    /\ cached' = Ttl
    /\ handler' = [handler EXCEPT ![h] = NewHandler("admitted", @.request)]
    /\ UNCHANGED <<approving, since>>

\* problem_response, or an exception that the server turns into a response.
Respond(h, status) ==
    /\ handler' = [handler EXCEPT
          ![h] = [NewHandler("answered", @.request) EXCEPT !.status = status]]
    /\ UNCHANGED <<cached, approving, since>>

\* Mutant: an authorization service that is broken stops nobody.
FailOpen(h) ==
    /\ Asking(h)
    /\ handler[h].verdict = "broken"
    /\ handler' = [handler EXCEPT ![h] = NewHandler("admitted", @.request)]
    /\ UNCHANGED <<cached, approving, since>>

HearNo(h) ==
    /\ Asking(h)
    /\ \/ handler[h].verdict = "no" /\ Respond(h, "401")
       \/ handler[h].verdict = "broken" /\ Respond(h, "502")

\* Mutant: a call that timed out is made once more.
AskAgain(h) ==
    /\ Asking(h)
    /\ handler[h].waited = MaxWait
    /\ handler' = [handler EXCEPT ![h].waited = 0, ![h].verdict = "none"]
    /\ UNCHANGED <<cached, approving, since>>

TimesOut(h) ==
    /\ Asking(h)
    /\ handler[h].waited = MaxWait
    /\ Respond(h, "504")

-----------------------------------------------------------------------------
(* gcapi: proxy_request.                                                    *)

\* call_next, up to the await on the upstream.
Forward(h) ==
    LET q == handler[h].request
    IN  /\ handler[h].pc = "admitted"
        /\ \/ IsLocal(q) /\ Respond(h, "ok")
           \/ /\ ~ IsLocal(q)
              /\ handler' = [handler EXCEPT
                    ![h].pc = IF HasContent(q) THEN "sending" ELSE "reading",
                    ![h].to = Upstream(q)]
              /\ UNCHANGED <<cached, approving, since>>

\* Mutant: a body of exactly the limit is one too many.
AtLimit(n) == n >= MaxUpload

\* Mutant: nobody counts.
NoLimit(n) == FALSE

OverLimit(n) == n > MaxUpload

\* bounded_request_stream: one chunk, or the 413 that the client sees instead
\* of the upstream's answer.
SendChunk(h) ==
    LET q == handler[h].request
    IN  /\ handler[h].pc = "sending"
        /\ handler[h].sent < q.length
        /\ IF \/ handler[h].sent = 0 /\ q.declared /\ OverLimit(q.length)
              \/ OverLimit(handler[h].sent + 1)
           THEN Respond(h, "413")
           ELSE /\ handler' = [handler EXCEPT ![h].sent = @ + 1]
                /\ UNCHANGED <<cached, approving, since>>

BodySent(h) ==
    /\ handler[h].pc = "sending"
    /\ handler[h].sent = handler[h].request.length
    /\ handler' = [handler EXCEPT ![h].pc = "reading"]
    /\ UNCHANGED <<cached, approving, since>>

\* Only the call that waits for the headers is guarded, and only against errors
\* of the upstream: one that fails while the body is read gives a 500, and so
\* does a client that disconnects while its body is passed on.
ConnectionFails(h) ==
    /\ handler[h].pc \in {"sending", "reading"}
    /\ \E status \in {"500", "502", "504"} : Respond(h, status)

UpstreamAnswers(h) ==
    /\ handler[h].pc = "reading"
    /\ Respond(h, "ok")

Finish(h) ==
    /\ handler[h].pc = "answered"
    /\ handler' = [handler EXCEPT ![h] = Idle]
    /\ UNCHANGED <<cached, approving, since>>

\* The process is replaced: connections close and the cache is empty.
Restart ==
    /\ handler' = [h \in Handlers |-> Idle]
    /\ cached' = 0
    /\ UNCHANGED <<approving, since>>

-----------------------------------------------------------------------------

Serve(h) ==
    \/ HearYes(h)
    \/ HearNo(h)
    \/ TimesOut(h)
    \/ Forward(h)
    \/ SendChunk(h)
    \/ BodySent(h)
    \/ ConnectionFails(h)
    \/ UpstreamAnswers(h)
    \/ Finish(h)

Next ==
    \/ \E h \in Handlers : \/ \E q \in Request : Receive(h, q)
                           \/ Decide(h)
                           \/ GccoreFails(h)
                           \/ Serve(h)
    \/ PolicyChanges
    \/ Tick
    \/ Restart

Spec == Init /\ [][Next]_vars

\* The event loop resumes what can go on, and time passes: gccore owes nothing,
\* an upstream that is silent times out, and a client goes on with its body or
\* disconnects (nothing limits how long the next chunk may take).
FairSpec == Spec /\ WF_vars(Tick) /\ \A h \in Handlers : WF_vars(Serve(h))

-----------------------------------------------------------------------------
(* Properties.                                                              *)

\* The variables keep their types.
TypeOK ==
    /\ handler \in [Handlers -> Handler]
    /\ cached \in 0 .. Ttl
    /\ approving \in BOOLEAN
    /\ since \in 0 .. TooLong

Admits(h) ==
    /\ handler[h].pc # "admitted"
    /\ handler'[h].pc = "admitted"
    /\ ~ Exempt(handler'[h].request)

\* Approvals age: whatever overlapping calls, late answers, renewed entries and
\* restarts come between, a request that is not exempt is let in only if gccore
\* would have approved within the last Ttl + MaxWait ticks (the entry lives from
\* the moment the answer is heard, not from the decision).
ApprovalsAge == [][\A h \in Handlers : Admits(h) => since <= Ttl + MaxWait]_vars

\* An approval in the cache was good when it was given: the age it has and the
\* time it has left add up to no more than one entry's life and one call.
CacheIsRecent == cached > 0 => since + cached <= Ttl + MaxWait

\* A body is never passed on beyond the limit, only a body over the limit is
\* refused for its size, and an upstream that gets to answer has all of it.
UploadLimitIsExact ==
    \A h \in Handlers :
        /\ handler[h].status = "413" => handler[h].request.length > MaxUpload
        /\ handler[h].pc = "reading" /\ HasContent(handler[h].request) =>
              handler[h].sent = handler[h].request.length

\* Every request is answered, also when gccore never answers.
RequestsEnd ==
    \A h \in Handlers : handler[h].pc \notin {"idle", "answered"}
                            ~> handler[h].pc \in {"idle", "answered"}
=============================================================================
