--------------------------- MODULE RequestPipeline ---------------------------
(***************************************************************************)
(* The path of concurrent HTTP requests through apps/api: the global       *)
(* middleware of main.ts in its mount order (request id, tenant, access    *)
(* log), the Better Auth handler mounted before Nest's router, the guards, *)
(* the handlers, and AppErrorFilter, where every failure ends.             *)
(*                                                                         *)
(* One action is one synchronous stretch of code; requests interleave at   *)
(* every await (the tenant resolver, body parsing, the session lookup, the *)
(* database check, the flush of the response). The context a stretch reads *)
(* is the AsyncLocalStorage store its promise chain was started under, kept *)
(* here per request.                                                       *)
(***************************************************************************)
EXTENDS Naturals, Sequences

CONSTANTS
    Requests,    \* HTTP requests
    ClientIds,   \* values of an incoming x-request-id header
    Tenants,     \* tenants the resolver can name
    Tokens,      \* session tokens Better Auth can issue
    None,        \* an absent id, tenant, token or response
    ResolverErrors  \* codes the configured TenantResolver can fail with

\* What a request asks for. Two paths are no route: "unmatched", and "healthz",
\* which only begins like one. (Express also routes other spellings, such as
\* /Health/live; these begin with no prefix, and are logged like any path.)
Prefixed == {"live", "ready", "metrics", "healthz"}
Routes == Prefixed \cup {"auth", "me", "note", "unmatched"}

VARIABLES
    embedded,     \* AUTH_MODE=better-auth-embedded, read once at boot
    stage,        \* what each request waits for
    route,        \* the route each request asks for
    cookie,       \* the session token it carries
    header,       \* the x-request-id on its response
    loggerStore,  \* its LoggerContext
    tenantStore,  \* its TenantContext
    watched,      \* requests with a "finish" listener of the access log
    user,         \* the session the guard attached
    response,     \* the response written
    lines,        \* access log lines, each with its two metric samples
    session,      \* the state of each session token
    resolved,     \* history: the tenant the resolver named, None if none
    handlerSaw,   \* history: the tenant the handler ran under
    signedOut,    \* history: requests sent with a token revoked before
    undecided     \* history: requests whose resolver failed

contextVars == <<loggerStore, tenantStore>>
inputVars == <<embedded, route, cookie, header>>
historyVars == <<resolved, handlerSaw, signedOut, undecided>>
vars == <<inputVars, stage, contextVars, watched, user, response, lines,
          session, historyVars>>

Stages == {"unsent", "resolving", "routing", "guarding", "guarded", "checking",
           "responding", "finished", "dropped"}
Ids == Requests \cup ClientIds
Context == [requestId : Ids \cup {None}, tenantId : Tenants \cup {None}]

-----------------------------------------------------------------------------
(***************************************************************************)
(* packages/platform: errors and contexts                                  *)
(***************************************************************************)
errorCodeToHttpStatus ==
    [BAD_REQUEST |-> 400, UNAUTHORIZED |-> 401, FORBIDDEN |-> 403,
     NOT_FOUND |-> 404, CONFLICT |-> 409, RATE_LIMITED |-> 429,
     INTERNAL |-> 500, UNAVAILABLE |-> 503]
ErrorCodes == DOMAIN errorCodeToHttpStatus

httpStatusToErrorCode(status) ==
    IF status \in {400, 401, 403, 404, 409, 429, 503}
    THEN CHOOSE code \in ErrorCodes : errorCodeToHttpStatus[code] = status
    ELSE "INTERNAL"

Responses ==
    [status : {200} \cup {errorCodeToHttpStatus[code] : code \in ErrorCodes},
     code : ErrorCodes \cup {"OK"}, requestId : Ids \cup {None}]

ASSUME PipelineAssumption ==
    /\ ResolverErrors \subseteq ErrorCodes
    /\ None \notin Requests \cup ClientIds \cup Tenants \cup Tokens
    /\ None \notin Responses
    /\ Requests \cap ClientIds = {}

(* Definitions named ...Deviation are bugs this code could have. The       *)
(* specification never uses one: each is put in the place of the           *)
(* definition after it to see that a property notices.                     *)

\* One store for the process instead of one per asynchronous execution.
withLoggerContextDeviation(r, field, value) ==
    loggerStore' = [q \in Requests |-> [loggerStore[q] EXCEPT ![field] = value]]
withTenantContextDeviation(r, tenant) ==
    tenantStore' = [q \in Requests |-> tenant]

\* withLoggerContext merges a field into the ambient store for the callback;
\* withTenantContext replaces the store for the callback.
withLoggerContext(r, field, value) ==
    loggerStore' = [loggerStore EXCEPT ![r][field] = value]
withTenantContext(r, tenant) ==
    tenantStore' = [tenantStore EXCEPT ![r] = tenant]

-----------------------------------------------------------------------------
Init ==
    /\ embedded \in BOOLEAN
    /\ stage = [r \in Requests |-> "unsent"]
    /\ route = [r \in Requests |-> "unmatched"]
    /\ cookie = [r \in Requests |-> None]
    /\ header = [r \in Requests |-> None]
    /\ loggerStore = [r \in Requests |-> [requestId |-> None, tenantId |-> None]]
    /\ tenantStore = [r \in Requests |-> None]
    /\ watched = {}
    /\ user = [r \in Requests |-> None]
    /\ response = [r \in Requests |-> None]
    /\ lines = [r \in Requests |-> <<>>]
    /\ session \in [Tokens -> {"unissued", "valid"}]
    /\ resolved = [r \in Requests |-> None]
    /\ handlerSaw = [r \in Requests |-> None]
    /\ signedOut = {}
    /\ undecided = {}

\* A response is written; the bytes are flushed later.
Reply(r, status) ==
    /\ response' = [response EXCEPT ![r] =
           [status |-> status, code |-> "OK", requestId |-> None]]
    /\ stage' = [stage EXCEPT ![r] = "responding"]

\* The code after the failure runs on.
FilterDeviation(r, code) ==
    /\ response' = [response EXCEPT ![r] =
           [status |-> errorCodeToHttpStatus[code], code |-> code,
            requestId |-> loggerStore[r].requestId]]
    /\ UNCHANGED stage

\* AppErrorFilter: the envelope carries the code and the ambient request id.
Filter(r, code) ==
    /\ response' = [response EXCEPT ![r] =
           [status |-> errorCodeToHttpStatus[code], code |-> code,
            requestId |-> loggerStore[r].requestId]]
    /\ stage' = [stage EXCEPT ![r] = "responding"]

\* A repeated header, which Node hands over as an array, is kept.
RequestIdDeviation(r, incoming) ==
    IF incoming = None THEN r ELSE <<incoming>>

\* What createRequestId mints is unique, like the request itself.
RequestId(r, incoming) == IF incoming = None THEN r ELSE incoming

\* requestIdMiddleware, then the tenant middleware up to its resolver.
Arrive(r, path, token, incoming) ==
    /\ stage[r] = "unsent"
    /\ token # None => session[token] # "unissued"
    /\ stage' = [stage EXCEPT ![r] = "resolving"]
    /\ route' = [route EXCEPT ![r] = path]
    /\ cookie' = [cookie EXCEPT ![r] = token]
    /\ header' = [header EXCEPT ![r] = RequestId(r, incoming)]
    /\ withLoggerContext(r, "requestId", RequestId(r, incoming))
    /\ signedOut' = IF token # None /\ session[token] = "revoked"
                    THEN signedOut \cup {r} ELSE signedOut
    /\ UNCHANGED <<embedded, tenantStore, watched, user, response, lines,
                   session, resolved, handlerSaw, undecided>>

\* The error is swallowed: next is never called.
ResolveFailsDeviation(r) ==
    /\ stage[r] = "resolving"
    /\ ResolverErrors # {}
    /\ stage' = [stage EXCEPT ![r] = "swallowed"]
    /\ undecided' = undecided \cup {r}
    /\ UNCHANGED <<inputVars, contextVars, watched, user, response, lines,
                   session, resolved, handlerSaw, signedOut>>

\* The resolver fails: next(err) goes past the access log to the filter. A
\* defect of the resolver counts as INTERNAL.
ResolveFails(r) ==
    /\ stage[r] = "resolving"
    /\ \E code \in ResolverErrors : Filter(r, code)
    /\ undecided' = undecided \cup {r}
    /\ UNCHANGED <<inputVars, contextVars, watched, user, lines, session,
                   resolved, handlerSaw, signedOut>>

\* The prefixes are compared as whole paths: the probes are below /health.
SkippedDeviation(path) == path = "metrics"

\* The path begins with "/health" or "/metrics", spelled like that, whatever it
\* is routed to.
Skipped(path) == path \in Prefixed

\* The resolver returns: the tenant's scopes are opened unless it named none,
\* and requestLoggerMiddleware registers its listener unless it skips.
Resolved(r, tenant) ==
    /\ stage[r] = "resolving"
    /\ IF tenant = None
       THEN UNCHANGED contextVars
       ELSE /\ withTenantContext(r, tenant)
            /\ withLoggerContext(r, "tenantId", tenant)
    /\ watched' = IF Skipped(route[r]) THEN watched ELSE watched \cup {r}
    /\ resolved' = [resolved EXCEPT ![r] = tenant]
    /\ stage' = [stage EXCEPT ![r] = "routing"]
    /\ UNCHANGED <<inputVars, user, response, lines, session, handlerSaw,
                   signedOut, undecided>>

-----------------------------------------------------------------------------
(***************************************************************************)
(* Routing, guards and handlers                                            *)
(***************************************************************************)
routingFrame == <<inputVars, contextVars, watched, lines, resolved, signedOut,
                  undecided>>

\* The Better Auth handler, in front of Nest: it may issue a token, revoke
\* the one presented, or do neither, and writes its own response.
BetterAuth(r) ==
    /\ stage[r] = "routing"
    /\ route[r] = "auth"
    /\ embedded
    /\ \/ \E t \in Tokens : /\ session[t] = "unissued"
                            /\ session' = [session EXCEPT ![t] = "valid"]
       \/ /\ cookie[r] # None
          /\ session' = [session EXCEPT ![cookie[r]] = "revoked"]
       \/ UNCHANGED session
    /\ \E status \in {200, 401} : Reply(r, status)
    /\ UNCHANGED <<routingFrame, user, handlerSaw>>

\* Nest finds no route: a NotFoundException.
NotFound(r) ==
    /\ stage[r] = "routing"
    /\ \/ route[r] \in {"unmatched", "healthz"}
       \/ route[r] = "auth" /\ ~embedded
    /\ Filter(r, httpStatusToErrorCode(404))
    /\ UNCHANGED <<routingFrame, user, session, handlerSaw>>

\* The body parser refuses the body: malformed JSON becomes a 400; any other
\* error is no HttpException and ends as INTERNAL.
BodyRefused(r) ==
    /\ stage[r] = "routing"
    /\ route[r] = "note"
    /\ \E code \in {httpStatusToErrorCode(400), "INTERNAL"} : Filter(r, code)
    /\ UNCHANGED <<routingFrame, user, session, handlerSaw>>

\* The global ThrottlerGuard, which the probes are exempt from.
Throttled(r) ==
    /\ stage[r] = "routing"
    /\ route[r] \in {"me", "note"}
    /\ Filter(r, httpStatusToErrorCode(429))
    /\ UNCHANGED <<routingFrame, user, session, handlerSaw>>

Ran(r) == handlerSaw' = [handlerSaw EXCEPT ![r] = tenantStore[r]]

\* A handler that does not await: GET /health/live and the notes, where the
\* validation pipe, the service or a bug may throw instead. Every 2xx
\* status counts as 200.
Handled(r) ==
    /\ stage[r] = "routing"
    /\ \/ route[r] = "live" /\ Reply(r, 200)
       \/ route[r] = "note" /\ Reply(r, 200)
       \/ /\ route[r] = "note"
          /\ \E code \in {"BAD_REQUEST", "NOT_FOUND", "INTERNAL"} :
                 Filter(r, code)
    /\ Ran(r)
    /\ UNCHANGED <<routingFrame, user, session>>

\* AuthenticatedGuard of GET /me, up to getSession.
Guard(r) ==
    /\ stage[r] = "routing"
    /\ route[r] = "me"
    /\ IF embedded
       THEN stage' = [stage EXCEPT ![r] = "guarding"] /\ UNCHANGED response
       ELSE Filter(r, "UNAUTHORIZED")
    /\ UNCHANGED <<routingFrame, user, session, handlerSaw>>

\* A revoked session still counts.
SessionOfDeviation(token) ==
    IF token # None /\ session[token] # "unissued" THEN token ELSE None

SessionOf(token) ==
    IF token # None /\ session[token] = "valid" THEN token ELSE None

\* The session store answers; the guard resumes later.
SessionRead(r) ==
    /\ stage[r] = "guarding"
    /\ user' = [user EXCEPT ![r] = SessionOf(cookie[r])]
    /\ stage' = [stage EXCEPT ![r] = "guarded"]
    /\ UNCHANGED <<routingFrame, response, session, handlerSaw>>

\* The session store cannot be reached.
SessionFails(r) ==
    /\ stage[r] = "guarding"
    /\ Filter(r, "INTERNAL")
    /\ UNCHANGED <<routingFrame, user, session, handlerSaw>>

Refused(r) ==
    /\ stage[r] = "guarded"
    /\ user[r] = None
    /\ Filter(r, "UNAUTHORIZED")
    /\ UNCHANGED <<routingFrame, user, session, handlerSaw>>

Admitted(r) ==
    /\ stage[r] = "guarded"
    /\ user[r] # None
    /\ Reply(r, 200)
    /\ Ran(r)
    /\ UNCHANGED <<routingFrame, user, session>>

\* GET /health/ready up to the database check, GET /metrics up to the collection
\* of the samples ...
Ready(r) ==
    /\ stage[r] = "routing"
    /\ route[r] \in {"ready", "metrics"}
    /\ stage' = [stage EXCEPT ![r] = "checking"]
    /\ UNCHANGED <<routingFrame, user, response, session, handlerSaw>>

\* ... and after it: the database may be down, a collector may fail.
Checked(r) ==
    /\ stage[r] = "checking"
    /\ \/ Reply(r, 200)
       \/ route[r] = "ready" /\ Filter(r, httpStatusToErrorCode(503))
       \/ route[r] = "metrics" /\ Filter(r, "INTERNAL")
    /\ Ran(r)
    /\ UNCHANGED <<routingFrame, user, session>>

-----------------------------------------------------------------------------
endFrame == <<inputVars, contextVars, watched, user, response, session,
              historyVars>>

\* The response is flushed and "finish" fires: one line, two samples.
Flush(r) ==
    /\ stage[r] = "responding"
    /\ stage' = [stage EXCEPT ![r] = "finished"]
    /\ lines' = IF r \in watched
                THEN [lines EXCEPT ![r] = Append(@,
                         [status |-> response[r].status,
                          requestId |-> header[r]])]
                ELSE lines
    /\ UNCHANGED endFrame

\* The client is gone before the flush: "finish" never fires.
Drop(r) ==
    /\ stage[r] = "responding"
    /\ stage' = [stage EXCEPT ![r] = "dropped"]
    /\ UNCHANGED <<endFrame, lines>>

\* The next stretch of code of request r.
Serve(r) ==
    \/ ResolveFails(r)
    \/ \E tenant \in Tenants \cup {None} : Resolved(r, tenant)
    \/ BetterAuth(r)
    \/ NotFound(r)
    \/ BodyRefused(r)
    \/ Throttled(r)
    \/ Handled(r)
    \/ Guard(r)
    \/ SessionRead(r)
    \/ SessionFails(r)
    \/ Refused(r)
    \/ Admitted(r)
    \/ Ready(r)
    \/ Checked(r)
    \/ Flush(r)
    \/ Drop(r)

Next ==
    \/ \E r \in Requests, path \in Routes, token \in Tokens \cup {None},
          incoming \in ClientIds \cup {None} : Arrive(r, path, token, incoming)
    \/ \E r \in Requests : Serve(r)

Spec == Init /\ [][Next]_vars

\* The event loop runs every continuation, and what a request awaits settles:
\* the API sets no timeout of its own around any of its awaits.
FairSpec == Spec /\ \A r \in Requests : WF_vars(Serve(r))

-----------------------------------------------------------------------------
(***************************************************************************)
(* Properties                                                              *)
(***************************************************************************)

\* Type invariant.
TypeOK ==
    /\ embedded \in BOOLEAN
    /\ stage \in [Requests -> Stages]
    /\ route \in [Requests -> Routes]
    /\ cookie \in [Requests -> Tokens \cup {None}]
    /\ header \in [Requests -> Ids \cup {None}]
    /\ loggerStore \in [Requests -> Context]
    /\ tenantStore \in [Requests -> Tenants \cup {None}]
    /\ watched \subseteq Requests
    /\ user \in [Requests -> Tokens \cup {None}]
    /\ response \in [Requests -> Responses \cup {None}]
    /\ lines \in [Requests -> Seq([status : Nat, requestId : Ids \cup {None}])]
    /\ session \in [Tokens -> {"unissued", "valid", "revoked"}]
    /\ resolved \in [Requests -> Tenants \cup {None}]
    /\ handlerSaw \in [Requests -> Tenants \cup {None}]
    /\ signedOut \subseteq Requests
    /\ undecided \subseteq Requests

Answered(r) == stage[r] \in {"responding", "finished", "dropped"}

\* However requests interleave, an error body names the request it answers:
\* the id the filter finds in its context is the one on the response header.
ErrorNamesItsRequest ==
    \A r \in Requests :
        Answered(r) /\ response[r].code # "OK" =>
            response[r].requestId = header[r]

\* A handler runs under the tenant its own request resolved to, and a log
\* line of that request carries the same one.
TenantIsolation ==
    \A r \in Requests :
        /\ handlerSaw[r] \in {None, resolved[r]}
        /\ tenantStore[r] = resolved[r]
        /\ loggerStore[r].tenantId = resolved[r]

\* The access log and the metrics tell of exactly the requests that were
\* flushed after a tenant decision, once each, with the status and the id the
\* client got. Excepted is every path that begins with one of the prefixes: the
\* probes and the scrape as they are usually spelled, but also paths that only
\* look like them and end as a 404.
AccessLogExact ==
    \A r \in Requests :
        lines[r] =
            IF /\ stage[r] = "finished"
               /\ route[r] \notin {"live", "ready", "metrics", "healthz"}
               /\ r \notin undecided
            THEN <<[status |-> response[r].status, requestId |-> header[r]]>>
            ELSE <<>>

\* A request sent after its session was revoked is never served by a guarded
\* handler, and one without a session of its own is not either.
GuardHolds ==
    \A r \in Requests :
        route[r] = "me" /\ Answered(r) /\ response[r].code = "OK" =>
            /\ embedded
            /\ user[r] = cookie[r] /\ cookie[r] # None
            /\ r \notin signedOut

\* A response is written once: no continuation answers a second time after
\* the filter has, and none follows a handler's own response.
AnsweredOnce ==
    [][\A r \in Requests :
           response[r] # None => response'[r] = response[r]]_vars

\* Every request gets an answer, or its client has left.
EveryRequestAnswered ==
    \A r \in Requests :
        stage[r] # "unsent" ~> stage[r] \in {"finished", "dropped"}
=============================================================================
