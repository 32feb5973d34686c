------------------------ MODULE RequestPipelineProofs ------------------------
(***************************************************************************)
(* Theorems about RequestPipeline, for any number of requests, client ids, *)
(* tenants and session tokens, and for any errors of the resolver.         *)
(*                                                                         *)
(* A step belongs to one request. Everything below is said of one request  *)
(* at a time: a step of another leaves it alone, but for the sessions.     *)
(***************************************************************************)
EXTENDS RequestPipeline, TLAPS

(***************************************************************************)
(* Types.                                                                  *)
(***************************************************************************)

\* The statuses the code maps are those of error codes.
LEMMA CodeFacts ==
    /\ ErrorCodes = {"BAD_REQUEST", "UNAUTHORIZED", "FORBIDDEN", "NOT_FOUND",
                     "CONFLICT", "RATE_LIMITED", "INTERNAL", "UNAVAILABLE"}
    /\ \A code \in ErrorCodes : errorCodeToHttpStatus[code] \in Nat
    /\ \A status \in {400, 404, 429, 503} :
           httpStatusToErrorCode(status) \in ErrorCodes
    /\ "OK" \notin ErrorCodes
<1>1. ErrorCodes = {"BAD_REQUEST", "UNAUTHORIZED", "FORBIDDEN", "NOT_FOUND",
                    "CONFLICT", "RATE_LIMITED", "INTERNAL", "UNAVAILABLE"}
  BY DEF ErrorCodes, errorCodeToHttpStatus
<1>2. \A code \in ErrorCodes : errorCodeToHttpStatus[code] \in Nat
  BY <1>1 DEF errorCodeToHttpStatus
<1>3. \A status \in {400, 404, 429, 503} :
          \E code \in ErrorCodes : errorCodeToHttpStatus[code] = status
  <2>1. /\ errorCodeToHttpStatus["BAD_REQUEST"] = 400
        /\ errorCodeToHttpStatus["NOT_FOUND"] = 404
        /\ errorCodeToHttpStatus["RATE_LIMITED"] = 429
        /\ errorCodeToHttpStatus["UNAVAILABLE"] = 503
    BY DEF errorCodeToHttpStatus
  <2>2. QED
    BY <1>1, <2>1
<1>4. \A status \in {400, 404, 429, 503} :
          httpStatusToErrorCode(status) \in ErrorCodes
  BY <1>3 DEF httpStatusToErrorCode
<1>5. QED
  BY <1>1, <1>2, <1>4

\* What is written is a response.
LEMMA WrittenType ==
    ASSUME TypeOK, NEW r \in Requests
    PROVE  /\ \A status \in {200, 401} : Reply(r, status) =>
                  /\ response' \in [Requests -> Responses \cup {None}]
                  /\ response'[r] \in Responses
           /\ \A code \in ErrorCodes : Filter(r, code) =>
                  /\ response' \in [Requests -> Responses \cup {None}]
                  /\ response'[r] \in Responses
<1>1. \A status \in {200, 401} :
          [status |-> status, code |-> "OK", requestId |-> None] \in Responses
  <2>1. errorCodeToHttpStatus["UNAUTHORIZED"] = 401
    BY DEF errorCodeToHttpStatus
  <2>2. QED
    BY <2>1, CodeFacts DEF Responses
<1>2. \A code \in ErrorCodes :
          [status |-> errorCodeToHttpStatus[code], code |-> code,
           requestId |-> loggerStore[r].requestId] \in Responses
  BY DEF Responses, TypeOK, Context
<1>3. \A x \in Responses :
          /\ [response EXCEPT ![r] = x] \in [Requests -> Responses \cup {None}]
          /\ [response EXCEPT ![r] = x][r] \in Responses
  BY DEF TypeOK
<1>4. QED
  BY <1>1, <1>2, <1>3 DEF Reply, Filter

\* A request is answered exactly when a response was written for it.
Written(r) == response[r] # None <=> Answered(r)

LEMMA TypeStep ==
    ASSUME TypeOK, \A r \in Requests : Written(r), [Next]_vars
    PROVE  TypeOK'
<1>1. ASSUME NEW r \in Requests, NEW path \in Routes,
             NEW token \in Tokens \cup {None}, NEW incoming \in ClientIds \cup {None},
             Arrive(r, path, token, incoming)
      PROVE  TypeOK'
  <2>1. RequestId(r, incoming) \in Ids
    BY DEF RequestId, Ids
  <2>2. loggerStore' \in [Requests -> Context]
    BY <1>1, <2>1 DEF Arrive, withLoggerContext, TypeOK, Context
  <2>3. QED
    BY <1>1, <2>1, <2>2 DEF Arrive, TypeOK, Stages
<1>2. ASSUME NEW r \in Requests, NEW tenant \in Tenants \cup {None},
             Resolved(r, tenant)
      PROVE  TypeOK'
  <2>1. [loggerStore[r] EXCEPT !.tenantId = tenant] \in Context
    <3>1. loggerStore[r] \in Context
      BY DEF TypeOK
    <3>2. QED
      BY <3>1 DEF Context
  <2>2. /\ loggerStore' \in [Requests -> Context]
        /\ tenantStore' \in [Requests -> Tenants \cup {None}]
    <3>1. CASE tenant = None
      BY <1>2, <3>1 DEF Resolved, contextVars, TypeOK
    <3>2. CASE tenant # None
      <4>1. loggerStore' = [loggerStore EXCEPT ![r] = [loggerStore[r] EXCEPT !.tenantId = tenant]]
        BY <1>2, <3>2 DEF Resolved, withLoggerContext
      <4>2. tenantStore' = [tenantStore EXCEPT ![r] = tenant]
        BY <1>2, <3>2 DEF Resolved, withTenantContext
      <4>3. QED
        BY <2>1, <4>1, <4>2 DEF TypeOK
    <3>3. QED
      BY <3>1, <3>2
  <2>3. QED
    BY <1>2, <2>2 DEF Resolved, inputVars, TypeOK, Stages
<1>3. ASSUME NEW r \in Requests,
             \/ ResolveFails(r) \/ BodyRefused(r) \/ Throttled(r) \/ NotFound(r)
             \/ SessionFails(r) \/ Refused(r)
      PROVE  TypeOK'
  <2>1. PICK code \in ErrorCodes : Filter(r, code)
    BY <1>3, CodeFacts, PipelineAssumption
    DEF ResolveFails, BodyRefused, Throttled, NotFound, SessionFails, Refused
  <2>2. response' \in [Requests -> Responses \cup {None}]
    BY <2>1, WrittenType
  <2>3. stage' \in [Requests -> Stages]
    BY <2>1 DEF Filter, TypeOK, Stages
  <2>4. undecided' \subseteq Requests
        /\ UNCHANGED <<inputVars, contextVars, watched, user, lines, session,
                       resolved, handlerSaw, signedOut>>
    BY <1>3
    DEF ResolveFails, BodyRefused, Throttled, NotFound, SessionFails, Refused,
        routingFrame, TypeOK
  <2>5. QED
    BY <2>2, <2>3, <2>4 DEF inputVars, contextVars, TypeOK
<1>4. ASSUME NEW r \in Requests, BetterAuth(r)
      PROVE  TypeOK'
  <2>1. response' \in [Requests -> Responses \cup {None}]
    BY <1>4, WrittenType DEF BetterAuth
  <2>2. stage' \in [Requests -> Stages]
    BY <1>4 DEF BetterAuth, Reply, TypeOK, Stages
  <2>3. session' \in [Tokens -> {"unissued", "valid", "revoked"}]
    <3>1. \A t \in Tokens, s \in {"unissued", "valid", "revoked"} :
              [session EXCEPT ![t] = s] \in [Tokens -> {"unissued", "valid", "revoked"}]
      BY DEF TypeOK
    <3>2. cookie[r] # None => cookie[r] \in Tokens
      BY DEF TypeOK
    <3>3. \/ session' = session
          \/ \E t \in Tokens : session' = [session EXCEPT ![t] = "valid"]
          \/ cookie[r] # None /\ session' = [session EXCEPT ![cookie[r]] = "revoked"]
      BY <1>4 DEF BetterAuth
    <3>4. QED
      BY <3>1, <3>2, <3>3 DEF TypeOK
  <2>4. QED
    BY <1>4, <2>1, <2>2, <2>3
    DEF BetterAuth, routingFrame, inputVars, contextVars, TypeOK
<1>5. ASSUME NEW r \in Requests, Handled(r) \/ Admitted(r) \/ Checked(r)
      PROVE  TypeOK'
  <2>1. Reply(r, 200) \/ \E code \in ErrorCodes : Filter(r, code)
    BY <1>5, CodeFacts DEF Handled, Admitted, Checked
  <2>2. response' \in [Requests -> Responses \cup {None}]
    BY <2>1, WrittenType
  <2>3. stage' \in [Requests -> Stages]
    BY <2>1 DEF Reply, Filter, TypeOK, Stages
  <2>4. handlerSaw' \in [Requests -> Tenants \cup {None}]
    BY <1>5 DEF Handled, Admitted, Checked, Ran, TypeOK
  <2>5. QED
    BY <1>5, <2>2, <2>3, <2>4
    DEF Handled, Admitted, Checked, routingFrame, inputVars, contextVars, TypeOK
<1>6. ASSUME NEW r \in Requests, Guard(r)
      PROVE  TypeOK'
  <2>1. \/ Filter(r, "UNAUTHORIZED")
        \/ response' = response /\ stage' = [stage EXCEPT ![r] = "guarding"]
    BY <1>6 DEF Guard
  <2>2. response' \in [Requests -> Responses \cup {None}]
    <3>1. CASE Filter(r, "UNAUTHORIZED")
      BY <3>1, WrittenType, CodeFacts
    <3>2. QED
      BY <2>1, <3>1 DEF TypeOK
  <2>3. stage' \in [Requests -> Stages]
    BY <2>1 DEF Filter, TypeOK, Stages
  <2>4. QED
    BY <1>6, <2>2, <2>3 DEF Guard, routingFrame, inputVars, contextVars, TypeOK
<1>7. ASSUME NEW r \in Requests, SessionRead(r)
      PROVE  TypeOK'
  <2>1. user' \in [Requests -> Tokens \cup {None}]
    BY <1>7 DEF SessionRead, SessionOf, TypeOK
  <2>2. QED
    BY <1>7, <2>1
    DEF SessionRead, routingFrame, inputVars, contextVars, TypeOK, Stages
<1>8. ASSUME NEW r \in Requests, Ready(r)
      PROVE  TypeOK'
  BY <1>8 DEF Ready, routingFrame, inputVars, contextVars, TypeOK, Stages
<1>9. ASSUME NEW r \in Requests, Drop(r)
      PROVE  TypeOK'
  BY <1>9 DEF Drop, endFrame, inputVars, contextVars, historyVars, TypeOK, Stages
<1>10. ASSUME NEW r \in Requests, Flush(r)
       PROVE  TypeOK'
  <2> DEFINE Line == [status : Nat, requestId : Ids \cup {None}]
             line == [status |-> response[r].status, requestId |-> header[r]]
  <2>1. response[r].status \in Nat
    <3>1. response[r] \in Responses
      BY <1>10 DEF Flush, Written, Answered, TypeOK
    <3>2. QED
      BY <3>1, CodeFacts DEF Responses
  <2>2. line \in Line
    BY <2>1 DEF TypeOK
  <2>3. lines' \in [Requests -> Seq(Line)]
    <3>1. lines \in [Requests -> Seq(Line)]
      BY DEF TypeOK
    <3>2. Append(lines[r], line) \in Seq(Line)
      <4>1. lines[r] \in Seq(Line)
        BY <3>1
      <4> HIDE DEF Line, line
      <4>2. QED
        BY <2>2, <4>1
    <3>3. lines' = lines \/ lines' = [lines EXCEPT ![r] = Append(lines[r], line)]
      BY <1>10 DEF Flush
    <3> HIDE DEF Line, line
    <3>4. QED
      BY <3>1, <3>2, <3>3
  <2>4. QED
    BY <1>10, <2>3
    DEF Flush, endFrame, inputVars, contextVars, historyVars, TypeOK, Stages
<1>11. CASE UNCHANGED vars
  BY <1>11 DEF vars, inputVars, contextVars, historyVars, TypeOK
<1>12. QED
  BY <1>1, <1>2, <1>3, <1>4, <1>5, <1>6, <1>7, <1>8, <1>9, <1>10, <1>11
  DEF Next, Serve
-----------------------------------------------------------------------------
(***************************************************************************)
(* The invariant of one request.                                           *)
(***************************************************************************)

\* Nothing is known of a request whose tenant is not decided yet.
Undecided(r) == stage[r] \in {"unsent", "resolving"}
Fresh(r) ==
    /\ Undecided(r) =>
           /\ resolved[r] = None /\ handlerSaw[r] = None /\ user[r] = None
           /\ r \notin watched /\ r \notin undecided
    /\ stage[r] = "unsent" => r \notin signedOut

\* The filter's context holds the id of the request's own header.
Named(r) ==
    /\ loggerStore[r].requestId = header[r]
    /\ response[r] # None /\ response[r].code # "OK" =>
           response[r].requestId = header[r]

\* The stores hold the tenant that was resolved for the request itself.
Isolated(r) ==
    /\ handlerSaw[r] \in {None, resolved[r]}
    /\ tenantStore[r] = resolved[r]
    /\ loggerStore[r].tenantId = resolved[r]

\* The listener is there exactly for what is to be logged.
Logged(r) ==
    /\ lines[r] = IF stage[r] = "finished" /\ route[r] \notin Prefixed
                     /\ r \notin undecided
                  THEN <<[status |-> response[r].status, requestId |-> header[r]]>>
                  ELSE <<>>
    /\ ~Undecided(r) /\ r \notin undecided => (r \in watched <=> route[r] \notin Prefixed)
    /\ r \in undecided => Answered(r) /\ r \notin watched

\* Who was signed out stays so, and the guard admits nobody else.
Guarded(r) ==
    /\ stage[r] \in {"guarding", "guarded"} => embedded
    /\ stage[r] = "checking" => route[r] \in {"ready", "metrics"}
    /\ user[r] # None => embedded /\ user[r] = cookie[r] /\ r \notin signedOut
    /\ r \in signedOut => cookie[r] # None /\ session[cookie[r]] = "revoked"
    /\ route[r] = "me" /\ response[r] # None /\ response[r].code = "OK" =>
           user[r] # None

RequestInv(r) ==
    Written(r) /\ Fresh(r) /\ Named(r) /\ Isolated(r) /\ Logged(r) /\ Guarded(r)

\* What a request's invariant speaks of.
Untouched(r) ==
    /\ stage'[r] = stage[r] /\ route'[r] = route[r] /\ cookie'[r] = cookie[r]
    /\ header'[r] = header[r] /\ loggerStore'[r] = loggerStore[r]
    /\ tenantStore'[r] = tenantStore[r] /\ user'[r] = user[r]
    /\ response'[r] = response[r] /\ lines'[r] = lines[r]
    /\ resolved'[r] = resolved[r] /\ handlerSaw'[r] = handlerSaw[r]
    /\ r \in watched' <=> r \in watched
    /\ r \in signedOut' <=> r \in signedOut
    /\ r \in undecided' <=> r \in undecided

\* A step of one request leaves the others alone, and no step signs a revoked
\* session in again.
LEMMA OneAtATime ==
    ASSUME TypeOK, NEW q \in Requests,
           \/ \E path \in Routes, token \in Tokens \cup {None},
                 incoming \in ClientIds \cup {None} : Arrive(q, path, token, incoming)
           \/ Serve(q)
    PROVE  /\ \A r \in Requests \ {q} : Untouched(r)
           /\ embedded' = embedded
           /\ \A t \in Tokens : session[t] = "revoked" => session'[t] = "revoked"
<1>1. embedded' = embedded
  BY DEF Arrive, Serve, ResolveFails, Resolved, BetterAuth, NotFound, BodyRefused,
         Throttled, Handled, Guard, SessionRead, SessionFails, Refused, Admitted, Ready,
         Checked, Flush, Drop, routingFrame, endFrame, inputVars
<1>2. \A t \in Tokens : session[t] = "revoked" => session'[t] = "revoked"
  <2>1. CASE BetterAuth(q)
    BY <2>1 DEF BetterAuth, TypeOK
  <2>2. CASE session' = session
    BY <2>2
  <2>3. QED
    BY <2>1, <2>2
    DEF Arrive, Serve, ResolveFails, Resolved, NotFound, BodyRefused, Throttled, Handled,
        Guard, SessionRead, SessionFails, Refused, Admitted, Ready, Checked, Flush, Drop,
        endFrame
<1>3. ASSUME NEW r \in Requests \ {q} PROVE Untouched(r)
  <2>1. CASE \E path \in Routes, token \in Tokens \cup {None},
                incoming \in ClientIds \cup {None} : Arrive(q, path, token, incoming)
    BY <2>1 DEF Arrive, withLoggerContext, Untouched, TypeOK
  <2>2. CASE \E tenant \in Tenants \cup {None} : Resolved(q, tenant)
    BY <2>2
    DEF Resolved, withLoggerContext, withTenantContext, contextVars, inputVars,
        Untouched, TypeOK
  <2>3. CASE ResolveFails(q)
    BY <2>3 DEF ResolveFails, Filter, contextVars, inputVars, Untouched, TypeOK
  <2>4. CASE BetterAuth(q) \/ Ready(q) \/ SessionRead(q)
    BY <2>4
    DEF BetterAuth, Ready, SessionRead, Reply, routingFrame, contextVars, inputVars,
        Untouched, TypeOK
  <2>5. CASE \/ NotFound(q) \/ BodyRefused(q) \/ Throttled(q) \/ SessionFails(q)
             \/ Refused(q) \/ Guard(q)
    BY <2>5
    DEF NotFound, BodyRefused, Throttled, SessionFails, Refused, Guard, Filter,
        routingFrame, contextVars, inputVars, Untouched, TypeOK
  <2>6. CASE Handled(q) \/ Admitted(q) \/ Checked(q)
    BY <2>6
    DEF Handled, Admitted, Checked, Reply, Filter, Ran, routingFrame, contextVars,
        inputVars, Untouched, TypeOK
  <2>7. CASE Flush(q) \/ Drop(q)
    BY <2>7
    DEF Flush, Drop, endFrame, contextVars, inputVars, historyVars, Untouched, TypeOK
  <2>8. QED
    BY <2>1, <2>2, <2>3, <2>4, <2>5, <2>6, <2>7 DEF Serve
<1>4. QED
  BY <1>1, <1>2, <1>3

LEMMA RequestFrame ==
    ASSUME TypeOK, NEW r \in Requests, RequestInv(r), Untouched(r), embedded' = embedded,
           \A t \in Tokens : session[t] = "revoked" => session'[t] = "revoked"
    PROVE  RequestInv(r)'
<1>1. Written(r)' /\ Fresh(r)' /\ Named(r)' /\ Isolated(r)'
  BY DEF RequestInv, Untouched, Written, Fresh, Named, Isolated, Answered, Undecided
<1>2. Logged(r)'
  BY DEF RequestInv, Untouched, Logged, Answered, Undecided
<1>3. Guarded(r)'
  BY DEF RequestInv, Untouched, Guarded, TypeOK
<1>4. QED
  BY <1>1, <1>2, <1>3 DEF RequestInv

\* A stretch of code that ends in a response: what it wrote carries the code
\* of an error and the id of the context, or it is a reply.
LEMMA AnswerStep ==
    ASSUME TypeOK, NEW q \in Requests, RequestInv(q),
           stage[q] \in {"resolving", "routing", "guarding", "guarded", "checking"},
           \/ \E code \in ErrorCodes : Filter(q, code)
           \/ /\ \E status \in {200, 401} : Reply(q, status)
              /\ route[q] = "me" => user[q] # None,
           stage[q] = "resolving" =>
               undecided' = undecided \cup {q} /\ handlerSaw' = handlerSaw,
           stage[q] # "resolving" => undecided' = undecided,
           Ran(q) \/ handlerSaw' = handlerSaw,
           UNCHANGED <<inputVars, contextVars, watched, user, lines, resolved, signedOut>>,
           \A t \in Tokens : session[t] = "revoked" => session'[t] = "revoked"
    PROVE  RequestInv(q)'
<1>1. stage'[q] = "responding" /\ response'[q] # None
  <2>1. response'[q] \in Responses
    BY WrittenType
  <2>2. stage'[q] = "responding"
    BY DEF Filter, Reply, TypeOK
  <2>3. QED
    BY <2>1, <2>2, PipelineAssumption
<1>2. \/ response'[q].code \in ErrorCodes /\ response'[q].requestId = loggerStore[q].requestId
      \/ response'[q].code = "OK" /\ (route[q] = "me" => user[q] # None)
  BY DEF Filter, Reply, TypeOK
<1>3. Written(q)'
  BY <1>1 DEF Written, Answered
<1>4. Fresh(q)'
  BY <1>1 DEF Fresh, Undecided
<1>5. Named(q)'
  BY <1>2 DEF Named, RequestInv, inputVars, contextVars
<1>6. Isolated(q)'
  BY DEF Isolated, RequestInv, Ran, contextVars, TypeOK
<1>7. Logged(q)'
  BY <1>1 DEF Logged, RequestInv, Fresh, Answered, Undecided, inputVars
<1>8. Guarded(q)'
  <2>1. /\ UNCHANGED <<user, cookie, signedOut, embedded, route>>
        /\ Guarded(q)
    BY DEF inputVars, RequestInv
  <2>2. q \in signedOut => cookie[q] # None /\ session'[cookie[q]] = "revoked"
    BY <2>1 DEF Guarded, TypeOK
  <2>3. route[q] = "me" /\ response'[q].code = "OK" => user[q] # None
    BY <1>2, CodeFacts
  <2>4. QED
    BY <1>1, <2>1, <2>2, <2>3 DEF Guarded
<1>9. QED
  BY <1>3, <1>4, <1>5, <1>6, <1>7, <1>8 DEF RequestInv

\* A step of a request keeps its own invariant.
LEMMA OwnStep ==
    ASSUME TypeOK, NEW q \in Requests, RequestInv(q),
           \/ \E path \in Routes, token \in Tokens \cup {None},
                 incoming \in ClientIds \cup {None} : Arrive(q, path, token, incoming)
           \/ Serve(q)
    PROVE  RequestInv(q)'
<1>1. \A t \in Tokens : session[t] = "revoked" => session'[t] = "revoked"
  BY OneAtATime
<1>2. ASSUME NEW path \in Routes, NEW token \in Tokens \cup {None},
             NEW incoming \in ClientIds \cup {None}, Arrive(q, path, token, incoming)
      PROVE  RequestInv(q)'
  <2>1. /\ stage[q] = "unsent" /\ stage'[q] = "resolving" /\ route'[q] = path
        /\ cookie'[q] = token /\ header'[q] = RequestId(q, incoming)
        /\ loggerStore'[q].requestId = RequestId(q, incoming)
        /\ loggerStore'[q].tenantId = loggerStore[q].tenantId
    BY <1>2 DEF Arrive, withLoggerContext, TypeOK, Context
  <2>2. UNCHANGED <<embedded, tenantStore, watched, user, response, lines, session,
                    resolved, handlerSaw, undecided>>
    BY <1>2 DEF Arrive
  <2>3. q \in signedOut' <=> token # None /\ session[token] = "revoked"
    BY <1>2, <2>1 DEF Arrive, RequestInv, Fresh
  <2>4. /\ ~Answered(q) /\ ~Answered(q)' /\ Undecided(q) /\ Undecided(q)'
        /\ response[q] = None
    BY <2>1 DEF Answered, Undecided, RequestInv, Written
  <2>5. Written(q)' /\ Fresh(q)' /\ Named(q)' /\ Isolated(q)'
    BY <2>1, <2>2, <2>4 DEF RequestInv, Written, Fresh, Named, Isolated
  <2>6. Logged(q)'
    BY <2>1, <2>2, <2>4 DEF RequestInv, Logged
  <2>7. Guarded(q)'
    BY <2>1, <2>2, <2>3, <2>4 DEF RequestInv, Fresh, Guarded
  <2>8. QED
    BY <2>5, <2>6, <2>7 DEF RequestInv
<1>3. ASSUME NEW tenant \in Tenants \cup {None}, Resolved(q, tenant)
      PROVE  RequestInv(q)'
  <2>1. /\ stage[q] = "resolving" /\ stage'[q] = "routing" /\ resolved'[q] = tenant
        /\ UNCHANGED <<inputVars, user, response, lines, session, handlerSaw, signedOut,
                       undecided>>
        /\ watched' = IF Skipped(route[q]) THEN watched ELSE watched \cup {q}
    BY <1>3 DEF Resolved, TypeOK
  <2>2. /\ ~Answered(q) /\ ~Answered(q)' /\ Undecided(q) /\ ~Undecided(q)'
        /\ response[q] = None
    BY <2>1 DEF Answered, Undecided, RequestInv, Written
  <2>3. /\ loggerStore'[q].requestId = loggerStore[q].requestId
        /\ loggerStore'[q].tenantId = tenant
        /\ tenantStore'[q] = tenant
    <3>1. loggerStore[q] \in Context
      BY DEF TypeOK
    <3>2. CASE tenant = None
      BY <1>3, <2>2, <3>2 DEF Resolved, contextVars, RequestInv, Isolated, Fresh
    <3>3. CASE tenant # None
      <4>1. /\ loggerStore'[q] = [loggerStore[q] EXCEPT !.tenantId = tenant]
            /\ tenantStore'[q] = tenant
        BY <1>3, <3>3 DEF Resolved, withLoggerContext, withTenantContext, TypeOK
      <4>2. QED
        BY <3>1, <4>1 DEF Context
    <3>4. QED
      BY <3>2, <3>3
  <2>4. Written(q)' /\ Fresh(q)' /\ Named(q)'
    BY <2>1, <2>2, <2>3 DEF RequestInv, Written, Fresh, Named, inputVars
  <2>5. Isolated(q)'
    BY <2>1, <2>2, <2>3 DEF RequestInv, Isolated, Fresh
  <2>6. Logged(q)'
    BY <2>1, <2>2 DEF RequestInv, Logged, Fresh, inputVars, Skipped
  <2>7. Guarded(q)'
    BY <2>1, <2>2 DEF RequestInv, Guarded, inputVars
  <2>8. QED
    BY <2>4, <2>5, <2>6, <2>7 DEF RequestInv
<1>4. CASE ResolveFails(q)
  BY <1>1, <1>4, AnswerStep, PipelineAssumption DEF ResolveFails
<1>5. CASE BetterAuth(q)
  BY <1>1, <1>5, AnswerStep DEF BetterAuth, routingFrame
<1>6. CASE NotFound(q) \/ BodyRefused(q) \/ Throttled(q)
  <2>1. \E code \in ErrorCodes : Filter(q, code)
    BY <1>6, CodeFacts DEF NotFound, BodyRefused, Throttled
  <2>2. QED
    BY <1>1, <1>6, <2>1, AnswerStep DEF NotFound, BodyRefused, Throttled, routingFrame
<1>7. CASE SessionFails(q) \/ Refused(q)
  <2>1. \E code \in ErrorCodes : Filter(q, code)
    BY <1>7, CodeFacts DEF SessionFails, Refused
  <2>2. QED
    BY <1>1, <1>7, <2>1, AnswerStep DEF SessionFails, Refused, routingFrame
<1>8. CASE Handled(q)
  <2>1. \/ Reply(q, 200) /\ route[q] # "me"
        \/ \E code \in ErrorCodes : Filter(q, code)
    BY <1>8, CodeFacts DEF Handled
  <2>2. QED
    BY <1>1, <1>8, <2>1, AnswerStep DEF Handled, routingFrame
<1>9. CASE Admitted(q)
  BY <1>1, <1>9, AnswerStep DEF Admitted, routingFrame
<1>10. CASE Checked(q)
  <2>1. route[q] \in {"ready", "metrics"}
    BY <1>10 DEF Checked, RequestInv, Guarded
  <2>2. Reply(q, 200) \/ \E code \in ErrorCodes : Filter(q, code)
    BY <1>10, CodeFacts DEF Checked
  <2>3. QED
    BY <1>1, <1>10, <2>1, <2>2, AnswerStep DEF Checked, routingFrame
<1>11. ASSUME stage[q] \in {"routing", "guarding"},
              stage'[q] \in {"guarding", "guarded", "checking"},
              stage'[q] \in {"guarding", "guarded"} => embedded,
              stage'[q] = "checking" => route[q] \in {"ready", "metrics"},
              user' = user \/ /\ user'[q] = SessionOf(cookie[q])
                              /\ stage[q] = "guarding",
              UNCHANGED <<routingFrame, response, session, handlerSaw>>
       PROVE  RequestInv(q)'
  <2>1. /\ ~Answered(q) /\ ~Answered(q)' /\ ~Undecided(q) /\ ~Undecided(q)'
        /\ response[q] = None
    BY <1>11 DEF Answered, Undecided, RequestInv, Written
  <2>2. Written(q)' /\ Fresh(q)' /\ Named(q)' /\ Isolated(q)'
    BY <1>11, <2>1
    DEF RequestInv, Written, Fresh, Named, Isolated, routingFrame, inputVars, contextVars
  <2>3. Logged(q)'
    BY <1>11, <2>1 DEF RequestInv, Logged, routingFrame, inputVars
  <2>4. Guarded(q)'
    BY <1>11, <2>1 DEF RequestInv, Guarded, SessionOf, routingFrame, inputVars
  <2>5. QED
    BY <2>2, <2>3, <2>4 DEF RequestInv
<1>12. CASE Guard(q)
  <2>1. CASE embedded
    BY <1>11, <1>12, <2>1 DEF Guard, TypeOK
  <2>2. CASE ~embedded
    BY <1>1, <1>12, <2>2, AnswerStep, CodeFacts DEF Guard, routingFrame
  <2>3. QED
    BY <2>1, <2>2
<1>13. CASE SessionRead(q)
  BY <1>11, <1>13 DEF SessionRead, RequestInv, Guarded, TypeOK
<1>14. CASE Ready(q)
  BY <1>11, <1>14 DEF Ready, TypeOK
<1>15. CASE Flush(q) \/ Drop(q)
  <2>1. /\ stage[q] = "responding" /\ stage'[q] \in {"finished", "dropped"}
        /\ UNCHANGED endFrame
    BY <1>15 DEF Flush, Drop, TypeOK
  <2>2. Answered(q) /\ Answered(q)' /\ ~Undecided(q) /\ ~Undecided(q)'
    BY <2>1 DEF Answered, Undecided
  <2>3. Written(q)' /\ Fresh(q)' /\ Named(q)' /\ Isolated(q)' /\ Guarded(q)'
    BY <2>1, <2>2
    DEF RequestInv, Written, Fresh, Named, Isolated, Guarded, endFrame, inputVars,
        contextVars, historyVars
  <2>4. lines[q] = <<>> /\ (q \in watched <=> route[q] \notin Prefixed /\ q \notin undecided)
    BY <2>1, <2>2 DEF RequestInv, Logged
  <2>5. lines'[q] = IF stage'[q] = "finished" /\ q \in watched
                    THEN <<[status |-> response[q].status, requestId |-> header[q]]>>
                    ELSE <<>>
    <3>1. CASE Flush(q)
      <4>1. lines'[q] = IF q \in watched
                        THEN Append(<<>>, [status |-> response[q].status,
                                           requestId |-> header[q]])
                        ELSE <<>>
        BY <2>4, <3>1 DEF Flush, TypeOK
      <4>2. stage'[q] = "finished"
        BY <3>1 DEF Flush, TypeOK
      <4>3. \A x : Append(<<>>, x) = <<x>>
        OBVIOUS
      <4>4. QED
        BY <4>1, <4>2, <4>3
    <3>2. CASE Drop(q)
      BY <2>4, <3>2 DEF Drop, TypeOK
    <3>3. QED
      BY <1>15, <3>1, <3>2
  <2>6. Logged(q)'
    BY <2>1, <2>2, <2>4, <2>5 DEF RequestInv, Logged, endFrame, inputVars, historyVars
  <2>7. QED
    BY <2>3, <2>6 DEF RequestInv
<1>16. QED
  BY <1>2, <1>3, <1>4, <1>5, <1>6, <1>7, <1>8, <1>9, <1>10, <1>12, <1>13, <1>14, <1>15
  DEF Serve

PipelineInv == TypeOK /\ \A r \in Requests : RequestInv(r)

LEMMA PipelineInit == Init => PipelineInv
<1> SUFFICES ASSUME Init PROVE PipelineInv
  OBVIOUS
<1>1. TypeOK
  BY DEF Init, TypeOK, Stages, Routes, Prefixed, Context
<1>2. ASSUME NEW r \in Requests PROVE RequestInv(r)
  BY PipelineAssumption
  DEF Init, RequestInv, Written, Fresh, Named, Isolated, Logged, Guarded, Answered,
      Undecided
<1>3. QED
  BY <1>1, <1>2 DEF PipelineInv

LEMMA PipelineStep == PipelineInv /\ [Next]_vars => PipelineInv'
<1> SUFFICES ASSUME PipelineInv, [Next]_vars PROVE PipelineInv'
  OBVIOUS
<1>1. TypeOK /\ \A r \in Requests : RequestInv(r)
  BY DEF PipelineInv
<1>2. TypeOK'
  BY <1>1, TypeStep DEF RequestInv
<1>3. CASE UNCHANGED vars
  <2>1. ASSUME NEW r \in Requests PROVE RequestInv(r)'
    <3>1. Untouched(r) /\ embedded' = embedded /\ session' = session
      BY <1>3 DEF vars, inputVars, contextVars, historyVars, Untouched
    <3>2. QED
      BY <1>1, <3>1, RequestFrame
  <2>2. QED
    BY <1>2, <2>1 DEF PipelineInv
<1>4. ASSUME NEW q \in Requests,
             \/ \E path \in Routes, token \in Tokens \cup {None},
                   incoming \in ClientIds \cup {None} : Arrive(q, path, token, incoming)
             \/ Serve(q)
      PROVE  PipelineInv'
  <2>1. RequestInv(q)'
    BY <1>1, <1>4, OwnStep
  <2>2. ASSUME NEW r \in Requests \ {q} PROVE RequestInv(r)'
    <3>1. /\ Untouched(r) /\ embedded' = embedded
          /\ \A t \in Tokens : session[t] = "revoked" => session'[t] = "revoked"
      BY <1>1, <1>4, OneAtATime
    <3>2. QED
      BY <1>1, <3>1, RequestFrame
  <2>3. QED
    BY <1>2, <2>1, <2>2 DEF PipelineInv
<1>5. QED
  BY <1>3, <1>4 DEF Next

-----------------------------------------------------------------------------
\* Every variable keeps its type: in particular the statuses and ids that are
\* logged are those of responses.
THEOREM TypeCorrect == Spec => []TypeOK
<1>1. PipelineInv => TypeOK
  BY DEF PipelineInv
<1>2. QED
  BY <1>1, PipelineInit, PipelineStep, PTL DEF Spec

\* However requests interleave, the body of an error names the request it
\* answers. (app-error.filter.ts; request-id.middleware.ts)
THEOREM ErrorsNameTheirRequest == Spec => []ErrorNamesItsRequest
<1>1. PipelineInv => ErrorNamesItsRequest
  BY DEF PipelineInv, RequestInv, Written, Named, ErrorNamesItsRequest
<1>2. QED
  BY <1>1, PipelineInit, PipelineStep, PTL DEF Spec

\* A handler and the log line of its request see the tenant the request itself
\* resolved to. (tenant.middleware.ts)
THEOREM RequestsAreIsolated == Spec => []TenantIsolation
<1>1. PipelineInv => TenantIsolation
  BY DEF PipelineInv, RequestInv, Isolated, TenantIsolation
<1>2. QED
  BY <1>1, PipelineInit, PipelineStep, PTL DEF Spec

\* Each request that was flushed after a tenant decision, unless its path begins
\* with a skipped prefix, has one line in the access log, with the status and the
\* id its client got; no other has one. (request-logger.middleware.ts)
THEOREM LogIsExact == Spec => []AccessLogExact
<1>1. PipelineInv => AccessLogExact
  BY DEF PipelineInv, RequestInv, Logged, AccessLogExact, Prefixed
<1>2. QED
  BY <1>1, PipelineInit, PipelineStep, PTL DEF Spec

\* The guarded route serves nobody without a session of their own, nor a
\* request that was sent after the session was revoked. (authenticated.guard.ts)
THEOREM GuardedRouteIsSafe == Spec => []GuardHolds
<1>1. PipelineInv => GuardHolds
  BY DEF PipelineInv, RequestInv, Written, Guarded, GuardHolds
<1>2. QED
  BY <1>1, PipelineInit, PipelineStep, PTL DEF Spec

\* A second response is never written.
THEOREM OneAnswer == Spec => AnsweredOnce
<1> DEFINE Once == \A r \in Requests : response[r] # None => response'[r] = response[r]
<1>1. PipelineInv /\ [Next]_vars => Once
  <2> SUFFICES ASSUME PipelineInv, [Next]_vars, NEW r \in Requests, response[r] # None
               PROVE  response'[r] = response[r]
    OBVIOUS
  <2>1. TypeOK /\ Answered(r)
    BY DEF PipelineInv, RequestInv, Written
  <2>2. ASSUME NEW q \in Requests \ {r},
               \/ \E path \in Routes, token \in Tokens \cup {None},
                     incoming \in ClientIds \cup {None} : Arrive(q, path, token, incoming)
               \/ Serve(q)
        PROVE  response'[r] = response[r]
    BY <2>1, <2>2, OneAtATime DEF Untouched
  <2>3. ASSUME NEW path \in Routes, NEW token \in Tokens \cup {None},
               NEW incoming \in ClientIds \cup {None}, Arrive(r, path, token, incoming)
        PROVE  response'[r] = response[r]
    BY <2>3 DEF Arrive
  <2>4. CASE Serve(r)
    <3>1. Flush(r) \/ Drop(r)
      BY <2>1, <2>4
      DEF Answered, Serve, ResolveFails, Resolved, BetterAuth, NotFound, BodyRefused,
          Throttled, Handled, Guard, SessionRead, SessionFails, Refused, Admitted, Ready,
          Checked
    <3>2. QED
      BY <3>1 DEF Flush, Drop, endFrame
  <2>5. CASE UNCHANGED vars
    BY <2>5 DEF vars
  <2>6. QED
    BY <2>2, <2>3, <2>4, <2>5 DEF Next
<1>2. Spec => [][Once]_vars
  BY <1>1, PipelineInit, PipelineStep, PTL DEF Spec
<1>3. QED
  BY <1>2 DEF AnsweredOnce
=============================================================================
