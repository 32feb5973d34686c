\* Two concurrent requests, a resolver that can fail, fair continuations.
CONSTANTS
    Requests = {r1, r2}
    ClientIds = {c1}
    Tenants = {acme}
    Tokens = {t1}
    None = None
    ResolverErrors = {"UNAUTHORIZED"}
SPECIFICATION FairSpec
INVARIANTS TypeOK ErrorNamesItsRequest TenantIsolation AccessLogExact GuardHolds
PROPERTIES AnsweredOnce EveryRequestAnswered
CHECK_DEADLOCK FALSE
