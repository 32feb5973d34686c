------------------------------ MODULE JobQueue ------------------------------
(***************************************************************************)
(* The in-memory job queue of packages/infrastructure/src/queue.ts         *)
(* (createMemoryJobQueue) together with the workers its port describes:    *)
(* a worker calls claimNext, runs the job's handler and reports the        *)
(* outcome with ack or nack.                                               *)
(*                                                                         *)
(* The queue identifies a report by the job's id only, so what a job goes  *)
(* through depends on how many reports reach the queue for one claim.      *)
(* MaxReports = 1 is the worker of the port's comment (one ack or nack);   *)
(* MaxReports > 1 also admits a report that is repeated or contradicted,   *)
(* e.g. a handler that acks and then falls into a catch block that nacks.  *)
(* The jobs that met such a report are kept in misreported.                *)
(***************************************************************************)
EXTENDS Integers, FiniteSets

CONSTANTS
    Workers,         \* the worker loops polling claimNext
    Keys,            \* idempotency keys
    NoKey,           \* a descriptor without an idempotencyKey
    MaxJobs,         \* bound: records the producers create
    Budgets,         \* values of maxAttempts the producers ask for
    Schedules,       \* values of scheduledFor the producers ask for
    Millisecond,     \* ticks of time in a millisecond, the clock's resolution
    MaxNow,          \* bound: last instant of the clock
    MaxStepBacks,    \* bound: times the wall clock is set back
    MaxReports,      \* bound: reports a worker sends for one claim
    MaxAbandons      \* bound: claims whose worker never reports

Instants == 0 .. MaxNow
JobIds == 1 .. MaxJobs
NoJob == 0

\* scheduledFor is an ISO 8601 instant and what its last written digit counts:
\* a minute ("T10:00Z"), a second ("...:01Z"), a tenth ("...:01.5Z"), exactly a
\* millisecond, or less than one ("...:01.0009Z"). job.ts admits any number of
\* digits. A descriptor that leaves it out behaves as one due since the epoch.
ScheduleForms ==
    {s \in [at : Instants, unit : Nat \ {0}] :
        /\ s.at % s.unit = 0
        /\ s.unit > Millisecond => s.unit % Millisecond = 0}
NoSchedule == [at |-> 0, unit |-> Millisecond]

ASSUME ConstantsAssumption ==
    /\ MaxJobs \in Nat /\ MaxNow \in Nat /\ MaxStepBacks \in Nat
    /\ MaxAbandons \in Nat
    /\ Millisecond \in Nat \ {0}
    /\ MaxReports \in Nat \ {0}
    /\ Budgets \subseteq Nat \ {0}
    /\ Schedules \subseteq ScheduleForms
    /\ NoKey \notin Keys

VARIABLES
    records,              \* the Map of job records, by id
    seenIdempotencyKeys,  \* idempotency key -> id of the job that took it
    nextId,               \* ids handed out so far
    now,                  \* the time of the wall clock, in ticks
    held,                 \* what each worker is working on
    stepBacks,            \* how often the clock was set back
    claims,               \* history: times each job was handed to a worker
    nacks,                \* history: nacks each job received
    abandoned,            \* history: jobs whose worker never reported
    misreported,          \* history: jobs reported twice for one claim
    answered              \* history: ids returned to the producers of a key

queueVars == <<records, seenIdempotencyKeys, nextId>>
historyVars == <<claims, nacks, abandoned, misreported, answered>>
vars == <<queueVars, now, stepBacks, held, historyVars>>

Statuses == {"pending", "running", "succeeded", "failed"}
Settled == {"succeeded", "failed"}

\* "absent" stands for an id that is not a key of the Map yet.
JobRecord == [status : Statuses \cup {"absent"}, attempt : Nat,
              maxAttempts : Nat, idempotencyKey : Keys \cup {NoKey},
              scheduledFor : ScheduleForms, enqueuedAt : Instants]
NoRecord == [status |-> "absent", attempt |-> 0, maxAttempts |-> 0,
             idempotencyKey |-> NoKey, scheduledFor |-> NoSchedule,
             enqueuedAt |-> 0]

Idle == [job |-> NoJob, reports |-> 0]
Claim == [job : {NoJob} \cup JobIds, reports : 0 .. MaxReports]

Pending(j) == records[j].status = "pending"
Running(j) == records[j].status = "running"
Known(j) == records[j].status # "absent"

-----------------------------------------------------------------------------
(* Definitions named ...Deviation are bugs this code could have. The       *)
(* specification never uses one: each is put in the place of the           *)
(* definition after it to see that a property notices.                     *)

\* toISOString: the time cut off after three digits of a second.
Printed(time) == time - (time % Millisecond)

\* The clock is rounded up.
ReachedDeviation(s) == Printed(s.at) <= Printed(now) + Millisecond

(***************************************************************************)
(* scheduledFor <= now.toISOString(), a comparison of STRINGS. "." and the *)
(* digits sort before "Z", so "...:01Z" <= "...:01.500Z" is false: an      *)
(* instant written with fewer digits than the clock prints compares as     *)
(* reached only when the last digit it has is exceeded. One written with   *)
(* more digits compares as reached in the millisecond it falls in, since   *)
(* "...:01.0009Z" <= "...:01.000Z" is true.                                *)
(***************************************************************************)
Reached(s) ==
    IF s.unit > Millisecond THEN s.at + s.unit <= now
                            ELSE Printed(s.at) <= Printed(now)

\* Running jobs stay selectable.
ReadyDeviation1 ==
    {j \in JobIds : /\ records[j].status \in {"pending", "running"}
                    /\ Reached(records[j].scheduledFor)}

\* Failed jobs are picked up again.
ReadyDeviation2 ==
    {j \in JobIds : /\ records[j].status \in {"pending", "failed"}
                    /\ Reached(records[j].scheduledFor)}

\* Jobs claimNext selects from.
Ready == {j \in JobIds : Pending(j) /\ Reached(records[j].scheduledFor)}

\* A sort that reverses ties.
BeforeDeviation(i, j) ==
    \/ records[i].enqueuedAt < records[j].enqueuedAt
    \/ records[i].enqueuedAt = records[j].enqueuedAt /\ i > j

\* The stable sort by enqueuedAt: the Map iterates in insertion order, so
\* records enqueued in the same millisecond stay in order of id.
Before(i, j) ==
    \/ records[i].enqueuedAt < records[j].enqueuedAt
    \/ records[i].enqueuedAt = records[j].enqueuedAt /\ i < j

First(j) == j \in Ready /\ \A i \in Ready \ {j} : Before(j, i)

-----------------------------------------------------------------------------
Init ==
    /\ records = [j \in JobIds |-> NoRecord]
    /\ seenIdempotencyKeys = [k \in Keys |-> NoJob]
    /\ nextId = 0
    /\ now = 0
    /\ stepBacks = 0
    /\ held = [w \in Workers |-> Idle]
    /\ claims = [j \in JobIds |-> 0]
    /\ nacks = [j \in JobIds |-> 0]
    /\ abandoned = {}
    /\ misreported = {}
    /\ answered = [k \in Keys |-> {}]

\* enqueue of a descriptor whose key was seen: the existing record is
\* returned whatever its status.
Deduplicated(key) ==
    /\ answered' = [answered EXCEPT ![key] = @ \cup {seenIdempotencyKeys[key]}]
    /\ UNCHANGED queueVars

\* enqueue of any other descriptor: a new pending record.
Recorded(key, schedule, budget) ==
    LET id == nextId + 1 IN
    /\ id \in JobIds
    /\ nextId' = id
    /\ records' = [records EXCEPT ![id] =
           [status |-> "pending", attempt |-> 1, maxAttempts |-> budget,
            idempotencyKey |-> key, scheduledFor |-> schedule,
            enqueuedAt |-> Printed(now)]]
    /\ seenIdempotencyKeys' = [k \in Keys |->
           IF k = key THEN id ELSE seenIdempotencyKeys[k]]
    /\ answered' = [k \in Keys |->
           IF k = key THEN answered[k] \cup {id} ELSE answered[k]]

\* A settled job gives its key back.
SeenDeviation1(key) ==
    /\ key \in Keys
    /\ seenIdempotencyKeys[key] # NoJob
    /\ records[seenIdempotencyKeys[key]].status \notin Settled

Seen(key) == key \in Keys /\ seenIdempotencyKeys[key] # NoJob

Enqueue(key, schedule, budget) ==
    /\ IF Seen(key) THEN Deduplicated(key) ELSE Recorded(key, schedule, budget)
    /\ UNCHANGED <<now, stepBacks, held, claims, nacks, abandoned,
                   misreported>>

\* claimNext: the first ready record becomes running; its attempt number was
\* already set by enqueue or by the nack that returned it.
ClaimNext(w) ==
    /\ held[w] = Idle
    /\ \E j \in JobIds :
        /\ First(j)
        /\ records' = [records EXCEPT ![j].status = "running"]
        /\ held' = [held EXCEPT ![w] = [job |-> j, reports |-> 0]]
        /\ claims' = [claims EXCEPT ![j] = @ + 1]
    /\ UNCHANGED <<seenIdempotencyKeys, nextId, now, stepBacks, nacks,
                   abandoned, misreported, answered>>

\* After a report the worker polls again, or stays about to report the same
\* claim once more.
Reported(w) ==
    /\ \/ held' = [held EXCEPT ![w] = Idle]
       \/ /\ held[w].reports + 1 < MaxReports
          /\ held' = [held EXCEPT ![w].reports = @ + 1]
    /\ misreported' = IF held[w].reports > 0
                      THEN misreported \cup {held[w].job}
                      ELSE misreported

\* ack: the record becomes succeeded, whatever its status was.
Ack(w) ==
    LET j == held[w].job IN
    /\ j # NoJob
    /\ records' = [records EXCEPT ![j].status = "succeeded"]
    /\ Reported(w)
    /\ UNCHANGED <<seenIdempotencyKeys, nextId, now, stepBacks, claims, nacks,
                   abandoned, answered>>

\* One attempt too many.
ExhaustedDeviation(r) == r.attempt > r.maxAttempts

Exhausted(r) == r.attempt >= r.maxAttempts

\* The job is not given back.
NackedDeviation1(r) ==
    IF Exhausted(r)
    THEN [r EXCEPT !.status = "failed"]
    ELSE [r EXCEPT !.attempt = @ + 1]

\* The attempt is not counted.
NackedDeviation2(r) ==
    [r EXCEPT !.status = IF Exhausted(r) THEN "failed" ELSE "pending"]

\* The record nack writes: failed when the attempts are used up, otherwise
\* pending with the next attempt number; whatever the status was.
Nacked(r) ==
    IF Exhausted(r)
    THEN [r EXCEPT !.status = "failed"]
    ELSE [r EXCEPT !.status = "pending", !.attempt = @ + 1]

Nack(w) ==
    LET j == held[w].job IN
    /\ j # NoJob
    /\ records' = [records EXCEPT ![j] = Nacked(@)]
    /\ nacks' = [nacks EXCEPT ![j] = @ + 1]
    /\ Reported(w)
    /\ UNCHANGED <<seenIdempotencyKeys, nextId, now, stepBacks, claims,
                   abandoned, answered>>

\* A worker dies or hangs with a claim it has not reported. The queue has no
\* visibility timeout: nothing ever returns the job to pending.
Abandon(w) ==
    LET j == held[w].job IN
    /\ j # NoJob
    /\ held[w].reports = 0
    /\ Cardinality(abandoned) < MaxAbandons
    /\ held' = [held EXCEPT ![w] = Idle]
    /\ abandoned' = abandoned \cup {j}
    /\ UNCHANGED <<queueVars, now, stepBacks, claims, nacks, misreported,
                   answered>>

Tick ==
    /\ now < MaxNow
    /\ now' = now + 1
    /\ UNCHANGED <<queueVars, stepBacks, held, historyVars>>

\* new Date() reads the wall clock, which an operator or NTP may set back.
StepBack ==
    /\ stepBacks < MaxStepBacks
    /\ now > 0
    /\ now' = now - 1
    /\ stepBacks' = stepBacks + 1
    /\ UNCHANGED <<queueVars, held, historyVars>>

Next ==
    \/ \E key \in Keys \cup {NoKey}, schedule \in Schedules, budget \in Budgets :
           Enqueue(key, schedule, budget)
    \/ \E w \in Workers : ClaimNext(w)
    \/ \E w \in Workers : Ack(w)
    \/ \E w \in Workers : Nack(w)
    \/ \E w \in Workers : Abandon(w)
    \/ Tick
    \/ StepBack

Spec == Init /\ [][Next]_vars

\* A worker loop keeps polling, a handler that is not abandoned ends in a
\* report, and time passes. Nothing obliges a producer to enqueue.
Report(w) == Ack(w) \/ Nack(w)
Fairness ==
    /\ WF_vars(\E w \in Workers : ClaimNext(w))
    /\ \A w \in Workers : WF_vars(Report(w))
    /\ WF_vars(Tick)

FairSpec == Spec /\ Fairness
-----------------------------------------------------------------------------
(***************************************************************************)
(* Properties                                                              *)
(***************************************************************************)

\* Type invariant: every variable stays in the domain described above.
TypeOK ==
    /\ records \in [JobIds -> JobRecord]
    /\ seenIdempotencyKeys \in [Keys -> {NoJob} \cup JobIds]
    /\ nextId \in 0 .. MaxJobs
    /\ now \in Instants
    /\ stepBacks \in 0 .. MaxStepBacks
    /\ held \in [Workers -> Claim]
    /\ claims \in [JobIds -> Nat]
    /\ nacks \in [JobIds -> Nat]
    /\ abandoned \subseteq JobIds
    /\ misreported \subseteq JobIds
    /\ answered \in [Keys -> SUBSET JobIds]

\* However often, late or contradictorily workers report, a job's handler is
\* started at most maxAttempts times, and a job is only given up after at
\* least maxAttempts nacks. (attempt accounting of claimNext / ack / nack)
RetryBudget ==
    \A j \in JobIds : Known(j) =>
        /\ claims[j] <= records[j].maxAttempts
        /\ records[j].status = "failed" => nacks[j] >= records[j].maxAttempts

\* A worker that has not reported its claim yet.
Working(w, j) == held[w].job = j /\ held[w].reports = 0

\* No two workers ever run the same job, a job somebody works on is running
\* in the queue, and a running job nobody works on is one whose worker never
\* reported: nothing else is lost in "running". Only a job that was reported
\* twice for one claim is exempt; the other jobs are not affected by it.
ExclusiveClaim ==
    \A j \in JobIds \ misreported :
        /\ \A v, w \in Workers : Working(v, j) /\ Working(w, j) => v = w
        /\ \A w \in Workers : Working(w, j) => Running(j)
        /\ Running(j) /\ j \notin abandoned =>
               \E w \in Workers : Working(w, j)

\* Every producer that enqueues with one idempotency key, whenever it does,
\* is answered with one and the same job, which carries that key.
OneJobPerKey ==
    \A k \in Keys :
        /\ Cardinality(answered[k]) <= 1
        /\ \A j \in JobIds :
               records[j].idempotencyKey = k <=> j \in answered[k]

\* While the clock never goes back, jobs that were not deferred are started
\* in the order they were enqueued, even within one clock tick and although
\* retries return to the queue with their old enqueuedAt.
StartsInOrder ==
    \A i, j \in JobIds :
        /\ stepBacks = 0
        /\ i < j /\ claims[j] > 0
        /\ records[i].scheduledFor = NoSchedule
        => claims[i] > 0

\* No job is handed to a worker before the instant it was scheduled for,
\* although the code compares the two as strings, except one whose instant is
\* written finer than a millisecond: that one may start early, but within the
\* millisecond its instant falls in.
InItsMillisecond(s) == s.unit < Millisecond /\ Printed(s.at) = Printed(now)
NeverEarly ==
    [][\A j \in JobIds :
           Pending(j) /\ Running(j)' =>
               \/ records[j].scheduledFor.at <= now
               \/ InItsMillisecond(records[j].scheduledFor)]_vars

\* A settled job is never run again nor changes its outcome, unless it is
\* reported twice for one claim.
SettledIsFinal ==
    [][\A j \in JobIds :
           records[j].status \in Settled /\ j \notin misreported' =>
               records'[j] = records[j]]_vars

\* Every enqueued job is settled in the end, also when others keep failing
\* and return to the front of the queue, unless its worker never reports.
EveryJobSettles ==
    \A j \in JobIds :
        Known(j) ~> records[j].status \in Settled \/ j \in abandoned
(***************************************************************************)
(* The abstract life of a job, read off the records and the workers.       *)
(***************************************************************************)
PhaseOf ==
    [absent |-> "none", pending |-> "waiting", running |-> "taken",
     succeeded |-> "done", failed |-> "dead"]
Phase == [j \in JobIds |-> PhaseOf[records[j].status]]
Owners == [j \in JobIds |-> {w \in Workers : held[w].job = j}]
StartsLeft ==
    [j \in JobIds |-> records[j].maxAttempts - records[j].attempt
                      + (IF Pending(j) THEN 1 ELSE 0)]

Lifecycle == INSTANCE JobLifecycle
             WITH Jobs <- JobIds, phase <- Phase, owners <- Owners,
                  left <- StartsLeft

\* With one report per claim the queue and its workers implement the abstract
\* life of a job: one worker at a time, the budget, final outcomes.
ImplementsLifecycle == Lifecycle!Spec
=============================================================================
