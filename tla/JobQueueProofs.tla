--------------------------- MODULE JobQueueProofs ---------------------------
(***************************************************************************)
(* Theorems about JobQueue, for any number of workers, jobs, keys, reports *)
(* and abandoned claims.                                                   *)
(***************************************************************************)
EXTENDS JobQueue, FiniteSetTheorems, TLAPS

(***************************************************************************)
(* The clock as it is printed: a whole number of milliseconds, not later   *)
(* than the time, less than a millisecond behind it, and in its order.     *)
(***************************************************************************)
LEMMA PrintedFacts ==
    ASSUME NEW t \in Nat
    PROVE  /\ Printed(t) \in 0 .. t
           /\ t < Printed(t) + Millisecond
           /\ Printed(t) = Millisecond * (t \div Millisecond)
<1>1. t % Millisecond \in 0 .. (Millisecond - 1)
  BY ConstantsAssumption
<1>2. t = Millisecond * (t \div Millisecond) + (t % Millisecond)
  BY ConstantsAssumption
<1>3. t \div Millisecond \in Nat
  BY ConstantsAssumption
<1> DEFINE whole == Millisecond * (t \div Millisecond)
<1>4. whole \in Nat /\ whole = t - (t % Millisecond)
  BY <1>1, <1>2, <1>3, ConstantsAssumption
<1>5. QED
  BY <1>1, <1>4, ConstantsAssumption DEF Printed

LEMMA PrintedInOrder ==
    ASSUME NEW t \in Nat, NEW u \in Nat, t <= u
    PROVE  Printed(t) <= Printed(u)
<1> DEFINE p == t \div Millisecond
           q == u \div Millisecond
<1>1. p \in Nat /\ q \in Nat
  BY ConstantsAssumption
<1>2. /\ Printed(t) = Millisecond * p /\ Printed(t) \in 0 .. t
      /\ Printed(u) = Millisecond * q /\ u < Printed(u) + Millisecond
  BY PrintedFacts
<1> HIDE DEF p, q
<1>3. CASE p <= q
  <2>1. Millisecond * p <= Millisecond * q
    BY <1>1, <1>3, ConstantsAssumption
  <2>2. QED
    BY <1>2, <2>1
<1>4. CASE p >= q + 1
  <2>1. Millisecond * p >= Millisecond * (q + 1)
    BY <1>1, <1>4, ConstantsAssumption
  <2>2. Millisecond * (q + 1) = Millisecond * q + Millisecond
    BY <1>1, ConstantsAssumption
  <2>3. Millisecond * p \in Nat /\ Millisecond * q \in Nat /\ Millisecond \in Nat
    BY <1>1, ConstantsAssumption
  <2>4. QED
    BY <1>2, <2>1, <2>2, <2>3
<1>5. QED
  BY <1>1, <1>3, <1>4

-----------------------------------------------------------------------------
(***************************************************************************)
(* Lemmas about records and claims.                                        *)
(***************************************************************************)

\* No job has the id that stands for "no job", and ids count from nextId.
LEMMA IdFacts ==
    /\ NoJob \notin JobIds
    /\ \A j \in JobIds : j \in Nat
    /\ JobIds \subseteq 0 .. MaxJobs
  BY ConstantsAssumption DEF NoJob, JobIds

\* Changing the status of a record, and what nack does to one, gives a record.
LEMMA RecordFacts ==
    ASSUME NEW r \in JobRecord
    PROVE  /\ \A s \in Statuses : [r EXCEPT !.status = s] \in JobRecord
           /\ Nacked(r) \in JobRecord
<1>1. \A s \in Statuses : [r EXCEPT !.status = s] \in JobRecord
  BY DEF JobRecord
<1>2. Nacked(r) \in JobRecord
  <2>1. r.attempt + 1 \in Nat
    BY DEF JobRecord
  <2>2. \A n \in Nat :
            [r EXCEPT !.status = "pending", !.attempt = n] \in JobRecord
    BY DEF JobRecord, Statuses
  <2>3. [r EXCEPT !.status = "pending", !.attempt = @ + 1] \in JobRecord
    BY <2>1, <2>2, Zenon
  <2>4. QED
    BY <1>1, <2>3 DEF Nacked, Statuses
<1>3. QED
  BY <1>1, <1>2

\* An update of the Map at one id is a Map of records.
LEMMA RecordsUpdate ==
    ASSUME records \in [JobIds -> JobRecord], NEW j \in JobIds,
           NEW r \in JobRecord, records' = [records EXCEPT ![j] = r]
    PROVE  records' \in [JobIds -> JobRecord]
  OBVIOUS

\* A report leaves every worker idle or with the claim it had, and notes at
\* most the job it is about.
LEMMA ReportedType ==
    ASSUME held \in [Workers -> Claim], misreported \subseteq JobIds,
           NEW w \in Workers, held[w].job # NoJob, Reported(w)
    PROVE  held' \in [Workers -> Claim] /\ misreported' \subseteq JobIds
<1>1. Idle \in Claim
  BY ConstantsAssumption DEF Idle, Claim
<1>2. ASSUME held[w].reports + 1 < MaxReports
      PROVE  [held[w] EXCEPT !.reports = @ + 1] \in Claim
  BY <1>2, ConstantsAssumption DEF Claim
<1>3. held' \in [Workers -> Claim]
  BY <1>1, <1>2 DEF Reported
<1>4. held[w].job \in JobIds
  BY DEF Claim
<1>5. misreported' \subseteq JobIds
  BY <1>4 DEF Reported
<1>6. QED
  BY <1>3, <1>5

-----------------------------------------------------------------------------
\* Every variable keeps its type: the base of all the inductions below.
THEOREM TypeCorrect == Spec => []TypeOK
<1>1. Init => TypeOK
  <2>1. NoSchedule \in ScheduleForms
    BY ConstantsAssumption DEF NoSchedule, ScheduleForms, Instants
  <2>2. NoRecord \in JobRecord
    BY <2>1, ConstantsAssumption DEF NoRecord, JobRecord, Instants
  <2>3. Idle \in Claim
    BY ConstantsAssumption DEF Idle, Claim
  <2>4. QED
    BY <2>2, <2>3, ConstantsAssumption DEF Init, TypeOK, Instants
<1>2. TypeOK /\ [Next]_vars => TypeOK'
  <2> SUFFICES ASSUME TypeOK, [Next]_vars PROVE TypeOK'
    OBVIOUS
  <2>1. ASSUME NEW key \in Keys \cup {NoKey}, NEW schedule \in Schedules,
               NEW budget \in Budgets, Enqueue(key, schedule, budget)
        PROVE  TypeOK'
    <3>1. CASE Seen(key)
      <4>1. seenIdempotencyKeys[key] \in JobIds
        BY <3>1 DEF TypeOK, Seen
      <4>2. answered' \in [Keys -> SUBSET JobIds]
        BY <2>1, <3>1, <4>1 DEF Enqueue, Deduplicated, TypeOK
      <4>3. QED
        BY <2>1, <3>1, <4>2 DEF Enqueue, Deduplicated, queueVars, TypeOK
    <3>2. CASE ~Seen(key)
      <4> DEFINE r == [status |-> "pending", attempt |-> 1,
                       maxAttempts |-> budget, idempotencyKey |-> key,
                       scheduledFor |-> schedule, enqueuedAt |-> Printed(now)]
      <4>1. Recorded(key, schedule, budget)
        BY <2>1, <3>2 DEF Enqueue
      <4>2. Printed(now) \in Instants
        <5>1. now \in Nat /\ now <= MaxNow
          BY ConstantsAssumption DEF TypeOK, Instants
        <5>2. Printed(now) \in 0 .. now
          BY <5>1, PrintedFacts
        <5>3. QED
          BY <5>1, <5>2, ConstantsAssumption DEF Instants
      <4>3. r \in JobRecord
        BY <4>2, ConstantsAssumption DEF JobRecord, Statuses, TypeOK
      <4>4. records' \in [JobIds -> JobRecord]
        BY <4>1, <4>3, RecordsUpdate DEF Recorded, TypeOK
      <4>5. /\ seenIdempotencyKeys' \in [Keys -> {NoJob} \cup JobIds]
            /\ answered' \in [Keys -> SUBSET JobIds]
        BY <4>1 DEF Recorded, TypeOK
      <4>6. nextId' \in 0 .. MaxJobs
        BY <4>1, IdFacts DEF Recorded, TypeOK
      <4>7. QED
        BY <2>1, <4>4, <4>5, <4>6 DEF Enqueue, TypeOK
    <3>3. QED
      BY <3>1, <3>2
  <2>2. ASSUME NEW w \in Workers, ClaimNext(w)
        PROVE  TypeOK'
    <3>1. PICK j \in JobIds :
            /\ records' = [records EXCEPT ![j].status = "running"]
            /\ held' = [held EXCEPT ![w] = [job |-> j, reports |-> 0]]
            /\ claims' = [claims EXCEPT ![j] = @ + 1]
      BY <2>2 DEF ClaimNext
    <3>2. records' \in [JobIds -> JobRecord]
      BY <3>1, RecordFacts DEF TypeOK, Statuses
    <3>3. held' \in [Workers -> Claim]
      <4>1. [job |-> j, reports |-> 0] \in Claim
        BY ConstantsAssumption DEF Claim
      <4>2. QED
        BY <3>1, <4>1 DEF TypeOK
    <3>4. claims' \in [JobIds -> Nat]
      BY <3>1 DEF TypeOK
    <3>5. QED
      BY <2>2, <3>2, <3>3, <3>4 DEF ClaimNext, TypeOK
  <2>3. ASSUME NEW w \in Workers, Ack(w)
        PROVE  TypeOK'
    <3>1. held[w].job \in JobIds
      BY <2>3 DEF Ack, Claim, TypeOK
    <3>2. records' \in [JobIds -> JobRecord]
      BY <2>3, <3>1, RecordFacts DEF Ack, TypeOK, Statuses
    <3>3. held' \in [Workers -> Claim] /\ misreported' \subseteq JobIds
      BY <2>3, ReportedType DEF Ack, TypeOK
    <3>4. QED
      BY <2>3, <3>2, <3>3 DEF Ack, TypeOK
  <2>4. ASSUME NEW w \in Workers, Nack(w)
        PROVE  TypeOK'
    <3>1. held[w].job \in JobIds
      BY <2>4 DEF Nack, Claim, TypeOK
    <3>2. records' \in [JobIds -> JobRecord]
      BY <2>4, <3>1, RecordFacts DEF Nack, TypeOK
    <3>3. held' \in [Workers -> Claim] /\ misreported' \subseteq JobIds
      BY <2>4, ReportedType DEF Nack, TypeOK
    <3>4. nacks' \in [JobIds -> Nat]
      BY <2>4, <3>1 DEF Nack, TypeOK
    <3>5. QED
      BY <2>4, <3>2, <3>3, <3>4 DEF Nack, TypeOK
  <2>5. ASSUME NEW w \in Workers, Abandon(w)
        PROVE  TypeOK'
    <3>1. held[w].job \in JobIds
      BY <2>5 DEF Abandon, Claim, TypeOK
    <3>2. Idle \in Claim
      BY ConstantsAssumption DEF Idle, Claim
    <3>3. held' \in [Workers -> Claim] /\ abandoned' \subseteq JobIds
      BY <2>5, <3>1, <3>2 DEF Abandon, TypeOK
    <3>4. QED
      BY <2>5, <3>3 DEF Abandon, queueVars, TypeOK
  <2>6. CASE Tick
    BY <2>6, ConstantsAssumption
    DEF Tick, queueVars, historyVars, TypeOK, Instants
  <2>7. CASE StepBack
    BY <2>7, ConstantsAssumption
    DEF StepBack, queueVars, historyVars, TypeOK, Instants
  <2>8. CASE UNCHANGED vars
    BY <2>8 DEF vars, queueVars, historyVars, TypeOK
  <2>9. QED
    BY <2>1, <2>2, <2>3, <2>4, <2>5, <2>6, <2>7, <2>8 DEF Next
<1>3. QED
  BY <1>1, <1>2, PTL DEF Spec
-----------------------------------------------------------------------------
(***************************************************************************)
(* The retry budget. RetryBudget is not inductive: what a job has been     *)
(* started for is tied to its attempt number, which is tied to the nacks,  *)
(* and all of it starts from records that exist.                           *)
(***************************************************************************)

\* The attempt number lies within the budget, counts at most one more than
\* the nacks, and covers the claims made and the one a pending job can expect.
Accounted(j) ==
    /\ records[j].attempt <= records[j].maxAttempts
    /\ claims[j] + (IF Pending(j) THEN 1 ELSE 0) <= records[j].attempt
    /\ records[j].attempt <= nacks[j] + 1
    /\ records[j].status = "failed" => nacks[j] >= records[j].maxAttempts

\* The ids handed out are those of the records, and only they have a history.
IdsInOrder ==
    \A j \in JobIds :
        /\ Known(j) <=> j <= nextId
        /\ ~Known(j) => claims[j] = 0 /\ nacks[j] = 0

HeldKnown == \A w \in Workers : held[w].job # NoJob => Known(held[w].job)

BudgetInv ==
    /\ IdsInOrder
    /\ HeldKnown
    /\ \A j \in JobIds : Known(j) => Accounted(j)

LEMMA BudgetInit == Init => BudgetInv
<1> SUFFICES ASSUME Init PROVE BudgetInv
  OBVIOUS
<1>1. IdsInOrder
  BY ConstantsAssumption DEF Init, IdsInOrder, Known, NoRecord, JobIds
<1>2. HeldKnown
  BY DEF Init, HeldKnown, Idle
<1>3. \A j \in JobIds : ~Known(j)
  BY DEF Init, Known, NoRecord
<1>4. QED
  BY <1>1, <1>2, <1>3 DEF BudgetInv

\* A report leaves a worker with the job it had or with none.
LEMMA ReportedJob ==
    ASSUME TypeOK, NEW w \in Workers, Reported(w), NEW v \in Workers
    PROVE  held'[v].job \in {held[v].job, NoJob}
  BY DEF Reported, Idle, TypeOK, Claim

LEMMA BudgetStep ==
    TypeOK /\ BudgetInv /\ [Next]_vars => BudgetInv'
<1> SUFFICES ASSUME TypeOK, BudgetInv, [Next]_vars PROVE BudgetInv'
  OBVIOUS
<1>1. ASSUME NEW key \in Keys \cup {NoKey}, NEW schedule \in Schedules,
             NEW budget \in Budgets, Enqueue(key, schedule, budget)
      PROVE  BudgetInv'
  <2>1. CASE Seen(key)
    <3>1. UNCHANGED <<records, nextId, held, claims, nacks>>
      BY <1>1, <2>1 DEF Enqueue, Deduplicated, queueVars
    <3>2. QED
      BY <3>1 DEF BudgetInv, IdsInOrder, HeldKnown, Accounted, Known, Pending
  <2>2. CASE ~Seen(key)
    <3>1. PICK id \in JobIds :
          /\ id = nextId + 1
          /\ nextId' = id
          /\ records' = [records EXCEPT ![id] =
                [status |-> "pending", attempt |-> 1, maxAttempts |-> budget,
                 idempotencyKey |-> key, scheduledFor |-> schedule,
                 enqueuedAt |-> Printed(now)]]
          /\ UNCHANGED <<held, claims, nacks>>
      BY <1>1, <2>2 DEF Enqueue, Recorded
    <3>2. ~Known(id) /\ claims[id] = 0 /\ nacks[id] = 0
      BY <3>1 DEF BudgetInv, IdsInOrder, TypeOK
    <3>3. records'[id].status = "pending" /\ \A j \in JobIds \ {id} :
              records'[j] = records[j]
      BY <3>1 DEF TypeOK
    <3>4. IdsInOrder'
      <4>1. \A j \in JobIds : j <= nextId' <=> j <= nextId \/ j = id
        BY <3>1 DEF JobIds, TypeOK
      <4>2. QED
        BY <3>1, <3>2, <3>3, <4>1 DEF BudgetInv, IdsInOrder, Known
    <3>5. HeldKnown'
      BY <3>1, <3>3 DEF BudgetInv, HeldKnown, Known, TypeOK, Claim
    <3>6. Accounted(id)'
      <4>1. budget \in Nat \ {0}
        BY ConstantsAssumption
      <4>2. records'[id].attempt = 1 /\ records'[id].maxAttempts = budget
        BY <3>1 DEF TypeOK
      <4>3. QED
        BY <3>1, <3>2, <3>3, <4>1, <4>2 DEF Accounted, Pending
    <3>7. \A j \in JobIds \ {id} : Known(j)' => Accounted(j)'
      BY <3>1, <3>3 DEF BudgetInv, Accounted, Known, Pending
    <3>8. QED
      BY <3>4, <3>5, <3>6, <3>7 DEF BudgetInv
  <2>3. QED
    BY <2>1, <2>2
<1>2. ASSUME NEW w \in Workers, ClaimNext(w)
      PROVE  BudgetInv'
  <2>1. PICK j \in JobIds :
          /\ Pending(j)
          /\ records' = [records EXCEPT ![j].status = "running"]
          /\ held' = [held EXCEPT ![w] = [job |-> j, reports |-> 0]]
          /\ claims' = [claims EXCEPT ![j] = @ + 1]
          /\ UNCHANGED <<nextId, nacks>>
    BY <1>2 DEF ClaimNext, First, Ready
  <2>2. \A i \in JobIds : Known(i)' <=> Known(i)
    BY <2>1 DEF Known, Pending, TypeOK, JobRecord
  <2>3. Known(j)
    BY <2>1 DEF Known, Pending
  <2>4. IdsInOrder'
    BY <2>1, <2>2, <2>3 DEF BudgetInv, IdsInOrder, TypeOK
  <2>5. HeldKnown'
    BY <2>1, <2>2, <2>3 DEF BudgetInv, HeldKnown, TypeOK, Claim
  <2>6. Accounted(j)'
    BY <2>1, <2>3 DEF BudgetInv, Accounted, Pending, TypeOK, JobRecord
  <2>7. \A i \in JobIds \ {j} : Known(i)' => Accounted(i)'
    BY <2>1, <2>2 DEF BudgetInv, Accounted, Pending, TypeOK
  <2>8. QED
    BY <2>4, <2>5, <2>6, <2>7 DEF BudgetInv
<1>3. ASSUME NEW w \in Workers, Ack(w)
      PROVE  BudgetInv'
  <2>1. PICK j \in JobIds :
        /\ j = held[w].job /\ j # NoJob
        /\ records' = [records EXCEPT ![j].status = "succeeded"]
        /\ Reported(w)
        /\ UNCHANGED <<nextId, claims, nacks>>
    BY <1>3 DEF Ack, TypeOK, Claim
  <2>2. Known(j)
    BY <2>1 DEF BudgetInv, HeldKnown
  <2>3. \A i \in JobIds : Known(i)' <=> Known(i)
    BY <2>1, <2>2 DEF Known, TypeOK, JobRecord
  <2>4. IdsInOrder'
    BY <2>1, <2>3 DEF BudgetInv, IdsInOrder
  <2>5. HeldKnown'
    BY <2>1, <2>3, ReportedJob DEF BudgetInv, HeldKnown, TypeOK, Claim
  <2>6. Accounted(j)'
    BY <2>1, <2>2 DEF BudgetInv, Accounted, Pending, TypeOK, JobRecord
  <2>7. \A i \in JobIds \ {j} : Known(i)' => Accounted(i)'
    BY <2>1, <2>3 DEF BudgetInv, Accounted, Pending, TypeOK
  <2>8. QED
    BY <2>4, <2>5, <2>6, <2>7 DEF BudgetInv
<1>4. ASSUME NEW w \in Workers, Nack(w)
      PROVE  BudgetInv'
  <2>1. PICK j \in JobIds :
        /\ j = held[w].job /\ j # NoJob
        /\ records' = [records EXCEPT ![j] = Nacked(@)]
        /\ nacks' = [nacks EXCEPT ![j] = @ + 1]
        /\ Reported(w)
        /\ UNCHANGED <<nextId, claims>>
    BY <1>4 DEF Nack, TypeOK, Claim
  <2>2. Known(j)
    BY <2>1 DEF BudgetInv, HeldKnown
  <2>3. \A i \in JobIds : Known(i)' <=> Known(i)
    BY <2>1, <2>2 DEF Known, Nacked, TypeOK, JobRecord
  <2>4. IdsInOrder'
    BY <2>1, <2>2, <2>3 DEF BudgetInv, IdsInOrder, TypeOK
  <2>5. HeldKnown'
    BY <2>1, <2>3, ReportedJob DEF BudgetInv, HeldKnown, TypeOK, Claim
  <2>6. Accounted(j)'
    <3>1. records'[j] = Nacked(records[j]) /\ nacks'[j] = nacks[j] + 1
      BY <2>1 DEF TypeOK
    <3>2. records[j] \in JobRecord /\ nacks[j] \in Nat /\ claims[j] \in Nat
      BY <2>1 DEF TypeOK
    <3>3. Accounted(j)
      BY <2>1, <2>2 DEF BudgetInv
    <3>4. CASE Exhausted(records[j])
      BY <2>1, <3>1, <3>2, <3>3, <3>4
      DEF Accounted, Pending, Nacked, Exhausted, JobRecord
    <3>5. CASE ~Exhausted(records[j])
      BY <2>1, <3>1, <3>2, <3>3, <3>5
      DEF Accounted, Pending, Nacked, Exhausted, JobRecord
    <3>6. QED
      BY <3>4, <3>5
  <2>7. \A i \in JobIds \ {j} : Known(i)' => Accounted(i)'
    BY <2>1, <2>3 DEF BudgetInv, Accounted, Pending, TypeOK
  <2>8. QED
    BY <2>4, <2>5, <2>6, <2>7 DEF BudgetInv
<1>5. ASSUME NEW w \in Workers, Abandon(w)
      PROVE  BudgetInv'
  <2>1. /\ UNCHANGED <<records, nextId, claims, nacks>>
        /\ held' = [held EXCEPT ![w] = Idle]
    BY <1>5 DEF Abandon, queueVars
  <2>2. HeldKnown'
    BY <2>1 DEF BudgetInv, HeldKnown, Known, Idle, TypeOK
  <2>3. QED
    BY <2>1, <2>2 DEF BudgetInv, IdsInOrder, Accounted, Known, Pending
<1>6. ASSUME UNCHANGED <<records, nextId, held, claims, nacks>>
      PROVE  BudgetInv'
  BY <1>6 DEF BudgetInv, IdsInOrder, HeldKnown, Accounted, Known, Pending
<1>7. CASE Tick
  BY <1>6, <1>7 DEF Tick, queueVars, historyVars
<1>8. CASE StepBack
  BY <1>6, <1>8 DEF StepBack, queueVars, historyVars
<1>9. CASE UNCHANGED vars
  BY <1>6, <1>9 DEF vars, queueVars, historyVars
<1>10. QED
  BY <1>1, <1>2, <1>3, <1>4, <1>5, <1>7, <1>8, <1>9 DEF Next

\* Whatever reports arrive and however often, no handler is started more than
\* maxAttempts times and no job is given up before that many nacks.
THEOREM RetryBudgetHolds == Spec => []RetryBudget
<1>1. TypeOK /\ BudgetInv => RetryBudget
  <2> SUFFICES ASSUME TypeOK, BudgetInv, NEW j \in JobIds, Known(j)
               PROVE  /\ claims[j] <= records[j].maxAttempts
                      /\ records[j].status = "failed"
                         => nacks[j] >= records[j].maxAttempts
    BY DEF RetryBudget
  <2>1. Accounted(j)
    BY DEF BudgetInv
  <2>2. records[j] \in JobRecord /\ claims[j] \in Nat
    BY DEF TypeOK
  <2>3. QED
    BY <2>1, <2>2 DEF Accounted, JobRecord
<1>2. QED
  BY <1>1, TypeCorrect, BudgetInit, BudgetStep, PTL DEF Spec
-----------------------------------------------------------------------------
(***************************************************************************)
(* One worker at a time, and final outcomes. ExclusiveClaim is inductive   *)
(* with the facts of BudgetInv about ids: a report that is the first for   *)
(* its claim finds the job running and is the last of that worker, and any *)
(* other report puts its job into misreported.                             *)
(***************************************************************************)
\* Who works on a job is untouched by a step that neither writes its record
\* nor gives or takes a claim to it.
LEMMA ExclusiveFrame ==
    ASSUME ExclusiveClaim, NEW j \in JobIds \ misreported',
           misreported \subseteq misreported', abandoned \subseteq abandoned',
           records'[j].status = records[j].status,
           \A w \in Workers : Working(w, j)' <=> Working(w, j)
    PROVE  /\ \A v, w \in Workers : Working(v, j)' /\ Working(w, j)' => v = w
           /\ \A w \in Workers : Working(w, j)' => Running(j)'
           /\ Running(j)' /\ j \notin abandoned' =>
                  \E w \in Workers : Working(w, j)'
<1>1. j \in JobIds \ misreported
  OBVIOUS
<1>2. Running(j)' <=> Running(j)
  BY DEF Running
<1>3. QED
  BY <1>1, <1>2 DEF ExclusiveClaim

\* The first report for a claim finds its job running, and leaves no worker
\* working on it; a later one puts the job into misreported.
LEMMA ReportEndsWork ==
    ASSUME TypeOK, ExclusiveClaim, NEW w \in Workers, NEW j \in JobIds,
           held[w].job = j, Reported(w)
    PROVE  /\ misreported \subseteq misreported'
           /\ j \notin misreported' =>
                  Running(j) /\ \A v \in Workers : ~Working(v, j)'
           /\ \A i \in JobIds \ {j} : \A v \in Workers :
                  Working(v, i)' <=> Working(v, i)
<1>1. \A v \in Workers \ {w} : held'[v] = held[v]
  BY DEF Reported, TypeOK
<1>2. \/ held'[w] = Idle
      \/ held'[w].job = j /\ held'[w].reports = held[w].reports + 1
  BY DEF Reported, TypeOK, Claim
<1>3. held[w].reports \in Nat
  BY ConstantsAssumption DEF TypeOK, Claim
<1>4. \A i \in JobIds : ~Working(w, i)'
  BY <1>2, <1>3, IdFacts DEF Working, Idle
<1>5. misreported \subseteq misreported'
  BY DEF Reported
<1>6. ASSUME j \notin misreported'
      PROVE  Running(j) /\ \A v \in Workers : ~Working(v, j)'
  <2>1. j \in JobIds \ misreported /\ held[w].reports = 0
    BY <1>3, <1>6 DEF Reported
  <2>2. Working(w, j)
    BY <2>1 DEF Working
  <2>3. Running(j) /\ \A v \in Workers : Working(v, j) => v = w
    BY <2>1, <2>2 DEF ExclusiveClaim
  <2>4. \A v \in Workers \ {w} : Working(v, j)' <=> Working(v, j)
    BY <1>1 DEF Working
  <2>5. QED
    BY <1>4, <2>3, <2>4
<1>7. \A i \in JobIds \ {j} : \A v \in Workers : Working(v, i)' <=> Working(v, i)
  BY <1>1, <1>4 DEF Working
<1>8. QED
  BY <1>5, <1>6, <1>7

LEMMA ExclusiveStep ==
    TypeOK /\ BudgetInv /\ ExclusiveClaim /\ [Next]_vars => ExclusiveClaim'
<1> SUFFICES ASSUME TypeOK, BudgetInv, ExclusiveClaim, [Next]_vars,
                    NEW j \in JobIds \ misreported'
             PROVE  /\ \A v, w \in Workers : Working(v, j)' /\ Working(w, j)' => v = w
                    /\ \A w \in Workers : Working(w, j)' => Running(j)'
                    /\ Running(j)' /\ j \notin abandoned' =>
                           \E w \in Workers : Working(w, j)'
  BY DEF ExclusiveClaim
<1>1. ASSUME NEW key \in Keys \cup {NoKey}, NEW schedule \in Schedules,
             NEW budget \in Budgets, Enqueue(key, schedule, budget)
      PROVE  /\ \A v, w \in Workers : Working(v, j)' /\ Working(w, j)' => v = w
             /\ \A w \in Workers : Working(w, j)' => Running(j)'
             /\ Running(j)' /\ j \notin abandoned' =>
                    \E w \in Workers : Working(w, j)'
  <2>1. /\ UNCHANGED <<held, misreported, abandoned>>
        /\ \A w \in Workers : Working(w, j)' <=> Working(w, j)
    BY <1>1 DEF Enqueue, Working
  <2>2. CASE records'[j].status = records[j].status
    BY <2>1, <2>2, ExclusiveFrame
  <2>3. CASE records'[j].status # records[j].status
    <3>1. ~Known(j) /\ records'[j].status = "pending"
      BY <1>1, <2>3 DEF Enqueue, Deduplicated, Recorded, queueVars, TypeOK,
                        BudgetInv, IdsInOrder
    <3>2. \A w \in Workers : ~Working(w, j)
      BY <3>1, IdFacts DEF BudgetInv, HeldKnown, Working
    <3>3. QED
      BY <2>1, <3>1, <3>2 DEF Running
  <2>4. QED
    BY <2>2, <2>3
<1>2. ASSUME NEW w \in Workers, ClaimNext(w)
      PROVE  /\ \A u, v \in Workers : Working(u, j)' /\ Working(v, j)' => u = v
             /\ \A v \in Workers : Working(v, j)' => Running(j)'
             /\ Running(j)' /\ j \notin abandoned' =>
                    \E v \in Workers : Working(v, j)'
  <2>1. PICK i \in JobIds :
          /\ Pending(i)
          /\ records' = [records EXCEPT ![i].status = "running"]
          /\ held' = [held EXCEPT ![w] = [job |-> i, reports |-> 0]]
    BY <1>2 DEF ClaimNext, First, Ready
  <2>2. UNCHANGED <<misreported, abandoned>> /\ held[w] = Idle
    BY <1>2 DEF ClaimNext
  <2>3. /\ \A v \in Workers \ {w} : held'[v] = held[v]
        /\ held'[w].job = i /\ held'[w].reports = 0
    BY <2>1 DEF TypeOK
  <2>4. CASE j = i
    <3>1. \A v \in Workers : ~Working(v, j)
      BY <2>1, <2>2, <2>4 DEF ExclusiveClaim, Running, Pending
    <3>2. \A v \in Workers : Working(v, j)' <=> v = w
      BY <2>3, <2>4, <3>1 DEF Working
    <3>3. Running(j)'
      BY <2>1, <2>4 DEF Running, TypeOK, JobRecord
    <3>4. QED
      BY <3>2, <3>3
  <2>5. CASE j # i
    <3>1. \A v \in Workers : Working(v, j)' <=> Working(v, j)
      BY <2>2, <2>3, <2>5, IdFacts DEF Working, Idle
    <3>2. records'[j].status = records[j].status
      BY <2>1, <2>5 DEF TypeOK
    <3>3. QED
      BY <2>2, <3>1, <3>2, ExclusiveFrame
  <2>6. QED
    BY <2>4, <2>5
<1>3. ASSUME NEW w \in Workers, Ack(w) \/ Nack(w)
      PROVE  /\ \A u, v \in Workers : Working(u, j)' /\ Working(v, j)' => u = v
             /\ \A v \in Workers : Working(v, j)' => Running(j)'
             /\ Running(j)' /\ j \notin abandoned' =>
                    \E v \in Workers : Working(v, j)'
  <2>1. PICK i \in JobIds :
          held[w].job = i /\ Reported(w) /\ abandoned' = abandoned
    BY <1>3 DEF Ack, Nack, TypeOK, Claim
  <2>2. \A k \in JobIds \ {i} : records'[k] = records[k]
    BY <1>3, <2>1 DEF Ack, Nack, TypeOK
  <2>3. records'[i].status # "running"
    <3>1. CASE Ack(w)
      BY <3>1, <2>1 DEF Ack, TypeOK, JobRecord
    <3>2. CASE Nack(w)
      <4>1. records'[i] = Nacked(records[i])
        BY <3>2, <2>1 DEF Nack, TypeOK
      <4>2. records[i] \in JobRecord
        BY <2>1 DEF TypeOK
      <4>3. QED
        BY <4>1, <4>2 DEF Nacked, JobRecord
    <3>3. QED
      BY <1>3, <3>1, <3>2
  <2>4. /\ misreported \subseteq misreported'
        /\ i \notin misreported' => \A v \in Workers : ~Working(v, i)'
        /\ \A k \in JobIds \ {i} : \A v \in Workers :
               Working(v, k)' <=> Working(v, k)
    BY <2>1, ReportEndsWork
  <2>5. CASE j = i
    BY <2>3, <2>4, <2>5 DEF Running
  <2>6. CASE j # i
    BY <2>1, <2>2, <2>4, <2>6, ExclusiveFrame
  <2>7. QED
    BY <2>5, <2>6
<1>4. ASSUME NEW w \in Workers, Abandon(w)
      PROVE  /\ \A u, v \in Workers : Working(u, j)' /\ Working(v, j)' => u = v
             /\ \A v \in Workers : Working(v, j)' => Running(j)'
             /\ Running(j)' /\ j \notin abandoned' =>
                    \E v \in Workers : Working(v, j)'
  <2>1. /\ held' = [held EXCEPT ![w] = Idle]
        /\ abandoned' = abandoned \cup {held[w].job}
        /\ UNCHANGED <<records, misreported>>
        /\ held[w].job \in JobIds
    BY <1>4 DEF Abandon, queueVars, TypeOK, Claim
  <2>2. /\ \A v \in Workers \ {w} : Working(v, j)' <=> Working(v, j)
        /\ ~Working(w, j)'
    BY <2>1, IdFacts DEF Working, Idle, TypeOK
  <2>3. Running(j)' <=> Running(j)
    BY <2>1 DEF Running
  <2>4. /\ \A u, v \in Workers : Working(u, j) /\ Working(v, j) => u = v
        /\ \A v \in Workers : Working(v, j) => Running(j)
        /\ Running(j) /\ j \notin abandoned => \E v \in Workers : Working(v, j)
    BY <2>1 DEF ExclusiveClaim
  <2>5. j \notin abandoned' => ~Working(w, j)
    BY <2>1 DEF Working
  <2>6. QED
    BY <2>1, <2>2, <2>3, <2>4, <2>5
<1>5. ASSUME UNCHANGED <<records, held, misreported, abandoned>>
      PROVE  /\ \A v, w \in Workers : Working(v, j)' /\ Working(w, j)' => v = w
             /\ \A w \in Workers : Working(w, j)' => Running(j)'
             /\ Running(j)' /\ j \notin abandoned' =>
                    \E w \in Workers : Working(w, j)'
  <2>1. \A w \in Workers : Working(w, j)' <=> Working(w, j)
    BY <1>5 DEF Working
  <2>2. QED
    BY <1>5, <2>1, ExclusiveFrame
<1>6. CASE Tick
  BY <1>5, <1>6 DEF Tick, queueVars, historyVars
<1>7. CASE StepBack
  BY <1>5, <1>7 DEF StepBack, queueVars, historyVars
<1>8. CASE UNCHANGED vars
  BY <1>5, <1>8 DEF vars, queueVars, historyVars
<1>9. QED
  BY <1>1, <1>2, <1>3, <1>4, <1>6, <1>7, <1>8 DEF Next

\* Two workers never run one job, a worker's job is running in the queue, and
\* only a worker that vanished leaves a running job behind, unless the job
\* was reported twice for one claim.
THEOREM ClaimsAreExclusive == Spec => []ExclusiveClaim
<1>1. Init => ExclusiveClaim
  <2> SUFFICES ASSUME Init, NEW j \in JobIds
               PROVE  ~Running(j) /\ \A w \in Workers : ~Working(w, j)
    BY DEF ExclusiveClaim
  <2>1. QED
    BY IdFacts DEF Init, Running, NoRecord, Working, Idle
<1>2. QED
  BY <1>1, TypeCorrect, BudgetInit, BudgetStep, ExclusiveStep, PTL DEF Spec

\* No step but a second report for one claim touches a settled job.
THEOREM OutcomesAreFinal == Spec => SettledIsFinal
<1> DEFINE Final == \A j \in JobIds :
               records[j].status \in Settled /\ j \notin misreported' =>
                   records'[j] = records[j]
<1>1. TypeOK /\ BudgetInv /\ ExclusiveClaim /\ [Next]_vars => Final
  <2> SUFFICES ASSUME TypeOK, BudgetInv, ExclusiveClaim, [Next]_vars,
                      NEW j \in JobIds, records[j].status \in Settled,
                      j \notin misreported'
               PROVE  records'[j] = records[j]
    OBVIOUS
  <2>1. Known(j) /\ ~Pending(j) /\ ~Running(j)
    BY DEF Settled, Known, Pending, Running
  <2>2. ASSUME NEW key \in Keys \cup {NoKey}, NEW schedule \in Schedules,
               NEW budget \in Budgets, Enqueue(key, schedule, budget)
        PROVE  records'[j] = records[j]
    BY <2>1, <2>2 DEF Enqueue, Deduplicated, Recorded, queueVars, TypeOK,
                      BudgetInv, IdsInOrder
  <2>3. ASSUME NEW w \in Workers, ClaimNext(w)
        PROVE  records'[j] = records[j]
    BY <2>1, <2>3 DEF ClaimNext, First, Ready, TypeOK
  <2>4. ASSUME NEW w \in Workers, Ack(w) \/ Nack(w)
        PROVE  records'[j] = records[j]
    <3>1. held[w].job \in JobIds /\ Reported(w)
      BY <2>4 DEF Ack, Nack, TypeOK, Claim
    <3>2. j # held[w].job
      BY <2>1, <3>1, ReportEndsWork
    <3>3. QED
      BY <2>4, <3>2 DEF Ack, Nack, TypeOK
  <2>5. ASSUME NEW w \in Workers, Abandon(w)
        PROVE  records'[j] = records[j]
    BY <2>5 DEF Abandon, queueVars
  <2>6. QED
    BY <2>2, <2>3, <2>4, <2>5
    DEF Next, Tick, StepBack, vars, queueVars, historyVars
<1>2. Spec => [][Final]_vars
  BY <1>1, TypeCorrect, BudgetInit, BudgetStep, ClaimsAreExclusive, PTL DEF Spec
<1>3. QED
  BY <1>2 DEF SettledIsFinal

\* A schedule that compares as reached lies in the past, since missing digits
\* only ever delay a job, or in the millisecond that the clock prints. Nothing
\* but a claim starts a job.
LEMMA ReachedIsDue ==
    ASSUME TypeOK, NEW s \in ScheduleForms, Reached(s)
    PROVE  s.at <= now \/ (s.unit <= Millisecond /\ Printed(s.at) = Printed(now))
<1>1. s.at \in Nat /\ s.unit \in Nat /\ now \in Nat /\ Millisecond \in Nat
  BY ConstantsAssumption DEF TypeOK, ScheduleForms, Instants
<1>2. CASE s.unit > Millisecond
  BY <1>1, <1>2 DEF Reached
<1>3. CASE ~(s.unit > Millisecond) /\ ~(s.at <= now)
  <2>1. Printed(s.at) <= Printed(now)
    BY <1>1, <1>3 DEF Reached
  <2>2. Printed(now) <= Printed(s.at)
    BY <1>1, <1>3, PrintedInOrder
  <2>3. Printed(now) \in 0 .. now /\ Printed(s.at) \in 0 .. s.at
    BY <1>1, PrintedFacts
  <2>4. QED
    BY <1>1, <1>3, <2>1, <2>2, <2>3
<1>4. QED
  BY <1>1, <1>2, <1>3

\* Whatever digits a schedule is written with, a job is not handed out before
\* its instant, or else in the very millisecond and written finer than that.
THEOREM NothingStartsEarly == Spec => NeverEarly
<1> DEFINE Due == \A j \in JobIds :
               Pending(j) /\ Running(j)' =>
                   \/ records[j].scheduledFor.at <= now
                   \/ InItsMillisecond(records[j].scheduledFor)
<1>1. TypeOK /\ [Next]_vars => Due
  <2> SUFFICES ASSUME TypeOK, [Next]_vars,
                      NEW j \in JobIds, Pending(j), Running(j)'
               PROVE  \/ records[j].scheduledFor.at <= now
                      \/ InItsMillisecond(records[j].scheduledFor)
    OBVIOUS
  <2>1. ASSUME NEW w \in Workers, ClaimNext(w)
        PROVE  \/ records[j].scheduledFor.at <= now
               \/ InItsMillisecond(records[j].scheduledFor)
    <3> DEFINE s == records[j].scheduledFor
    <3>1. Reached(s)
      BY <2>1 DEF ClaimNext, First, Ready, TypeOK, Pending, Running
    <3>2. /\ s \in ScheduleForms /\ now \in Nat
          /\ s.at \in Nat /\ s.unit \in Nat /\ Millisecond \in Nat
      BY ConstantsAssumption DEF TypeOK, JobRecord, Instants, ScheduleForms
    <3>3. s.at <= now \/ (s.unit <= Millisecond /\ Printed(s.at) = Printed(now))
      BY <3>1, <3>2, ReachedIsDue
    <3>4. s.unit = Millisecond => Printed(s.at) = s.at
      BY <3>2 DEF Printed, ScheduleForms
    <3>5. Printed(now) <= now
      BY <3>2, PrintedFacts
    <3>6. QED
      BY <3>2, <3>3, <3>4, <3>5 DEF InItsMillisecond
  <2>2. ASSUME NEW w \in Workers, Nack(w) PROVE FALSE
    <3>1. held[w].job = j => records'[j] = Nacked(records[j])
      BY <2>2 DEF Nack, TypeOK
    <3>2. records[j] \in JobRecord
      BY DEF TypeOK
    <3>3. QED
      BY <2>2, <3>1, <3>2
      DEF Nack, Nacked, Pending, Running, JobRecord, TypeOK, Claim
  <2>3. ASSUME NEW w \in Workers, Ack(w) PROVE FALSE
    BY <2>3 DEF Ack, Pending, Running, JobRecord, TypeOK, Claim
  <2>4. ASSUME NEW key \in Keys \cup {NoKey}, NEW schedule \in Schedules,
               NEW budget \in Budgets, Enqueue(key, schedule, budget)
        PROVE  FALSE
    BY <2>4 DEF Enqueue, Deduplicated, Recorded, queueVars, TypeOK, Pending, Running
  <2>5. ASSUME NEW w \in Workers, Abandon(w) PROVE FALSE
    BY <2>5 DEF Abandon, queueVars, Pending, Running
  <2>6. QED
    BY <2>1, <2>2, <2>3, <2>4, <2>5
    DEF Next, Tick, StepBack, vars, queueVars, historyVars, Pending, Running
<1>2. Spec => [][Due]_vars
  BY <1>1, TypeCorrect, PTL DEF Spec
<1>3. QED
  BY <1>2 DEF NeverEarly
-----------------------------------------------------------------------------
(***************************************************************************)
(* Keys. A key is answered with the job it is mapped to, which is the only *)
(* record that carries it; a record that does not exist yet carries none.  *)
(***************************************************************************)
KeysInv ==
    /\ \A k \in Keys :
           answered[k] = {seenIdempotencyKeys[k]} \ {NoJob}
    /\ \A k \in Keys, j \in JobIds :
           records[j].idempotencyKey = k <=> seenIdempotencyKeys[k] = j
    /\ \A j \in JobIds : ~Known(j) => records[j].idempotencyKey = NoKey

LEMMA KeysStep == TypeOK /\ BudgetInv /\ KeysInv /\ [Next]_vars => KeysInv'
<1> SUFFICES ASSUME TypeOK, BudgetInv, KeysInv, [Next]_vars PROVE KeysInv'
  OBVIOUS
<1>1. ASSUME NEW key \in Keys \cup {NoKey}, NEW schedule \in Schedules,
             NEW budget \in Budgets, Enqueue(key, schedule, budget)
      PROVE  KeysInv'
  <2>1. CASE Seen(key)
    <3>1. /\ UNCHANGED <<records, seenIdempotencyKeys>>
          /\ answered' = [answered EXCEPT ![key] = @ \cup {seenIdempotencyKeys[key]}]
      BY <1>1, <2>1 DEF Enqueue, Deduplicated, queueVars
    <3>2. answered' = answered
      BY <2>1, <3>1 DEF KeysInv, Seen, TypeOK
    <3>3. QED
      BY <3>1, <3>2 DEF KeysInv, Known
  <2>2. CASE ~Seen(key)
    <3>1. PICK id \in JobIds :
          /\ id = nextId + 1
          /\ records' = [records EXCEPT ![id] =
                [status |-> "pending", attempt |-> 1, maxAttempts |-> budget,
                 idempotencyKey |-> key, scheduledFor |-> schedule,
                 enqueuedAt |-> Printed(now)]]
          /\ seenIdempotencyKeys' = [k \in Keys |->
                IF k = key THEN id ELSE seenIdempotencyKeys[k]]
          /\ answered' = [k \in Keys |->
                IF k = key THEN answered[k] \cup {id} ELSE answered[k]]
      BY <1>1, <2>2 DEF Enqueue, Recorded
    <3>2. records[id].idempotencyKey = NoKey
      BY <3>1 DEF BudgetInv, IdsInOrder, TypeOK, KeysInv
    <3>3. /\ records'[id].idempotencyKey = key /\ records'[id].status = "pending"
          /\ \A j \in JobIds \ {id} : records'[j] = records[j]
      BY <3>1 DEF TypeOK
    <3>4. \A k \in Keys : answered'[k] = {seenIdempotencyKeys'[k]} \ {NoJob}
      BY <2>2, <3>1, IdFacts DEF KeysInv, Seen
    <3>5. ASSUME NEW k \in Keys, NEW j \in JobIds
          PROVE  records'[j].idempotencyKey = k <=> seenIdempotencyKeys'[k] = j
      <4>1. seenIdempotencyKeys[k] # id
        BY <3>2, ConstantsAssumption DEF KeysInv
      <4>2. k = key => seenIdempotencyKeys[k] = NoJob
        BY <2>2 DEF Seen
      <4>3. seenIdempotencyKeys'[k] = IF k = key THEN id ELSE seenIdempotencyKeys[k]
        BY <3>1
      <4>4. CASE j = id
        BY <3>3, <4>1, <4>3, <4>4
      <4>5. CASE j # id
        BY <3>3, <4>2, <4>3, <4>5, IdFacts DEF KeysInv
      <4>6. QED
        BY <4>4, <4>5
    <3>6. \A j \in JobIds : ~Known(j)' => records'[j].idempotencyKey = NoKey
      BY <3>3 DEF KeysInv, Known
    <3>7. QED
      BY <3>4, <3>5, <3>6 DEF KeysInv
  <2>3. QED
    BY <2>1, <2>2
<1>2. ASSUME UNCHANGED <<seenIdempotencyKeys, answered>>,
             \A j \in JobIds : /\ records'[j].idempotencyKey = records[j].idempotencyKey
                               /\ Known(j) => Known(j)'
      PROVE  KeysInv'
  BY <1>2 DEF KeysInv
<1>3. ASSUME NEW w \in Workers, ClaimNext(w) PROVE KeysInv'
  <2>1. \A j \in JobIds : /\ records'[j].idempotencyKey = records[j].idempotencyKey
                          /\ Known(j) => Known(j)'
    BY <1>3 DEF ClaimNext, TypeOK, JobRecord, Known
  <2>2. QED
    BY <1>2, <1>3, <2>1 DEF ClaimNext
<1>4. ASSUME NEW w \in Workers, Ack(w) PROVE KeysInv'
  <2>1. \A j \in JobIds : /\ records'[j].idempotencyKey = records[j].idempotencyKey
                          /\ Known(j) => Known(j)'
    BY <1>4 DEF Ack, TypeOK, JobRecord, Known
  <2>2. QED
    BY <1>2, <1>4, <2>1 DEF Ack
<1>5. ASSUME NEW w \in Workers, Nack(w) PROVE KeysInv'
  <2>1. ASSUME NEW j \in JobIds
        PROVE  /\ records'[j].idempotencyKey = records[j].idempotencyKey
               /\ Known(j) => Known(j)'
    <3>1. records'[j] = records[j] \/ records'[j] = Nacked(records[j])
      BY <1>5 DEF Nack, TypeOK
    <3>2. records[j] \in JobRecord
      BY DEF TypeOK
    <3>3. QED
      BY <3>1, <3>2 DEF Nacked, JobRecord, Known
  <2>2. QED
    BY <1>2, <1>5, <2>1 DEF Nack
<1>6. ASSUME NEW w \in Workers, Abandon(w) PROVE KeysInv'
  BY <1>2, <1>6 DEF Abandon, queueVars, Known
<1>7. QED
  BY <1>1, <1>2, <1>3, <1>4, <1>5, <1>6
  DEF Next, Tick, StepBack, vars, queueVars, historyVars, Known

\* Whenever a producer enqueues with a key, it is answered with the one job
\* that carries the key.
THEOREM KeysNameOneJob == Spec => []OneJobPerKey
<1>1. Init => KeysInv
  <2> SUFFICES ASSUME Init PROVE KeysInv
    OBVIOUS
  <2>1. \A j \in JobIds : records[j].idempotencyKey = NoKey
    BY DEF Init, NoRecord
  <2>2. QED
    BY <2>1, IdFacts, ConstantsAssumption DEF Init, KeysInv
<1>2. TypeOK /\ KeysInv => OneJobPerKey
  <2> SUFFICES ASSUME TypeOK, KeysInv, NEW k \in Keys
               PROVE  /\ Cardinality(answered[k]) <= 1
                      /\ \A j \in JobIds :
                             records[j].idempotencyKey = k <=> j \in answered[k]
    BY DEF OneJobPerKey
  <2>1. answered[k] = {} \/ answered[k] = {seenIdempotencyKeys[k]}
    BY DEF KeysInv
  <2>2. Cardinality(answered[k]) <= 1
    <3>1. CASE answered[k] = {}
      BY <3>1, FS_EmptySet
    <3>2. CASE answered[k] = {seenIdempotencyKeys[k]}
      <4>1. Cardinality({seenIdempotencyKeys[k]}) = 1
        BY FS_Singleton
      <4>2. QED
        BY <3>2, <4>1
    <3>3. QED
      BY <2>1, <3>1, <3>2
  <2>3. QED
    BY <2>2, IdFacts DEF KeysInv
<1>3. QED
  BY <1>1, <1>2, TypeCorrect, BudgetInit, BudgetStep, KeysStep, PTL DEF Spec
-----------------------------------------------------------------------------
(***************************************************************************)
(* Order. While the clock has not gone back, records are stamped in the    *)
(* order of their ids; a job nobody was given yet is pending; so of two    *)
(* ready jobs the older one comes first.                                   *)
(***************************************************************************)
UntouchedIsPending ==
    /\ \A j \in JobIds : Known(j) /\ claims[j] = 0 => Pending(j)
    /\ \A w \in Workers : held[w].job # NoJob => claims[held[w].job] > 0

StampedInOrder ==
    stepBacks = 0 =>
        /\ \A j \in JobIds : Known(j) => records[j].enqueuedAt <= Printed(now)
        /\ \A i, j \in JobIds :
               i < j /\ Known(j) => records[i].enqueuedAt <= records[j].enqueuedAt

OrderInv == UntouchedIsPending /\ StampedInOrder /\ StartsInOrder

\* A clock that was not set back after a step was not set back before it, and
\* did not go back in it.
LEMMA ClockStep ==
    ASSUME TypeOK, [Next]_vars, stepBacks' = 0
    PROVE  stepBacks = 0 /\ now \in Nat /\ now' \in Nat /\ now <= now'
<1>1. now \in Nat /\ stepBacks \in Nat
  BY ConstantsAssumption DEF TypeOK, Instants
<1>2. CASE Tick
  BY <1>1, <1>2 DEF Tick
<1>3. CASE StepBack
  BY <1>1, <1>3 DEF StepBack
<1>4. CASE UNCHANGED <<now, stepBacks>>
  BY <1>1, <1>4
<1>5. QED
  BY <1>2, <1>3, <1>4
  DEF Next, Enqueue, ClaimNext, Ack, Nack, Abandon, vars

\* No step writes the schedule of a job that exists.
LEMMA ScheduleStep ==
    ASSUME TypeOK, BudgetInv, [Next]_vars, NEW j \in JobIds, Known(j)
    PROVE  records'[j].scheduledFor = records[j].scheduledFor
<1>1. records[j] \in JobRecord
  BY DEF TypeOK
<1>2. ASSUME NEW key \in Keys \cup {NoKey}, NEW schedule \in Schedules,
             NEW budget \in Budgets, Enqueue(key, schedule, budget)
      PROVE  records'[j] = records[j]
  BY <1>2 DEF Enqueue, Deduplicated, Recorded, queueVars, TypeOK, BudgetInv, IdsInOrder
<1>3. ASSUME NEW w \in Workers, ClaimNext(w) \/ Ack(w)
      PROVE  records'[j].scheduledFor = records[j].scheduledFor
  <2>1. \/ records'[j] = records[j]
        \/ \E s \in Statuses : records'[j] = [records[j] EXCEPT !.status = s]
    BY <1>3 DEF ClaimNext, Ack, TypeOK, Statuses
  <2>2. QED
    BY <1>1, <2>1 DEF JobRecord
<1>4. ASSUME NEW w \in Workers, Nack(w)
      PROVE  records'[j].scheduledFor = records[j].scheduledFor
  <2>1. records'[j] = records[j] \/ records'[j] = Nacked(records[j])
    BY <1>4 DEF Nack, TypeOK
  <2>2. QED
    BY <1>1, <2>1 DEF Nacked, JobRecord
<1>5. QED
  BY <1>2, <1>3, <1>4 DEF Next, Abandon, Tick, StepBack, vars, queueVars

LEMMA UntouchedStep ==
    TypeOK /\ BudgetInv /\ UntouchedIsPending /\ [Next]_vars => UntouchedIsPending'
<1> SUFFICES ASSUME TypeOK, BudgetInv, UntouchedIsPending, [Next]_vars
             PROVE  UntouchedIsPending'
  OBVIOUS
<1>1. ASSUME NEW key \in Keys \cup {NoKey}, NEW schedule \in Schedules,
             NEW budget \in Budgets, Enqueue(key, schedule, budget)
      PROVE  UntouchedIsPending'
  <2>1. \A j \in JobIds : records'[j] = records[j] \/ records'[j].status = "pending"
    BY <1>1 DEF Enqueue, Deduplicated, Recorded, queueVars, TypeOK
  <2>2. QED
    BY <1>1, <2>1 DEF Enqueue, UntouchedIsPending, Known, Pending
<1>2. ASSUME NEW w \in Workers, ClaimNext(w) PROVE UntouchedIsPending'
  <2>1. PICK j \in JobIds :
          /\ records' = [records EXCEPT ![j].status = "running"]
          /\ held' = [held EXCEPT ![w] = [job |-> j, reports |-> 0]]
          /\ claims' = [claims EXCEPT ![j] = @ + 1]
    BY <1>2 DEF ClaimNext
  <2>2. /\ \A i \in JobIds \ {j} : records'[i] = records[i] /\ claims'[i] = claims[i]
        /\ claims'[j] = claims[j] + 1 /\ claims[j] \in Nat
        /\ held'[w].job = j /\ \A v \in Workers \ {w} : held'[v] = held[v]
    BY <2>1 DEF TypeOK
  <2>3. \A i \in JobIds : Known(i)' /\ claims'[i] = 0 => Pending(i)'
    BY <2>2 DEF UntouchedIsPending, Known, Pending
  <2>4. \A v \in Workers : held'[v].job # NoJob => claims'[held'[v].job] > 0
    BY <2>2 DEF UntouchedIsPending, TypeOK, Claim
  <2>5. QED
    BY <2>3, <2>4 DEF UntouchedIsPending
<1>3. ASSUME NEW w \in Workers, Ack(w) \/ Nack(w) PROVE UntouchedIsPending'
  <2>1. PICK j \in JobIds : held[w].job = j /\ Reported(w) /\ UNCHANGED claims
    BY <1>3 DEF Ack, Nack, TypeOK, Claim
  <2>2. claims[j] > 0 /\ \A i \in JobIds \ {j} : records'[i] = records[i]
    BY <1>3, <2>1, IdFacts DEF UntouchedIsPending, Ack, Nack, TypeOK
  <2>3. \A i \in JobIds : Known(i)' /\ claims'[i] = 0 => Pending(i)'
    BY <2>1, <2>2 DEF UntouchedIsPending, Known, Pending
  <2>4. \A v \in Workers : held'[v].job # NoJob => claims'[held'[v].job] > 0
    BY <2>1, ReportedJob DEF UntouchedIsPending
  <2>5. QED
    BY <2>3, <2>4 DEF UntouchedIsPending
<1>4. ASSUME NEW w \in Workers, Abandon(w) PROVE UntouchedIsPending'
  <2>1. /\ held' = [held EXCEPT ![w] = Idle]
        /\ UNCHANGED <<records, claims>>
    BY <1>4 DEF Abandon, queueVars
  <2>2. QED
    BY <2>1 DEF UntouchedIsPending, Known, Pending, Idle, TypeOK
<1>5. QED
  BY <1>1, <1>2, <1>3, <1>4
  DEF Next, Tick, StepBack, vars, queueVars, historyVars,
      UntouchedIsPending, Known, Pending

LEMMA StampedStep ==
    TypeOK /\ BudgetInv /\ StampedInOrder /\ [Next]_vars => StampedInOrder'
<1> SUFFICES ASSUME TypeOK, BudgetInv, StampedInOrder, [Next]_vars, stepBacks' = 0
             PROVE  /\ \A j \in JobIds : Known(j)' => records'[j].enqueuedAt <= Printed(now')
                    /\ \A i, j \in JobIds : i < j /\ Known(j)' =>
                           records'[i].enqueuedAt <= records'[j].enqueuedAt
  BY DEF StampedInOrder, Printed
<1>1. stepBacks = 0 /\ now \in Nat /\ now' \in Nat /\ now <= now'
  BY ClockStep
<1>2. /\ stepBacks = 0
      /\ Printed(now) \in Nat /\ Printed(now') \in Nat
      /\ Printed(now) <= Printed(now')
  BY <1>1, PrintedFacts, PrintedInOrder
<1>3. \A j \in JobIds : records[j].enqueuedAt \in Nat
  BY ConstantsAssumption DEF TypeOK, JobRecord, Instants
<1>4. /\ \A j \in JobIds : Known(j) => records[j].enqueuedAt <= Printed(now)
      /\ \A i, j \in JobIds : i < j /\ Known(j) =>
             records[i].enqueuedAt <= records[j].enqueuedAt
  BY <1>2 DEF StampedInOrder
<1>5. ASSUME \A j \in JobIds : /\ records'[j].enqueuedAt = records[j].enqueuedAt
                               /\ Known(j)' <=> Known(j)
      PROVE  /\ \A j \in JobIds : Known(j)' => records'[j].enqueuedAt <= Printed(now')
             /\ \A i, j \in JobIds : i < j /\ Known(j)' =>
                    records'[i].enqueuedAt <= records'[j].enqueuedAt
  BY <1>2, <1>3, <1>4, <1>5
<1>6. ASSUME NEW key \in Keys \cup {NoKey}, NEW schedule \in Schedules,
             NEW budget \in Budgets, Enqueue(key, schedule, budget), ~Seen(key)
      PROVE  /\ \A j \in JobIds : Known(j)' => records'[j].enqueuedAt <= Printed(now')
             /\ \A i, j \in JobIds : i < j /\ Known(j)' =>
                    records'[i].enqueuedAt <= records'[j].enqueuedAt
  <2>1. PICK id \in JobIds :
          /\ id = nextId + 1
          /\ records' = [records EXCEPT ![id] =
                [status |-> "pending", attempt |-> 1, maxAttempts |-> budget,
                 idempotencyKey |-> key, scheduledFor |-> schedule,
                 enqueuedAt |-> Printed(now)]]
    BY <1>6 DEF Enqueue, Recorded
  <2>2. /\ records'[id].enqueuedAt = Printed(now)
        /\ \A j \in JobIds \ {id} : records'[j] = records[j]
    BY <2>1 DEF TypeOK
  <2>3. \A j \in JobIds : /\ j < id => Known(j)
                          /\ j > id => ~Known(j)
    BY <2>1, IdFacts DEF BudgetInv, IdsInOrder, TypeOK
  <2>4. \A j \in JobIds \ {id} : Known(j)' <=> Known(j)
    BY <2>2 DEF Known
  <2>5. \A j \in JobIds : Known(j)' => records'[j].enqueuedAt <= Printed(now')
    BY <1>2, <1>3, <1>4, <2>2, <2>4
  <2>6. ASSUME NEW i \in JobIds, NEW j \in JobIds, i < j, Known(j)'
        PROVE  records'[i].enqueuedAt <= records'[j].enqueuedAt
    <3>1. CASE j = id
      BY <1>4, <2>2, <2>3, <2>6, <3>1, IdFacts
    <3>2. CASE j # id
      <4>1. Known(j) /\ i # id
        BY <2>3, <2>4, <2>6, <3>2, IdFacts
      <4>2. QED
        BY <1>4, <2>2, <2>6, <3>2, <4>1
    <3>3. QED
      BY <3>1, <3>2
  <2>7. QED
    BY <2>5, <2>6
<1>7. ASSUME NEW key \in Keys \cup {NoKey}, NEW schedule \in Schedules,
             NEW budget \in Budgets, Enqueue(key, schedule, budget), Seen(key)
      PROVE  records' = records
  BY <1>7 DEF Enqueue, Deduplicated, queueVars
<1>8. ASSUME NEW w \in Workers, ClaimNext(w) \/ Ack(w) \/ Nack(w), NEW j \in JobIds
      PROVE  /\ records'[j].enqueuedAt = records[j].enqueuedAt
             /\ Known(j)' <=> Known(j)
  <2>1. CASE ClaimNext(w)
    BY <2>1 DEF ClaimNext, First, Ready, Pending, TypeOK, JobRecord, Known
  <2>2. records[j] \in JobRecord /\ (held[w].job = j => Known(j))
    BY IdFacts DEF TypeOK, BudgetInv, HeldKnown
  <2>3. CASE Ack(w)
    BY <2>2, <2>3 DEF Ack, TypeOK, JobRecord, Known
  <2>4. CASE Nack(w)
    <3>1. \/ records'[j] = records[j]
          \/ records'[j] = Nacked(records[j]) /\ held[w].job = j
      BY <2>4 DEF Nack, TypeOK
    <3>2. QED
      BY <2>2, <3>1 DEF Nacked, JobRecord, Known
  <2>5. QED
    BY <1>8, <2>1, <2>3, <2>4
<1>9. CASE records' = records
  BY <1>5, <1>9 DEF Known
<1>10. QED
  BY <1>5, <1>6, <1>7, <1>8, <1>9
  DEF Next, Abandon, Tick, StepBack, vars, queueVars

LEMMA OrderStep ==
    TypeOK /\ BudgetInv /\ OrderInv /\ [Next]_vars => OrderInv'
<1> SUFFICES ASSUME TypeOK, BudgetInv, OrderInv, [Next]_vars, stepBacks' = 0,
                    NEW i \in JobIds, NEW j \in JobIds, i < j, claims'[j] > 0,
                    records'[i].scheduledFor = NoSchedule
             PROVE  claims'[i] > 0
  BY UntouchedStep, StampedStep DEF OrderInv, StartsInOrder
<1>1. stepBacks = 0
  BY ClockStep
<1>2. Known(j) => Known(i)
  BY IdFacts DEF BudgetInv, IdsInOrder, TypeOK
<1>3. claims[j] > 0 => Known(j)
  BY DEF BudgetInv, IdsInOrder
<1>4. Known(i) => records[i].scheduledFor = NoSchedule
  BY ScheduleStep
<1>5. ASSUME claims' = claims PROVE claims'[i] > 0
  BY <1>1, <1>2, <1>3, <1>4, <1>5 DEF OrderInv, StartsInOrder
<1>6. ASSUME NEW w \in Workers, ClaimNext(w) PROVE claims'[i] > 0
  <2>1. PICK c \in JobIds : First(c) /\ claims' = [claims EXCEPT ![c] = @ + 1]
    BY <1>6 DEF ClaimNext
  <2>2. claims[i] \in Nat /\ claims'[i] = (IF i = c THEN claims[i] + 1 ELSE claims[i])
    BY <2>1 DEF TypeOK
  <2>3. CASE claims[j] > 0
    BY <1>1, <1>2, <1>3, <1>4, <2>2, <2>3 DEF OrderInv, StartsInOrder
  <2>4. CASE ~(claims[j] > 0)
    <3>1. c = j
      BY <2>1, <2>4 DEF TypeOK
    <3>2. Pending(j) /\ Known(j)
      BY <2>1, <3>1 DEF First, Ready, Known, Pending
    <3>3. Known(i) /\ records[i].scheduledFor = NoSchedule
      BY <1>2, <1>4, <3>2
    <3>4. ASSUME claims[i] = 0 PROVE FALSE
      <4>1. Pending(i)
        BY <3>3, <3>4 DEF OrderInv, UntouchedIsPending
      <4>2. Reached(records[i].scheduledFor)
        <5>1. now \in Nat
          BY ConstantsAssumption DEF TypeOK, Instants
        <5>2. Printed(0) = 0 /\ Printed(now) >= 0
          BY <5>1, PrintedFacts
        <5>3. QED
          BY <3>3, <5>2, ConstantsAssumption DEF Reached, NoSchedule
      <4>3. Before(j, i)
        BY <2>1, <3>1, <4>1, <4>2, IdFacts DEF First, Ready
      <4>4. records[i].enqueuedAt <= records[j].enqueuedAt
        BY <1>1, <3>2 DEF OrderInv, StampedInOrder
      <4>5. /\ records[i].enqueuedAt \in Nat /\ records[j].enqueuedAt \in Nat
            /\ i \in Nat /\ j \in Nat
        BY ConstantsAssumption, IdFacts DEF TypeOK, JobRecord, Instants
      <4>6. QED
        BY <4>3, <4>4, <4>5 DEF Before
    <3>5. QED
      BY <2>2, <3>4
  <2>5. QED
    BY <2>3, <2>4
<1>7. QED
  BY <1>5, <1>6
  DEF Next, Enqueue, Ack, Nack, Abandon, Tick, StepBack, vars, queueVars, historyVars

\* While the clock never goes back, a job that was not deferred starts before
\* every job enqueued after it, retries in between or not.
THEOREM OrderIsKept == Spec => []StartsInOrder
<1>1. Init => OrderInv
  BY IdFacts
  DEF Init, OrderInv, UntouchedIsPending, StampedInOrder, StartsInOrder, Known,
      NoRecord, Idle
<1>2. OrderInv => StartsInOrder
  BY DEF OrderInv
<1>3. QED
  BY <1>1, <1>2, TypeCorrect, BudgetInit, BudgetStep, OrderStep, PTL DEF Spec
-----------------------------------------------------------------------------
(***************************************************************************)
(* The refinement. With one report per claim every claim that is held is   *)
(* worked on, so ExclusiveClaim says that a job has one owner exactly while *)
(* it is running, unless it is lost; Accounted gives the starts left.      *)
(***************************************************************************)
OneReport == misreported = {} /\ \A w \in Workers : held[w].reports = 0

LEMMA OneReportStep ==
    ASSUME MaxReports = 1, TypeOK, OneReport, [Next]_vars
    PROVE  OneReport'
<1>1. ASSUME NEW w \in Workers, Reported(w) PROVE OneReport'
  <2>1. misreported' = {}
    BY <1>1 DEF OneReport, Reported
  <2>2. held' = [held EXCEPT ![w] = Idle]
    BY <1>1 DEF OneReport, Reported
  <2>3. QED
    BY <2>1, <2>2 DEF OneReport, Idle, TypeOK
<1>2. ASSUME NEW w \in Workers, ClaimNext(w) PROVE OneReport'
  BY <1>2 DEF ClaimNext, OneReport, TypeOK
<1>3. ASSUME NEW w \in Workers, Abandon(w) PROVE OneReport'
  BY <1>3 DEF Abandon, OneReport, Idle, TypeOK
<1>4. QED
  BY <1>1, <1>2, <1>3
  DEF Next, Enqueue, Ack, Nack, Tick, StepBack, vars, historyVars, OneReport

\* Nobody has a job that waits, does not exist or is settled, and whoever has
\* a running one is its only owner.
LEMMA OwnersOf ==
    ASSUME TypeOK, ExclusiveClaim, OneReport, NEW j \in JobIds
    PROVE  /\ ~Running(j) => Owners[j] = {}
           /\ \A w \in Workers : held[w].job = j =>
                  /\ Owners[j] = {w}
                  /\ Running(j) /\ Phase[j] = "taken"
                  /\ StartsLeft[j] = records[j].maxAttempts - records[j].attempt
<1>1. \A w \in Workers : Working(w, j) <=> held[w].job = j
  BY DEF Working, OneReport
<1>2. /\ \A v, w \in Workers : Working(v, j) /\ Working(w, j) => v = w
      /\ \A w \in Workers : Working(w, j) => Running(j)
  BY DEF ExclusiveClaim, OneReport
<1>3. Owners[j] = {w \in Workers : held[w].job = j}
  BY DEF Owners
<1>4. Running(j) => /\ Phase[j] = "taken"
                    /\ StartsLeft[j] = records[j].maxAttempts - records[j].attempt
  <2>1. records[j].maxAttempts - records[j].attempt \in Int
    BY DEF TypeOK, JobRecord
  <2>2. QED
    BY <2>1 DEF Phase, PhaseOf, Running, StartsLeft, Pending
<1>5. QED
  BY <1>1, <1>2, <1>3, <1>4

\* What job j looks like from outside is read off its record and its owners.
LEMMA OutsideFrame ==
    ASSUME NEW j \in JobIds,
           \A i \in JobIds \ {j} : records'[i] = records[i],
           \A i \in JobIds \ {j} : \A w \in Workers :
               held'[w].job = i <=> held[w].job = i
    PROVE  /\ Phase' = [Phase EXCEPT ![j] = Phase'[j]]
           /\ Owners' = [Owners EXCEPT ![j] = Owners'[j]]
           /\ StartsLeft' = [StartsLeft EXCEPT ![j] = StartsLeft'[j]]
<1>1. \A i \in JobIds \ {j} : /\ Phase'[i] = Phase[i]
                              /\ Owners'[i] = Owners[i]
                              /\ StartsLeft'[i] = StartsLeft[i]
  BY DEF Phase, Owners, StartsLeft, Pending
<1>2. /\ Phase = [i \in JobIds |-> Phase[i]]
      /\ Owners = [i \in JobIds |-> Owners[i]]
      /\ StartsLeft = [i \in JobIds |-> StartsLeft[i]]
  BY DEF Phase, Owners, StartsLeft
<1>3. /\ Phase' = [i \in JobIds |-> Phase'[i]]
      /\ Owners' = [i \in JobIds |-> Owners'[i]]
      /\ StartsLeft' = [i \in JobIds |-> StartsLeft'[i]]
  BY DEF Phase, Owners, StartsLeft
<1>4. QED
  BY <1>1, <1>2, <1>3

LEMMA LifecycleStep ==
    ASSUME MaxReports = 1, TypeOK, BudgetInv, ExclusiveClaim, OneReport, [Next]_vars
    PROVE  [Lifecycle!Next]_(Lifecycle!vars)
<1>1. ASSUME UNCHANGED <<records, held>>
      PROVE  UNCHANGED Lifecycle!vars
  BY <1>1 DEF Lifecycle!vars, Phase, Owners, StartsLeft, Pending
<1>2. ASSUME NEW key \in Keys \cup {NoKey}, NEW schedule \in Schedules,
             NEW budget \in Budgets, Enqueue(key, schedule, budget), ~Seen(key)
      PROVE  \E j \in JobIds : Lifecycle!Submit(j, budget)
  <2>1. PICK j \in JobIds :
          /\ j = nextId + 1
          /\ records' = [records EXCEPT ![j] =
                [status |-> "pending", attempt |-> 1, maxAttempts |-> budget,
                 idempotencyKey |-> key, scheduledFor |-> schedule,
                 enqueuedAt |-> Printed(now)]]
          /\ UNCHANGED held
    BY <1>2 DEF Enqueue, Recorded
  <2>2. ~Known(j) /\ Phase[j] = "none"
    BY <2>1 DEF BudgetInv, IdsInOrder, TypeOK, Known, Phase, PhaseOf
  <2>3. /\ Phase' = [Phase EXCEPT ![j] = Phase'[j]]
        /\ StartsLeft' = [StartsLeft EXCEPT ![j] = StartsLeft'[j]]
    BY <2>1, OutsideFrame DEF TypeOK
  <2>4. records'[j].status = "pending" /\ records'[j].maxAttempts = budget
        /\ records'[j].attempt = 1
    BY <2>1 DEF TypeOK
  <2>5. Phase'[j] = "waiting"
    BY <2>4 DEF Phase, PhaseOf
  <2>6. StartsLeft'[j] = budget
    <3>1. budget \in Nat
      BY ConstantsAssumption
    <3>2. QED
      BY <2>4, <3>1 DEF StartsLeft, Pending
  <2>7. Owners' = Owners
    BY <2>1 DEF Owners
  <2>8. Lifecycle!Submit(j, budget)
    BY <2>2, <2>3, <2>5, <2>6, <2>7 DEF Lifecycle!Submit
  <2>9. QED
    BY <2>8
<1>3. ASSUME NEW w \in Workers, ClaimNext(w)
      PROVE  \E j \in JobIds : Lifecycle!Start(j, w)
  <2>1. PICK j \in JobIds :
          /\ Pending(j)
          /\ records' = [records EXCEPT ![j].status = "running"]
          /\ held' = [held EXCEPT ![w] = [job |-> j, reports |-> 0]]
    BY <1>3 DEF ClaimNext, First, Ready
  <2>2. held[w] = Idle /\ \A i \in JobIds : w \notin Owners[i]
    BY <1>3, IdFacts DEF ClaimNext, Owners, Idle
  <2>3. /\ Phase' = [Phase EXCEPT ![j] = Phase'[j]]
        /\ Owners' = [Owners EXCEPT ![j] = Owners'[j]]
        /\ StartsLeft' = [StartsLeft EXCEPT ![j] = StartsLeft'[j]]
    BY <2>1, <2>2, IdFacts, OutsideFrame DEF TypeOK, Idle
  <2>4. held'[w].job = j /\ records'[j] = [records[j] EXCEPT !.status = "running"]
    BY <2>1 DEF TypeOK
  <2>5. Owners'[j] = {w} /\ Phase'[j] = "taken"
    <3>1. \A v \in Workers : held[v].job # j
      BY <2>1, OwnersOf DEF Pending, Running
    <3>2. \A v \in Workers : held'[v].job = j <=> v = w
      BY <2>1, <3>1 DEF TypeOK
    <3>3. records'[j].status = "running"
      BY <2>1 DEF TypeOK, JobRecord
    <3>4. QED
      BY <3>2, <3>3 DEF Owners, Phase, PhaseOf
  <2>6. Phase[j] = "waiting"
    BY <2>1 DEF Phase, PhaseOf, Pending
  <2>7. StartsLeft[j] > 0 /\ StartsLeft'[j] = StartsLeft[j] - 1
    <3>1. records[j] \in JobRecord
      BY DEF TypeOK
    <3>2. StartsLeft[j] = records[j].maxAttempts - records[j].attempt + 1
      BY <2>1 DEF StartsLeft
    <3>3. records[j].attempt <= records[j].maxAttempts
      BY <2>1 DEF BudgetInv, Accounted, Known, Pending
    <3>4. StartsLeft'[j] = records[j].maxAttempts - records[j].attempt
      BY <2>4, <3>1 DEF StartsLeft, Pending, JobRecord
    <3>5. QED
      BY <3>1, <3>2, <3>3, <3>4 DEF JobRecord
  <2>8. Lifecycle!Start(j, w)
    BY <2>2, <2>3, <2>5, <2>6, <2>7 DEF Lifecycle!Start
  <2>9. QED
    BY <2>8
<1>4. ASSUME NEW w \in Workers, Ack(w) \/ Nack(w) \/ Abandon(w)
      PROVE  \E j \in JobIds : \/ Lifecycle!Finish(j) \/ Lifecycle!Retry(j)
                               \/ Lifecycle!GiveUp(j) \/ Lifecycle!Lose(j)
  <2>1. PICK j \in JobIds : held[w].job = j
    BY <1>4 DEF Ack, Nack, Abandon, TypeOK, Claim
  <2>2. held' = [held EXCEPT ![w] = Idle]
    BY <1>4 DEF Ack, Nack, Abandon, Reported, OneReport
  <2>3. /\ Owners[j] = {w} /\ Running(j) /\ Phase[j] = "taken"
        /\ StartsLeft[j] = records[j].maxAttempts - records[j].attempt
    BY <2>1, OwnersOf
  <2>4. Owners'[j] = {}
    <3>1. \A v \in Workers : held[v].job = j => v = w
      BY <2>3 DEF Owners
    <3>2. \A v \in Workers : held'[v].job # j
      BY <2>2, <3>1, IdFacts DEF Idle, TypeOK
    <3>3. QED
      BY <3>2 DEF Owners
  <2>5. \A i \in JobIds \ {j} : records'[i] = records[i]
    BY <1>4, <2>1 DEF Ack, Nack, Abandon, queueVars, TypeOK
  <2>6. /\ Phase' = [Phase EXCEPT ![j] = Phase'[j]]
        /\ Owners' = [Owners EXCEPT ![j] = Owners'[j]]
        /\ StartsLeft' = [StartsLeft EXCEPT ![j] = StartsLeft'[j]]
    BY <2>1, <2>2, <2>5, IdFacts, OutsideFrame DEF TypeOK, Idle
  <2>7. Lifecycle!Release(j)
    BY <2>3, <2>4, <2>6 DEF Lifecycle!Release
  <2>8. records[j] \in JobRecord /\ records[j].attempt <= records[j].maxAttempts
    BY <2>3 DEF TypeOK, BudgetInv, Accounted, Known, Running
  <2>9. StartsLeft[j] \in Int /\ Phase = [i \in JobIds |-> Phase[i]]
        /\ StartsLeft = [i \in JobIds |-> StartsLeft[i]]
    BY <2>3, <2>8 DEF JobRecord, Phase, StartsLeft
  <2>10. CASE Ack(w)
    <3>1. records'[j] = [records[j] EXCEPT !.status = "succeeded"]
      BY <2>1, <2>10 DEF Ack, TypeOK
    <3>2. Phase'[j] = "done" /\ StartsLeft'[j] = StartsLeft[j]
      BY <2>3, <2>8, <3>1 DEF Phase, PhaseOf, StartsLeft, Pending, JobRecord
    <3>3. Lifecycle!Finish(j)
      BY <2>6, <2>7, <2>9, <3>2 DEF Lifecycle!Finish
    <3>4. QED
      BY <3>3
  <2>11. CASE Nack(w)
    <3>1. records'[j] = Nacked(records[j])
      BY <2>1, <2>11 DEF Nack, TypeOK
    <3>2. CASE Exhausted(records[j])
      <4>1. records'[j] = [records[j] EXCEPT !.status = "failed"]
        BY <3>1, <3>2 DEF Nacked
      <4>2. Phase'[j] = "dead" /\ StartsLeft'[j] = StartsLeft[j]
        BY <2>3, <2>8, <4>1 DEF Phase, PhaseOf, StartsLeft, Pending, JobRecord
      <4>3. StartsLeft[j] = 0
        BY <2>3, <2>8, <3>2 DEF Exhausted, JobRecord
      <4>4. Lifecycle!GiveUp(j)
        BY <2>6, <2>7, <2>9, <4>2, <4>3 DEF Lifecycle!GiveUp
      <4>5. QED
        BY <4>4
    <3>3. CASE ~Exhausted(records[j])
      <4>1. /\ records'[j].status = "pending"
            /\ records'[j].attempt = records[j].attempt + 1
            /\ records'[j].maxAttempts = records[j].maxAttempts
        BY <2>8, <3>1, <3>3 DEF Nacked, JobRecord
      <4>2. Phase'[j] = "waiting" /\ StartsLeft'[j] = StartsLeft[j]
        BY <2>3, <2>8, <4>1 DEF Phase, PhaseOf, StartsLeft, Pending, JobRecord
      <4>3. StartsLeft[j] > 0
        BY <2>3, <2>8, <3>3 DEF Exhausted, JobRecord
      <4>4. Lifecycle!Retry(j)
        BY <2>6, <2>7, <2>9, <4>2, <4>3 DEF Lifecycle!Retry
      <4>5. QED
        BY <4>4
    <3>4. QED
      BY <3>2, <3>3
  <2>12. CASE Abandon(w)
    <3>1. records' = records
      BY <2>12 DEF Abandon, queueVars
    <3>2. Phase' = Phase /\ StartsLeft' = StartsLeft
      BY <3>1 DEF Phase, StartsLeft, Pending
    <3>3. Lifecycle!Lose(j)
      BY <2>7, <3>2 DEF Lifecycle!Lose
    <3>4. QED
      BY <3>3
  <2>13. QED
    BY <1>4, <2>10, <2>11, <2>12
<1>5. ASSUME NEW key \in Keys \cup {NoKey}, NEW schedule \in Schedules,
             NEW budget \in Budgets, Enqueue(key, schedule, budget), Seen(key)
      PROVE  UNCHANGED <<records, held>>
  BY <1>5 DEF Enqueue, Deduplicated, queueVars
<1>6. CASE Tick \/ StepBack \/ UNCHANGED vars
  BY <1>1, <1>6 DEF Tick, StepBack, vars, queueVars
<1>7. QED
  BY <1>1, <1>2, <1>3, <1>4, <1>5, <1>6 DEF Next, Lifecycle!Next

\* When workers report once per claim, every behaviour of the queue and its
\* workers is one of JobLifecycle: the queue keeps its abstract promise.
THEOREM QueueImplementsLifecycle ==
    ASSUME MaxReports = 1
    PROVE  Spec => ImplementsLifecycle
<1>1. Init => Lifecycle!Init
  <2> SUFFICES ASSUME Init PROVE Lifecycle!Init
    OBVIOUS
  <2>1. Phase = [j \in JobIds |-> "none"]
    BY DEF Init, Phase, PhaseOf, NoRecord
  <2>2. Owners = [j \in JobIds |-> {}]
    BY IdFacts DEF Init, Owners, Idle
  <2>3. StartsLeft = [j \in JobIds |-> 0]
    BY DEF Init, StartsLeft, NoRecord, Pending
  <2>4. QED
    BY <2>1, <2>2, <2>3 DEF Lifecycle!Init
<1>2. Init => OneReport
  BY DEF Init, OneReport, Idle
<1>3. TypeOK /\ OneReport /\ [Next]_vars => OneReport'
  BY OneReportStep
<1>4. TypeOK /\ BudgetInv /\ ExclusiveClaim /\ OneReport /\ [Next]_vars
      => [Lifecycle!Next]_(Lifecycle!vars)
  BY LifecycleStep
<1>5. QED
  BY <1>1, <1>2, <1>3, <1>4, TypeCorrect, BudgetInit, BudgetStep, ClaimsAreExclusive,
     PTL DEF Spec, ImplementsLifecycle, Lifecycle!Spec
=============================================================================
