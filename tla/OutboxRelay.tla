---------------------------- MODULE OutboxRelay -----------------------------
(***************************************************************************)
(* The in-memory outbox relay of packages/infrastructure/src/outbox.ts     *)
(* (createMemoryOutboxRelay) and the processes that drain it. The drain    *)
(* loop is not part of the repository's code: it is the worker of          *)
(* docs/recipes/enable-outbox-relay.md, which claims a batch, publishes    *)
(* entry by entry, reports every failure at once and the successes at the  *)
(* end. claimBatch takes no lock and leaves no mark on a row, so drains    *)
(* that overlap (two replicas, or a tick of the interval that fires while  *)
(* the previous drain still runs) may work on the same rows.               *)
(***************************************************************************)
EXTENDS Integers, FiniteSets

CONSTANTS
    Drains,       \* concurrent runs of the drain loop
    MaxRows,      \* bound: rows the domain code writes
    Stamps,       \* values of createdAt (clocks of several writers)
    Limit,        \* the batch size passed to claimBatch
    MaxPoison,    \* bound: rows the publisher never accepts
    AttemptCap,   \* bound: attemptCount saturates here
    MaxCrashes,   \* bound: drains that die halfway
    MaxLostAcks   \* bound: times a row is accepted but the publish rejects

RowIds == 1 .. MaxRows

ASSUME OutboxAssumption ==
    /\ MaxRows \in Nat /\ MaxPoison \in Nat /\ MaxCrashes \in Nat
    /\ AttemptCap \in Nat /\ MaxLostAcks \in Nat
    /\ Limit \in Nat \ {0}
    /\ Stamps \subseteq Nat
    /\ IsFiniteSet(Drains)

VARIABLES
    rows,        \* the Map of outbox entries, by id
    nextId,      \* ids handed out so far
    batch,       \* entries each drain has claimed and not handled yet
    succeeded,   \* entries each drain has published and not marked yet
    delivered,   \* history: how often the bus accepted each entry
    lostAcks,    \* history: how often it did so and the publish rejected
    crashes      \* history: drains that died

relayVars == <<rows, nextId>>
drainVars == <<batch, succeeded>>
historyVars == <<delivered, lostAcks, crashes>>
vars == <<relayVars, drainVars, historyVars>>

\* published stands for publishedAt # undefined; poison for an entry the bus
\* refuses every time. created = FALSE is an id that is not in the Map yet.
Row == [created : BOOLEAN, createdAt : Nat, published : BOOLEAN,
        attemptCount : 0 .. AttemptCap, poison : BOOLEAN]
NoRow == [created |-> FALSE, createdAt |-> 0, published |-> FALSE,
          attemptCount |-> 0, poison |-> FALSE]

(* Definitions named ...Deviation are bugs this code could have. The       *)
(* specification never uses one: each is put in the place of the           *)
(* definition after it to see that a property notices.                     *)

\* Published rows are claimed again.
UnpublishedDeviation1 == {r \in RowIds : rows[r].created}

\* A row that failed once is never claimed again.
UnpublishedDeviation2 ==
    {r \in RowIds :
        rows[r].created /\ ~rows[r].published /\ rows[r].attemptCount = 0}

Unpublished == {r \in RowIds : rows[r].created /\ ~rows[r].published}

\* Stable sort by createdAt over a Map iterated in insertion order.
Before(q, r) ==
    \/ rows[q].createdAt < rows[r].createdAt
    \/ rows[q].createdAt = rows[r].createdAt /\ q < r

\* S holds the first Limit entries of the sorted unpublished rows.
OldestUnpublished(S) ==
    /\ S \subseteq Unpublished
    /\ \A q \in S, r \in Unpublished \ S : Before(q, r)
    /\ \/ Cardinality(S) = Limit
       \/ Cardinality(S) < Limit /\ S = Unpublished

Idle(d) == batch[d] = {} /\ succeeded[d] = {}

-----------------------------------------------------------------------------
Init ==
    /\ rows = [r \in RowIds |-> NoRow]
    /\ nextId = 0
    /\ batch = [d \in Drains |-> {}]
    /\ succeeded = [d \in Drains |-> {}]
    /\ delivered = [r \in RowIds |-> 0]
    /\ lostAcks = [r \in RowIds |-> 0]
    /\ crashes = 0

Poison == {r \in RowIds : rows[r].poison}

\* enqueue: a new unpublished row.
Enqueue(stamp, poison) ==
    LET id == nextId + 1 IN
    /\ id \in RowIds
    /\ poison => Cardinality(Poison) < MaxPoison
    /\ nextId' = id
    /\ rows' = [rows EXCEPT ![id] =
           [created |-> TRUE, createdAt |-> stamp, published |-> FALSE,
            attemptCount |-> 0, poison |-> poison]]
    /\ UNCHANGED <<drainVars, historyVars>>

\* claimBatch(limit), called at the start of a drain. It only reads.
ClaimBatch(d) ==
    /\ Idle(d)
    /\ \E S \in SUBSET Unpublished :
        /\ OldestUnpublished(S)
        /\ S # {}
        /\ batch' = [batch EXCEPT ![d] = S]
    /\ UNCHANGED <<relayVars, succeeded, historyVars>>

\* The entry a drain handles next: it walks its batch in claim order.
NextOf(d, r) == r \in batch[d] /\ \A q \in batch[d] \ {r} : Before(r, q)

\* The bus accepts the entry and the publisher hears of it.
Publish(d, r) ==
    /\ NextOf(d, r)
    /\ ~rows[r].poison
    /\ batch' = [batch EXCEPT ![d] = @ \ {r}]
    /\ succeeded' = [succeeded EXCEPT ![d] = @ \cup {r}]
    /\ delivered' = [delivered EXCEPT ![r] = @ + 1]
    /\ UNCHANGED <<relayVars, lostAcks, crashes>>

\* markFailed: counts the attempt, also on a row that has been published.
markFailed(row) ==
    [row EXCEPT !.attemptCount = IF @ < AttemptCap THEN @ + 1 ELSE @]

\* The publish rejects, which the drain reports at once. Either the bus has
\* refused the entry, for once or for ever ...
PublishFails(d, r) ==
    /\ NextOf(d, r)
    /\ batch' = [batch EXCEPT ![d] = @ \ {r}]
    /\ rows' = [rows EXCEPT ![r] = markFailed(@)]
    /\ UNCHANGED <<nextId, succeeded, historyVars>>

\* ... or it has accepted it and the acknowledgement was lost: the catch block
\* takes this for a failure too, and the row stays unpublished.
AcceptedButFails(d, r) ==
    /\ NextOf(d, r)
    /\ ~rows[r].poison
    /\ lostAcks[r] < MaxLostAcks
    /\ batch' = [batch EXCEPT ![d] = @ \ {r}]
    /\ rows' = [rows EXCEPT ![r] = markFailed(@)]
    /\ delivered' = [delivered EXCEPT ![r] = @ + 1]
    /\ lostAcks' = [lostAcks EXCEPT ![r] = @ + 1]
    /\ UNCHANGED <<nextId, succeeded, crashes>>

\* markPublished(ids), called with all successes when the batch is through.
MarkPublished(d) ==
    /\ batch[d] = {}
    /\ succeeded[d] # {}
    /\ rows' = [r \in RowIds |->
           IF r \in succeeded[d] THEN [rows[r] EXCEPT !.published = TRUE]
                                 ELSE rows[r]]
    /\ succeeded' = [succeeded EXCEPT ![d] = {}]
    /\ UNCHANGED <<nextId, batch, historyVars>>

\* The drain dies: what it published but had not marked is forgotten.
Crash(d) ==
    /\ ~Idle(d)
    /\ crashes < MaxCrashes
    /\ crashes' = crashes + 1
    /\ batch' = [batch EXCEPT ![d] = {}]
    /\ succeeded' = [succeeded EXCEPT ![d] = {}]
    /\ UNCHANGED <<relayVars, delivered, lostAcks>>

Next ==
    \/ \E stamp \in Stamps, poison \in BOOLEAN : Enqueue(stamp, poison)
    \/ \E d \in Drains : ClaimBatch(d)
    \/ \E d \in Drains, r \in RowIds : Publish(d, r)
    \/ \E d \in Drains, r \in RowIds : PublishFails(d, r)
    \/ \E d \in Drains, r \in RowIds : AcceptedButFails(d, r)
    \/ \E d \in Drains : MarkPublished(d)
    \/ \E d \in Drains : Crash(d)

Spec == Init /\ [][Next]_vars

\* The interval keeps firing and a drain that does not crash runs to its end.
\* A failure of the bus that is not permanent passes: an entry that is tried
\* again and again is accepted, and acknowledged, in the end.
Drain(d) ==
    \/ ClaimBatch(d)
    \/ \E r \in RowIds :
           Publish(d, r) \/ PublishFails(d, r) \/ AcceptedButFails(d, r)
    \/ MarkPublished(d)
Fairness ==
    /\ \A d \in Drains : WF_vars(Drain(d))
    /\ \A r \in RowIds : SF_vars(\E d \in Drains : Publish(d, r))

FairSpec == Spec /\ Fairness

-----------------------------------------------------------------------------
(***************************************************************************)
(* Properties                                                              *)
(***************************************************************************)

\* Type invariant.
TypeOK ==
    /\ rows \in [RowIds -> Row]
    /\ nextId \in 0 .. MaxRows
    /\ batch \in [Drains -> SUBSET RowIds]
    /\ succeeded \in [Drains -> SUBSET RowIds]
    /\ delivered \in [RowIds -> Nat]
    /\ lostAcks \in [RowIds -> 0 .. MaxLostAcks]
    /\ crashes \in 0 .. MaxCrashes

\* Marking never gets ahead of publishing, and never falls far behind: a row
\* counts as published only if the bus has accepted its entry, and the bus gets
\* an entry at most once for every drain, once more for every crash and once
\* more for every acknowledgement of that entry that was lost, whatever
\* overlapped. (One drain, no crash, no lost acknowledgement: exactly once.)
DeliveredWithinBounds ==
    \A r \in RowIds :
        /\ rows[r].published => delivered[r] > 0
        /\ delivered[r] <= Cardinality(Drains) + crashes + lostAcks[r]

\* Every row the bus is willing to accept is published in the end, although
\* rows it refuses for ever stay at the front of every batch.
EveryRowPublished ==
    \A r \in RowIds :
        rows[r].created /\ ~rows[r].poison ~> rows[r].published
=============================================================================
