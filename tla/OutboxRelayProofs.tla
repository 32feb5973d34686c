-------------------------- MODULE OutboxRelayProofs --------------------------
(***************************************************************************)
(* Proofs about OutboxRelay, for any number of rows, drains, crashes and   *)
(* lost acknowledgements: type correctness, and the bounds on what is      *)
(* delivered.                                                              *)
(***************************************************************************)
EXTENDS OutboxRelay, FiniteSetTheorems, TLAPS

\* The drains that will still publish a row, and those that will mark it.
Holders(r) == {d \in Drains : r \in batch[d]}
Marking(r) == {d \in Drains : r \in succeeded[d]}

\* What is claimed, published or marked was enqueued.
InUse ==
    \A r \in RowIds :
        rows[r].created \/ rows[r].published \/ Holders(r) \cup Marking(r) # {}
        => r <= nextId

\* An entry is published by a drain before that marks it.
Delivered ==
    \A r \in RowIds :
        rows[r].published \/ Marking(r) # {} => delivered[r] > 0

\* A drain has published an entry or still holds it.
Disjoint == \A d \in Drains : batch[d] \cap succeeded[d] = {}

\* Every delivery of an unmarked row is owed to a drain about to mark it, to a
\* crash or to a lost acknowledgement; a marked row is delivered again only by
\* drains that hold it.
Bound(r) ==
    IF rows[r].published
    THEN delivered[r] + Cardinality(Holders(r))
             <= Cardinality(Drains) + crashes + lostAcks[r]
    ELSE delivered[r] <= Cardinality(Marking(r)) + crashes + lostAcks[r]

RelayInv ==
    TypeOK /\ InUse /\ Delivered /\ Disjoint /\ \A r \in RowIds : Bound(r)

LEMMA DrainsAreCounted ==
    ASSUME NEW S, S \subseteq Drains
    PROVE  /\ IsFiniteSet(S) /\ Cardinality(S) \in Nat
           /\ Cardinality(S) <= Cardinality(Drains)
BY OutboxAssumption, FS_Subset, FS_CardinalityType

LEMMA RelayInit == Init => RelayInv
<1> SUFFICES ASSUME Init PROVE RelayInv
  OBVIOUS
<1>1. TypeOK
  <2>1. /\ 0 \in 0 .. MaxRows /\ 0 \in 0 .. MaxCrashes /\ 0 \in 0 .. AttemptCap
        /\ 0 \in 0 .. MaxLostAcks
    BY OutboxAssumption
  <2>2. NoRow \in Row
    BY <2>1 DEF NoRow, Row
  <2>3. QED
    BY <2>1, <2>2 DEF Init, TypeOK
<1>2. \A r \in RowIds : /\ ~rows[r].created /\ ~rows[r].published /\ delivered[r] = 0
                        /\ lostAcks[r] = 0
                        /\ Holders(r) = {} /\ Marking(r) = {}
  BY DEF Init, NoRow, Holders, Marking
<1>3. InUse /\ Delivered /\ Disjoint
  BY <1>2 DEF Init, InUse, Delivered, Disjoint
<1>4. ASSUME NEW r \in RowIds PROVE Bound(r)
  <2>1. crashes = 0 /\ Cardinality(Marking(r)) \in Nat
    BY DrainsAreCounted DEF Init, Marking
  <2>2. QED
    BY <1>2, <2>1 DEF Bound
<1>5. QED
  BY <1>1, <1>3, <1>4 DEF RelayInv

LEMMA TypeStep == TypeOK /\ [Next]_vars => TypeOK'
<1> SUFFICES ASSUME TypeOK, [Next]_vars PROVE TypeOK'
  OBVIOUS
<1> USE OutboxAssumption
<1> USE DEF TypeOK
<1>1. ASSUME NEW stamp \in Stamps, NEW poison \in BOOLEAN, Enqueue(stamp, poison)
      PROVE  TypeOK'
  <2>1. [created |-> TRUE, createdAt |-> stamp, published |-> FALSE,
         attemptCount |-> 0, poison |-> poison] \in Row
    BY DEF Row
  <2>2. rows' \in [RowIds -> Row] /\ nextId' \in 0 .. MaxRows
    BY <1>1, <2>1 DEF Enqueue, RowIds
  <2>3. QED
    BY <1>1, <2>2 DEF Enqueue, drainVars, historyVars
<1>2. ASSUME NEW d \in Drains, ClaimBatch(d) PROVE TypeOK'
  BY <1>2 DEF ClaimBatch, relayVars, Unpublished, historyVars
<1>3. ASSUME NEW d \in Drains, NEW r \in RowIds, Publish(d, r) PROVE TypeOK'
  BY <1>3 DEF Publish, relayVars, historyVars
<1>4. ASSUME NEW d \in Drains, NEW r \in RowIds, PublishFails(d, r) PROVE TypeOK'
  <2>1. markFailed(rows[r]) \in Row
    BY DEF markFailed, Row
  <2>2. rows' \in [RowIds -> Row]
    BY <1>4, <2>1 DEF PublishFails, historyVars
  <2>3. QED
    BY <1>4, <2>2 DEF PublishFails, historyVars
<1>5. ASSUME NEW d \in Drains, NEW r \in RowIds, AcceptedButFails(d, r)
      PROVE  TypeOK'
  <2>1. markFailed(rows[r]) \in Row
    BY DEF markFailed, Row
  <2>2. rows' \in [RowIds -> Row]
    BY <1>5, <2>1 DEF AcceptedButFails
  <2>3. lostAcks' \in [RowIds -> 0 .. MaxLostAcks]
    BY <1>5 DEF AcceptedButFails
  <2>4. QED
    BY <1>5, <2>2, <2>3 DEF AcceptedButFails
<1>6. ASSUME NEW d \in Drains, MarkPublished(d) PROVE TypeOK'
  <2>1. \A r \in RowIds : [rows[r] EXCEPT !.published = TRUE] \in Row
    BY DEF Row
  <2>2. rows' \in [RowIds -> Row]
    BY <1>6, <2>1 DEF MarkPublished, historyVars
  <2>3. QED
    BY <1>6, <2>2 DEF MarkPublished, historyVars
<1>7. ASSUME NEW d \in Drains, Crash(d) PROVE TypeOK'
  BY <1>7 DEF Crash, relayVars, historyVars
<1>8. CASE UNCHANGED vars
  BY <1>8 DEF vars, relayVars, drainVars, historyVars
<1>9. QED
  BY <1>1, <1>2, <1>3, <1>4, <1>5, <1>6, <1>7, <1>8 DEF Next

\* A step that changes no row's publication, no count and no set of drains.
LEMMA BoundKept ==
    ASSUME NEW r \in RowIds, Bound(r), rows'[r].published = rows[r].published,
           delivered'[r] = delivered[r], lostAcks'[r] = lostAcks[r],
           crashes' = crashes,
           rows[r].published => Holders(r)' = Holders(r), Marking(r)' = Marking(r)
    PROVE  Bound(r)'
BY DEF Bound

LEMMA RelayStep == RelayInv /\ [Next]_vars => RelayInv'
<1> SUFFICES ASSUME RelayInv, [Next]_vars PROVE RelayInv'
  OBVIOUS
<1>1. TypeOK'
  BY TypeStep DEF RelayInv
<1> USE DEF RelayInv
<1>2. ASSUME NEW stamp \in Stamps, NEW poison \in BOOLEAN, Enqueue(stamp, poison)
      PROVE  RelayInv'
  <2> DEFINE id == nextId + 1
  <2>1. /\ nextId' = id /\ nextId \in Nat /\ id \in RowIds
        /\ UNCHANGED <<batch, succeeded, delivered, lostAcks, crashes>>
        /\ rows'[id].published = FALSE
        /\ \A r \in RowIds \ {id} : rows'[r] = rows[r]
    BY <1>2 DEF Enqueue, drainVars, TypeOK, historyVars
  <2>2. \A r \in RowIds : Holders(r)' = Holders(r) /\ Marking(r)' = Marking(r)
    BY <2>1 DEF Holders, Marking
  <2>3. \A r \in RowIds : rows'[r].published = rows[r].published
    <3>1. ~rows[id].published
      BY <2>1 DEF InUse
    <3>2. rows[id].published \in BOOLEAN
      BY <2>1 DEF TypeOK, Row
    <3>3. rows'[id].published = rows[id].published
      BY <2>1, <3>1, <3>2
    <3>4. QED
      BY <2>1, <3>3
  <2>4. InUse' /\ Delivered' /\ Disjoint'
    <3>1. InUse'
      BY <2>1, <2>2, <2>3 DEF InUse, RowIds
    <3>2. Delivered' /\ Disjoint'
      BY <2>1, <2>2, <2>3 DEF Delivered, Disjoint
    <3>3. QED
      BY <3>1, <3>2
  <2>5. \A r \in RowIds : Bound(r)'
    BY <2>1, <2>2, <2>3, BoundKept
  <2>6. QED
    BY <1>1, <2>4, <2>5
<1>3. ASSUME NEW d \in Drains, ClaimBatch(d) PROVE RelayInv'
  <2>1. PICK S \in SUBSET Unpublished : batch' = [batch EXCEPT ![d] = S]
    BY <1>3 DEF ClaimBatch
  <2>2. UNCHANGED <<rows, nextId, succeeded, delivered, lostAcks, crashes>> /\ succeeded[d] = {}
    BY <1>3 DEF ClaimBatch, relayVars, Idle, historyVars
  <2>3. /\ batch'[d] = S /\ \A e \in Drains \ {d} : batch'[e] = batch[e]
        /\ batch[d] = {}
    BY <1>3, <2>1 DEF TypeOK, ClaimBatch, Idle
  <2>4. \A r \in RowIds : /\ Marking(r)' = Marking(r)
                          /\ r \notin S => Holders(r)' = Holders(r)
    BY <2>2, <2>3 DEF Holders, Marking
  <2>5. \A r \in RowIds : r \in S => rows[r].created /\ ~rows[r].published
    BY DEF Unpublished
  <2>6. InUse' /\ Delivered' /\ Disjoint'
    <3>1. InUse'
      BY <2>2, <2>4, <2>5 DEF InUse
    <3>2. Delivered' /\ Disjoint'
      BY <2>2, <2>3, <2>4 DEF Delivered, Disjoint
    <3>3. QED
      BY <3>1, <3>2
  <2>7. \A r \in RowIds : Bound(r)'
    BY <2>2, <2>4, <2>5, BoundKept
  <2>8. QED
    BY <1>1, <2>6, <2>7
<1>4. ASSUME NEW d \in Drains, NEW r \in RowIds, Publish(d, r) PROVE RelayInv'
  <2>1. /\ r \in batch[d]
        /\ batch' = [batch EXCEPT ![d] = @ \ {r}]
        /\ succeeded' = [succeeded EXCEPT ![d] = @ \cup {r}]
        /\ delivered' = [delivered EXCEPT ![r] = @ + 1]
        /\ UNCHANGED <<rows, nextId, lostAcks, crashes>>
    BY <1>4 DEF Publish, NextOf, relayVars, historyVars
  <2>2. /\ Holders(r)' = Holders(r) \ {d} /\ d \in Holders(r)
        /\ Marking(r)' = Marking(r) \cup {d} /\ d \notin Marking(r)
    BY <2>1 DEF Holders, Marking, TypeOK, Disjoint
  <2>3. \A q \in RowIds \ {r} : /\ Holders(q)' = Holders(q) /\ Marking(q)' = Marking(q)
                                /\ delivered'[q] = delivered[q]
    BY <2>1 DEF Holders, Marking, TypeOK
  <2>4. delivered'[r] = delivered[r] + 1 /\ delivered[r] \in Nat
    BY <2>1 DEF TypeOK
  <2>5. InUse'
    BY <2>1, <2>2, <2>3 DEF InUse
  <2>6. Delivered'
    BY <2>1, <2>3, <2>4 DEF Delivered
  <2>7. Disjoint'
    BY <2>1 DEF Disjoint, TypeOK
  <2>8. Bound(r)'
    <3>1. /\ IsFiniteSet(Holders(r)) /\ Cardinality(Holders(r)) \in Nat
          /\ IsFiniteSet(Marking(r)) /\ Cardinality(Marking(r)) \in Nat
      BY DrainsAreCounted DEF Holders, Marking
    <3>2. Cardinality(Holders(r)') = Cardinality(Holders(r)) - 1
      BY <2>2, <3>1, FS_RemoveElement
    <3>3. Cardinality(Marking(r)') = Cardinality(Marking(r)) + 1
      BY <2>2, <3>1, FS_AddElement
    <3>4. crashes \in Nat /\ Cardinality(Drains) \in Nat /\ lostAcks[r] \in Nat
      BY OutboxAssumption, FS_CardinalityType DEF TypeOK
    <3>5. Bound(r) /\ rows' = rows /\ crashes' = crashes /\ lostAcks' = lostAcks
      BY <2>1
    <3>6. QED
      BY <2>4, <3>1, <3>2, <3>3, <3>4, <3>5 DEF Bound
  <2>9. \A q \in RowIds \ {r} : Bound(q)'
    BY <2>1, <2>3, BoundKept
  <2>10. QED
    BY <1>1, <2>5, <2>6, <2>7, <2>8, <2>9
<1>5. ASSUME NEW d \in Drains, NEW r \in RowIds, PublishFails(d, r) PROVE RelayInv'
  <2>1. /\ batch' = [batch EXCEPT ![d] = @ \ {r}]
        /\ rows' = [rows EXCEPT ![r] = markFailed(@)]
        /\ UNCHANGED <<nextId, succeeded, delivered, lostAcks, crashes>>
    BY <1>5 DEF PublishFails, historyVars
  <2>2. \A q \in RowIds : /\ Marking(q)' = Marking(q)
                          /\ Holders(q)' \subseteq Holders(q)
    BY <2>1 DEF Holders, Marking, TypeOK
  <2>3. \A q \in RowIds : /\ rows'[q].published = rows[q].published
                          /\ rows'[q].created = rows[q].created
    BY <2>1 DEF TypeOK, Row, markFailed
  <2>4. InUse' /\ Delivered'
    BY <2>1, <2>2, <2>3 DEF InUse, Delivered
  <2>5. Disjoint'
    BY <2>1 DEF Disjoint, TypeOK
  <2>6. ASSUME NEW q \in RowIds PROVE Bound(q)'
    <3>1. /\ IsFiniteSet(Holders(q)) /\ Cardinality(Holders(q)) \in Nat
          /\ Cardinality(Marking(q)) \in Nat
      BY DrainsAreCounted DEF Holders, Marking
    <3>2. /\ Cardinality(Holders(q)') \in Nat
          /\ Cardinality(Holders(q)') <= Cardinality(Holders(q))
      BY <2>2, <3>1, FS_Subset, FS_CardinalityType
    <3>3. /\ crashes \in Nat /\ Cardinality(Drains) \in Nat /\ delivered[q] \in Nat
          /\ lostAcks[q] \in Nat
      BY OutboxAssumption, FS_CardinalityType DEF TypeOK
    <3>4. Bound(q)
      OBVIOUS
    <3>5. QED
      BY <2>1, <2>2, <2>3, <3>1, <3>2, <3>3, <3>4 DEF Bound
  <2>7. QED
    BY <1>1, <2>4, <2>5, <2>6
<1>6. ASSUME NEW d \in Drains, NEW r \in RowIds, AcceptedButFails(d, r)
       PROVE  RelayInv'
  <2>1. /\ r \in batch[d] /\ ~rows[r].poison
        /\ batch' = [batch EXCEPT ![d] = @ \ {r}]
        /\ rows' = [rows EXCEPT ![r] = markFailed(@)]
        /\ delivered' = [delivered EXCEPT ![r] = @ + 1]
        /\ lostAcks' = [lostAcks EXCEPT ![r] = @ + 1]
        /\ UNCHANGED <<nextId, succeeded, crashes>>
    BY <1>6 DEF AcceptedButFails, NextOf
  <2>2. \A q \in RowIds : /\ Marking(q)' = Marking(q)
                          /\ Holders(q)' \subseteq Holders(q)
    BY <2>1 DEF Holders, Marking, TypeOK
  <2>3. \A q \in RowIds : /\ rows'[q].published = rows[q].published
                          /\ rows'[q].created = rows[q].created
    BY <2>1 DEF TypeOK, Row, markFailed
  <2>4. \A q \in RowIds : /\ delivered[q] \in Nat /\ lostAcks[q] \in Nat
                          /\ delivered'[q] \in {delivered[q], delivered[q] + 1}
                          /\ lostAcks'[q] - lostAcks[q] = delivered'[q] - delivered[q]
    BY <2>1, OutboxAssumption DEF TypeOK
  <2>5. InUse'
    BY <2>1, <2>2, <2>3 DEF InUse
  <2>6. Delivered'
    BY <2>2, <2>3, <2>4 DEF Delivered
  <2>7. Disjoint'
    BY <2>1 DEF Disjoint, TypeOK
  <2>8. ASSUME NEW q \in RowIds PROVE Bound(q)'
    <3>1. /\ IsFiniteSet(Holders(q)) /\ Cardinality(Holders(q)) \in Nat
          /\ Cardinality(Marking(q)) \in Nat
      BY DrainsAreCounted DEF Holders, Marking
    <3>2. /\ Cardinality(Holders(q)') \in Nat
          /\ Cardinality(Holders(q)') <= Cardinality(Holders(q))
      BY <2>2, <3>1, FS_Subset, FS_CardinalityType
    <3>3. crashes \in Nat /\ Cardinality(Drains) \in Nat
      BY OutboxAssumption, FS_CardinalityType DEF TypeOK
    <3>4. Bound(q) /\ lostAcks'[q] \in Nat /\ delivered'[q] \in Nat
      BY <1>1, OutboxAssumption DEF TypeOK
    <3>5. QED
      BY <2>1, <2>2, <2>3, <2>4, <3>1, <3>2, <3>3, <3>4 DEF Bound
  <2>9. QED
    BY <1>1, <2>5, <2>6, <2>7, <2>8
<1>7. ASSUME NEW d \in Drains, MarkPublished(d) PROVE RelayInv'
  <2>1. /\ rows' = [r \in RowIds |->
               IF r \in succeeded[d] THEN [rows[r] EXCEPT !.published = TRUE]
                                     ELSE rows[r]]
        /\ succeeded' = [succeeded EXCEPT ![d] = {}]
        /\ UNCHANGED <<nextId, batch, delivered, lostAcks, crashes>>
    BY <1>7 DEF MarkPublished, historyVars
  <2>2. ASSUME NEW r \in RowIds
        PROVE  /\ Holders(r)' = Holders(r) /\ Marking(r)' \subseteq Marking(r)
               /\ r \notin succeeded[d] => Marking(r)' = Marking(r)
               /\ rows'[r].created = rows[r].created
               /\ rows'[r].published =
                      IF r \in succeeded[d] THEN TRUE ELSE rows[r].published
               /\ r \in succeeded[d] => d \in Marking(r)
    <3>1. /\ Holders(r)' = Holders(r) /\ Marking(r)' \subseteq Marking(r)
          /\ r \notin succeeded[d] => Marking(r)' = Marking(r)
          /\ r \in succeeded[d] => d \in Marking(r)
      BY <2>1 DEF Holders, Marking, TypeOK
    <3>2. /\ rows'[r].created = rows[r].created
          /\ rows'[r].published = IF r \in succeeded[d] THEN TRUE ELSE rows[r].published
      BY <2>1 DEF TypeOK, Row
    <3>3. QED
      BY <3>1, <3>2
  <2>3. InUse' /\ Delivered'
    BY <2>1, <2>2 DEF InUse, Delivered
  <2>4. Disjoint'
    BY <2>1 DEF Disjoint, TypeOK
  <2>5. ASSUME NEW r \in RowIds PROVE Bound(r)'
    <3>1. Bound(r)
      OBVIOUS
    <3>2. CASE r \notin succeeded[d] \/ rows[r].published
      <4>1. rows[r].published \in BOOLEAN
        BY DEF TypeOK, Row
      <4>2. rows'[r].published = rows[r].published
        BY <2>2, <3>2, <4>1
      <4>3. rows[r].published \/ Marking(r)' = Marking(r)
        BY <2>2, <3>2
      <4>4. QED
        BY <2>1, <2>2, <3>1, <4>2, <4>3 DEF Bound
    <3>3. CASE r \in succeeded[d] /\ ~rows[r].published
      <4>1. delivered[r] <= Cardinality(Marking(r)) + crashes + lostAcks[r]
        BY <3>1, <3>3 DEF Bound
      <4>2. Cardinality(Holders(r)) + Cardinality(Marking(r)) <= Cardinality(Drains)
        <5>1. Holders(r) \cap Marking(r) = {}
          BY DEF Holders, Marking, Disjoint
        <5>2. IsFiniteSet(Holders(r)) /\ IsFiniteSet(Marking(r))
          BY DrainsAreCounted DEF Holders, Marking
        <5>3. Cardinality(Holders(r) \cup Marking(r)) <= Cardinality(Drains)
          BY DrainsAreCounted DEF Holders, Marking
        <5>4. Cardinality(Holders(r) \cup Marking(r)) =
                  Cardinality(Holders(r)) + Cardinality(Marking(r)) - Cardinality({})
          BY <5>1, <5>2, FS_Union
        <5>5. Cardinality({}) = 0 /\ Cardinality(Holders(r)) \in Nat /\ Cardinality(Marking(r)) \in Nat
          BY <5>2, FS_EmptySet, FS_CardinalityType
        <5>6. QED
          BY <5>3, <5>4, <5>5
      <4>3. /\ Cardinality(Holders(r)) \in Nat /\ Cardinality(Marking(r)) \in Nat
            /\ Cardinality(Drains) \in Nat /\ crashes \in Nat /\ delivered[r] \in Nat
            /\ lostAcks[r] \in Nat
        BY OutboxAssumption, DrainsAreCounted DEF Holders, Marking, TypeOK
      <4>4. rows'[r].published
        BY <2>2, <3>3
      <4>5. QED
        BY <2>1, <2>2, <4>1, <4>2, <4>3, <4>4 DEF Bound
    <3>4. QED
      BY <3>2, <3>3
  <2>6. QED
    BY <1>1, <2>3, <2>4, <2>5
<1>8. ASSUME NEW d \in Drains, Crash(d) PROVE RelayInv'
  <2>1. /\ batch' = [batch EXCEPT ![d] = {}] /\ succeeded' = [succeeded EXCEPT ![d] = {}]
        /\ crashes' = crashes + 1
        /\ UNCHANGED <<rows, nextId, delivered, lostAcks>>
    BY <1>8 DEF Crash, relayVars, historyVars
  <2>2. \A r \in RowIds : /\ Holders(r)' = Holders(r) \ {d}
                          /\ Marking(r)' = Marking(r) \ {d}
    BY <2>1 DEF Holders, Marking, TypeOK
  <2>3. InUse' /\ Delivered'
    BY <2>1, <2>2 DEF InUse, Delivered
  <2>4. Disjoint'
    BY <2>1 DEF Disjoint, TypeOK
  <2>5. ASSUME NEW r \in RowIds PROVE Bound(r)'
    <3>1. /\ IsFiniteSet(Holders(r)) /\ Cardinality(Holders(r)) \in Nat
          /\ IsFiniteSet(Marking(r)) /\ Cardinality(Marking(r)) \in Nat
      BY DrainsAreCounted DEF Holders, Marking
    <3>2. /\ Cardinality(Holders(r)') \in Nat /\ Cardinality(Marking(r)') \in Nat
          /\ Cardinality(Holders(r)') <= Cardinality(Holders(r))
          /\ Cardinality(Marking(r)) <= Cardinality(Marking(r)') + 1
      <4>1. Cardinality(Holders(r)') = IF d \in Holders(r) THEN Cardinality(Holders(r)) - 1
                                                            ELSE Cardinality(Holders(r))
        BY <2>2, <3>1, FS_RemoveElement
      <4>2. Cardinality(Marking(r)') = IF d \in Marking(r) THEN Cardinality(Marking(r)) - 1
                                                            ELSE Cardinality(Marking(r))
        BY <2>2, <3>1, FS_RemoveElement
      <4>3. Cardinality(Holders(r)') \in Nat /\ Cardinality(Marking(r)') \in Nat
        BY <2>2, DrainsAreCounted DEF Holders, Marking
      <4>4. QED
        BY <3>1, <4>1, <4>2, <4>3
    <3>3. /\ crashes \in Nat /\ Cardinality(Drains) \in Nat /\ delivered[r] \in Nat
          /\ lostAcks[r] \in Nat
      BY OutboxAssumption, FS_CardinalityType DEF TypeOK
    <3>4. Bound(r)
      OBVIOUS
    <3>5. QED
      BY <2>1, <3>1, <3>2, <3>3, <3>4 DEF Bound
  <2>6. QED
    BY <1>1, <2>3, <2>4, <2>5
<1>9. CASE UNCHANGED vars
  BY <1>1, <1>9 DEF vars, relayVars, drainVars, historyVars, InUse, Delivered, Disjoint, Bound,
     Holders, Marking
<1>10. QED
  BY <1>2, <1>3, <1>4, <1>5, <1>6, <1>7, <1>8, <1>9 DEF Next

\* The rows and the drains keep their types, however drains overlap and crash.
\* (outbox.ts, createMemoryOutboxRelay)
THEOREM TypeCorrect == Spec => []TypeOK
<1>1. RelayInv => TypeOK
  BY DEF RelayInv
<1>2. QED
  BY <1>1, RelayInit, RelayStep, PTL DEF Spec

\* A row is marked only after the bus has accepted its entry, and the bus gets
\* it at most once for every drain, once more for every crash and once more for
\* every acknowledgement that was lost, for any number of these. (claimBatch,
\* markPublished, markFailed)
THEOREM DeliveryIsBounded == Spec => []DeliveredWithinBounds
<1>1. RelayInv => DeliveredWithinBounds
  <2> SUFFICES ASSUME RelayInv, NEW r \in RowIds
               PROVE  /\ rows[r].published => delivered[r] > 0
                      /\ delivered[r] <= Cardinality(Drains) + crashes + lostAcks[r]
    BY DEF DeliveredWithinBounds
  <2>1. Bound(r) /\ Delivered /\ TypeOK
    BY DEF RelayInv
  <2>2. /\ Cardinality(Holders(r)) \in Nat /\ Cardinality(Marking(r)) \in Nat
        /\ Cardinality(Marking(r)) <= Cardinality(Drains) /\ Cardinality(Drains) \in Nat
    BY DrainsAreCounted DEF Holders, Marking
  <2>3. delivered[r] \in Nat /\ crashes \in Nat /\ lostAcks[r] \in Nat
    BY <2>1, OutboxAssumption DEF TypeOK
  <2>4. QED
    BY <2>1, <2>2, <2>3 DEF Bound, Delivered
<1>2. QED
  BY <1>1, RelayInit, RelayStep, PTL DEF Spec
=============================================================================
