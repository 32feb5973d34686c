------------------------ MODULE NotesClientsProofs ------------------------
(***************************************************************************)
(* Proofs about NotesClients, and about the notes it works on, for any     *)
(* number of clients, calls, notes and instants and any size of a page.    *)
(***************************************************************************)
EXTENDS NotesClients, FiniteSetTheorems, SequenceTheorems, TLAPS

\* What removing a place leaves of a sequence.
LEMMA RemoveAtFacts ==
    ASSUME NEW S, NEW s \in Seq(S), NEW p \in 1 .. Len(s)
    PROVE  /\ RemoveAt(s, p) \in Seq(S)
           /\ Len(RemoveAt(s, p)) = Len(s) - 1
           /\ \A i \in 1 .. Len(s) - 1 :
                  RemoveAt(s, p)[i] = IF i < p THEN s[i] ELSE s[i + 1]
<1> DEFINE front == SubSeq(s, 1, p - 1)
           back == SubSeq(s, p + 1, Len(s))
<1>1. /\ front \in Seq(S) /\ Len(front) = p - 1
      /\ \A i \in 1 .. p - 1 : front[i] = s[i]
  <2>1. \A i \in 1 .. p - 1 : s[i] \in S
    BY ElementOfSeq
  <2>2. QED
    BY <2>1, SubSeqProperties
<1>2. /\ back \in Seq(S) /\ Len(back) = Len(s) - p
      /\ \A i \in 1 .. Len(s) - p : back[i] = s[p + i]
  <2>1. \A i \in p + 1 .. Len(s) : s[i] \in S
    BY ElementOfSeq
  <2>2. /\ back \in Seq(S)
        /\ Len(back) = IF p + 1 <= Len(s) THEN Len(s) - (p + 1) + 1 ELSE 0
        /\ \A i \in 1 .. Len(s) - (p + 1) + 1 : back[i] = s[p + 1 + i - 1]
    BY <2>1, SubSeqProperties
  <2>3. QED
    BY <2>2
<1>3. RemoveAt(s, p) = front \o back
  BY DEF RemoveAt
<1> HIDE DEF front, back
<1>4. /\ front \o back \in Seq(S)
      /\ Len(front \o back) = Len(front) + Len(back)
      /\ \A i \in 1 .. Len(front) + Len(back) :
             (front \o back)[i] = IF i <= Len(front) THEN front[i] ELSE back[i - Len(front)]
  BY <1>1, <1>2, ConcatProperties
<1>5. Len(s) \in Nat /\ Len(front) + Len(back) = Len(s) - 1
  BY <1>1, <1>2, LenProperties
<1>6. ASSUME NEW i \in 1 .. Len(s) - 1
      PROVE  (front \o back)[i] = IF i < p THEN s[i] ELSE s[i + 1]
  <2>1. (front \o back)[i] = IF i <= p - 1 THEN front[i] ELSE back[i - (p - 1)]
    BY <1>1, <1>4, <1>5
  <2>2. CASE i < p
    BY <1>1, <1>5, <2>1, <2>2
  <2>3. CASE ~(i < p)
    <3>1. i - (p - 1) \in 1 .. Len(s) - p /\ p + (i - (p - 1)) = i + 1
      BY <1>5, <2>3
    <3>2. QED
      BY <1>2, <1>5, <2>1, <2>3, <3>1
  <2>4. QED
    BY <2>2, <2>3
<1>7. QED
  BY <1>3, <1>4, <1>5, <1>6

-----------------------------------------------------------------------------
(***************************************************************************)
(* The store. Its order is that of the ids, so that a note keeps its place *)
(* among the others through every operation.                               *)
(***************************************************************************)
IdsIn(notes) == {notes[i].id : i \in DOMAIN notes}

Ascending(notes) ==
    \A i, j \in DOMAIN notes : i < j => notes[i].id < notes[j].id

\* When the notes were created.
BirthsIn(notes) ==
    [x \in IdsIn(notes) |->
        notes[CHOOSE i \in DOMAIN notes : notes[i].id = x].createdAt]

StoreInv == Ascending(store) /\ Stored \subseteq Known

Births == BirthsIn(store)

LEMMA NotesFacts ==
    ASSUME NEW notes \in Seq(Note)
    PROVE  /\ DOMAIN notes = 1 .. Len(notes) /\ Len(notes) \in Nat
           /\ \A i \in DOMAIN notes :
                  /\ i \in Nat /\ notes[i] \in Note /\ notes[i].id \in IdsIn(notes)
                  /\ notes[i].id \in Nat /\ notes[i].createdAt \in Nat
           /\ IdsIn(notes) \subseteq Nat
<1>1. DOMAIN notes = 1 .. Len(notes) /\ Len(notes) \in Nat
  BY LenProperties
<1>2. \A i \in DOMAIN notes : notes[i] \in Note
  BY <1>1, ElementOfSeq
<1>3. \A note \in Note : note.id \in Nat /\ note.createdAt \in Nat
  BY DEF Note, Ids
<1>4. QED
  BY <1>1, <1>2, <1>3 DEF IdsIn

LEMMA BirthFacts ==
    ASSUME NEW notes \in Seq(Note), Ascending(notes)
    PROVE  /\ BirthsIn(notes) \in [IdsIn(notes) -> Nat]
           /\ \A i \in DOMAIN notes :
                  /\ (CHOOSE j \in DOMAIN notes : notes[j].id = notes[i].id) = i
                  /\ BirthsIn(notes)[notes[i].id] = notes[i].createdAt
<1>1. ASSUME NEW x, NEW i \in DOMAIN notes, notes[i].id = x
      PROVE  (CHOOSE j \in DOMAIN notes : notes[j].id = x) = i
  <2> DEFINE p == CHOOSE j \in DOMAIN notes : notes[j].id = x
  <2>1. p \in DOMAIN notes /\ notes[p].id = notes[i].id
    BY <1>1
  <2> HIDE DEF p
  <2>2. i \in Nat /\ p \in Nat /\ notes[i].id \in Nat
    BY <2>1, NotesFacts
  <2>3. ~(i < p) /\ ~(p < i)
    BY <2>1, <2>2 DEF Ascending
  <2>4. p = i
    BY <2>2, <2>3
  <2>5. QED
    BY <2>4 DEF p
<1>2. ASSUME NEW x \in IdsIn(notes)
      PROVE  notes[CHOOSE j \in DOMAIN notes : notes[j].id = x].createdAt \in Nat
  <2>1. PICK i \in DOMAIN notes : notes[i].id = x
    BY DEF IdsIn
  <2>2. notes[i].createdAt \in Nat
    BY NotesFacts
  <2>3. QED
    BY <1>1, <2>1, <2>2
<1>3. QED
  BY <1>1, <1>2, NotesFacts DEF BirthsIn

LEMMA StoreFacts ==
    ASSUME ServiceTypeOK, StoreInv
    PROVE  /\ Stored = IdsIn(store)
           /\ DOMAIN store = 1 .. Len(store) /\ Len(store) \in Nat
           /\ \A i \in DOMAIN store : store[i] \in Note /\ PlaceOf(store[i].id) = i
           /\ \A x \in Stored : PlaceOf(x) \in DOMAIN store /\ store[PlaceOf(x)].id = x
<1>1. Stored = IdsIn(store)
  BY DEF Stored, IdsIn
<1>2. \A x \in Stored : PlaceOf(x) \in DOMAIN store /\ store[PlaceOf(x)].id = x
  BY DEF Stored, PlaceOf
<1>3. QED
  BY <1>1, <1>2, NotesFacts, BirthFacts DEF ServiceTypeOK, StoreInv, PlaceOf

\* A note that is created is the last of the store, and no other changes.
LEMMA CreateFacts ==
    ASSUME ServiceTypeOK, StoreInv, Create
    PROVE  /\ ServiceTypeOK' /\ StoreInv'
           /\ created' = created + 1 /\ created' \notin Stored
           /\ Stored' = Stored \cup {created'}
           /\ \A i \in DOMAIN store' :
                  store'[i].id # created' => i \in DOMAIN store /\ store'[i] = store[i]
           /\ Births' \in [Stored' -> Nat]
           /\ \A x \in Stored : Births'[x] = Births[x]
<1> DEFINE new == Fresh(created')
           n == Len(store)
<1>1. created' = created + 1 /\ created \in Nat /\ created' \in Ids /\ now' = now
  BY NotesAssumption DEF Create, ServiceTypeOK, Ids
<1>2. new \in Note /\ new.id = created'
  BY <1>1 DEF Fresh, Note, ServiceTypeOK
<1>3. created' \notin Stored
  BY <1>1 DEF StoreInv, Known
<1>4. store' = Append(store, new)
  BY <1>2, <1>3 DEF Create, Set
<1> HIDE DEF new
<1>5. /\ store' \in Seq(Note) /\ Len(store') = n + 1
      /\ \A i \in 1 .. n : store'[i] = store[i]
      /\ store'[n + 1] = new
  BY <1>2, <1>4, AppendProperties DEF ServiceTypeOK
<1>6. DOMAIN store = 1 .. n /\ DOMAIN store' = 1 .. n + 1 /\ n \in Nat
  BY <1>5, StoreFacts, LenProperties
<1>7. ServiceTypeOK'
  BY <1>1, <1>5 DEF ServiceTypeOK, Ids
<1>8. Stored' = Stored \cup {created'}
  <2>1. \A i \in 1 .. n + 1 : i \in 1 .. n \/ i = n + 1
    BY <1>6
  <2>2. 1 .. n \subseteq 1 .. n + 1 /\ n + 1 \in 1 .. n + 1
    BY <1>6
  <2>3. QED
    BY <1>2, <1>5, <1>6, <2>1, <2>2 DEF Stored
<1>9. StoreInv'
  <2>1. Stored' \subseteq Known'
    BY <1>1, <1>8 DEF StoreInv, Known
  <2>2. ASSUME NEW i \in 1 .. n + 1, NEW j \in 1 .. n + 1, i < j
        PROVE  store'[i].id < store'[j].id
    <3>1. i \in 1 .. n /\ store'[i] = store[i]
      BY <1>5, <1>6, <2>2
    <3>2. CASE j \in 1 .. n
      BY <1>5, <1>6, <2>2, <3>1, <3>2 DEF StoreInv, Ascending
    <3>3. CASE j = n + 1
      <4>1. store[i].id \in 1 .. created
        BY <1>6, <3>1 DEF StoreInv, Stored, Known
      <4>2. QED
        BY <1>1, <1>2, <1>5, <3>1, <3>3, <4>1
    <3>4. QED
      BY <1>6, <2>2, <3>2, <3>3
  <2>3. QED
    BY <1>6, <2>1, <2>2 DEF StoreInv, Ascending
<1>10. ASSUME NEW i \in DOMAIN store', store'[i].id # created'
       PROVE  i \in DOMAIN store /\ store'[i] = store[i]
  BY <1>2, <1>5, <1>6, <1>10
<1>11. /\ Births' \in [Stored' -> Nat]
       /\ \A i \in DOMAIN store' : Births'[store'[i].id] = store'[i].createdAt
  <2>1. Stored' = IdsIn(store')
    BY DEF Stored, IdsIn
  <2>2. QED
    BY <1>7, <1>9, <2>1, BirthFacts DEF ServiceTypeOK, StoreInv, Births
<1>12. ASSUME NEW x \in Stored PROVE Births'[x] = Births[x]
  <2>1. PICK i \in DOMAIN store : store[i].id = x
    BY DEF Stored
  <2>2. i \in DOMAIN store' /\ store'[i] = store[i]
    BY <1>5, <1>6, <2>1
  <2>3. Births[x] = store[i].createdAt
    BY <2>1, BirthFacts DEF ServiceTypeOK, StoreInv, Births
  <2>4. Births'[store'[i].id] = store'[i].createdAt
    BY <1>11, <2>2
  <2>5. QED
    BY <2>1, <2>2, <2>3, <2>4
<1>13. QED
  BY <1>1, <1>3, <1>7, <1>8, <1>9, <1>10, <1>11, <1>12

\* An update replaces one note, by one with its id and createdAt.
LEMMA UpdateFacts ==
    ASSUME ServiceTypeOK, StoreInv, NEW id, NEW fields \in SUBSET Fields,
           Update(id, fields)
    PROVE  /\ ServiceTypeOK' /\ StoreInv'
           /\ created' = created /\ Stored' = Stored /\ Births' = Births
           /\ DOMAIN store' = DOMAIN store
           /\ \A i \in DOMAIN store :
                  /\ store'[i].id = store[i].id
                  /\ store'[i].edited =
                         IF store[i].id = id THEN store[i].edited \cup fields
                         ELSE store[i].edited
<1> DEFINE p == PlaceOf(id)
           n == Len(store)
           old == store[p]
           new == Changed(old, fields)
<1>1. p \in 1 .. n /\ old.id = id /\ old \in Note /\ DOMAIN store = 1 .. n
  BY StoreFacts DEF Update
<1>2. /\ new \in Note /\ new.id = id /\ new.createdAt = old.createdAt
      /\ new.edited = old.edited \cup fields
  BY <1>1 DEF Changed, Note, ServiceTypeOK
<1>3. store' = [store EXCEPT ![p] = new] /\ created' = created /\ now' = now
  BY <1>1, <1>2 DEF Update, Set, Get
<1>4. \A i \in 1 .. n : store[i].id = id <=> i = p
  BY <1>1, StoreFacts
<1> HIDE DEF p, new, old
<1>5. /\ store' \in Seq(Note) /\ Len(store') = n
      /\ \A i \in 1 .. n : store'[i] = IF i = p THEN new ELSE store[i]
  BY <1>1, <1>2, <1>3, ExceptSeq DEF ServiceTypeOK
<1>6. DOMAIN store' = 1 .. n
  BY <1>5, LenProperties
<1>7. \A i \in 1 .. n : store'[i].id = store[i].id /\ store'[i].createdAt = store[i].createdAt
  BY <1>1, <1>2, <1>5 DEF old
<1>8. Stored' = Stored
  BY <1>1, <1>6, <1>7 DEF Stored
<1>9. ServiceTypeOK' /\ StoreInv'
  BY <1>1, <1>3, <1>5, <1>6, <1>7, <1>8 DEF ServiceTypeOK, StoreInv, Ascending, Known
<1>10. Births' = Births
  <2>1. Stored' = IdsIn(store') /\ Stored = IdsIn(store)
    BY DEF Stored, IdsIn
  <2>2. /\ Births' \in [Stored' -> Nat] /\ Births \in [Stored -> Nat]
        /\ \A i \in DOMAIN store' : Births'[store'[i].id] = store'[i].createdAt
        /\ \A i \in DOMAIN store : Births[store[i].id] = store[i].createdAt
    BY <1>9, <2>1, BirthFacts DEF ServiceTypeOK, StoreInv, Births
  <2>3. ASSUME NEW x \in Stored PROVE Births'[x] = Births[x]
    <3>1. PICK i \in DOMAIN store : store[i].id = x
      BY DEF Stored
    <3>2. QED
      BY <1>1, <1>6, <1>7, <2>2, <3>1
  <2>4. QED
    BY <1>8, <2>2, <2>3
<1>11. ASSUME NEW i \in 1 .. n
       PROVE  store'[i].edited = IF store[i].id = id THEN store[i].edited \cup fields
                                 ELSE store[i].edited
  BY <1>2, <1>4, <1>5 DEF old
<1>12. QED
  BY <1>1, <1>3, <1>6, <1>7, <1>8, <1>9, <1>10, <1>11

\* A deletion takes one note out; the others are unchanged.
LEMMA DeleteFacts ==
    ASSUME ServiceTypeOK, StoreInv, NEW id, Delete(id)
    PROVE  /\ ServiceTypeOK' /\ StoreInv'
           /\ created' = created /\ Stored' = Stored \ {id} /\ id \in Stored
           /\ \A i \in DOMAIN store' :
                  \E j \in DOMAIN store : store'[i] = store[j]
           /\ Births' \in [Stored' -> Nat]
           /\ \A x \in Stored' : Births'[x] = Births[x]
<1> DEFINE p == PlaceOf(id)
           n == Len(store)
           from(i) == IF i < p THEN i ELSE i + 1
<1>1. p \in 1 .. n /\ store[p].id = id /\ DOMAIN store = 1 .. n /\ n \in Nat /\ id \in Stored
  BY StoreFacts DEF Delete
<1>2. store' = RemoveAt(store, p) /\ created' = created /\ now' = now
  BY DEF Delete
<1>3. \A i \in 1 .. n : store[i].id = id <=> i = p
  BY <1>1, StoreFacts
<1> HIDE DEF p
<1>4. /\ store' \in Seq(Note) /\ Len(store') = n - 1
      /\ \A i \in 1 .. n - 1 : store'[i] = store[from(i)]
  BY <1>1, <1>2, RemoveAtFacts DEF ServiceTypeOK
<1>5. DOMAIN store' = 1 .. n - 1
  BY <1>4, LenProperties
<1>6. /\ \A i \in 1 .. n - 1 : from(i) \in 1 .. n /\ from(i) # p
      /\ \A i, j \in 1 .. n - 1 : i < j => from(i) < from(j)
      /\ \A j \in 1 .. n : j # p => \E i \in 1 .. n - 1 : from(i) = j
  <2>1. ASSUME NEW j \in 1 .. n, j # p PROVE \E i \in 1 .. n - 1 : from(i) = j
    <3>1. CASE j < p
      <4>1. j \in 1 .. n - 1 /\ from(j) = j
        BY <1>1, <3>1
      <4>2. QED
        BY <4>1
    <3>2. CASE ~(j < p)
      <4>1. j - 1 \in 1 .. n - 1 /\ from(j - 1) = j
        BY <1>1, <2>1, <3>2
      <4>2. QED
        BY <4>1
    <3>3. QED
      BY <3>1, <3>2
  <2>2. QED
    BY <1>1, <2>1
<1> HIDE DEF from
<1>7. Stored' = Stored \ {id}
  <2>1. Stored' = {store[from(i)].id : i \in 1 .. n - 1}
    BY <1>4, <1>5 DEF Stored
  <2>2. ASSUME NEW i \in 1 .. n - 1
        PROVE  store[from(i)].id \in {store[j].id : j \in 1 .. n} /\ store[from(i)].id # id
    BY <1>3, <1>6
  <2>3. ASSUME NEW j \in 1 .. n, store[j].id # id
        PROVE  \E i \in 1 .. n - 1 : store[j].id = store[from(i)].id
    <3>1. j # p
      BY <1>3, <2>3
    <3>2. QED
      BY <1>6, <3>1
  <2>4. Stored = {store[j].id : j \in 1 .. n}
    BY <1>1 DEF Stored
  <2>5. Stored' \subseteq Stored \ {id}
    BY <2>1, <2>2, <2>4
  <2>6. Stored \ {id} \subseteq Stored'
    BY <2>1, <2>3, <2>4
  <2>7. QED
    BY <2>5, <2>6
<1>8. ServiceTypeOK' /\ StoreInv'
  <2>1. Ascending(store')
    <3>1. ASSUME NEW i \in 1 .. n - 1, NEW j \in 1 .. n - 1, i < j
          PROVE  store[from(i)].id < store[from(j)].id
      BY <1>1, <1>6, <3>1 DEF StoreInv, Ascending
    <3>2. QED
      BY <1>4, <1>5, <3>1 DEF Ascending
  <2>2. QED
    BY <1>2, <1>4, <1>7, <2>1 DEF ServiceTypeOK, StoreInv, Known
<1>9. \A i \in DOMAIN store' : \E j \in DOMAIN store : store'[i] = store[j]
  BY <1>1, <1>4, <1>5, <1>6
<1>10. /\ Births' \in [Stored' -> Nat]
       /\ \A i \in DOMAIN store' : Births'[store'[i].id] = store'[i].createdAt
       /\ \A i \in DOMAIN store : Births[store[i].id] = store[i].createdAt
  <2>1. Stored' = IdsIn(store')
    BY DEF Stored, IdsIn
  <2>2. QED
    BY <1>8, <2>1, BirthFacts DEF ServiceTypeOK, StoreInv, Births
<1>11. ASSUME NEW x \in Stored' PROVE Births'[x] = Births[x]
  <2>1. PICK i \in DOMAIN store' : store'[i].id = x
    BY DEF Stored
  <2>2. PICK j \in DOMAIN store : store'[i] = store[j]
    BY <1>9
  <2>3. QED
    BY <1>10, <2>1, <2>2
<1>12. QED
  BY <1>1, <1>2, <1>7, <1>8, <1>9, <1>10, <1>11

-----------------------------------------------------------------------------
(***************************************************************************)
(* Ranks. A stored note has the place in the listing that is the number of *)
(* notes before it; births[x] is when note x was created.                  *)
(***************************************************************************)
Before(births, x, y) ==
    births[x] > births[y] \/ (births[x] = births[y] /\ x < y)

Ahead(births, x) == {y \in DOMAIN births : Before(births, y, x)}

Rank(births, x) == Cardinality(Ahead(births, x))

LEMMA BeforeIsAnOrder ==
    ASSUME NEW S \in SUBSET Nat, NEW births \in [S -> Nat]
    PROVE  /\ \A x \in S : ~Before(births, x, x)
           /\ \A x, y \in S : x = y \/ Before(births, x, y) \/ Before(births, y, x)
           /\ \A x, y, z \in S :
                  Before(births, x, y) /\ Before(births, y, z) => Before(births, x, z)
<1>1. \A x \in S : x \in Nat /\ births[x] \in Nat
  OBVIOUS
<1>2. QED
  BY <1>1 DEF Before

LEMMA RankGrows ==
    ASSUME NEW S \in SUBSET Nat, IsFiniteSet(S), NEW births \in [S -> Nat],
           NEW x \in S, NEW y \in S, Before(births, x, y)
    PROVE  Rank(births, x) < Rank(births, y)
<1>1. Ahead(births, x) \subseteq Ahead(births, y)
  BY BeforeIsAnOrder DEF Ahead
<1>2. x \in Ahead(births, y) /\ x \notin Ahead(births, x)
  BY BeforeIsAnOrder DEF Ahead
<1>3. Ahead(births, y) \subseteq S
  BY DEF Ahead
<1>4. IsFiniteSet(Ahead(births, y)) /\ IsFiniteSet(Ahead(births, x))
  BY <1>1, <1>3, FS_Subset
<1>5. /\ Cardinality(Ahead(births, x)) <= Cardinality(Ahead(births, y))
      /\ Cardinality(Ahead(births, x)) # Cardinality(Ahead(births, y))
  BY <1>1, <1>2, <1>4, FS_Subset
<1>6. QED
  BY <1>4, <1>5, FS_CardinalityType DEF Rank

\* No two notes have the same rank, and it tells which comes first.
LEMMA RankOrders ==
    ASSUME NEW S \in SUBSET Nat, IsFiniteSet(S), NEW births \in [S -> Nat]
    PROVE  /\ \A x \in S : Rank(births, x) \in 0 .. Cardinality(S) - 1
           /\ \A x \in S : Rank(births, x) \in Nat
           /\ \A x, y \in S : Rank(births, x) = Rank(births, y) => x = y
           /\ \A x, y \in S : Rank(births, x) < Rank(births, y) => Before(births, x, y)
<1>1. ASSUME NEW x \in S PROVE Rank(births, x) \in 0 .. Cardinality(S) - 1
  <2>1. Ahead(births, x) \subseteq S \ {x}
    BY BeforeIsAnOrder DEF Ahead
  <2>2. IsFiniteSet(S \ {x}) /\ Cardinality(S \ {x}) = Cardinality(S) - 1
    BY FS_RemoveElement
  <2>3. /\ Cardinality(Ahead(births, x)) \in Nat /\ Cardinality(S) \in Nat
        /\ Cardinality(Ahead(births, x)) <= Cardinality(S \ {x})
    BY <2>1, <2>2, FS_Subset, FS_CardinalityType
  <2>4. QED
    BY <2>2, <2>3 DEF Rank
<1>2. ASSUME NEW x \in S, NEW y \in S, Rank(births, x) = Rank(births, y), x # y
      PROVE  FALSE
  BY <1>1, <1>2, RankGrows, BeforeIsAnOrder, FS_CardinalityType
<1>3. ASSUME NEW x \in S, NEW y \in S, Rank(births, x) < Rank(births, y)
      PROVE  Before(births, x, y)
  <2>1. Rank(births, x) \in Int /\ Rank(births, y) \in Int
    BY <1>1, FS_CardinalityType
  <2>2. x # y
    BY <1>3, <2>1
  <2>3. ~Before(births, y, x)
    BY <1>3, <2>1, RankGrows
  <2>4. QED
    BY <2>2, <2>3, BeforeIsAnOrder
<1>4. \A x \in S : Rank(births, x) \in Nat
  BY <1>1, FS_CardinalityType
<1>5. QED
  BY <1>1, <1>2, <1>3, <1>4

\* Every place of the listing is taken.
LEMMA RanksAreTaken ==
    ASSUME NEW S \in SUBSET Nat, IsFiniteSet(S), NEW births \in [S -> Nat],
           NEW k \in 0 .. Cardinality(S) - 1
    PROVE  \E x \in S : Rank(births, x) = k
<1> DEFINE n == Cardinality(S)
           rank == [x \in S |-> Rank(births, x)]
<1>1. n \in Nat
  BY FS_CardinalityType
<1>2. rank \in Injection(S, 0 .. n - 1)
  BY RankOrders DEF Injection, IsInjective
<1>3. IsFiniteSet(0 .. n - 1) /\ Cardinality(0 .. n - 1) = n
  BY <1>1, FS_Interval
<1>4. rank \in Surjection(S, 0 .. n - 1)
  BY <1>2, <1>3, FS_Injection
<1>5. PICK x \in S : rank[x] = k
  BY <1>4 DEF Surjection
<1>6. QED
  BY <1>5

\* The listing: the note at place k has rank k - 1, and every note is there.
LEMMA ListedFacts ==
    ASSUME ServiceTypeOK, StoreInv
    PROVE  /\ IsFiniteSet(Stored) /\ Cardinality(Stored) = Len(store)
           /\ Stored \in SUBSET Nat /\ Births \in [Stored -> Nat]
           /\ Listed \in Seq(Note) /\ Len(Listed) = Len(store)
           /\ \A k \in 1 .. Len(store) :
                  /\ Listed[k].id \in Stored
                  /\ Listed[k].createdAt = Births[Listed[k].id]
                  /\ Rank(Births, Listed[k].id) = k - 1
<1> DEFINE n == Len(store)
           idAt == [i \in 1 .. n |-> store[i].id]
           earlier(i) == {j \in 1 .. n : Precedes(j, i)}
           order(k) == CHOOSE i \in 1 .. n : Cardinality(earlier(i)) = k - 1
<1>1. /\ DOMAIN store = 1 .. n /\ n \in Nat
      /\ \A i \in 1 .. n : store[i] \in Note /\ store[i].id \in Nat
                           /\ store[i].createdAt = Births[store[i].id]
      /\ Stored \in SUBSET Nat /\ Births \in [Stored -> Nat]
  BY StoreFacts, NotesFacts, BirthFacts DEF ServiceTypeOK, StoreInv, Births
<1>2. \A i, j \in 1 .. n : i < j <=> store[i].id < store[j].id
  <2>1. \A i, j \in 1 .. n : i < j => store[i].id < store[j].id
    BY <1>1 DEF StoreInv, Ascending
  <2>2. \A i, j \in 1 .. n : i < j \/ i = j \/ j < i
    BY <1>1
  <2>3. QED
    BY <1>1, <2>1, <2>2
<1>3. \A i \in 1 .. n : store[i].id \in Stored
  BY <1>1 DEF Stored
<1>4. IsFiniteSet(Stored) /\ Cardinality(Stored) = n
  <2>1. idAt \in Bijection(1 .. n, Stored)
    <3>1. \A i, j \in 1 .. n : store[i].id = store[j].id => i = j
      BY <1>1, <1>2
    <3>2. \A x \in Stored : \E i \in 1 .. n : idAt[i] = x
      BY <1>1 DEF Stored
    <3>3. QED
      BY <1>3, <3>1, <3>2 DEF Bijection, Injection, Surjection, IsInjective
  <2>2. IsFiniteSet(1 .. n) /\ Cardinality(1 .. n) = n
    BY <1>1, FS_Interval
  <2>3. QED
    BY <2>1, <2>2, FS_Bijection DEF ExistsBijection
<1>5. ASSUME NEW i \in 1 .. n
      PROVE  Cardinality(earlier(i)) = Rank(Births, store[i].id)
  <2> DEFINE x == store[i].id
             id == [j \in earlier(i) |-> store[j].id]
  <2>1. \A j \in 1 .. n : Precedes(j, i) <=> Before(Births, store[j].id, x)
    BY <1>1, <1>2 DEF Precedes, Before
  <2>2. id \in Bijection(earlier(i), Ahead(Births, x))
    <3>1. \A j \in earlier(i) : id[j] \in Ahead(Births, x)
      BY <1>1, <1>3, <2>1 DEF Ahead
    <3>2. \A j, k \in earlier(i) : id[j] = id[k] => j = k
      BY <1>1, <1>2
    <3>3. ASSUME NEW y \in Ahead(Births, x) PROVE \E j \in earlier(i) : id[j] = y
      <4>1. y \in Stored /\ Before(Births, y, x)
        BY <1>1 DEF Ahead
      <4>2. PICK j \in 1 .. n : store[j].id = y
        BY <1>1, <4>1 DEF Stored
      <4>3. j \in earlier(i)
        BY <2>1, <4>1, <4>2
      <4>4. QED
        BY <4>2, <4>3
    <3>4. QED
      BY <3>1, <3>2, <3>3 DEF Bijection, Injection, Surjection, IsInjective
  <2>3. IsFiniteSet(1 .. n) /\ earlier(i) \subseteq 1 .. n
    BY <1>1, FS_Interval
  <2>4. IsFiniteSet(earlier(i))
    BY <2>3, FS_Subset
  <2>5. QED
    BY <2>2, <2>4, FS_Bijection DEF ExistsBijection, Rank
<1> HIDE DEF earlier
<1>6. ASSUME NEW k \in 1 .. n
      PROVE  order(k) \in 1 .. n /\ Rank(Births, store[order(k)].id) = k - 1
  <2>1. k - 1 \in 0 .. Cardinality(Stored) - 1
    BY <1>1, <1>4
  <2>2. PICK x \in Stored : Rank(Births, x) = k - 1
    BY <1>1, <1>4, <2>1, RanksAreTaken
  <2>3. PICK i \in 1 .. n : store[i].id = x
    BY <1>1 DEF Stored
  <2>4. Cardinality(earlier(i)) = k - 1
    BY <1>5, <2>2, <2>3
  <2>5. order(k) \in 1 .. n /\ Cardinality(earlier(order(k))) = k - 1
    BY <2>4
  <2>6. QED
    BY <1>5, <2>5
<1>7. Listed = [k \in 1 .. n |-> store[order(k)]]
  BY <1>1 DEF Listed, earlier
<1> HIDE DEF order
<1>8. Listed \in [1 .. n -> Note]
  BY <1>1, <1>6, <1>7
<1>9. Listed \in Seq(Note) /\ Len(Listed) = n
  BY <1>1, <1>8
<1>10. ASSUME NEW k \in 1 .. n
       PROVE  /\ Listed[k].id \in Stored
              /\ Listed[k].createdAt = Births[Listed[k].id]
              /\ Rank(Births, Listed[k].id) = k - 1
  BY <1>1, <1>3, <1>6, <1>7
<1>11. QED
  BY <1>1, <1>4, <1>9, <1>10

LEMMA MinMax ==
    ASSUME NEW a \in Int, NEW b \in Int
    PROVE  /\ Min({a, b}) = IF a <= b THEN a ELSE b
           /\ Max({a, b}) = IF a >= b THEN a ELSE b
<1>1. \A x \in {a, b} : (\A y \in {a, b} : x <= y) => x = IF a <= b THEN a ELSE b
  OBVIOUS
<1>2. \A x \in {a, b} : (\A y \in {a, b} : x >= y) => x = IF a >= b THEN a ELSE b
  OBVIOUS
<1>3. \E x \in {a, b} : \A y \in {a, b} : x <= y
  OBVIOUS
<1>4. \E x \in {a, b} : \A y \in {a, b} : x >= y
  OBVIOUS
<1>5. Min({a, b}) = IF a <= b THEN a ELSE b
  BY <1>1, <1>3 DEF Min
<1>6. Max({a, b}) = IF a >= b THEN a ELSE b
  BY <1>2, <1>4 DEF Max
<1>7. QED
  BY <1>5, <1>6

\* Pages enough for all notes, as ceil(total / pageSize) says.
LEMMA PagesSuffice ==
    ASSUME NEW n \in Nat, NEW size \in Nat \ {0},
           NEW p \in Nat, p >= (n + size - 1) \div size
    PROVE  p * size >= n
<1> DEFINE q == (n + size - 1) \div size
<1>1. q \in Nat /\ n + size - 1 < (q + 1) * size
  OBVIOUS
<1> HIDE DEF q
<1>2. PICK d \in Nat : p = q + d
  BY <1>1 DEF q
<1>3. p * size = q * size + d * size /\ d * size \in Nat /\ q * size \in Nat
  BY <1>1, <1>2
<1>4. (q + 1) * size = q * size + size
  BY <1>1
<1>5. QED
  BY <1>1, <1>3, <1>4

\* A page holds the notes whose ranks lie in it, in the order of their ranks;
\* what comes after the last page has no note.
LEMMA PageFacts ==
    ASSUME ServiceTypeOK, StoreInv, NEW p \in Nat \ {0}
    PROVE  LET m == (p - 1) * PageSize
               items == Page(p)
           IN  /\ m \in Nat /\ p * PageSize = m + PageSize
               /\ items \in Seq(Note)
               /\ \A i \in DOMAIN items :
                      /\ items[i].id \in Stored
                      /\ items[i].createdAt = Births[items[i].id]
                      /\ Rank(Births, items[i].id) = m + i - 1
                      /\ i \in 1 .. PageSize
               /\ \A x \in Stored :
                      Rank(Births, x) \in m .. m + PageSize - 1 => x \in IdsIn(items)
               /\ TotalPages \in Nat \ {0}
               /\ p >= TotalPages => \A x \in Stored : Rank(Births, x) < m + PageSize
<1> DEFINE m == (p - 1) * PageSize
           n == Len(store)
           end == IF m + PageSize <= n THEN m + PageSize ELSE n
           items == Page(p)
<1>1. PageSize \in Nat \ {0}
  BY NotesAssumption
<1>2. m \in Nat /\ p * PageSize = m + PageSize
  BY <1>1
<1>3. n \in Nat
  BY StoreFacts
<1> HIDE DEF m
<1>4. items = SubSeq(Listed, m + 1, end)
  <2>1. items = SubSeq(Listed, m + 1, Min({m + PageSize, n}))
    BY DEF Page, m
  <2>2. Min({m + PageSize, n}) = end
    BY <1>1, <1>2, <1>3, MinMax
  <2>3. QED
    BY <2>1, <2>2
<1>5. end \in Nat /\ end <= n
  BY <1>1, <1>2, <1>3
<1>6. \A i \in m + 1 .. end : Listed[i] \in Note
  <2>1. m + 1 .. end \subseteq 1 .. Len(Listed)
    BY <1>2, <1>3, <1>5, ListedFacts
  <2>2. QED
    BY <2>1, ListedFacts, ElementOfSeq
<1> DEFINE l == IF m + 1 <= end THEN end - m ELSE 0
<1>7. \A k \in 1 .. n : /\ Listed[k].id \in Stored
                       /\ Listed[k].createdAt = Births[Listed[k].id]
                       /\ Rank(Births, Listed[k].id) = k - 1
  BY ListedFacts
<1>8. /\ items \in Seq(Note) /\ Len(items) = l
      /\ \A i \in 1 .. end - m : items[i] = Listed[m + i]
  <2>1. /\ SubSeq(Listed, m + 1, end) \in Seq(Note)
        /\ Len(SubSeq(Listed, m + 1, end)) = IF m + 1 <= end THEN end - (m + 1) + 1 ELSE 0
        /\ \A i \in 1 .. end - (m + 1) + 1 :
               SubSeq(Listed, m + 1, end)[i] = Listed[m + 1 + i - 1]
    BY <1>2, <1>5, <1>6, SubSeqProperties
  <2>2. QED
    BY <1>2, <1>4, <1>5, <2>1
<1> HIDE DEF items
<1>9. DOMAIN items = 1 .. l
  BY <1>8, LenProperties
<1>10. ASSUME NEW i \in DOMAIN items
      PROVE  /\ items[i].id \in Stored
             /\ items[i].createdAt = Births[items[i].id]
             /\ Rank(Births, items[i].id) = m + i - 1
             /\ i \in 1 .. PageSize
  <2>1. i \in 1 .. end - m /\ m + i \in 1 .. n /\ i \in 1 .. PageSize
    BY <1>1, <1>2, <1>3, <1>5, <1>9
  <2>2. items[i] = Listed[m + i]
    BY <1>8, <2>1
  <2>3. /\ Listed[m + i].id \in Stored
        /\ Listed[m + i].createdAt = Births[Listed[m + i].id]
        /\ Rank(Births, Listed[m + i].id) = m + i - 1
    BY <1>2, <1>7, <2>1
  <2>4. QED
    BY <2>1, <2>2, <2>3
<1>11. ASSUME NEW x \in Stored, Rank(Births, x) \in m .. m + PageSize - 1
       PROVE  x \in IdsIn(items)
  <2> DEFINE i == Rank(Births, x) - m + 1
  <2>1. Rank(Births, x) \in 0 .. n - 1
    BY ListedFacts, RankOrders
  <2>2. i \in 1 .. end - m /\ m + i \in 1 .. n /\ i \in 1 .. l
    BY <1>1, <1>2, <1>3, <1>11, <2>1
  <2>3. items[i] = Listed[m + i]
    BY <1>8, <2>2
  <2>4. Rank(Births, items[i].id) = Rank(Births, x) /\ items[i].id \in Stored
    <3>1. Rank(Births, Listed[m + i].id) = m + i - 1 /\ Listed[m + i].id \in Stored
      BY <1>2, <1>7, <2>1, <2>2
    <3>2. QED
      BY <1>2, <2>1, <2>3, <3>1
  <2>5. items[i].id = x
    <3>1. \A y, z \in Stored : Rank(Births, y) = Rank(Births, z) => y = z
      BY ListedFacts, RankOrders
    <3>2. QED
      BY <2>4, <3>1
  <2>6. QED
    BY <1>9, <2>2, <2>5 DEF IdsIn
<1>12. TotalPages \in Nat \ {0} /\ TotalPages >= (n + PageSize - 1) \div PageSize
       /\ (n + PageSize - 1) \div PageSize \in Nat
  <2> DEFINE q == (n + PageSize - 1) \div PageSize
  <2>1. q \in Nat
    BY <1>1, <1>3
  <2> HIDE DEF q
  <2>2. Max({1, q}) = IF 1 >= q THEN 1 ELSE q
    BY <2>1, MinMax
  <2>3. TotalPages = Max({1, q})
    BY DEF TotalPages, q
  <2>4. TotalPages \in Nat \ {0} /\ TotalPages >= q
    BY <2>1, <2>2, <2>3
  <2>5. QED
    BY <2>1, <2>4 DEF q
<1>13. ASSUME p >= TotalPages, NEW x \in Stored PROVE Rank(Births, x) < m + PageSize
  <2>1. p * PageSize >= n
    BY <1>1, <1>3, <1>12, <1>13, PagesSuffice
  <2>2. Rank(Births, x) \in 0 .. n - 1
    BY ListedFacts, RankOrders
  <2>3. QED
    BY <1>1, <1>2, <1>3, <2>1, <2>2
<1>14. QED
  BY <1>2, <1>8, <1>10, <1>11, <1>12, <1>13 DEF m, items

-----------------------------------------------------------------------------
(***************************************************************************)
(* Types, and the order of the store.                                      *)
(***************************************************************************)
Answers == {"none"} \cup Bodies

WriterTypeOK ==
    /\ phase \in [Writers -> {"idle", "sent", "answered"}]
    /\ request \in [Writers -> Requests]
    /\ answer \in [Writers -> Answers]
    /\ intercepted \in [Writers -> BOOLEAN]
    /\ outcome \in [Writers -> Outcomes]
    /\ applied \in [Writers -> BOOLEAN]
    /\ calls \in [Writers -> 0 .. MaxCalls]

ReaderType(stored) ==
    [phase : {"idle", "sent", "answered", "between", "done"},
     page : Nat \ {0}, items : Seq(Item), pages : Nat \ {0},
     seen : Seq(Item), survivors : SUBSET stored, inserts : Nat, removals : Nat]

LEMMA TypeParts == TypeOK <=> ServiceTypeOK /\ WriterTypeOK /\ reader \in ReaderType(Stored)
  BY DEF TypeOK, WriterTypeOK, ReaderType, Answers

\* What the steps do to the store.
LEMMA StoreStep ==
    ASSUME TypeOK, StoreInv, [Next]_vars
    PROVE  ServiceTypeOK' /\ StoreInv'
<1>1. ASSUME UNCHANGED <<store, created>>, now' \in 0 .. MaxClock
      PROVE  ServiceTypeOK' /\ StoreInv'
  BY <1>1 DEF TypeOK, ServiceTypeOK, StoreInv, Stored, Known
<1>2. ServiceTypeOK /\ WriterTypeOK
  BY TypeParts
<1>3. now \in 0 .. MaxClock
  BY <1>2 DEF ServiceTypeOK
<1>4. ASSUME NEW w \in Writers, HandleCreate(w) PROVE ServiceTypeOK' /\ StoreInv'
  BY <1>2, <1>4, CreateFacts DEF HandleCreate
<1>5. ASSUME NEW w \in Writers, HandleUpdate(w) PROVE ServiceTypeOK' /\ StoreInv'
  <2>1. request[w].fields \in SUBSET Fields
    BY <1>2 DEF WriterTypeOK, Requests
  <2>2. QED
    BY <1>2, <1>5, <2>1, UpdateFacts DEF HandleUpdate
<1>6. ASSUME NEW w \in Writers, HandleDelete(w) PROVE ServiceTypeOK' /\ StoreInv'
  BY <1>2, <1>6, DeleteFacts DEF HandleDelete
<1>7. ASSUME NEW w \in Writers,
             \/ CallCreate(w) \/ CallUpdate(w) \/ CallDelete(w)
             \/ NotFound(w) \/ Refuse(w) \/ Intercept(w) \/ Settle(w) \/ Disconnect(w)
      PROVE  UNCHANGED <<store, created, now, reader>>
  BY <1>7 DEF CallCreate, CallUpdate, CallDelete, Call, NotFound, Refuse, Intercept, Settle,
              Disconnect, Settled, serviceVars
<1>8. CASE ReadPage \/ HandleList \/ TakePage \/ LosePage
  BY <1>1, <1>8, <1>3 DEF ReadPage, HandleList, TakePage, LosePage, ReaderSteps, serviceVars
<1>9. ASSUME Clock PROVE UNCHANGED <<store, created, reader>> /\ now' \in 0 .. MaxClock
  BY <1>9 DEF Clock, Tick
<1>10. CASE UNCHANGED vars
  BY <1>1, <1>3, <1>10 DEF vars, serviceVars
<1>11. QED
  BY <1>1, <1>4, <1>5, <1>6, <1>7, <1>8, <1>9, <1>3, <1>10 DEF Next

LEMMA WriterTypeStep == TypeOK /\ [Next]_vars => WriterTypeOK'
<1> SUFFICES ASSUME TypeOK, [Next]_vars PROVE WriterTypeOK'
  OBVIOUS
<1> USE DEF WriterTypeOK
<1>1. WriterTypeOK /\ ServiceTypeOK
  BY TypeParts
<1>2. ASSUME NEW w \in Writers, NEW r \in Requests, Call(w, r) PROVE WriterTypeOK'
  <2>1. calls[w] + 1 \in 0 .. MaxCalls
    BY <1>1, <1>2, ClientsAssumption DEF Call
  <2>2. calls' \in [Writers -> 0 .. MaxCalls]
    BY <1>1, <1>2, <2>1 DEF Call
  <2>3. QED
    BY <1>1, <1>2, <2>2 DEF Call, Outcomes
<1>3. Known \subseteq Ids
  BY <1>1, NotesAssumption DEF ServiceTypeOK, Known, Ids
<1>4. ASSUME NEW w \in Writers, CallCreate(w) \/ CallUpdate(w) \/ CallDelete(w)
      PROVE  WriterTypeOK'
  <2>1. NoRequest \in Requests
    BY DEF NoRequest, Requests, Ops
  <2>2. \A id \in Known, fields \in Edits :
            [op |-> "update", id |-> id, fields |-> fields] \in Requests
    BY <1>3, ClientsAssumption DEF Requests, Ops
  <2>3. \A id \in Known : [op |-> "delete", id |-> id, fields |-> {}] \in Requests
    BY <1>3 DEF Requests, Ops
  <2>4. QED
    BY <1>2, <1>4, <2>1, <2>2, <2>3 DEF CallCreate, CallUpdate, CallDelete
<1>5. ASSUME NEW w \in Writers, NEW body \in Answers, Answered(w, body),
             Applied(w) \/ UNCHANGED applied
      PROVE  WriterTypeOK'
  BY <1>1, <1>5 DEF Answered, Applied
<1>6. {"data", "empty", "NOT_FOUND", "refused"} \subseteq Answers
  BY DEF Answers, Bodies, Codes, Failures
<1>7. ASSUME NEW w \in Writers,
             \/ HandleCreate(w) \/ HandleUpdate(w) \/ HandleDelete(w)
             \/ NotFound(w) \/ Refuse(w)
      PROVE  WriterTypeOK'
  BY <1>5, <1>6, <1>7 DEF HandleCreate, HandleUpdate, HandleDelete, NotFound, Refuse
<1>8. ASSUME NEW w \in Writers, Intercept(w) PROVE WriterTypeOK'
  BY <1>1, <1>8, ClientsAssumption DEF Intercept, Answers
<1>9. ASSUME NEW w \in Writers, Settle(w) \/ Disconnect(w) PROVE WriterTypeOK'
  <2>1. \A body \in Answers : settle(body) \in Outcomes
    BY DEF settle, Outcomes, Codes, Failures
  <2>2. PICK result \in Outcomes : Settled(w, result)
    BY <1>1, <1>9, <2>1 DEF Settle, Disconnect, Outcomes
  <2>3. "none" \in Answers
    BY DEF Answers
  <2>4. QED
    BY <1>1, <2>2, <2>3 DEF Settled
<1>10. ASSUME ReadPage \/ HandleList \/ TakePage \/ LosePage \/ Clock \/ UNCHANGED vars
       PROVE  WriterTypeOK'
  BY <1>1, <1>10
  DEF ReadPage, HandleList, TakePage, LosePage, ReaderSteps, Clock, vars, writerVars
<1>11. QED
  BY <1>4, <1>7, <1>8, <1>9, <1>10 DEF Next

LEMMA ReaderTypeStep ==
    ASSUME TypeOK, StoreInv, [Next]_vars
    PROVE  reader' \in ReaderType(Stored')
<1> USE DEF ReaderType
<1>1. reader \in ReaderType(Stored) /\ ServiceTypeOK
  BY TypeParts
<1>2. ASSUME NEW w \in Writers, HandleCreate(w) PROVE reader' \in ReaderType(Stored')
  <2>1. Stored \subseteq Stored'
    BY <1>1, <1>2, CreateFacts DEF HandleCreate
  <2>2. reader.survivors \in SUBSET Stored'
    BY <1>1, <2>1
  <2>3. (IF Traversing THEN reader.inserts + 1 ELSE reader.inserts) \in Nat
    BY <1>1
  <2>4. reader' = [reader EXCEPT !.inserts = IF Traversing THEN reader.inserts + 1
                                             ELSE reader.inserts]
    BY <1>2 DEF HandleCreate, Inserted
  <2>5. QED
    BY <1>1, <2>2, <2>3, <2>4
<1>3. ASSUME NEW w \in Writers, HandleUpdate(w) PROVE reader' \in ReaderType(Stored')
  <2>1. request[w].fields \in SUBSET Fields
    BY TypeParts DEF WriterTypeOK, Requests
  <2>2. Stored' = Stored
    BY <1>1, <1>3, <2>1, UpdateFacts DEF HandleUpdate
  <2>3. QED
    BY <1>1, <1>3, <2>2 DEF HandleUpdate
<1>4. ASSUME NEW w \in Writers, HandleDelete(w) PROVE reader' \in ReaderType(Stored')
  <2>1. Stored' = Stored \ {request[w].id}
    BY <1>1, <1>4, DeleteFacts DEF HandleDelete
  <2>2. reader.survivors \ {request[w].id} \in SUBSET Stored'
    BY <1>1, <2>1
  <2>3. (IF Traversing THEN reader.removals + 1 ELSE reader.removals) \in Nat
    BY <1>1
  <2>4. QED
    BY <1>1, <1>4, <2>2, <2>3 DEF HandleDelete, Removed
<1>5. ASSUME UNCHANGED store PROVE Stored' = Stored
  BY <1>5 DEF Stored
<1>6. ASSUME ReadPage \/ LosePage PROVE reader' \in ReaderType(Stored')
  <2>1. <<>> \in Seq(Item) /\ Stored' = Stored
    BY <1>5, <1>6 DEF ReadPage, LosePage, ReaderSteps, serviceVars
  <2>2. QED
    BY <1>1, <1>6, <2>1 DEF ReadPage, LosePage, ReaderSteps
<1>7. CASE HandleList
  <2> DEFINE items == Page(reader.page)
             shown == [i \in DOMAIN items |->
                          [id |-> items[i].id, createdAt |-> items[i].createdAt]]
  <2>1. items \in Seq(Note) /\ TotalPages \in Nat \ {0}
    BY <1>1, PageFacts
  <2> HIDE DEF items
  <2>2. shown \in Seq(Item)
    <3>1. \A i \in DOMAIN items : items[i] \in Note
      BY <2>1, NotesFacts
    <3>2. \A i \in DOMAIN items : shown[i] \in Item
      BY <3>1 DEF Note, Item
    <3>3. DOMAIN items = 1 .. Len(items) /\ Len(items) \in Nat
      BY <2>1, NotesFacts
    <3>4. QED
      BY <3>2, <3>3
  <2>3. Stored' = Stored
    BY <1>5, <1>7 DEF HandleList, ReaderSteps, serviceVars
  <2> HIDE DEF shown
  <2>4. Stored \in SUBSET Stored'
    BY <2>3
  <2>5. reader \in ReaderType(Stored')
    BY <1>1, <2>3
  <2> DEFINE answered == [reader EXCEPT !.phase = "answered", !.items = shown,
                                        !.pages = TotalPages]
  <2>6. \/ reader' = answered
        \/ reader' = [answered EXCEPT !.survivors = Stored, !.inserts = 0, !.removals = 0]
    BY <1>7 DEF HandleList, ReaderSteps, items, shown
  <2> HIDE DEF answered
  <2>7. answered \in ReaderType(Stored')
    BY <2>1, <2>2, <2>5 DEF answered
  <2>8. [answered EXCEPT !.survivors = Stored, !.inserts = 0, !.removals = 0] \in ReaderType(Stored')
    BY <2>4, <2>7
  <2>9. QED
    BY <2>6, <2>7, <2>8
<1>8. CASE TakePage
  <2>1. reader.seen \o reader.items \in Seq(Item) /\ <<>> \in Seq(Item)
    BY <1>1, ConcatProperties
  <2>2. Stored' = Stored
    BY <1>5, <1>8 DEF TakePage, ReaderSteps, serviceVars
  <2>3. /\ (IF reader.page >= reader.pages THEN "done" ELSE "between") \in {"done", "between"}
        /\ (IF reader.page >= reader.pages THEN reader.page ELSE reader.page + 1) \in Nat \ {0}
    BY <1>1
  <2>4. reader \in ReaderType(Stored')
    BY <1>1, <2>2
  <2>5. QED
    BY <1>8, <2>1, <2>3, <2>4 DEF TakePage, ReaderSteps
<1>9. CASE UNCHANGED <<store, reader>>
  BY <1>1, <1>5, <1>9
<1>10. ASSUME NEW w \in Writers,
             \/ CallCreate(w) \/ CallUpdate(w) \/ CallDelete(w)
             \/ NotFound(w) \/ Refuse(w) \/ Intercept(w) \/ Settle(w) \/ Disconnect(w)
      PROVE  UNCHANGED <<store, reader>>
  BY <1>10 DEF CallCreate, CallUpdate, CallDelete, Call, NotFound, Refuse, Intercept, Settle,
              Disconnect, Settled, serviceVars
<1>11. CASE Clock \/ UNCHANGED vars
  BY <1>9, <1>11 DEF Clock, Tick, vars, serviceVars
<1>12. QED
  BY <1>2, <1>3, <1>4, <1>6, <1>7, <1>8, <1>9, <1>10, <1>11 DEF Next

LEMMA TypeInit == Init => TypeOK /\ StoreInv
<1> SUFFICES ASSUME Init PROVE TypeOK /\ StoreInv
  OBVIOUS
<1>1. ServiceTypeOK /\ StoreInv
  BY NotesAssumption DEF Init, InitService, ServiceTypeOK, StoreInv, Ascending, Stored
<1>2. WriterTypeOK
  BY ClientsAssumption
  DEF Init, WriterTypeOK, NoRequest, Requests, Ops, Answers, Outcomes
<1>3. reader \in ReaderType(Stored)
  BY DEF Init, ReaderType
<1>4. QED
  BY <1>1, <1>2, <1>3, TypeParts

LEMMA TypeStep ==
    TypeOK /\ StoreInv /\ [Next]_vars => TypeOK' /\ StoreInv'
<1> SUFFICES ASSUME TypeOK, StoreInv, [Next]_vars PROVE TypeOK' /\ StoreInv'
  OBVIOUS
<1>1. ServiceTypeOK' /\ StoreInv' /\ WriterTypeOK' /\ reader' \in ReaderType(Stored')
  BY StoreStep, WriterTypeStep, ReaderTypeStep
<1>2. QED
  BY <1>1 DEF TypeOK, WriterTypeOK, ReaderType, Answers

\* The store, the calls and the books of the reader keep their types.
THEOREM TypeCorrect == Spec => []TypeOK
  BY TypeInit, TypeStep, PTL DEF Spec

-----------------------------------------------------------------------------
(***************************************************************************)
(* The calls. An answer tells what its call did, and what it tells stays   *)
(* true while it is on its way and after it has been settled.              *)
(***************************************************************************)

\* A call that is not settled has no outcome yet, and one that is not handled
\* no answer and no effect.
InOrderOfEvents(w) ==
    /\ phase[w] = "idle" => answer[w] = "none"
    /\ phase[w] # "idle" => outcome[w] = "none"
    /\ phase[w] = "sent" => answer[w] = "none" /\ ~applied[w]
    /\ request[w].op # "create" => request[w].id \in Known

AnswerIsHonest(w) ==
    ~intercepted[w] =>
        /\ answer[w] = "data" \/ outcome[w] = "resolved" => applied[w]
        /\ answer[w] \in Codes \/ outcome[w] \in Codes => ~applied[w]

AnswerStaysTrue(w) ==
    ~intercepted[w] =>
        /\ answer[w] = "NOT_FOUND" \/ outcome[w] = "NOT_FOUND" =>
               request[w].op # "create" /\ request[w].id \notin Stored
        /\ (answer[w] = "data" \/ outcome[w] = "resolved") /\ request[w].op = "update" =>
               \A i \in DOMAIN store :
                   store[i].id = request[w].id => request[w].fields \subseteq store[i].edited

CallInv ==
    \A w \in Writers : InOrderOfEvents(w) /\ AnswerIsHonest(w) /\ AnswerStaysTrue(w)

\* A call is undisturbed when its own variables stay as they are, its note does
\* not come back and no field of it is taken back.
LEMMA OthersDoNotDisturb ==
    ASSUME NEW w \in Writers, WriterTypeOK, WriterTypeOK', InOrderOfEvents(w), AnswerIsHonest(w),
           AnswerStaysTrue(w),
           /\ phase'[w] = phase[w] /\ request'[w] = request[w] /\ answer'[w] = answer[w]
           /\ outcome'[w] = outcome[w] /\ applied'[w] = applied[w]
           /\ intercepted'[w] = intercepted[w],
           Known \subseteq Known',
           Stored' \cap Known \subseteq Stored,
           \A i \in DOMAIN store' :
               store'[i].id \in Known =>
                   \E j \in DOMAIN store :
                       store[j].id = store'[i].id /\ store[j].edited \subseteq store'[i].edited
    PROVE  InOrderOfEvents(w)' /\ AnswerIsHonest(w)' /\ AnswerStaysTrue(w)'
<1>1. InOrderOfEvents(w)' /\ AnswerIsHonest(w)'
  BY DEF InOrderOfEvents, AnswerIsHonest
<1>2. request[w].op = "update" => request[w].id \in Known
  BY DEF InOrderOfEvents
<1>3. ASSUME answer[w] = "data" \/ outcome[w] = "resolved", request[w].op = "update",
             ~intercepted[w],
             NEW i \in DOMAIN store', store'[i].id = request[w].id
      PROVE  request[w].fields \subseteq store'[i].edited
  <2>1. PICK j \in DOMAIN store :
            store[j].id = store'[i].id /\ store[j].edited \subseteq store'[i].edited
    BY <1>2, <1>3
  <2>2. request[w].fields \subseteq store[j].edited
    BY <1>3, <2>1 DEF AnswerStaysTrue
  <2>3. QED
    BY <2>1, <2>2
<1>4. AnswerStaysTrue(w)'
  BY <1>3 DEF AnswerStaysTrue, InOrderOfEvents
<1>5. QED
  BY <1>1, <1>4

\* What a step does to the store takes nothing back.
LEMMA StoreKeepsPromises ==
    ASSUME TypeOK, StoreInv, [Next]_vars
    PROVE  /\ Known \subseteq Known'
           /\ Stored' \cap Known \subseteq Stored
           /\ \A i \in DOMAIN store' :
                  store'[i].id \in Known =>
                      \E j \in DOMAIN store :
                          store[j].id = store'[i].id /\ store[j].edited \subseteq store'[i].edited
<1>1. ServiceTypeOK /\ WriterTypeOK /\ created \in Nat
  BY TypeParts DEF ServiceTypeOK
<1>2. ASSUME NEW w \in Writers, HandleCreate(w)
      PROVE  /\ Known \subseteq Known'
             /\ Stored' \cap Known \subseteq Stored
             /\ \A i \in DOMAIN store' :
                    store'[i].id \in Known => i \in DOMAIN store /\ store'[i] = store[i]
  <2>1. Create
    BY <1>2 DEF HandleCreate
  <2>2. created' = created + 1 /\ Stored' = Stored \cup {created'}
    BY <1>1, <2>1, CreateFacts
  <2>3. Known \subseteq Known' /\ created' \notin Known
    BY <1>1, <2>2 DEF Known
  <2>4. QED
    BY <1>1, <2>1, <2>2, <2>3, CreateFacts
<1>3. ASSUME NEW w \in Writers, HandleUpdate(w)
      PROVE  /\ Known' = Known /\ Stored' = Stored /\ DOMAIN store' = DOMAIN store
             /\ \A i \in DOMAIN store : /\ store'[i].id = store[i].id
                                        /\ store[i].edited \subseteq store'[i].edited
  <2>1. request[w].fields \in SUBSET Fields /\ Update(request[w].id, request[w].fields)
    BY <1>1, <1>3 DEF WriterTypeOK, Requests, HandleUpdate
  <2>2. QED
    BY <1>1, <2>1, UpdateFacts DEF Known
<1>4. ASSUME NEW w \in Writers, HandleDelete(w)
      PROVE  /\ Known' = Known /\ Stored' \subseteq Stored
             /\ \A i \in DOMAIN store' : \E j \in DOMAIN store : store'[i] = store[j]
  <2>1. Delete(request[w].id)
    BY <1>4 DEF HandleDelete
  <2>2. QED
    BY <1>1, <2>1, DeleteFacts DEF Known
<1>5. ASSUME NEW w \in Writers,
             \/ CallCreate(w) \/ CallUpdate(w) \/ CallDelete(w)
             \/ NotFound(w) \/ Refuse(w) \/ Intercept(w) \/ Settle(w) \/ Disconnect(w)
      PROVE  UNCHANGED <<store, created>>
  BY <1>5 DEF CallCreate, CallUpdate, CallDelete, Call, NotFound, Refuse, Intercept, Settle,
              Disconnect, Settled, serviceVars
<1>6. ASSUME ReadPage \/ HandleList \/ TakePage \/ LosePage \/ Clock \/ UNCHANGED vars
      PROVE  UNCHANGED <<store, created>>
  BY <1>6 DEF ReadPage, HandleList, TakePage, LosePage, ReaderSteps, Clock, Tick, vars,
              serviceVars
<1>7. CASE UNCHANGED <<store, created>>
  BY <1>7 DEF Known, Stored
<1>8. QED
  BY <1>2, <1>3, <1>4, <1>5, <1>6, <1>7 DEF Next

LEMMA CallStep ==
    ASSUME TypeOK, StoreInv, CallInv, [Next]_vars
    PROVE  CallInv'
<1> DEFINE Holds(w) == InOrderOfEvents(w) /\ AnswerIsHonest(w) /\ AnswerStaysTrue(w)
<1>1. /\ ServiceTypeOK /\ WriterTypeOK /\ WriterTypeOK' /\ \A w \in Writers : Holds(w)
  BY TypeParts, WriterTypeStep DEF CallInv
<1>2. ASSUME NEW w \in Writers,
             /\ phase'[w] = phase[w] /\ request'[w] = request[w] /\ answer'[w] = answer[w]
             /\ outcome'[w] = outcome[w] /\ applied'[w] = applied[w]
             /\ intercepted'[w] = intercepted[w]
      PROVE  Holds(w)'
  BY <1>1, <1>2, StoreKeepsPromises, OthersDoNotDisturb
<1>3. ASSUME NEW w \in Writers,
             \A v \in Writers \ {w} :
                 /\ phase'[v] = phase[v] /\ request'[v] = request[v] /\ answer'[v] = answer[v]
                 /\ outcome'[v] = outcome[v] /\ applied'[v] = applied[v]
                 /\ intercepted'[v] = intercepted[v],
             Holds(w)'
      PROVE  CallInv'
  BY <1>2, <1>3 DEF CallInv
<1> USE DEF WriterTypeOK
<1> HIDE DEF Holds
<1>4. ASSUME NEW w \in Writers, CallCreate(w) \/ CallUpdate(w) \/ CallDelete(w)
      PROVE  CallInv'
  <2>1. PICK r \in Requests : Call(w, r) /\ (r.op # "create" => r.id \in Known)
    <3>1. NoRequest \in Requests /\ NoRequest.op = "create"
      BY DEF NoRequest, Requests, Ops
    <3>2. Known \subseteq Ids
      BY <1>1, NotesAssumption DEF ServiceTypeOK, Known, Ids
    <3>3. \A id \in Known, fields \in Edits :
              [op |-> "update", id |-> id, fields |-> fields] \in Requests
      BY <3>2, ClientsAssumption DEF Requests, Ops
    <3>4. \A id \in Known : [op |-> "delete", id |-> id, fields |-> {}] \in Requests
      BY <3>2 DEF Requests, Ops
    <3>5. QED
      BY <1>4, <3>1, <3>3, <3>4 DEF CallCreate, CallUpdate, CallDelete
  <2>2. /\ phase'[w] = "sent" /\ request'[w] = r /\ outcome'[w] = "none" /\ ~applied'[w]
        /\ answer'[w] = "none" /\ created' = created
    BY <1>1, <2>1 DEF Call, InOrderOfEvents, Holds, serviceVars
  <2>3. Holds(w)'
    BY <2>1, <2>2 DEF Holds, InOrderOfEvents, AnswerIsHonest, AnswerStaysTrue, Codes, Failures, Known
  <2>4. QED
    BY <1>1, <1>3, <2>1, <2>3 DEF Call
<1>5. ASSUME NEW w \in Writers, NEW body \in Answers, Answered(w, body)
      PROVE  /\ phase[w] = "sent" /\ phase'[w] = "answered" /\ answer'[w] = body
             /\ request'[w] = request[w] /\ outcome[w] = "none" /\ outcome'[w] = "none"
             /\ ~applied[w] /\ (request[w].op # "create" => request[w].id \in Known)
             /\ \A v \in Writers \ {w} :
                    /\ phase'[v] = phase[v] /\ request'[v] = request[v]
                    /\ answer'[v] = answer[v] /\ outcome'[v] = outcome[v]
                    /\ intercepted'[v] = intercepted[v]
  BY <1>1, <1>5 DEF Answered, InOrderOfEvents, Holds
<1>6. ASSUME NEW w \in Writers, Applied(w)
      PROVE  applied'[w] /\ \A v \in Writers \ {w} : applied'[v] = applied[v]
  BY <1>1, <1>6 DEF Applied
<1>7. Known \subseteq Known'
  BY StoreKeepsPromises
<1>8. {"data", "empty", "NOT_FOUND", "refused"} \subseteq Answers
  BY DEF Answers, Bodies, Codes, Failures
<1>9. ASSUME NEW w \in Writers, HandleCreate(w) PROVE CallInv'
  <2>1. request[w].op = "create" /\ Answered(w, "data") /\ Applied(w)
    BY <1>9 DEF HandleCreate
  <2>2. Holds(w)'
    BY <1>5, <1>6, <1>8, <2>1
    DEF Holds, InOrderOfEvents, AnswerIsHonest, AnswerStaysTrue, Codes, Failures
  <2>3. QED
    BY <1>3, <1>5, <1>6, <1>8, <2>1, <2>2
<1>10. ASSUME NEW w \in Writers, HandleUpdate(w) PROVE CallInv'
  <2>1. /\ request[w].op = "update" /\ Answered(w, "data") /\ Applied(w)
        /\ Update(request[w].id, request[w].fields) /\ request[w].fields \in SUBSET Fields
    BY <1>1, <1>10 DEF HandleUpdate, Requests
  <2>2. \A i \in DOMAIN store' :
            store'[i].id = request[w].id => request[w].fields \subseteq store'[i].edited
    <3> DEFINE id == request[w].id
               fields == request[w].fields
    <3>1. Update(id, fields) /\ fields \in SUBSET Fields
      BY <2>1
    <3> HIDE DEF id, fields
    <3>2. DOMAIN store' = DOMAIN store
          /\ \A i \in DOMAIN store :
                 /\ store'[i].id = store[i].id
                 /\ store'[i].edited = IF store[i].id = id THEN store[i].edited \cup fields
                                       ELSE store[i].edited
      BY <1>1, <3>1, UpdateFacts
    <3>3. \A i \in DOMAIN store' : store'[i].id = id => fields \subseteq store'[i].edited
      BY <3>2
    <3>4. QED
      BY <3>3 DEF id, fields
  <2>3. Holds(w)'
    BY <1>5, <1>6, <1>7, <1>8, <2>1, <2>2
    DEF Holds, InOrderOfEvents, AnswerIsHonest, AnswerStaysTrue, Codes, Failures
  <2>4. QED
    BY <1>3, <1>5, <1>6, <1>8, <2>1, <2>3
<1>11. ASSUME NEW w \in Writers, HandleDelete(w) PROVE CallInv'
  <2>1. request[w].op = "delete" /\ Answered(w, "empty") /\ Applied(w)
    BY <1>11 DEF HandleDelete
  <2>2. Holds(w)'
    BY <1>5, <1>6, <1>7, <1>8, <2>1
    DEF Holds, InOrderOfEvents, AnswerIsHonest, AnswerStaysTrue, Codes, Failures
  <2>3. QED
    BY <1>3, <1>5, <1>6, <1>8, <2>1, <2>2
<1>12. ASSUME NEW w \in Writers, NotFound(w) \/ Refuse(w) PROVE CallInv'
  <2>1. PICK body \in {"NOT_FOUND", "refused"} :
            /\ Answered(w, body)
            /\ body = "NOT_FOUND" => request[w].op # "create" /\ request[w].id \notin Stored
            /\ UNCHANGED <<store, applied>>
    BY <1>12 DEF NotFound, Refuse, serviceVars
  <2>2. Holds(w)'
    BY <1>5, <1>7, <1>8, <2>1
    DEF Holds, InOrderOfEvents, AnswerIsHonest, AnswerStaysTrue, Codes, Failures, Stored
  <2>3. QED
    BY <1>3, <1>5, <1>8, <2>1, <2>2
<1>13. ASSUME NEW w \in Writers, Intercept(w) PROVE CallInv'
  <2>1. /\ phase'[w] = "answered" /\ intercepted'[w] /\ request'[w] = request[w]
        /\ outcome'[w] = outcome[w] /\ outcome[w] = "none"
        /\ (request[w].op # "create" => request[w].id \in Known)
    BY <1>1, <1>13 DEF Intercept, InOrderOfEvents, Holds
  <2>2. Holds(w)'
    BY <1>7, <2>1
    DEF Holds, InOrderOfEvents, AnswerIsHonest, AnswerStaysTrue, Codes, Failures
  <2>3. QED
    BY <1>1, <1>3, <1>13, <2>2 DEF Intercept
<1>14. ASSUME NEW w \in Writers, Settle(w) \/ Disconnect(w) PROVE CallInv'
  <2>1. PICK result : /\ Settled(w, result)
                      /\ phase[w] # "idle"
                      /\ result = "resolved" => answer[w] = "data"
                      /\ result \in Codes => answer[w] = result
    BY <1>14 DEF Settle, Disconnect, settle, Codes, Failures
  <2>2. /\ phase'[w] = "idle" /\ answer'[w] = "none" /\ outcome'[w] = result
        /\ request'[w] = request[w] /\ applied'[w] = applied[w] /\ store' = store
        /\ intercepted'[w] = intercepted[w]
        /\ (request[w].op # "create" => request[w].id \in Known)
    BY <1>1, <2>1 DEF Settled, serviceVars, Holds, InOrderOfEvents
  <2>3. Holds(w)'
    BY <1>1, <1>7, <2>1, <2>2
    DEF Holds, InOrderOfEvents, AnswerIsHonest, AnswerStaysTrue, Codes, Failures, Stored
  <2>4. QED
    BY <1>1, <1>3, <2>1, <2>3 DEF Settled
<1>15. ASSUME ReadPage \/ HandleList \/ TakePage \/ LosePage \/ Clock \/ UNCHANGED vars
       PROVE  CallInv'
  <2>1. UNCHANGED writerVars
    BY <1>15 DEF ReadPage, HandleList, TakePage, LosePage, ReaderSteps, Clock, vars
  <2>2. QED
    BY <1>2, <2>1 DEF CallInv, Holds, writerVars
<1>16. QED
  BY <1>4, <1>9, <1>10, <1>11, <1>12, <1>13, <1>14, <1>15 DEF Next

LEMMA CallInit == Init => CallInv
  BY DEF Init, CallInv, InOrderOfEvents, AnswerIsHonest, AnswerStaysTrue, NoRequest, Codes, Failures

\* A call that resolves on an answer of the API has been carried out, and one
\* that the API rejects with an error has changed nothing, whatever happened to
\* the answers of others. An answer by an intermediary promises nothing: request()
\* takes a body with an error for one of the API. (fetch-client.ts, request;
\* notes.service.ts)
THEOREM OutcomesAreHonest == Spec => []OutcomeIsHonest
<1>1. CallInv => OutcomeIsHonest
  BY DEF CallInv, AnswerIsHonest, OutcomeIsHonest
<1>2. TypeOK /\ StoreInv /\ CallInv /\ [Next]_vars => CallInv'
  BY CallStep
<1>3. QED
  BY <1>1, <1>2, CallInit, TypeInit, TypeStep, PTL DEF Spec

\* A note that the API reported as gone never comes back, and the fields it told
\* a client it has changed stay changed, whoever else writes. (notes.service.ts)
THEOREM PromisesAreKept == Spec => []ToldStaysTrue
<1>1. CallInv => ToldStaysTrue
  BY DEF CallInv, AnswerStaysTrue, ToldStaysTrue
<1>2. TypeOK /\ StoreInv /\ CallInv /\ [Next]_vars => CallInv'
  BY CallStep
<1>3. QED
  BY <1>1, <1>2, CallInit, TypeInit, TypeStep, PTL DEF Spec

-----------------------------------------------------------------------------
(***************************************************************************)
(* The books of a traversal. It stands before rank m, having seen what is  *)
(* in seen. Each deletion lets at most one note slip before m unseen, and  *)
(* each creation pushes at most one note that was seen behind it.          *)
(***************************************************************************)
InOrder(items) ==
    \A i, j \in DOMAIN items : i < j => items[i].createdAt >= items[j].createdAt

Missed(births, m, seen, survivors) ==
    {x \in survivors \ IdsIn(seen) : Rank(births, x) < m}

Returning(births, m, seen) ==
    {x \in IdsIn(seen) \cap DOMAIN births : Rank(births, x) >= m}

Repeated(seen) == Len(seen) - Cardinality(IdsIn(seen))

Books(births, m, seen, r) ==
    /\ Cardinality(Missed(births, m, seen, r.survivors)) <= r.removals
    /\ Repeated(seen) + Cardinality(Returning(births, m, seen)) <= r.inserts
    /\ r.inserts = 0 =>
           /\ InOrder(seen)
           /\ \A i \in DOMAIN seen, x \in DOMAIN births :
                  Rank(births, x) >= m => seen[i].createdAt >= births[x]

LEMMA OneMore ==
    ASSUME NEW A, IsFiniteSet(A), NEW B, NEW C, B \subseteq A \cup C,
           \A x, y \in C : x = y
    PROVE  IsFiniteSet(B) /\ Cardinality(B) <= Cardinality(A) + 1
<1>1. CASE C = {}
  BY <1>1, FS_Subset, FS_CardinalityType
<1>2. CASE C # {}
  <2>1. PICK x \in C : C = {x}
    BY <1>2
  <2>2. /\ IsFiniteSet(A \cup {x}) /\ Cardinality(A \cup {x}) <= Cardinality(A) + 1
        /\ Cardinality(A) \in Nat
    <3>1. /\ IsFiniteSet(A \cup {x})
          /\ Cardinality(A \cup {x}) = IF x \in A THEN Cardinality(A) ELSE Cardinality(A) + 1
      BY FS_AddElement
    <3>2. Cardinality(A) \in Nat
      BY FS_CardinalityType
    <3>3. QED
      BY <3>1, <3>2
  <2>3. IsFiniteSet(B) /\ Cardinality(B) <= Cardinality(A \cup {x})
    BY <2>1, <2>2, FS_Subset
  <2>4. QED
    BY <2>2, <2>3, FS_CardinalityType
<1>3. QED
  BY <1>1, <1>2

LEMMA ItemsFacts ==
    ASSUME NEW items \in Seq(Item)
    PROVE  /\ DOMAIN items = 1 .. Len(items) /\ Len(items) \in Nat
           /\ \A i \in DOMAIN items :
                  /\ i \in Nat /\ items[i] \in Item
                  /\ items[i].id \in Ids /\ items[i].createdAt \in Nat
           /\ IdsIn(items) \subseteq Ids /\ IsFiniteSet(IdsIn(items))
           /\ Cardinality(IdsIn(items)) <= Len(items) /\ Repeated(items) \in Nat
<1> DEFINE id == [i \in 1 .. Len(items) |-> items[i].id]
<1>1. DOMAIN items = 1 .. Len(items) /\ Len(items) \in Nat
  BY LenProperties
<1>2. \A i \in DOMAIN items : items[i] \in Item
  BY <1>1, ElementOfSeq
<1>3. \A item \in Item : item.id \in Ids /\ item.createdAt \in Nat
  BY DEF Item
<1>4. IdsIn(items) \subseteq Ids
  BY <1>2, <1>3 DEF IdsIn
<1>5. id \in Surjection(1 .. Len(items), IdsIn(items))
  BY <1>1 DEF Surjection, IdsIn
<1>6. IsFiniteSet(1 .. Len(items)) /\ Cardinality(1 .. Len(items)) = Len(items)
  BY <1>1, FS_Interval
<1>7. IsFiniteSet(IdsIn(items)) /\ Cardinality(IdsIn(items)) <= Len(items)
  BY <1>5, <1>6, FS_Surjection
<1>8. Repeated(items) \in Nat
  BY <1>1, <1>7, FS_CardinalityType DEF Repeated
<1>9. QED
  BY <1>1, <1>2, <1>3, <1>4, <1>7, <1>8

\* A note that comes moves the notes after it by one place.
LEMMA RanksMove ==
    ASSUME NEW S \in SUBSET Nat, IsFiniteSet(S), NEW births \in [S -> Nat],
           NEW e \in Nat \ S, NEW more \in [S \cup {e} -> Nat],
           \A x \in S : more[x] = births[x],
           NEW x \in S
    PROVE  Rank(births, x) \in Nat /\ Rank(more, x) \in {Rank(births, x), Rank(births, x) + 1}
<1>1. \A y \in S : Before(more, y, x) <=> Before(births, y, x)
  BY DEF Before
<1>2. Ahead(births, x) \subseteq S /\ e \notin Ahead(births, x)
  BY DEF Ahead
<1>3. Ahead(more, x) = Ahead(births, x) \/ Ahead(more, x) = Ahead(births, x) \cup {e}
  BY <1>1 DEF Ahead
<1>4. IsFiniteSet(Ahead(births, x)) /\ Cardinality(Ahead(births, x)) \in Nat
  BY <1>2, FS_Subset, FS_CardinalityType
<1>5. Cardinality(Ahead(births, x) \cup {e}) = Cardinality(Ahead(births, x)) + 1
  BY <1>2, <1>4, FS_AddElement
<1>6. QED
  BY <1>3, <1>4, <1>5 DEF Rank

LEMMA BooksAfterCreation ==
    ASSUME NEW S \in SUBSET Nat, IsFiniteSet(S), NEW births \in [S -> Nat],
           NEW e \in Nat \ S, NEW more \in [S \cup {e} -> Nat],
           \A x \in S : more[x] = births[x],
           NEW m \in Nat, NEW seen \in Seq(Item), e \notin IdsIn(seen),
           NEW r \in ReaderType(S), NEW s, s.survivors = r.survivors,
           s.removals = r.removals, s.inserts = r.inserts + 1,
           Books(births, m, seen, r)
    PROVE  Books(more, m, seen, s)
<1>1. \A x \in S : Rank(births, x) \in Nat
                   /\ Rank(more, x) \in {Rank(births, x), Rank(births, x) + 1}
  BY RanksMove
<1>2. r.survivors \subseteq S /\ r.removals \in Nat /\ r.inserts \in Nat
  BY DEF ReaderType
<1>3. Cardinality(Missed(more, m, seen, r.survivors)) <= r.removals
  <2>1. Missed(more, m, seen, r.survivors) \subseteq Missed(births, m, seen, r.survivors)
    <3>1. ASSUME NEW x \in S, Rank(more, x) < m PROVE Rank(births, x) < m
      <4>1. /\ Rank(births, x) \in Nat
            /\ Rank(more, x) = Rank(births, x) \/ Rank(more, x) = Rank(births, x) + 1
        BY <1>1
      <4>2. QED
        BY <3>1, <4>1
    <3>2. QED
      BY <1>2, <3>1 DEF Missed
  <2>2. Missed(births, m, seen, r.survivors) \subseteq S
    BY <1>2 DEF Missed
  <2>3. IsFiniteSet(Missed(births, m, seen, r.survivors))
    BY <2>2, FS_Subset
  <2>4. /\ Cardinality(Missed(more, m, seen, r.survivors))
               <= Cardinality(Missed(births, m, seen, r.survivors))
        /\ IsFiniteSet(Missed(more, m, seen, r.survivors))
    BY <2>1, <2>3, FS_Subset
  <2>5. QED
    BY <1>2, <2>3, <2>4, FS_CardinalityType DEF Books
<1>4. Repeated(seen) + Cardinality(Returning(more, m, seen)) <= r.inserts + 1
  <2> DEFINE pushed == {x \in S : Rank(births, x) = m - 1}
  <2>1. Returning(more, m, seen) \subseteq Returning(births, m, seen) \cup pushed
    <3>1. ASSUME NEW x \in Returning(more, m, seen)
          PROVE  x \in IdsIn(seen) /\ x \in S /\ Rank(more, x) >= m
      BY DEF Returning
    <3>2. ASSUME NEW x \in S, Rank(more, x) >= m
          PROVE  Rank(births, x) >= m \/ Rank(births, x) = m - 1
      <4>1. /\ Rank(births, x) \in Nat
            /\ Rank(more, x) = Rank(births, x) \/ Rank(more, x) = Rank(births, x) + 1
        BY <1>1
      <4>2. QED
        BY <3>2, <4>1
    <3>3. QED
      BY <3>1, <3>2 DEF Returning
  <2>2. \A x, y \in pushed : x = y
    <3>1. \A x, y \in S : Rank(births, x) = Rank(births, y) => x = y
      BY RankOrders
    <3>2. QED
      BY <3>1
  <2>3. IsFiniteSet(Returning(births, m, seen))
    BY ItemsFacts, FS_Subset DEF Returning
  <2> HIDE DEF pushed
  <2>4. /\ IsFiniteSet(Returning(more, m, seen))
        /\ Cardinality(Returning(more, m, seen)) <= Cardinality(Returning(births, m, seen)) + 1
    BY <2>1, <2>2, <2>3, OneMore
  <2>5. /\ Cardinality(Returning(more, m, seen)) \in Nat
        /\ Cardinality(Returning(births, m, seen)) \in Nat /\ Repeated(seen) \in Nat
    BY <2>3, <2>4, ItemsFacts, FS_CardinalityType
  <2>6. QED
    BY <1>2, <2>4, <2>5 DEF Books
<1>5. s.inserts # 0
  BY <1>2
<1>6. QED
  BY <1>3, <1>4, <1>5 DEF Books

LEMMA BooksAfterDeletion ==
    ASSUME NEW S \in SUBSET Nat, IsFiniteSet(S), NEW births \in [S -> Nat],
           NEW e \in S, NEW fewer \in [S \ {e} -> Nat],
           \A x \in S \ {e} : fewer[x] = births[x],
           NEW m \in Nat, NEW seen \in Seq(Item),
           NEW r \in ReaderType(S), NEW s, s.survivors = r.survivors \ {e},
           s.removals = r.removals + 1, s.inserts = r.inserts,
           Books(births, m, seen, r)
    PROVE  Books(fewer, m, seen, s)
<1>1. \A x \in S \ {e} : Rank(fewer, x) \in Nat
                         /\ Rank(births, x) \in {Rank(fewer, x), Rank(fewer, x) + 1}
  <2>1. (S \ {e}) \cup {e} = S /\ S \ {e} \in SUBSET Nat /\ e \in Nat \ (S \ {e})
    OBVIOUS
  <2>2. IsFiniteSet(S \ {e})
    BY FS_RemoveElement
  <2>3. QED
    <3>1. births \in [(S \ {e}) \cup {e} -> Nat] /\ \A x \in S \ {e} : births[x] = fewer[x]
      BY <2>1
    <3> DEFINE T == S \ {e}
    <3>2. /\ T \in SUBSET Nat /\ IsFiniteSet(T) /\ fewer \in [T -> Nat]
          /\ e \in Nat \ T /\ births \in [T \cup {e} -> Nat] /\ \A x \in T : births[x] = fewer[x]
      BY <2>1, <2>2, <3>1
    <3> HIDE DEF T
    <3>3. \A x \in T : Rank(fewer, x) \in Nat
                       /\ Rank(births, x) \in {Rank(fewer, x), Rank(fewer, x) + 1}
      BY <3>2, RanksMove
    <3>4. QED
      BY <3>3 DEF T
<1>2. r.survivors \subseteq S /\ r.removals \in Nat /\ r.inserts \in Nat
  BY DEF ReaderType
<1>3. Cardinality(Missed(fewer, m, seen, s.survivors)) <= r.removals + 1
  <2> DEFINE slipped == {x \in S : Rank(births, x) = m}
  <2>1. Missed(fewer, m, seen, s.survivors)
            \subseteq Missed(births, m, seen, r.survivors) \cup slipped
    <3>1. ASSUME NEW x \in Missed(fewer, m, seen, s.survivors)
          PROVE  /\ x \in r.survivors \ IdsIn(seen) /\ x \in S \ {e}
                 /\ Rank(fewer, x) < m
      BY <1>2 DEF Missed
    <3>2. ASSUME NEW x \in S \ {e}, Rank(fewer, x) < m
          PROVE  Rank(births, x) < m \/ Rank(births, x) = m
      <4>1. /\ Rank(fewer, x) \in Nat
            /\ Rank(births, x) = Rank(fewer, x) \/ Rank(births, x) = Rank(fewer, x) + 1
        BY <1>1
      <4>2. QED
        BY <3>2, <4>1
    <3>3. QED
      BY <3>1, <3>2 DEF Missed
  <2>2. \A x, y \in slipped : x = y
    <3>1. \A x, y \in S : Rank(births, x) = Rank(births, y) => x = y
      BY RankOrders
    <3>2. QED
      BY <3>1
  <2>3. Missed(births, m, seen, r.survivors) \subseteq S
    BY <1>2 DEF Missed
  <2>4. IsFiniteSet(Missed(births, m, seen, r.survivors))
    BY <2>3, FS_Subset
  <2> HIDE DEF slipped
  <2>5. /\ IsFiniteSet(Missed(fewer, m, seen, s.survivors))
        /\ Cardinality(Missed(fewer, m, seen, s.survivors))
               <= Cardinality(Missed(births, m, seen, r.survivors)) + 1
    BY <2>1, <2>2, <2>4, OneMore
  <2>6. QED
    BY <1>2, <2>4, <2>5, FS_CardinalityType DEF Books
<1>4. Repeated(seen) + Cardinality(Returning(fewer, m, seen)) <= r.inserts
  <2>1. Returning(fewer, m, seen) \subseteq Returning(births, m, seen)
    <3>1. \A x \in S \ {e} : Rank(fewer, x) >= m => Rank(births, x) >= m
      BY <1>1
    <3>2. QED
      BY <3>1 DEF Returning
  <2>2. IsFiniteSet(Returning(births, m, seen))
    BY ItemsFacts, FS_Subset DEF Returning
  <2>3. /\ Cardinality(Returning(fewer, m, seen)) <= Cardinality(Returning(births, m, seen))
        /\ IsFiniteSet(Returning(fewer, m, seen))
    BY <2>1, <2>2, FS_Subset
  <2>4. QED
    BY <1>2, <2>2, <2>3, ItemsFacts, FS_CardinalityType DEF Books
<1>5. ASSUME r.inserts = 0
      PROVE  /\ InOrder(seen)
             /\ \A i \in DOMAIN seen, x \in DOMAIN fewer :
                    Rank(fewer, x) >= m => seen[i].createdAt >= fewer[x]
  <2>1. ASSUME NEW i \in DOMAIN seen, NEW x \in S \ {e}, Rank(fewer, x) >= m
        PROVE  seen[i].createdAt >= fewer[x]
    BY <1>1, <1>5, <2>1 DEF Books
  <2>2. QED
    BY <1>5, <2>1 DEF Books
<1>6. QED
  BY <1>3, <1>4, <1>5 DEF Books

LEMMA BooksAtStart ==
    ASSUME NEW S \in SUBSET Nat, IsFiniteSet(S), NEW births \in [S -> Nat],
           NEW survivors \in SUBSET S, NEW r, r.survivors = survivors,
           r.inserts \in Nat, r.removals \in Nat
    PROVE  Books(births, 0, <<>>, r)
<1>1. \A x \in S : Rank(births, x) \in Nat
  BY RankOrders
<1>2. \A x \in S : ~(Rank(births, x) < 0)
  BY <1>1, RankOrders
<1>3. Missed(births, 0, <<>>, survivors) = {}
  BY <1>2 DEF Missed
<1>4. IdsIn(<<>>) = {} /\ Returning(births, 0, <<>>) = {}
  BY DEF IdsIn, Returning
<1>5. Cardinality({}) = 0 /\ Repeated(<<>>) = 0
  <2>1. Cardinality({}) = 0
    BY FS_EmptySet
  <2>2. Repeated(<<>>) = Len(<<>>) - Cardinality({})
    BY <1>4 DEF Repeated
  <2>3. Len(<<>>) = 0
    OBVIOUS
  <2>4. QED
    BY <2>1, <2>2, <2>3
<1>6. DOMAIN <<>> = {}
  OBVIOUS
<1>7. Cardinality(Missed(births, 0, <<>>, r.survivors)) <= r.removals
  <2>1. Cardinality(Missed(births, 0, <<>>, r.survivors)) = 0
    BY <1>3, <1>5
  <2>2. QED
    BY <2>1
<1>8. Repeated(<<>>) + Cardinality(Returning(births, 0, <<>>)) <= r.inserts
  <2>1. Repeated(<<>>) = 0 /\ Cardinality(Returning(births, 0, <<>>)) = 0
    BY <1>4, <1>5
  <2>2. QED
    BY <2>1
<1>9. QED
  BY <1>6, <1>7, <1>8 DEF Books, InOrder

\* What is shown after a page: what was seen, and the page.
LEMMA ShownFacts ==
    ASSUME NEW seen \in Seq(Item), NEW items \in Seq(Item)
    PROVE  /\ seen \o items \in Seq(Item)
           /\ DOMAIN (seen \o items) = 1 .. Len(seen) + Len(items)
           /\ Len(seen \o items) = Len(seen) + Len(items)
           /\ \A i \in 1 .. Len(seen) : (seen \o items)[i] = seen[i]
           /\ \A i \in 1 .. Len(seen) + Len(items) :
                  ~(i <= Len(seen)) => /\ i - Len(seen) \in 1 .. Len(items)
                                       /\ (seen \o items)[i] = items[i - Len(seen)]
           /\ IdsIn(seen \o items) = IdsIn(seen) \cup IdsIn(items)
<1> DEFINE n == Len(seen)
           l == Len(items)
           shown == seen \o items
<1>1. /\ shown \in Seq(Item) /\ Len(shown) = n + l
      /\ \A i \in 1 .. n + l : shown[i] = IF i <= n THEN seen[i] ELSE items[i - n]
  BY ConcatProperties
<1>2. /\ n \in Nat /\ l \in Nat /\ DOMAIN seen = 1 .. n /\ DOMAIN items = 1 .. l
      /\ DOMAIN shown = 1 .. n + l
  BY <1>1, LenProperties
<1> HIDE DEF n, l, shown
<1>3. \A i \in 1 .. n : shown[i] = seen[i]
  BY <1>1, <1>2
<1>4. \A i \in 1 .. n + l : ~(i <= n) => i - n \in 1 .. l /\ shown[i] = items[i - n]
  BY <1>1, <1>2
<1>5. IdsIn(shown) \subseteq IdsIn(seen) \cup IdsIn(items)
  <2>1. ASSUME NEW i \in 1 .. n + l
        PROVE  shown[i].id \in IdsIn(seen) \cup IdsIn(items)
    <3>1. CASE i <= n
      <4>1. i \in 1 .. n
        BY <1>2, <3>1
      <4>2. QED
        BY <1>2, <1>3, <4>1 DEF IdsIn
    <3>2. CASE ~(i <= n)
      BY <1>2, <1>4, <3>2 DEF IdsIn
    <3>3. QED
      BY <3>1, <3>2
  <2>2. QED
    BY <1>2, <2>1 DEF IdsIn
<1>6. IdsIn(seen) \subseteq IdsIn(shown)
  <2>1. \A i \in 1 .. n : i \in 1 .. n + l
    BY <1>2
  <2>2. QED
    BY <1>2, <1>3, <2>1 DEF IdsIn
<1>7. IdsIn(items) \subseteq IdsIn(shown)
  <2>1. ASSUME NEW i \in 1 .. l
        PROVE  n + i \in 1 .. n + l /\ shown[n + i] = items[i]
    <3>1. n + i \in 1 .. n + l /\ ~(n + i <= n) /\ (n + i) - n = i
      BY <1>2
    <3>2. QED
      BY <1>4, <3>1
  <2>2. QED
    BY <1>2, <2>1 DEF IdsIn
<1>8. QED
  BY <1>1, <1>2, <1>3, <1>4, <1>5, <1>6, <1>7 DEF n, l, shown

\* The notes of places m + 1 to m + size of the listing.
IsPage(births, m, size, items) ==
    /\ \A i \in DOMAIN items :
           /\ items[i].id \in DOMAIN births
           /\ items[i].createdAt = births[items[i].id]
           /\ Rank(births, items[i].id) = m + i - 1
           /\ i \in 1 .. size
    /\ \A x \in DOMAIN births :
           Rank(births, x) \in m .. m + size - 1 => x \in IdsIn(items)

LEMMA BooksWithPage ==
    ASSUME NEW S \in SUBSET Nat, IsFiniteSet(S), NEW births \in [S -> Nat],
           NEW m \in Nat, NEW size \in Nat \ {0},
           NEW seen \in Seq(Item), NEW items \in Seq(Item),
           IsPage(births, m, size, items),
           NEW r \in ReaderType(S), Books(births, m, seen, r),
           NEW s, s.survivors = r.survivors, s.removals = r.removals,
           s.inserts = r.inserts
    PROVE  Books(births, m + size, seen \o items, s)
<1> DEFINE shown == seen \o items
<1>1. r.survivors \subseteq S /\ r.removals \in Nat /\ r.inserts \in Nat
  BY DEF ReaderType
<1>2. /\ \A x \in S : Rank(births, x) \in Nat
      /\ \A x, y \in S : Rank(births, x) < Rank(births, y) => births[x] >= births[y]
  <2>1. /\ \A x \in S : Rank(births, x) \in Nat /\ births[x] \in Nat
        /\ \A x, y \in S : Rank(births, x) < Rank(births, y) => Before(births, x, y)
    BY RankOrders
  <2>2. \A x, y \in S : Before(births, x, y) => births[x] >= births[y]
    BY <2>1 DEF Before
  <2>3. QED
    BY <2>1, <2>2
<1>3. /\ IdsIn(shown) = IdsIn(seen) \cup IdsIn(items)
      /\ Len(shown) = Len(seen) + Len(items) /\ DOMAIN shown = 1 .. Len(seen) + Len(items)
      /\ DOMAIN seen = 1 .. Len(seen) /\ Len(seen) \in Nat
      /\ DOMAIN items = 1 .. Len(items) /\ Len(items) \in Nat
      /\ IsFiniteSet(IdsIn(seen)) /\ IsFiniteSet(IdsIn(items))
  BY ShownFacts, ItemsFacts
<1> HIDE DEF shown
<1>4. ASSUME NEW i \in DOMAIN items
      PROVE  /\ items[i].id \in S /\ items[i].createdAt = births[items[i].id]
             /\ Rank(births, items[i].id) = m + i - 1
             /\ m <= Rank(births, items[i].id) /\ Rank(births, items[i].id) < m + size
  <2>1. /\ items[i].id \in S /\ items[i].createdAt = births[items[i].id]
        /\ Rank(births, items[i].id) = m + i - 1 /\ i \in 1 .. size
    BY DEF IsPage
  <2>2. QED
    BY <2>1
<1>5. IdsIn(items) \subseteq S
      /\ \A x \in IdsIn(items) : m <= Rank(births, x) /\ Rank(births, x) < m + size
  BY <1>4 DEF IdsIn
<1>6. Cardinality(Missed(births, m + size, shown, r.survivors)) <= r.removals
  <2>1. Missed(births, m + size, shown, r.survivors) \subseteq Missed(births, m, seen, r.survivors)
    <3>1. ASSUME NEW x \in S, x \notin IdsIn(items), Rank(births, x) < m + size
          PROVE  Rank(births, x) < m
      <4>1. Rank(births, x) \in Nat
        BY <1>2
      <4>2. Rank(births, x) \notin m .. m + size - 1
        BY <3>1 DEF IsPage
      <4>3. QED
        BY <3>1, <4>1, <4>2
    <3>2. QED
      BY <1>1, <1>3, <3>1 DEF Missed
  <2>2. Missed(births, m, seen, r.survivors) \subseteq S
    BY <1>1 DEF Missed
  <2>3. IsFiniteSet(Missed(births, m, seen, r.survivors))
    BY <2>2, FS_Subset
  <2>4. /\ Cardinality(Missed(births, m + size, shown, r.survivors))
               <= Cardinality(Missed(births, m, seen, r.survivors))
        /\ IsFiniteSet(Missed(births, m + size, shown, r.survivors))
    BY <2>1, <2>3, FS_Subset
  <2>5. QED
    BY <1>1, <2>3, <2>4, FS_CardinalityType DEF Books
<1>7. Cardinality(IdsIn(items)) = Len(items)
  <2> DEFINE id == [i \in 1 .. Len(items) |-> items[i].id]
  <2>1. ASSUME NEW i \in 1 .. Len(items), NEW j \in 1 .. Len(items), items[i].id = items[j].id
        PROVE  i = j
    <3>1. m + i - 1 = m + j - 1
      BY <1>3, <1>4, <2>1
    <3>2. QED
      BY <1>3, <3>1
  <2>2. id \in Bijection(1 .. Len(items), IdsIn(items))
    BY <1>3, <2>1 DEF Bijection, Injection, Surjection, IsInjective, IdsIn
  <2>3. \A n \in Nat : IsFiniteSet(1 .. n) /\ Cardinality(1 .. n) = n
    BY FS_Interval
  <2>4. IsFiniteSet(1 .. Len(items)) /\ Cardinality(1 .. Len(items)) = Len(items)
    BY <1>3, <2>3
  <2>5. QED
    BY <2>2, <2>4, FS_Bijection DEF ExistsBijection
<1> DEFINE again == IdsIn(seen) \cap IdsIn(items)
<1>8. Repeated(shown) = Repeated(seen) + Cardinality(again)
  <2>1. Cardinality(IdsIn(shown))
            = Cardinality(IdsIn(seen)) + Cardinality(IdsIn(items)) - Cardinality(again)
    BY <1>3, FS_Union
  <2>2. /\ Cardinality(IdsIn(seen)) \in Nat /\ Cardinality(IdsIn(items)) \in Nat
        /\ Cardinality(again) \in Nat
    BY <1>3, FS_CardinalityType, FS_Intersection
  <2>3. QED
    BY <1>3, <1>7, <2>1, <2>2 DEF Repeated
<1>9. /\ Cardinality(again) + Cardinality(Returning(births, m + size, shown))
             <= Cardinality(Returning(births, m, seen))
      /\ Cardinality(again) \in Nat
      /\ Cardinality(Returning(births, m + size, shown)) \in Nat
      /\ Cardinality(Returning(births, m, seen)) \in Nat
  <2> DEFINE later == Returning(births, m + size, shown)
             all == Returning(births, m, seen)
  <2>1. later \subseteq all
    <3>1. ASSUME NEW x \in IdsIn(shown) \cap S, Rank(births, x) >= m + size
          PROVE  x \in IdsIn(seen) /\ Rank(births, x) >= m
      <4>1. Rank(births, x) \in Nat
        BY <1>2
      <4>2. x \notin IdsIn(items)
        BY <1>5, <3>1, <4>1
      <4>3. QED
        BY <1>3, <3>1, <4>1, <4>2
    <3>2. QED
      BY <3>1 DEF Returning
  <2>2. again \subseteq all
    <3>1. \A x \in IdsIn(items) : Rank(births, x) >= m /\ x \in S
      BY <1>2, <1>5
    <3>2. QED
      BY <3>1 DEF Returning
  <2>3. again \cap later = {}
    <3>1. ASSUME NEW x \in IdsIn(items) PROVE ~(Rank(births, x) >= m + size)
      <4>1. Rank(births, x) \in Nat /\ Rank(births, x) < m + size
        BY <1>2, <1>5
      <4>2. QED
        BY <4>1
    <3>2. QED
      BY <3>1 DEF Returning
  <2>4. IsFiniteSet(all)
    BY <1>3, FS_Subset DEF Returning
  <2> HIDE DEF again, later, all
  <2>5. IsFiniteSet(again) /\ IsFiniteSet(later) /\ again \cup later \subseteq all
    BY <2>1, <2>2, <2>4, FS_Subset
  <2>6. /\ Cardinality(again \cup later) = Cardinality(again) + Cardinality(later) - Cardinality({})
        /\ Cardinality(again \cup later) <= Cardinality(all)
        /\ Cardinality({}) = 0
    BY <2>3, <2>4, <2>5, FS_Union, FS_Subset, FS_EmptySet
  <2>7. Cardinality(again) \in Nat /\ Cardinality(later) \in Nat /\ Cardinality(all) \in Nat
    BY <2>4, <2>5, FS_CardinalityType
  <2>8. Cardinality(again) + Cardinality(later) <= Cardinality(all)
    BY <2>6, <2>7
  <2>9. QED
    BY <2>7, <2>8 DEF later, all
<1> HIDE DEF again
<1>10. Repeated(shown) + Cardinality(Returning(births, m + size, shown)) <= r.inserts
  <2>1. Repeated(seen) + Cardinality(Returning(births, m, seen)) <= r.inserts
    BY DEF Books
  <2>2. Repeated(seen) \in Nat
    BY ItemsFacts
  <2>3. QED
    BY <1>1, <1>8, <1>9, <2>1, <2>2
<1>11. ASSUME r.inserts = 0
       PROVE  /\ InOrder(shown)
              /\ \A i \in DOMAIN shown, x \in DOMAIN births :
                     Rank(births, x) >= m + size => shown[i].createdAt >= births[x]
  <2>1. /\ \A i, j \in DOMAIN seen : i < j => seen[i].createdAt >= seen[j].createdAt
        /\ \A i \in DOMAIN seen, x \in S : Rank(births, x) >= m => seen[i].createdAt >= births[x]
    BY <1>11 DEF Books, InOrder
  <2>2. /\ \A i \in 1 .. Len(seen) : shown[i] = seen[i]
        /\ \A i \in 1 .. Len(seen) + Len(items) :
               ~(i <= Len(seen)) => /\ i - Len(seen) \in 1 .. Len(items)
                                    /\ shown[i] = items[i - Len(seen)]
    BY ShownFacts DEF shown
  <2>3. ASSUME NEW i \in DOMAIN shown, NEW x \in S,
               \/ Rank(births, x) >= m + size
               \/ /\ ~(i <= Len(seen))
                  /\ Rank(births, shown[i].id) < Rank(births, x)
               \/ i <= Len(seen) /\ Rank(births, x) >= m
        PROVE  shown[i].createdAt >= births[x]
    <3>1. Rank(births, x) \in Nat /\ i \in 1 .. Len(seen) + Len(items)
      BY <1>2, <1>3
    <3>2. CASE i <= Len(seen)
      <4>1. i \in DOMAIN seen /\ shown[i] = seen[i] /\ Rank(births, x) >= m
        BY <1>3, <2>2, <2>3, <3>1, <3>2
      <4>2. QED
        BY <2>1, <4>1
    <3>3. CASE ~(i <= Len(seen))
      <4>1. i - Len(seen) \in DOMAIN items /\ shown[i] = items[i - Len(seen)]
        BY <1>3, <2>2, <3>1, <3>3
      <4>2. /\ shown[i].id \in S /\ shown[i].createdAt = births[shown[i].id]
            /\ Rank(births, shown[i].id) < m + size
        BY <1>4, <4>1
      <4>3. Rank(births, shown[i].id) \in Nat
        BY <1>2, <4>2
      <4>4. Rank(births, shown[i].id) < Rank(births, x)
        BY <2>3, <3>1, <3>3, <4>2, <4>3
      <4>5. QED
        BY <1>2, <4>2, <4>4
    <3>4. QED
      BY <3>2, <3>3
  <2>4. ASSUME NEW i \in DOMAIN shown, NEW j \in DOMAIN shown, i < j
        PROVE  shown[i].createdAt >= shown[j].createdAt
    <3>1. i \in 1 .. Len(seen) + Len(items) /\ j \in 1 .. Len(seen) + Len(items)
      BY <1>3
    <3>2. CASE j <= Len(seen)
      <4>1. i \in DOMAIN seen /\ j \in DOMAIN seen /\ shown[i] = seen[i] /\ shown[j] = seen[j]
        BY <1>3, <2>2, <2>4, <3>1, <3>2
      <4>2. QED
        BY <2>1, <2>4, <4>1
    <3>3. CASE ~(j <= Len(seen))
      <4>1. j - Len(seen) \in DOMAIN items /\ shown[j] = items[j - Len(seen)]
        BY <1>3, <2>2, <3>1, <3>3
      <4>2. /\ shown[j].id \in S /\ shown[j].createdAt = births[shown[j].id]
            /\ Rank(births, shown[j].id) = m + (j - Len(seen)) - 1
            /\ m <= Rank(births, shown[j].id)
        BY <1>4, <4>1
      <4>3. CASE i <= Len(seen)
        <5>1. Rank(births, shown[j].id) >= m
          BY <1>2, <4>2
        <5>2. QED
          BY <2>3, <4>2, <4>3, <5>1
      <4>4. CASE ~(i <= Len(seen))
        <5>1. i - Len(seen) \in DOMAIN items /\ shown[i] = items[i - Len(seen)]
          BY <1>3, <2>2, <3>1, <4>4
        <5>2. Rank(births, shown[i].id) = m + (i - Len(seen)) - 1
          BY <1>4, <5>1
        <5>3. Rank(births, shown[i].id) < Rank(births, shown[j].id)
          BY <1>3, <2>4, <3>1, <4>2, <5>2
        <5>4. QED
          BY <2>3, <4>2, <4>4, <5>3
      <4>5. QED
        BY <4>3, <4>4
    <3>4. QED
      BY <3>2, <3>3
  <2>5. QED
    BY <2>3, <2>4 DEF InOrder
<1>12. Books(births, m + size, shown, s)
  BY <1>6, <1>10, <1>11 DEF Books
<1>13. QED
  BY <1>12 DEF shown

-----------------------------------------------------------------------------
(***************************************************************************)
(* The traversal. Its books are kept before each page, with a page that is *)
(* on its way, and closed by the last page.                                *)
(***************************************************************************)
Start(r) == (r.page - 1) * PageSize

Overlooked(r, seen) == r.survivors \ IdsIn(seen)

Shown(r) == r.seen \o r.items

\* The first page finds nothing seen, and only known notes are ever shown.
Opened(known, r) ==
    /\ r.page = 1 /\ r.phase # "done" => r.seen = <<>>
    /\ r.phase = "idle" => r.page = 1
    /\ r.phase # "answered" => r.items = <<>>
    /\ IdsIn(r.seen) \cup IdsIn(r.items) \subseteq known

\* The books are right with the page on its way, and without it.
Underway(births, r) ==
    /\ r.phase \in {"between", "sent", "answered"} => Books(births, Start(r), r.seen, r)
    /\ r.phase = "answered" =>
           /\ Books(births, Start(r) + PageSize, Shown(r), r)
           /\ r.page >= r.pages => Cardinality(Overlooked(r, Shown(r))) <= r.removals

\* What the books come to at the end, when later changes no longer count.
Closed(r) ==
    r.phase = "done" =>
        /\ Cardinality(Overlooked(r, r.seen)) <= r.removals
        /\ Repeated(r.seen) <= r.inserts
        /\ r.inserts = 0 => InOrder(r.seen)

PagingInv == Opened(Known, reader) /\ Underway(Births, reader) /\ Closed(reader)

\* A creation adds the birth of a note.
Grown(births, e, more) ==
    /\ more \in [(DOMAIN births) \cup {e} -> Nat]
    /\ \A x \in DOMAIN births : more[x] = births[x]

\* What a creation and a deletion make of the reader.
InsertedIn(r, s) ==
    /\ s.phase = r.phase /\ s.page = r.page /\ s.items = r.items /\ s.pages = r.pages
    /\ s.seen = r.seen /\ s.survivors = r.survivors /\ s.removals = r.removals
    /\ s.inserts = IF r.phase \in {"between", "sent", "answered"} THEN r.inserts + 1
                   ELSE r.inserts

RemovedFrom(r, e, s) ==
    /\ s.phase = r.phase /\ s.page = r.page /\ s.items = r.items /\ s.pages = r.pages
    /\ s.seen = r.seen /\ s.survivors = r.survivors \ {e} /\ s.inserts = r.inserts
    /\ s.removals = IF r.phase \in {"between", "sent", "answered"} THEN r.removals + 1
                    ELSE r.removals

LEMMA StartFacts ==
    ASSUME NEW S, NEW r \in ReaderType(S)
    PROVE  /\ PageSize \in Nat \ {0} /\ Start(r) \in Nat
           /\ r.page = 1 => Start(r) = 0
           /\ r.page * PageSize = Start(r) + PageSize
<1>1. PageSize \in Nat \ {0}
  BY NotesAssumption
<1>2. r.page \in Nat \ {0}
  BY DEF ReaderType
<1>3. PICK p \in Nat : r.page = p + 1
  <2>1. r.page - 1 \in Nat /\ r.page = (r.page - 1) + 1
    BY <1>2
  <2>2. QED
    BY <2>1
<1>4. Start(r) = p * PageSize
  BY <1>3 DEF Start
<1>5. p * PageSize \in Nat /\ (p + 1) * PageSize = p * PageSize + PageSize
  BY <1>1
<1>6. p = 0 => p * PageSize = 0
  BY <1>1
<1>7. QED
  BY <1>1, <1>3, <1>4, <1>5, <1>6

LEMMA PagingAfterCreation ==
    ASSUME NEW S \in SUBSET Nat, IsFiniteSet(S), NEW births \in [S -> Nat],
           NEW known, NEW e \in Nat \ (S \cup known),
           NEW more, Grown(births, e, more),
           NEW r \in ReaderType(S),
           Opened(known, r), Underway(births, r), Closed(r),
           NEW s, InsertedIn(r, s)
    PROVE  Opened(known \cup {e}, s) /\ Underway(more, s) /\ Closed(s)
<1>1. /\ s.phase = r.phase /\ s.page = r.page /\ s.items = r.items /\ s.pages = r.pages
      /\ s.seen = r.seen /\ s.survivors = r.survivors /\ s.removals = r.removals
      /\ Start(s) = Start(r) /\ Shown(s) = Shown(r)
      /\ Start(r) \in Nat /\ PageSize \in Nat
      /\ r.seen \in Seq(Item) /\ r.items \in Seq(Item)
      /\ r.phase = "done" => s.inserts = r.inserts
  BY StartFacts DEF InsertedIn, ReaderType, Start, Shown
<1>2. Opened(known \cup {e}, s)
  BY <1>1 DEF Opened
<1>3. Closed(s)
  BY <1>1 DEF Closed, Overlooked
<1>4. ASSUME r.phase \in {"between", "sent", "answered"}
      PROVE  s.inserts = r.inserts + 1 /\ Books(births, Start(r), r.seen, r)
  BY <1>4 DEF InsertedIn, Underway, ReaderType
<1>5. /\ e \notin IdsIn(r.seen) /\ e \in Nat \ S
      /\ more \in [S \cup {e} -> Nat] /\ \A x \in S : more[x] = births[x]
  BY DEF Opened, Grown
<1>6. ASSUME r.phase \in {"between", "sent", "answered"},
             NEW m \in Nat, NEW seen \in Seq(Item), e \notin IdsIn(seen),
             Books(births, m, seen, r)
      PROVE  Books(more, m, seen, s)
  <2>1. s.inserts = r.inserts + 1
    BY <1>4, <1>6
  <2>2. s.survivors = r.survivors /\ s.removals = r.removals
    BY <1>1
  <2>3. QED
    BY <1>5, <1>6, <2>1, <2>2, BooksAfterCreation
<1>7. ASSUME r.phase \in {"between", "sent", "answered"}
      PROVE  Books(more, Start(s), s.seen, s)
  <2>1. Books(more, Start(r), r.seen, s)
    BY <1>1, <1>4, <1>5, <1>6, <1>7
  <2>2. QED
    BY <1>1, <2>1
<1>8. ASSUME r.phase = "answered"
      PROVE  /\ Books(more, Start(s) + PageSize, Shown(s), s)
             /\ s.page >= s.pages => Cardinality(Overlooked(s, Shown(s))) <= s.removals
  <2>1. Shown(r) \in Seq(Item) /\ IdsIn(Shown(r)) = IdsIn(r.seen) \cup IdsIn(r.items)
    <3>1. \A seen, items \in Seq(Item) :
              /\ seen \o items \in Seq(Item)
              /\ IdsIn(seen \o items) = IdsIn(seen) \cup IdsIn(items)
      BY ShownFacts
    <3>2. QED
      BY <1>1, <3>1 DEF Shown
  <2>2. e \notin IdsIn(Shown(r))
    BY <2>1 DEF Opened
  <2>3. Books(births, Start(r) + PageSize, Shown(r), r) /\ Start(r) + PageSize \in Nat
    BY <1>1, <1>8 DEF Underway
  <2>4. Books(more, Start(r) + PageSize, Shown(r), s)
    BY <1>6, <1>8, <2>1, <2>2, <2>3
  <2>5. s.page >= s.pages => Cardinality(Overlooked(s, Shown(s))) <= s.removals
    BY <1>1, <1>8 DEF Underway, Overlooked
  <2>6. QED
    BY <1>1, <2>4, <2>5
<1>9. Underway(more, s)
  BY <1>1, <1>8, <1>7 DEF Underway
<1>10. QED
  BY <1>2, <1>3, <1>9

LEMMA PagingAfterDeletion ==
    ASSUME NEW S \in SUBSET Nat, IsFiniteSet(S), NEW births \in [S -> Nat],
           NEW known, NEW e \in S,
           NEW fewer \in [S \ {e} -> Nat], \A x \in S \ {e} : fewer[x] = births[x],
           NEW r \in ReaderType(S),
           Opened(known, r), Underway(births, r), Closed(r),
           NEW s, RemovedFrom(r, e, s)
    PROVE  Opened(known, s) /\ Underway(fewer, s) /\ Closed(s)
<1>1. /\ s.phase = r.phase /\ s.page = r.page /\ s.items = r.items /\ s.pages = r.pages
      /\ s.seen = r.seen /\ s.survivors = r.survivors \ {e} /\ s.inserts = r.inserts
      /\ Start(s) = Start(r) /\ Shown(s) = Shown(r)
      /\ Start(r) \in Nat /\ PageSize \in Nat
      /\ r.seen \in Seq(Item) /\ r.items \in Seq(Item)
      /\ r.removals \in Nat /\ r.survivors \subseteq S
      /\ r.phase = "done" => s.removals = r.removals
  BY StartFacts DEF RemovedFrom, ReaderType, Start, Shown
<1>2. Opened(known, s)
  BY <1>1 DEF Opened
<1>3. ASSUME NEW seen PROVE /\ Cardinality(Overlooked(s, seen)) \in Nat
                            /\ Cardinality(Overlooked(r, seen)) \in Nat
                            /\ Cardinality(Overlooked(s, seen)) <= Cardinality(Overlooked(r, seen))
  <2>1. /\ Overlooked(s, seen) \subseteq Overlooked(r, seen)
        /\ Overlooked(r, seen) \subseteq S
    BY <1>1 DEF Overlooked
  <2>2. IsFiniteSet(Overlooked(r, seen))
    BY <2>1, FS_Subset
  <2>3. /\ IsFiniteSet(Overlooked(s, seen))
        /\ Cardinality(Overlooked(s, seen)) <= Cardinality(Overlooked(r, seen))
    BY <2>1, <2>2, FS_Subset
  <2>4. QED
    BY <2>2, <2>3, FS_CardinalityType
<1>4. Closed(s)
  <2>1. ASSUME r.phase = "done"
        PROVE  Cardinality(Overlooked(s, r.seen)) <= s.removals
    <3>1. Cardinality(Overlooked(r, r.seen)) <= r.removals /\ s.removals = r.removals
      BY <1>1, <2>1 DEF Closed
    <3>2. QED
      BY <1>1, <1>3, <3>1
  <2>2. QED
    BY <1>1, <2>1 DEF Closed
<1>5. ASSUME r.phase \in {"between", "sent", "answered"}
      PROVE  s.removals = r.removals + 1 /\ Books(births, Start(r), r.seen, r)
  BY <1>5 DEF RemovedFrom, Underway, ReaderType
<1>6. ASSUME r.phase \in {"between", "sent", "answered"},
             NEW m \in Nat, NEW seen \in Seq(Item), Books(births, m, seen, r)
      PROVE  Books(fewer, m, seen, s)
  <2>1. s.removals = r.removals + 1
    BY <1>5, <1>6
  <2>2. s.survivors = r.survivors \ {e} /\ s.inserts = r.inserts
    BY <1>1
  <2>3. QED
    BY <1>6, <2>1, <2>2, BooksAfterDeletion
<1>7. ASSUME r.phase \in {"between", "sent", "answered"}
      PROVE  Books(fewer, Start(s), s.seen, s)
  <2>1. Books(fewer, Start(r), r.seen, s)
    BY <1>1, <1>5, <1>6, <1>7
  <2>2. QED
    BY <1>1, <2>1
<1>8. ASSUME r.phase = "answered"
      PROVE  /\ Books(fewer, Start(s) + PageSize, Shown(s), s)
             /\ s.page >= s.pages => Cardinality(Overlooked(s, Shown(s))) <= s.removals
  <2>1. Shown(r) \in Seq(Item)
    BY <1>1, ShownFacts DEF Shown
  <2>2. Books(births, Start(r) + PageSize, Shown(r), r) /\ Start(r) + PageSize \in Nat
    BY <1>1, <1>8 DEF Underway
  <2>3. Books(fewer, Start(r) + PageSize, Shown(r), s)
    BY <1>6, <1>8, <2>1, <2>2
  <2>4. ASSUME r.page >= r.pages
        PROVE  Cardinality(Overlooked(s, Shown(r))) <= s.removals
    <3>1. Cardinality(Overlooked(r, Shown(r))) <= r.removals
      BY <1>8, <2>4 DEF Underway
    <3>2. QED
      BY <1>1, <1>3, <1>5, <1>8, <3>1
  <2>5. QED
    BY <1>1, <2>3, <2>4
<1>9. Underway(fewer, s)
  BY <1>1, <1>8, <1>7 DEF Underway
<1>10. QED
  BY <1>2, <1>4, <1>9

LEMMA SameBooks ==
    ASSUME NEW births, NEW m, NEW seen, NEW r, NEW s, s.survivors = r.survivors,
           s.removals = r.removals, s.inserts = r.inserts,
           Books(births, m, seen, r)
    PROVE  Books(births, m, seen, s)
  BY DEF Books

LEMMA NothingSeen == IdsIn(<<>>) = {}
  BY DEF IdsIn

LEMMA PagingAfterRead ==
    ASSUME NEW S \in SUBSET Nat, IsFiniteSet(S), NEW births \in [S -> Nat], NEW known,
           NEW r \in ReaderType(S), r.phase \in {"idle", "between"},
           Opened(known, r), Underway(births, r),
           NEW s, s.phase = "sent", s.page = r.page, s.items = r.items,
           s.seen = r.seen, s.survivors = r.survivors, s.inserts = r.inserts,
           s.removals = r.removals
    PROVE  Opened(known, s) /\ Underway(births, s) /\ Closed(s)
<1>1. Opened(known, s)
  BY DEF Opened
<1>2. Start(s) = Start(r)
  BY DEF Start
<1>3. CASE r.phase = "idle"
  <2>1. r.page = 1 /\ r.seen = <<>>
    BY <1>3 DEF Opened
  <2>2. Start(r) = 0
    BY <2>1, StartFacts
  <2>3. s.survivors \in SUBSET S /\ s.inserts \in Nat /\ s.removals \in Nat
    BY DEF ReaderType
  <2>4. Books(births, 0, <<>>, s)
    BY <2>3, BooksAtStart
  <2>5. QED
    BY <1>1, <1>2, <2>1, <2>2, <2>4 DEF Underway, Closed
<1>4. CASE r.phase = "between"
  <2>1. Books(births, Start(r), r.seen, r)
    BY <1>4 DEF Underway
  <2>2. Books(births, Start(r), r.seen, s)
    BY <2>1, SameBooks
  <2>3. QED
    BY <1>1, <1>2, <2>2 DEF Underway, Closed
<1>5. QED
  BY <1>3, <1>4

LEMMA PagingAfterLoss ==
    ASSUME NEW S, NEW births \in [S -> Nat], NEW known,
           NEW r \in ReaderType(S), r.phase \in {"sent", "answered"},
           Opened(known, r), Underway(births, r),
           NEW s, s.phase = "between", s.page = r.page, s.items = <<>>,
           s.seen = r.seen, s.survivors = r.survivors, s.inserts = r.inserts,
           s.removals = r.removals
    PROVE  Opened(known, s) /\ Underway(births, s) /\ Closed(s)
<1>1. Opened(known, s)
  BY NothingSeen DEF Opened
<1>2. Start(s) = Start(r) /\ Books(births, Start(r), r.seen, r)
  BY DEF Start, Underway
<1>3. Books(births, Start(r), r.seen, s)
  BY <1>2, SameBooks
<1>4. QED
  BY <1>1, <1>2, <1>3 DEF Underway, Closed

LEMMA ClosedBooks ==
    ASSUME NEW births, NEW m, NEW seen \in Seq(Item), NEW S, NEW r \in ReaderType(S),
           Books(births, m, seen, r)
    PROVE  Repeated(seen) <= r.inserts /\ (r.inserts = 0 => InOrder(seen))
<1>1. IsFiniteSet(Returning(births, m, seen))
  BY ItemsFacts, FS_Subset DEF Returning
<1>2. Cardinality(Returning(births, m, seen)) \in Nat /\ Repeated(seen) \in Nat
  BY <1>1, ItemsFacts, FS_CardinalityType
<1>3. r.inserts \in Nat
  BY DEF ReaderType
<1>4. QED
  BY <1>2, <1>3 DEF Books

LEMMA PagingAfterPage ==
    ASSUME NEW S \in SUBSET Nat, IsFiniteSet(S), NEW births \in [S -> Nat], NEW known,
           NEW r \in ReaderType(S), r.phase = "answered",
           Opened(known, r), Underway(births, r),
           NEW s,
           s.phase = IF r.page >= r.pages THEN "done" ELSE "between",
           s.page = IF r.page >= r.pages THEN r.page ELSE r.page + 1,
           s.seen = Shown(r), s.items = <<>>, s.survivors = r.survivors,
           s.inserts = r.inserts, s.removals = r.removals
    PROVE  Opened(known, s) /\ Underway(births, s) /\ Closed(s)
<1>1. r.seen \in Seq(Item) /\ r.items \in Seq(Item) /\ r.page \in Nat \ {0}
  BY DEF ReaderType
<1>2. Shown(r) \in Seq(Item) /\ IdsIn(Shown(r)) = IdsIn(r.seen) \cup IdsIn(r.items)
  <2>1. \A seen, items \in Seq(Item) :
            /\ seen \o items \in Seq(Item)
            /\ IdsIn(seen \o items) = IdsIn(seen) \cup IdsIn(items)
    BY ShownFacts
  <2>2. QED
    BY <1>1, <2>1 DEF Shown
<1>3. Books(births, Start(r) + PageSize, Shown(r), r)
  BY DEF Underway
<1>4. CASE r.page >= r.pages
  <2>1. Opened(known, s)
    BY <1>2, <1>4, NothingSeen DEF Opened
  <2>2. Cardinality(Overlooked(r, Shown(r))) <= r.removals
    BY <1>4 DEF Underway
  <2>3. Repeated(Shown(r)) <= r.inserts /\ (r.inserts = 0 => InOrder(Shown(r)))
    BY <1>2, <1>3, ClosedBooks
  <2>4. QED
    BY <1>4, <2>1, <2>2, <2>3 DEF Underway, Closed, Overlooked
<1>5. CASE ~(r.page >= r.pages)
  <2>1. s.page = r.page + 1 /\ s.page # 1 /\ s.phase = "between"
    BY <1>1, <1>5
  <2>2. Opened(known, s)
    BY <1>2, <2>1, NothingSeen DEF Opened
  <2>3. Start(s) = Start(r) + PageSize
    <3>1. s.page - 1 = r.page
      BY <1>1, <2>1
    <3>2. QED
      BY <3>1, StartFacts DEF Start
  <2>4. Books(births, Start(r) + PageSize, Shown(r), s)
    BY <1>3, SameBooks
  <2>5. QED
    BY <2>1, <2>2, <2>3, <2>4 DEF Underway, Closed
<1>6. QED
  BY <1>4, <1>5

LEMMA PagingAfterList ==
    ASSUME NEW S \in SUBSET Nat, IsFiniteSet(S), NEW births \in [S -> Nat],
           NEW known, S \subseteq known,
           NEW r \in ReaderType(S), r.phase = "sent",
           Opened(known, r), Underway(births, r),
           NEW s \in ReaderType(S), s.phase = "answered", s.page = r.page, s.seen = r.seen,
           IsPage(births, Start(r), PageSize, s.items),
           s.page >= s.pages => \A x \in S : Rank(births, x) < Start(r) + PageSize,
           r.page # 1 => /\ s.survivors = r.survivors /\ s.inserts = r.inserts
                         /\ s.removals = r.removals
    PROVE  Opened(known, s) /\ Underway(births, s) /\ Closed(s)
<1>1. Start(s) = Start(r) /\ Start(r) \in Nat /\ PageSize \in Nat \ {0}
  BY StartFacts DEF Start
<1>2. s.seen \in Seq(Item) /\ s.items \in Seq(Item)
      /\ s.survivors \in SUBSET S /\ s.inserts \in Nat /\ s.removals \in Nat
  BY DEF ReaderType
<1>3. Opened(known, s)
  <2>1. IdsIn(s.items) \subseteq S
    BY DEF IsPage, IdsIn
  <2>2. QED
    BY <2>1 DEF Opened
<1>4. Books(births, Start(s), s.seen, s)
  <2>1. CASE r.page = 1
    <3>1. s.seen = <<>> /\ Start(s) = 0
      BY <1>1, <2>1, StartFacts DEF Opened
    <3>2. Books(births, 0, <<>>, s)
      BY <1>2, BooksAtStart
    <3>3. QED
      BY <3>1, <3>2
  <2>2. CASE r.page # 1
    <3>1. Books(births, Start(r), r.seen, r)
      BY DEF Underway
    <3>2. Books(births, Start(r), r.seen, s)
      BY <2>2, <3>1, SameBooks
    <3>3. QED
      BY <1>1, <3>2
  <2>3. QED
    BY <2>1, <2>2
<1>5. Books(births, Start(s) + PageSize, Shown(s), s)
  <2>1. IsPage(births, Start(s), PageSize, s.items)
    BY <1>1
  <2>2. Start(s) \in Nat
    BY <1>1
  <2>3. Books(births, Start(s) + PageSize, s.seen \o s.items, s)
    BY <1>1, <1>2, <1>4, <2>1, <2>2, BooksWithPage
  <2>4. QED
    BY <2>3 DEF Shown
<1>6. ASSUME s.page >= s.pages PROVE Cardinality(Overlooked(s, Shown(s))) <= s.removals
  <2>1. Overlooked(s, Shown(s)) = Missed(births, Start(s) + PageSize, Shown(s), s.survivors)
    BY <1>1, <1>2, <1>6 DEF Overlooked, Missed
  <2>2. QED
    BY <1>5, <2>1 DEF Books
<1>7. QED
  BY <1>3, <1>4, <1>5, <1>6 DEF Underway, Closed

LEMMA PagingInit == Init => PagingInv
<1> SUFFICES ASSUME Init PROVE PagingInv
  OBVIOUS
<1>1. /\ reader.phase = "idle" /\ reader.page = 1
      /\ reader.seen = <<>> /\ reader.items = <<>>
  BY DEF Init
<1>2. QED
  BY <1>1, NothingSeen DEF PagingInv, Opened, Underway, Closed

LEMMA PagingStep ==
    ASSUME TypeOK, StoreInv, PagingInv, [Next]_vars
    PROVE  PagingInv'
<1>1. ServiceTypeOK /\ WriterTypeOK /\ reader \in ReaderType(Stored)
  BY TypeParts
<1>2. /\ Stored \in SUBSET Nat /\ IsFiniteSet(Stored) /\ Births \in [Stored -> Nat]
      /\ Stored \subseteq Known
  BY <1>1, ListedFacts DEF StoreInv
<1>3. Opened(Known, reader) /\ Underway(Births, reader) /\ Closed(reader)
  BY DEF PagingInv
<1>4. ASSUME UNCHANGED <<store, created>>
      PROVE  Births' = Births /\ Known' = Known /\ Stored' = Stored
  BY <1>4 DEF Births, Known, Stored
<1>5. reader' \in ReaderType(Stored')
  BY ReaderTypeStep
<1>6. ASSUME NEW w \in Writers, HandleCreate(w) PROVE PagingInv'
  <2>1. /\ created' = created + 1 /\ created' \notin Stored
        /\ Grown(Births, created', Births')
    BY <1>1, <1>2, <1>6, CreateFacts DEF HandleCreate, Grown
  <2>2. created' \in Nat \ (Stored \cup Known) /\ Known' = Known \cup {created'}
    BY <1>1, <2>1, NotesAssumption DEF ServiceTypeOK, Known
  <2>3. InsertedIn(reader, reader')
    BY <1>1, <1>6 DEF InsertedIn, HandleCreate, Inserted, ReaderType, Traversing
  <2>4. /\ Opened(Known \cup {created'}, reader') /\ Underway(Births', reader')
        /\ Closed(reader')
    BY <1>1, <1>2, <1>3, <2>1, <2>2, <2>3, PagingAfterCreation
  <2>5. Opened(Known', reader')
    BY <2>2, <2>4
  <2>6. QED
    BY <2>4, <2>5 DEF PagingInv
<1>7. ASSUME NEW w \in Writers, HandleDelete(w) PROVE PagingInv'
  <2> DEFINE id == request[w].id
  <2>1. /\ created' = created /\ id \in Stored
        /\ Births' \in [Stored \ {id} -> Nat]
        /\ \A x \in Stored \ {id} : Births'[x] = Births[x]
    BY <1>1, <1>7, DeleteFacts DEF HandleDelete
  <2>2. Known' = Known
    BY <2>1 DEF Known
  <2>3. RemovedFrom(reader, id, reader')
    BY <1>1, <1>7 DEF RemovedFrom, HandleDelete, Removed, ReaderType, Traversing
  <2> HIDE DEF id
  <2>4. Opened(Known, reader') /\ Underway(Births', reader') /\ Closed(reader')
    BY <1>1, <1>2, <1>3, <2>1, <2>3, PagingAfterDeletion
  <2>5. QED
    BY <2>2, <2>4 DEF PagingInv
<1>8. ASSUME NEW w \in Writers, HandleUpdate(w) PROVE PagingInv'
  <2>1. request[w].fields \in SUBSET Fields
    BY <1>1 DEF WriterTypeOK, Requests
  <2>2. Births' = Births /\ created' = created /\ reader' = reader
    BY <1>1, <1>8, <2>1, UpdateFacts DEF HandleUpdate
  <2>3. QED
    BY <1>3, <2>2 DEF PagingInv, Known
<1>9. ASSUME UNCHANGED <<store, created>>,
             /\ Opened(Known, reader') /\ Underway(Births, reader') /\ Closed(reader')
      PROVE  PagingInv'
  BY <1>4, <1>9 DEF PagingInv
<1>10. CASE ReadPage
  <2>1. /\ reader.phase \in {"idle", "between"} /\ UNCHANGED <<store, created>>
        /\ reader' = [reader EXCEPT !.phase = "sent"]
    BY <1>10 DEF ReadPage, ReaderSteps, serviceVars
  <2>2. /\ reader'.phase = "sent" /\ reader'.page = reader.page /\ reader'.items = reader.items
        /\ reader'.seen = reader.seen /\ reader'.survivors = reader.survivors
        /\ reader'.inserts = reader.inserts /\ reader'.removals = reader.removals
    BY <1>1, <2>1 DEF ReaderType
  <2>3. Opened(Known, reader') /\ Underway(Births, reader') /\ Closed(reader')
    BY <1>1, <1>2, <1>3, <2>1, <2>2, PagingAfterRead
  <2>4. QED
    BY <1>9, <2>1, <2>3
<1>11. CASE LosePage
  <2>1. /\ reader.phase \in {"sent", "answered"} /\ UNCHANGED <<store, created>>
        /\ reader' = [reader EXCEPT !.phase = "between", !.items = <<>>]
    BY <1>11 DEF LosePage, ReaderSteps, serviceVars
  <2>2. /\ reader'.phase = "between" /\ reader'.page = reader.page /\ reader'.items = <<>>
        /\ reader'.seen = reader.seen /\ reader'.survivors = reader.survivors
        /\ reader'.inserts = reader.inserts /\ reader'.removals = reader.removals
    BY <1>1, <2>1 DEF ReaderType
  <2>3. Opened(Known, reader') /\ Underway(Births, reader') /\ Closed(reader')
    BY <1>1, <1>2, <1>3, <2>1, <2>2, PagingAfterLoss
  <2>4. QED
    BY <1>9, <2>1, <2>3
<1>12. CASE TakePage
  <2>1. /\ reader.phase = "answered" /\ UNCHANGED <<store, created>>
        /\ reader' = [reader EXCEPT
               !.phase = IF reader.page >= reader.pages THEN "done" ELSE "between",
               !.page = IF reader.page >= reader.pages THEN @ ELSE @ + 1,
               !.seen = @ \o reader.items,
               !.items = <<>>]
    BY <1>12 DEF TakePage, ReaderSteps, serviceVars
  <2>2. /\ reader'.phase = IF reader.page >= reader.pages THEN "done" ELSE "between"
        /\ reader'.page = IF reader.page >= reader.pages THEN reader.page ELSE reader.page + 1
        /\ reader'.seen = Shown(reader) /\ reader'.items = <<>>
        /\ reader'.survivors = reader.survivors
        /\ reader'.inserts = reader.inserts /\ reader'.removals = reader.removals
    BY <1>1, <2>1 DEF ReaderType, Shown
  <2>3. ASSUME NEW s,
               s.phase = IF reader.page >= reader.pages THEN "done" ELSE "between",
               s.page = IF reader.page >= reader.pages THEN reader.page ELSE reader.page + 1,
               s.seen = Shown(reader), s.items = <<>>, s.survivors = reader.survivors,
               s.inserts = reader.inserts, s.removals = reader.removals
        PROVE  Opened(Known, s) /\ Underway(Births, s) /\ Closed(s)
    BY <1>1, <1>2, <1>3, <2>1, <2>3, PagingAfterPage
  <2>4. Opened(Known, reader') /\ Underway(Births, reader') /\ Closed(reader')
    BY <2>2, <2>3
  <2>5. QED
    BY <1>9, <2>1, <2>4
<1>13. CASE HandleList
  <2> DEFINE items == Page(reader.page)
             shown == [i \in DOMAIN items |->
                          [id |-> items[i].id, createdAt |-> items[i].createdAt]]
             answered == [reader EXCEPT !.phase = "answered", !.items = shown,
                                        !.pages = TotalPages]
             opened == [answered EXCEPT !.survivors = Stored, !.inserts = 0,
                                        !.removals = 0]
  <2>1. /\ reader.phase = "sent" /\ UNCHANGED <<store, created>>
        /\ reader' = IF reader.page = 1 THEN opened ELSE answered
    BY <1>13 DEF HandleList, ReaderSteps, serviceVars
  <2>2. reader.page \in Nat \ {0}
    BY <1>1 DEF ReaderType
  <2>3. /\ \A i \in DOMAIN items :
               /\ items[i].id \in Stored
               /\ items[i].createdAt = Births[items[i].id]
               /\ Rank(Births, items[i].id) = Start(reader) + i - 1
               /\ i \in 1 .. PageSize
        /\ \A x \in Stored : Rank(Births, x) \in Start(reader) .. Start(reader) + PageSize - 1
                                 => x \in IdsIn(items)
        /\ reader.page >= TotalPages =>
               \A x \in Stored : Rank(Births, x) < Start(reader) + PageSize
    BY <1>1, <2>2, PageFacts DEF Start
  <2> HIDE DEF items
  <2>4. DOMAIN shown = DOMAIN items /\ IdsIn(shown) = IdsIn(items)
    BY DEF IdsIn
  <2>5. IsPage(Births, Start(reader), PageSize, shown)
    BY <1>2, <2>3, <2>4 DEF IsPage
  <2> HIDE DEF shown
  <2>6. /\ answered.phase = "answered" /\ answered.page = reader.page
        /\ answered.seen = reader.seen /\ answered.items = shown
        /\ answered.pages = TotalPages /\ answered.survivors = reader.survivors
        /\ answered.inserts = reader.inserts /\ answered.removals = reader.removals
    BY <1>1 DEF ReaderType
  <2>7. /\ opened.phase = "answered" /\ opened.page = reader.page
        /\ opened.seen = reader.seen /\ opened.items = shown /\ opened.pages = TotalPages
    BY <1>1 DEF ReaderType
  <2> HIDE DEF answered, opened
  <2>8. /\ reader'.phase = "answered" /\ reader'.page = reader.page
        /\ reader'.seen = reader.seen /\ reader'.items = shown /\ reader'.pages = TotalPages
        /\ reader.page # 1 => /\ reader'.survivors = reader.survivors
                              /\ reader'.inserts = reader.inserts
                              /\ reader'.removals = reader.removals
    BY <2>1, <2>6, <2>7
  <2>9. reader' \in ReaderType(Stored)
    BY <1>4, <1>5, <2>1
  <2>10. Opened(Known, reader') /\ Underway(Births, reader') /\ Closed(reader')
    BY <1>1, <1>2, <1>3, <2>1, <2>3, <2>5, <2>8, <2>9, PagingAfterList
  <2>11. QED
    BY <1>9, <2>1, <2>10
<1>14. CASE UNCHANGED <<store, created, reader>>
  BY <1>3, <1>9, <1>14
<1>15. ASSUME NEW w \in Writers,
             \/ CallCreate(w) \/ CallUpdate(w) \/ CallDelete(w)
             \/ NotFound(w) \/ Refuse(w) \/ Intercept(w) \/ Settle(w) \/ Disconnect(w)
      PROVE  UNCHANGED <<store, created, reader>>
  BY <1>15 DEF CallCreate, CallUpdate, CallDelete, Call, NotFound, Refuse, Intercept, Settle,
              Disconnect, Settled, serviceVars
<1>16. CASE Clock \/ UNCHANGED vars
  BY <1>14, <1>16 DEF Clock, Tick, vars, serviceVars
<1>17. QED
  BY <1>6, <1>7, <1>8, <1>10, <1>11, <1>12, <1>13, <1>14, <1>15, <1>16 DEF Next

LEMMA PagingGives == TypeOK /\ PagingInv => PagingDegradesGracefully
<1> SUFFICES ASSUME TypeOK, PagingInv PROVE PagingDegradesGracefully
  OBVIOUS
<1>1. reader \in ReaderType(Stored) /\ reader.seen \in Seq(Item)
  BY TypeParts DEF ReaderType
<1>2. SeenIds = IdsIn(reader.seen)
  BY DEF SeenIds, IdsIn
<1>3. ASSUME reader.phase = "done"
      PROVE  /\ Cardinality(reader.survivors \ SeenIds) <= reader.removals
             /\ Len(reader.seen) - Cardinality(SeenIds) <= reader.inserts
             /\ reader.inserts = 0 => InOrder(reader.seen)
  BY <1>2, <1>3 DEF PagingInv, Closed, Overlooked, Repeated
<1>4. ASSUME Traversing
      PROVE  /\ Len(reader.seen) - Cardinality(SeenIds) <= reader.inserts
             /\ reader.inserts = 0 => InOrder(reader.seen)
  <2>1. Books(Births, Start(reader), reader.seen, reader)
    BY <1>4 DEF Traversing, PagingInv, Underway
  <2>2. Repeated(reader.seen) <= reader.inserts /\ (reader.inserts = 0 => InOrder(reader.seen))
    BY <1>1, <2>1, ClosedBooks
  <2>3. QED
    BY <1>2, <2>2 DEF Repeated
<1>5. QED
  BY <1>3, <1>4 DEF PagingDegradesGracefully, InOrder

\* A traversal overlooks at most one of the notes that were there all along
\* for each deletion meanwhile, repeats at most one for each creation, and is
\* in order unless something was created; a page that is lost and asked for
\* again costs nothing. (notes.service.ts, list; buildPageInfo)
THEOREM PagingIsBounded == Spec => []PagingDegradesGracefully
<1>1. TypeOK /\ StoreInv /\ PagingInv /\ [Next]_vars => PagingInv'
  BY PagingStep
<1>2. QED
  BY <1>1, PagingInit, PagingGives, TypeInit, TypeStep, PTL DEF Spec
===========================================================================
