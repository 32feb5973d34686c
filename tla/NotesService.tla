---------------------------- MODULE NotesService ----------------------------
(***************************************************************************)
(* The notes reference module of the API: the Map of NotesService and the  *)
(* operations NotesController exposes. Each handler is synchronous, so     *)
(* each operation is one action. Title and body are told apart only by     *)
(* whether an update has given them; ids count up, as the code's UUIDs     *)
(* never repeat.                                                           *)
(***************************************************************************)
EXTENDS Naturals, FiniteSets, SequencesExt

CONSTANTS
    PageSize,   \* notes on a page
    MaxNotes,   \* bound: notes ever created
    MaxClock    \* bound: milliseconds

ASSUME NotesAssumption ==
    /\ PageSize \in 1 .. 100
    /\ MaxNotes \in Nat /\ MaxClock \in Nat

VARIABLES
    store,      \* the Map, in the order of insertion
    created,    \* notes created so far; the last of them is the newest id
    now         \* the wall clock

serviceVars == <<store, created, now>>

Ids == 1 .. MaxNotes
Known == 1 .. created
Fields == {"title", "body"}
Note == [id : Ids, createdAt : 0 .. MaxClock, updatedAt : 0 .. MaxClock,
         edited : SUBSET Fields]

InitService ==
    /\ store = <<>>
    /\ created = 0
    /\ now = 0

ServiceTypeOK ==
    /\ store \in Seq(Note)
    /\ created \in 0 .. MaxNotes
    /\ now \in 0 .. MaxClock

Stored == {store[i].id : i \in DOMAIN store}

(* Definitions named ...Deviation are bugs this code could have. The       *)
(* specification never uses one: each is put in the place of the           *)
(* definition after it to see that a property notices.                     *)

-----------------------------------------------------------------------------
\* The listing is sorted by the last change.
PrecedesDeviation(i, j) ==
    \/ store[i].updatedAt > store[j].updatedAt
    \/ store[i].updatedAt = store[j].updatedAt /\ i < j

\* What comes first in the listing: by createdAt, which is a text of fixed
\* width, and stable, so that notes of one millisecond keep the Map's order.
Precedes(i, j) ==
    \/ store[i].createdAt > store[j].createdAt
    \/ store[i].createdAt = store[j].createdAt /\ i < j

\* All notes, newest first: the k'th is the one that k - 1 others precede.
Listed ==
    LET order(k) == CHOOSE i \in DOMAIN store :
                        Cardinality({j \in DOMAIN store : Precedes(j, i)}) = k - 1
    IN  [k \in DOMAIN store |-> store[order(k)]]

TotalPages == Max({1, (Len(store) + PageSize - 1) \div PageSize})

\* list: the page'th slice of the listing, empty beyond its end.
Page(page) ==
    LET start == (page - 1) * PageSize
    IN  SubSeq(Listed, start + 1, Min({start + PageSize, Len(store)}))

-----------------------------------------------------------------------------
PlaceOf(id) == CHOOSE i \in DOMAIN store : store[i].id = id

\* Map.set: a note that is there keeps its place, a new one goes to the end.
Set(note) ==
    store' = IF note.id \in Stored THEN [store EXCEPT ![PlaceOf(note.id)] = note]
             ELSE Append(store, note)

Fresh(id) == [id |-> id, createdAt |-> now, updatedAt |-> now, edited |-> {}]

Create ==
    /\ created < MaxNotes
    /\ created' = created + 1
    /\ Set(Fresh(created'))
    /\ UNCHANGED now

\* A field that is not given is reset to its default.
ChangedDeviation(note, fields) ==
    [note EXCEPT !.edited = fields, !.updatedAt = now]

\* update: the given fields over the existing ones.
Changed(note, fields) ==
    [note EXCEPT !.edited = @ \cup fields, !.updatedAt = now]

Get(id) == store[PlaceOf(id)]

\* get throws when there is no such note.
Update(id, fields) ==
    /\ id \in Stored
    /\ Set(Changed(Get(id), fields))
    /\ UNCHANGED <<created, now>>

\* Map.delete tells whether there was such a note.
Delete(id) ==
    /\ id \in Stored
    /\ store' = RemoveAt(store, PlaceOf(id))
    /\ UNCHANGED <<created, now>>

\* Time passes, and the wall clock may be set back.
Tick ==
    /\ now' \in 0 .. MaxClock
    /\ now' # now
    /\ UNCHANGED <<store, created>>
=============================================================================
