---------------------------- MODULE NotesClients ----------------------------
(***************************************************************************)
(* Clients of the notes API over createFetchClient: writers that create,   *)
(* change and delete notes, and a reader that pages through the list while *)
(* they do. A call is a request on its way, an answer on its way back, and *)
(* what the client makes of it. Either way may fail, and an intermediary   *)
(* may answer in the API's place with a body of its own.                   *)
(***************************************************************************)
EXTENDS NotesService

CONSTANTS
    Writers,     \* clients that write
    Edits,       \* the sets of fields their updates give
    Foreign,     \* the bodies an intermediary may answer with
    MaxCalls     \* bound: calls of each writer

\* The bodies a fetch can get: an envelope with data, an error with a code (one
\* of the API's two, or another), no body at all, and what is nothing of this.
Failures == {"NOT_FOUND", "refused"}
Codes == Failures \cup {"unknown"}
Bodies == {"data", "empty", "unreadable"} \cup Codes

ASSUME ClientsAssumption ==
    /\ Edits \subseteq SUBSET Fields
    /\ Foreign \subseteq Bodies
    /\ MaxCalls \in Nat

VARIABLES
    phase,     \* of each writer's call: "idle", "sent" or "answered"
    request,   \* of each writer's last call
    answer,    \* its answer, as a class of bodies
    intercepted, \* history: the answer is an intermediary's, not the API's
    outcome,   \* how request() settled
    applied,   \* history: the call changed the store
    calls,     \* calls each writer has made
    reader     \* the reader: its call, its position and what it has seen

writerVars == <<phase, request, answer, intercepted, outcome, applied, calls>>
vars == <<serviceVars, writerVars, reader>>

Ops == {"create", "update", "delete"}
Requests == [op : Ops, id : {0} \cup Ids, fields : SUBSET Fields]
NoRequest == [op |-> "create", id |-> 0, fields |-> {}]

Outcomes == {"none", "resolved", "failed"} \cup Codes

Item == [id : Ids, createdAt : 0 .. MaxClock]

Init ==
    /\ InitService
    /\ phase = [w \in Writers |-> "idle"]
    /\ request = [w \in Writers |-> NoRequest]
    /\ answer = [w \in Writers |-> "none"]
    /\ intercepted = [w \in Writers |-> FALSE]
    /\ outcome = [w \in Writers |-> "none"]
    /\ applied = [w \in Writers |-> FALSE]
    /\ calls = [w \in Writers |-> 0]
    /\ reader = [phase |-> "idle", page |-> 1, items |-> <<>>, pages |-> 1,
                 seen |-> <<>>, survivors |-> {}, inserts |-> 0, removals |-> 0]

-----------------------------------------------------------------------------
(***************************************************************************)
(* Writers. A client knows an id from an answer, so it names a known one.  *)
(***************************************************************************)

Call(w, r) ==
    /\ phase[w] = "idle"
    /\ calls[w] < MaxCalls
    /\ calls' = [calls EXCEPT ![w] = @ + 1]
    /\ phase' = [phase EXCEPT ![w] = "sent"]
    /\ request' = [request EXCEPT ![w] = r]
    /\ outcome' = [outcome EXCEPT ![w] = "none"]
    /\ intercepted' = [intercepted EXCEPT ![w] = FALSE]
    /\ applied' = [applied EXCEPT ![w] = FALSE]
    /\ UNCHANGED <<serviceVars, answer, reader>>

CallCreate(w) == Call(w, NoRequest)
CallUpdate(w) ==
    \E id \in Known, fields \in Edits :
        Call(w, [op |-> "update", id |-> id, fields |-> fields])
CallDelete(w) ==
    \E id \in Known : Call(w, [op |-> "delete", id |-> id, fields |-> {}])

\* The API has handled the call and answers it.
Answered(w, body) ==
    /\ phase[w] = "sent"
    /\ phase' = [phase EXCEPT ![w] = "answered"]
    /\ answer' = [answer EXCEPT ![w] = body]
    /\ UNCHANGED <<request, intercepted, outcome, calls>>

Applied(w) == applied' = [applied EXCEPT ![w] = TRUE]

\* What a change of the store means to a traversal under way.
Traversing == reader.phase \in {"between", "sent", "answered"}
Inserted ==
    reader' = [reader EXCEPT !.inserts = IF Traversing THEN @ + 1 ELSE @]
Removed(id) ==
    reader' = [reader EXCEPT !.removals = IF Traversing THEN @ + 1 ELSE @,
                             !.survivors = @ \ {id}]

HandleCreate(w) ==
    /\ request[w].op = "create"
    /\ Answered(w, "data")
    /\ Create
    /\ Applied(w)
    /\ Inserted

HandleUpdate(w) ==
    /\ request[w].op = "update"
    /\ Answered(w, "data")
    /\ Update(request[w].id, request[w].fields)
    /\ Applied(w)
    /\ UNCHANGED reader

HandleDelete(w) ==
    /\ request[w].op = "delete"
    /\ Answered(w, "empty")
    /\ Delete(request[w].id)
    /\ Applied(w)
    /\ Removed(request[w].id)

\* get inside update, or Map.delete, finds nothing.
NotFound(w) ==
    /\ request[w].op \in {"update", "delete"}
    /\ request[w].id \notin Stored
    /\ Answered(w, "NOT_FOUND")
    /\ UNCHANGED <<serviceVars, applied, reader>>

\* ZodValidationPipe or the throttler refuses before the handler runs.
Refuse(w) ==
    /\ Answered(w, "refused")
    /\ UNCHANGED <<serviceVars, applied, reader>>

\* An intermediary gives up on the API, or replaces what it answered. (A
\* request that it, or a broken connection, leaves on its way and that arrives
\* later is for the store one more call of a writer that has given it up.)
Intercept(w) ==
    /\ phase[w] # "idle"
    /\ ~intercepted[w]
    /\ phase' = [phase EXCEPT ![w] = "answered"]
    /\ \E body \in Foreign : answer' = [answer EXCEPT ![w] = body]
    /\ intercepted' = [intercepted EXCEPT ![w] = TRUE]
    /\ UNCHANGED <<serviceVars, request, outcome, applied, calls, reader>>

\* The caller gets the body as it came.
settleDeviation1(body) == body

\* payload.ok is not tested.
settleDeviation2(body) ==
    IF body \in {"data"} \cup Codes THEN "resolved" ELSE "failed"

\* The rest of request(): response.json() rejects a body that is no JSON, and
\* reading .ok or .error.code of one without an error throws; without ok an
\* error becomes an AppError with its code, whoever wrote it; data is decoded.
settle(body) ==
    CASE body = "data" -> "resolved"
      [] body \in Codes -> body
      [] OTHER -> "failed"

Settled(w, result) ==
    /\ phase' = [phase EXCEPT ![w] = "idle"]
    /\ answer' = [answer EXCEPT ![w] = "none"]
    /\ outcome' = [outcome EXCEPT ![w] = result]
    /\ UNCHANGED <<serviceVars, request, intercepted, applied, calls, reader>>

Settle(w) == phase[w] = "answered" /\ Settled(w, settle(answer[w]))

\* The connection breaks, before the API has the request or after: fetch rejects.
Disconnect(w) == phase[w] # "idle" /\ Settled(w, "failed")

-----------------------------------------------------------------------------
(***************************************************************************)
(* The reader: GET /notes page by page, until the page it is on is the     *)
(* last by the pageInfo it came with. A call that fails is repeated.       *)
(***************************************************************************)
ReaderSteps(changed) ==
    /\ reader' = changed
    /\ UNCHANGED <<serviceVars, writerVars>>

ReadPage ==
    /\ reader.phase \in {"idle", "between"}
    /\ ReaderSteps([reader EXCEPT !.phase = "sent"])

\* NotesController.list; the first page starts the books of the traversal.
HandleList ==
    /\ reader.phase = "sent"
    /\ LET items == Page(reader.page)
           answered ==
               [reader EXCEPT
                   !.phase = "answered",
                   !.items = [i \in DOMAIN items |->
                                 [id |-> items[i].id,
                                  createdAt |-> items[i].createdAt]],
                   !.pages = TotalPages]
       IN  ReaderSteps(
               IF reader.page = 1
               THEN [answered EXCEPT !.survivors = Stored, !.inserts = 0,
                                     !.removals = 0]
               ELSE answered)

TakePage ==
    /\ reader.phase = "answered"
    /\ ReaderSteps([reader EXCEPT
           !.phase = IF reader.page >= reader.pages THEN "done" ELSE "between",
           !.page = IF reader.page >= reader.pages THEN @ ELSE @ + 1,
           !.seen = @ \o reader.items,
           !.items = <<>>])

\* The answer is lost or replaced.
LosePage ==
    /\ reader.phase \in {"sent", "answered"}
    /\ ReaderSteps([reader EXCEPT !.phase = "between", !.items = <<>>])

Clock == Tick /\ UNCHANGED <<writerVars, reader>>

Next ==
    \/ \E w \in Writers : CallCreate(w)
    \/ \E w \in Writers : CallUpdate(w)
    \/ \E w \in Writers : CallDelete(w)
    \/ \E w \in Writers : HandleCreate(w)
    \/ \E w \in Writers : HandleUpdate(w)
    \/ \E w \in Writers : HandleDelete(w)
    \/ \E w \in Writers : NotFound(w)
    \/ \E w \in Writers : Refuse(w)
    \/ \E w \in Writers : Intercept(w)
    \/ \E w \in Writers : Settle(w)
    \/ \E w \in Writers : Disconnect(w)
    \/ ReadPage
    \/ HandleList
    \/ TakePage
    \/ LosePage
    \/ Clock

Spec == Init /\ [][Next]_vars

-----------------------------------------------------------------------------
(***************************************************************************)
(* Properties                                                              *)
(***************************************************************************)

\* Type invariant.
TypeOK ==
    /\ ServiceTypeOK
    /\ phase \in [Writers -> {"idle", "sent", "answered"}]
    /\ request \in [Writers -> Requests]
    /\ answer \in [Writers -> {"none"} \cup Bodies]
    /\ intercepted \in [Writers -> BOOLEAN]
    /\ outcome \in [Writers -> Outcomes]
    /\ applied \in [Writers -> BOOLEAN]
    /\ calls \in [Writers -> 0 .. MaxCalls]
    /\ reader \in [phase : {"idle", "sent", "answered", "between", "done"},
                   page : Nat \ {0}, items : Seq(Item), pages : Nat \ {0},
                   seen : Seq(Item), survivors : SUBSET Stored,
                   inserts : Nat, removals : Nat]

\* What the API tells a client is true: a call that resolves on its answer has
\* been carried out, and a call it rejects with an error has changed nothing. (A
\* call that failed otherwise may have gone either way. So may one that an
\* intermediary answered in words of the API, which request() cannot tell.)
OutcomeIsHonest ==
    \A w \in Writers : ~intercepted[w] =>
        /\ outcome[w] = "resolved" => applied[w]
        /\ outcome[w] \in Codes => ~applied[w]

\* What the API told clients stays true while others' calls are under way or
\* arrive late: a note reported as gone never comes back, and a change that
\* was reported as made is not undone by a change of the other field.
ToldStaysTrue ==
    \A w \in Writers : ~intercepted[w] =>
        /\ outcome[w] = "NOT_FOUND" => request[w].id \notin Stored
        /\ outcome[w] = "resolved" /\ request[w].op = "update" =>
               \A i \in DOMAIN store :
                   store[i].id = request[w].id =>
                       request[w].fields \subseteq store[i].edited

SeenIds == {reader.seen[i].id : i \in DOMAIN reader.seen}

\* Paging while others write: a traversal overlooks at most one of the notes
\* that were there all along for each deletion meanwhile, repeats at most one
\* for each creation, and is in order unless something was created. With
\* nobody writing it shows each note once, newest first; edits do not count,
\* nor does a clock that is set back.
PagingDegradesGracefully ==
    /\ reader.phase = "done" =>
           Cardinality(reader.survivors \ SeenIds) <= reader.removals
    /\ Traversing \/ reader.phase = "done" =>
           Len(reader.seen) - Cardinality(SeenIds) <= reader.inserts
    /\ (Traversing \/ reader.phase = "done") /\ reader.inserts = 0 =>
           \A i, j \in DOMAIN reader.seen :
               i < j => reader.seen[i].createdAt >= reader.seen[j].createdAt

\* An answer of the API itself can be decoded by the client: only an
\* intermediary's is rejected as unreadable.
ApiAnswersDecode ==
    \A w \in Writers :
        phase[w] = "answered" /\ ~intercepted[w] =>
            settle(answer[w]) # "failed"
=============================================================================
