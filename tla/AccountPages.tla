---------------------------- MODULE AccountPages ----------------------------
(***************************************************************************)
(* The account pages of the web app in one tab: the sign-in and sign-up    *)
(* forms, and the account page with its effect that loads /api/me for the  *)
(* session of Better Auth's useSession.                                    *)
(*                                                                         *)
(* The cookie belongs to the browser: another tab, or the expiry of the    *)
(* session, changes it under this one. Every load is answered for the      *)
(* cookie of the moment, in any order, or not at all.                      *)
(***************************************************************************)
EXTENDS Naturals, Sequences

CONSTANTS Users,     \* accounts that may exist,
          Known,     \* and those that do at the start
          NoUser,
          MaxMoves   \* bound on what users and other tabs do

ASSUME PagesAssumption ==
    /\ Known \subseteq Users /\ NoUser \notin Users
    /\ MaxMoves \in Nat

VARIABLES accounts,  \* accounts of the API
          cookie,    \* the user of the browser's session cookie
          session,   \* what useSession returned last
          signal,    \* a refetch of the session is owed
          page,      \* the page shown
          target,    \* the page router.push was called with last
          visit,     \* how many pages were shown: the instance of this one
          form,      \* error and pending of the form shown
          attempts,  \* the calls of handleSubmit, oldest first
          leaving,   \* signOut() is in flight
          loads,     \* the loads of the account page, oldest first
          current,   \* the load whose cleanup has not been called
          me, error, \* the state of the account page
          moves      \* what users and other tabs did so far

browserVars == <<accounts, cookie, moves>>
sessionVars == <<session, signal>>
routeVars == <<page, target, visit>>
formVars == <<form, attempts>>
pageVars == <<loads, current, me, error>>
vars == <<browserVars, sessionVars, routeVars, formVars, leaving, pageVars>>

Forms == {"sign-in", "sign-up"}
FreshForm == [error |-> FALSE, pending |-> FALSE]

Init ==
    /\ accounts = Known
    /\ cookie \in Known \cup {NoUser}
    /\ session = [data |-> NoUser, isPending |-> TRUE]
    /\ signal = TRUE
    /\ page \in Forms \cup {"me"}
    /\ target = page
    /\ form = FreshForm
    /\ visit = 1
    /\ attempts = <<>>
    /\ leaving = FALSE
    /\ loads = <<>>
    /\ current = 0
    /\ me = NoUser
    /\ error = "none"
    /\ moves = 0

Moved == moves < MaxMoves /\ moves' = moves + 1

-----------------------------------------------------------------------------
(***************************************************************************)
(* The effect of the account page.                                         *)
(***************************************************************************)
\* The effect runs for session.data: the cleanup of the last run cancels its
\* load, and a session that has a user starts one.
RunEffect(data, at) ==
    IF data = NoUser
    THEN current' = 0 /\ UNCHANGED loads
    ELSE /\ loads' = Append(loads, [at |-> at, state |-> "sent", user |-> NoUser])
         /\ current' = Len(loads) + 1

\* The API, the rewrite in front of it or the network settles fetch("/api/me").
AnswerMe(l) ==
    /\ loads[l].state = "sent"
    /\ \/ /\ cookie # NoUser
          /\ loads' = [loads EXCEPT ![l].state = "ok", ![l].user = cookie]
       \/ \E outcome \in {"refused", "failed"} : loads' = [loads EXCEPT ![l].state = outcome]
    /\ UNCHANGED <<browserVars, sessionVars, routeVars, formVars, leaving,
                   current, me, error>>

\* Deviation: setMe is not guarded by cancelled.
FinishLoadDeviation(l) ==
    /\ loads[l].state \in {"ok", "refused", "failed"}
    /\ loads' = [loads EXCEPT ![l].state = "done"]
    /\ me' = IF loads[l].state = "ok" /\ loads[l].at = visit THEN loads[l].user ELSE me
    /\ error' = IF loads[l].state # "ok" /\ loads[l].at = visit THEN loads[l].state ELSE error
    /\ UNCHANGED <<browserVars, sessionVars, routeVars, formVars, leaving, current>>

\* The rest of load(): an answer that is not ok sets the error whether or not
\* the load was cancelled; nothing is ever cleared. The state of a page that
\* was unmounted is gone.
FinishLoad(l) ==
    LET cancelled == l # current
        shown == loads[l].at = visit
    IN  /\ loads[l].state \in {"ok", "refused", "failed"}
        /\ loads' = [loads EXCEPT ![l].state = "done"]
        /\ me' = IF loads[l].state = "ok" /\ ~cancelled THEN loads[l].user ELSE me
        /\ error' = IF \/ loads[l].state = "refused" /\ shown
                       \/ loads[l].state = "failed" /\ ~cancelled
                    THEN loads[l].state ELSE error
        /\ UNCHANGED <<browserVars, sessionVars, routeVars, formVars, leaving, current>>

-----------------------------------------------------------------------------
(***************************************************************************)
(* The session of the tab.                                                 *)
(***************************************************************************)
\* Deviation: the effect does not depend on session.data.
RefetchDeviation ==
    /\ signal
    /\ signal' = FALSE
    /\ session' = [data |-> cookie, isPending |-> FALSE]
    /\ UNCHANGED <<browserVars, routeVars, formVars, leaving, pageVars>>

\* useSession asks the API again: data is another object each time, so the
\* effect of a mounted account page runs again, also for the same user.
Refetch ==
    /\ signal
    /\ signal' = FALSE
    /\ session' = [data |-> cookie, isPending |-> FALSE]
    /\ IF page = "me" THEN RunEffect(cookie, visit) ELSE UNCHANGED <<loads, current>>
    /\ UNCHANGED <<browserVars, routeVars, formVars, leaving, me, error>>

\* The tab gets the focus again.
Focus ==
    /\ Moved
    /\ signal' = TRUE
    /\ UNCHANGED <<accounts, cookie, session, routeVars, formVars, leaving, pageVars>>

\* Another tab signs in, up or out, or the session expires.
ChangeCookie ==
    /\ Moved
    /\ \/ cookie' = NoUser /\ UNCHANGED accounts
       \/ \E u \in Users : cookie' = u /\ accounts' = accounts \cup {u}
    /\ UNCHANGED <<sessionVars, routeVars, formVars, leaving, pageVars>>

-----------------------------------------------------------------------------
(***************************************************************************)
(* The forms. The submit button is disabled while a call is pending.       *)
(***************************************************************************)
\* Deviation: the error of the last attempt is not reset.
SubmitDeviation(call, u) ==
    /\ page = call
    /\ ~form.pending
    /\ Moved
    /\ form' = [form EXCEPT !.pending = TRUE]
    /\ attempts' = Append(attempts, [at |-> visit, call |-> call, user |-> u, state |-> "sent"])
    /\ UNCHANGED <<accounts, cookie, sessionVars, routeVars, leaving, pageVars>>

Submit(call, u) ==
    /\ page = call
    /\ ~form.pending
    /\ Moved
    /\ form' = [error |-> FALSE, pending |-> TRUE]
    /\ attempts' = Append(attempts, [at |-> visit, call |-> call, user |-> u, state |-> "sent"])
    /\ UNCHANGED <<accounts, cookie, sessionVars, routeVars, leaving, pageVars>>

handleSignIn(u) == Submit("sign-in", u)
handleSignUp(u) == Submit("sign-up", u)

\* Better Auth carries the call out, and the client is told or is not: a
\* session may be there although the call failed for its caller.
AnswerForm(a) ==
    LET u == attempts[a].user
        possible == IF attempts[a].call = "sign-in" THEN u \in accounts ELSE u \notin accounts
    IN  /\ attempts[a].state = "sent"
        /\ \/ /\ possible
              /\ accounts' = accounts \cup {u}
              /\ cookie' = u
              /\ \E outcome \in {"done", "failed"} :
                     attempts' = [attempts EXCEPT ![a].state = outcome]
           \/ /\ attempts' = [attempts EXCEPT ![a].state = "failed"]
              /\ UNCHANGED <<accounts, cookie>>
        /\ UNCHANGED <<moves, sessionVars, routeVars, form, leaving, pageVars>>

\* Deviation: no finally, so that a failed call leaves pending as it was.
FinishFormDeviation(a) ==
    LET done == attempts[a].state = "done"
    IN  /\ attempts[a].state \in {"done", "failed"}
        /\ attempts' = [attempts EXCEPT ![a].state = IF done THEN "accepted" ELSE "refused"]
        /\ form' = IF attempts[a].at = visit /\ done THEN FreshForm ELSE form
        /\ signal' = (signal \/ done)
        /\ target' = IF done THEN "me" ELSE target
        /\ UNCHANGED <<browserVars, session, page, visit, leaving, pageVars>>

\* The rest of handleSubmit. A success toggles the signal of the session and
\* goes to the account page; pending ends either way. A page that has been
\* left keeps nothing.
FinishForm(a) ==
    LET done == attempts[a].state = "done"
    IN  /\ attempts[a].state \in {"done", "failed"}
        /\ attempts' = [attempts EXCEPT ![a].state = IF done THEN "accepted" ELSE "refused"]
        /\ form' = IF attempts[a].at = visit THEN [error |-> ~done, pending |-> FALSE] ELSE form
        /\ signal' = (signal \/ done)
        /\ target' = IF done THEN "me" ELSE target
        /\ UNCHANGED <<browserVars, session, page, visit, leaving, pageVars>>

-----------------------------------------------------------------------------
\* handleSignOut: the button is there for a session that has a user.
handleSignOut ==
    /\ page = "me" /\ ~session.isPending /\ session.data # NoUser
    /\ ~leaving
    /\ Moved
    /\ leaving' = TRUE
    /\ UNCHANGED <<accounts, cookie, sessionVars, routeVars, formVars, pageVars>>

\* signOut() resolves with an error as well, which nothing reads: the page
\* goes to the form whether or not the session has ended. Only a rejection
\* keeps it where it is.
FinishSignOut ==
    /\ leaving
    /\ leaving' = FALSE
    /\ \/ cookie' = NoUser /\ signal' = TRUE /\ target' = "sign-in"
       \/ target' = "sign-in" /\ UNCHANGED <<cookie, signal>>
       \/ UNCHANGED <<cookie, signal, target>>
    /\ UNCHANGED <<accounts, moves, session, page, visit, formVars, pageVars>>

\* The forms link to each other, and the account page without a session to
\* both. These are plain anchors, not the router's: the document is loaded
\* anew and all the tab held is gone. (What its calls in flight still do at
\* the API is like another tab's doing.)
FollowLink ==
    /\ page = "me" => ~session.isPending /\ session.data = NoUser
    /\ Moved
    /\ page' \in Forms \ {page}
    /\ target' = page'
    /\ visit' = visit + 1
    /\ session' = [data |-> NoUser, isPending |-> TRUE]
    /\ signal' = TRUE
    /\ form' = FreshForm
    /\ attempts' = <<>> /\ loads' = <<>>
    /\ leaving' = FALSE
    /\ current' = 0 /\ me' = NoUser /\ error' = "none"
    /\ UNCHANGED <<accounts, cookie>>

\* The router shows the page pushed last: the old one is unmounted, the new
\* one starts afresh, and the effect of the account page runs for the session
\* the tab has at that moment.
Navigate ==
    /\ page # target
    /\ page' = target
    /\ visit' = visit + 1
    /\ form' = FreshForm
    /\ me' = NoUser
    /\ error' = "none"
    /\ IF target = "me" THEN RunEffect(session.data, visit + 1)
                        ELSE current' = 0 /\ UNCHANGED loads
    /\ UNCHANGED <<browserVars, sessionVars, target, attempts, leaving>>

Next ==
    \/ Refetch \/ Focus \/ ChangeCookie
    \/ \E l \in 1 .. Len(loads) : AnswerMe(l) \/ FinishLoad(l)
    \/ \E u \in Users : handleSignIn(u) \/ handleSignUp(u)
    \/ \E a \in 1 .. Len(attempts) : AnswerForm(a) \/ FinishForm(a)
    \/ handleSignOut \/ FinishSignOut \/ FollowLink \/ Navigate

Spec == Init /\ [][Next]_vars

\* The loads a behaviour can start: each needs a refetch or a mount.
Loads == 1 .. 2 * MaxMoves + 2
LoadGoesOn(l) == l <= Len(loads) /\ (AnswerMe(l) \/ FinishLoad(l))
AttemptGoesOn(a) == a <= Len(attempts) /\ (AnswerForm(a) \/ FinishForm(a))

\* The browser settles every request and runs what waits for it, the session
\* store does the refetch it owes, the router shows what was pushed. Users,
\* other tabs and the focus owe nothing.
FairSpec ==
    /\ Spec
    /\ WF_vars(Refetch) /\ WF_vars(Navigate) /\ WF_vars(FinishSignOut)
    /\ \A l \in Loads : WF_vars(LoadGoesOn(l))
    /\ \A a \in 1 .. MaxMoves : WF_vars(AttemptGoesOn(a))

-----------------------------------------------------------------------------
Load == [at : Nat, state : {"sent", "ok", "refused", "failed", "done"},
         user : Users \cup {NoUser}]
Attempt == [at : Nat, call : Forms, user : Users,
            state : {"sent", "done", "failed", "accepted", "refused"}]

\* Type invariant.
TypeOK ==
    /\ accounts \subseteq Users
    /\ cookie \in Users \cup {NoUser}
    /\ session \in [data : Users \cup {NoUser}, isPending : BOOLEAN]
    /\ signal \in BOOLEAN /\ leaving \in BOOLEAN
    /\ page \in Forms \cup {"me"} /\ target \in Forms \cup {"me"}
    /\ visit \in Nat
    /\ form \in [error : BOOLEAN, pending : BOOLEAN]
    /\ attempts \in Seq(Attempt)
    /\ loads \in Seq(Load)
    /\ current \in 0 .. Len(loads)
    /\ me \in Users \cup {NoUser}
    /\ error \in {"none", "refused", "failed"}
    /\ moves \in 0 .. MaxMoves

\* The profile shown is the one the API gave to the load for the session
\* shown, whatever loads for earlier sessions are answered later.
LiveLoadWins ==
    page = "me" /\ current # 0 /\ loads[current].state = "done" =>
        me = loads[current].user \/ (loads[current].user = NoUser /\ error # "none")

\* A form shows an error only of its last attempt, when that has ended.
FormErrorIsCurrent ==
    form.error => /\ ~form.pending
                  /\ attempts[Len(attempts)].state = "refused"
                  /\ attempts[Len(attempts)].at = visit

\* A form that waits is released, or left.
FormReleases == \A f \in Forms : page = f /\ form.pending ~> page # f \/ ~form.pending

\* The account page of a session does not stay at "Loading...".
ProfileOrError ==
    page = "me" /\ session.data # NoUser ~>
        me # NoUser \/ error # "none" \/ page # "me" \/ session.data = NoUser
=============================================================================
