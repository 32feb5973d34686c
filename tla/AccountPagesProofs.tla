------------------------- MODULE AccountPagesProofs -------------------------
(***************************************************************************)
(* Theorems about AccountPages, for any number of users and any number of  *)
(* things users and other tabs do.                                         *)
(***************************************************************************)
EXTENDS AccountPages, TLAPS

(***************************************************************************)
(* What the steps do to the calls under way: they append one or write one. *)
(***************************************************************************)
LEMMA AppendFacts ==
    ASSUME NEW S, NEW s \in Seq(S), NEW x \in S
    PROVE  /\ Append(s, x) \in Seq(S) /\ Len(Append(s, x)) = Len(s) + 1
           /\ \A i \in 1 .. Len(s) : Append(s, x)[i] = s[i]
           /\ Append(s, x)[Len(s) + 1] = x
  OBVIOUS

LEMMA UpdateFacts ==
    ASSUME NEW S, NEW s \in Seq(S), NEW i \in 1 .. Len(s), NEW x \in S
    PROVE  /\ [s EXCEPT ![i] = x] \in Seq(S) /\ Len([s EXCEPT ![i] = x]) = Len(s)
           /\ [s EXCEPT ![i] = x][i] = x
           /\ \A j \in 1 .. Len(s) : j # i => [s EXCEPT ![i] = x][j] = s[j]
  OBVIOUS

\* A run of the effect starts at most one load, and cancels the others.
LEMMA EffectFacts ==
    ASSUME loads \in Seq(Load), NEW data \in Users \cup {NoUser}, NEW at \in Nat,
           RunEffect(data, at)
    PROVE  /\ loads' \in Seq(Load) /\ current' \in 0 .. Len(loads')
           /\ Len(loads') >= Len(loads)
           /\ \A l \in 1 .. Len(loads) : loads'[l] = loads[l]
           /\ \A l \in 1 .. Len(loads') : l > Len(loads) =>
                  loads'[l] = [at |-> at, state |-> "sent", user |-> NoUser]
           /\ current' # 0 => current' = Len(loads) + 1
<1> DEFINE load == [at |-> at, state |-> "sent", user |-> NoUser]
<1>1. load \in Load
  BY DEF Load
<1> HIDE DEF load
<1>2. CASE data = NoUser
  BY <1>2 DEF RunEffect
<1>3. CASE data # NoUser
  <2>1. loads' = Append(loads, load) /\ current' = Len(loads) + 1
    BY <1>3 DEF RunEffect, load
  <2>2. /\ loads' \in Seq(Load) /\ Len(loads') = Len(loads) + 1
        /\ \A l \in 1 .. Len(loads) : loads'[l] = loads[l]
        /\ loads'[Len(loads) + 1] = load
    BY <1>1, <2>1, AppendFacts
  <2>3. QED
    BY <2>1, <2>2 DEF load
<1>4. QED
  BY <1>2, <1>3

\* An answer, or the rest of load(), writes one load.
LEMMA LoadFacts ==
    ASSUME TypeOK, NEW l \in 1 .. Len(loads), AnswerMe(l) \/ FinishLoad(l)
    PROVE  /\ loads' \in Seq(Load) /\ Len(loads') = Len(loads)
           /\ loads'[l].at = loads[l].at
           /\ AnswerMe(l) => /\ loads'[l].state \in {"ok", "refused", "failed"}
                             /\ loads'[l].state # "ok" => loads'[l].user = loads[l].user
           /\ FinishLoad(l) => /\ loads'[l].state = "done"
                               /\ loads'[l].user = loads[l].user
           /\ \A k \in 1 .. Len(loads) : k # l => loads'[k] = loads[k]
<1>1. loads \in Seq(Load) /\ loads[l] \in Load
  BY DEF TypeOK
<1>2. PICK x \in Load :
        /\ loads' = [loads EXCEPT ![l] = x]
        /\ x.at = loads[l].at
        /\ AnswerMe(l) => /\ x.state \in {"ok", "refused", "failed"}
                          /\ x.state # "ok" => x.user = loads[l].user
        /\ FinishLoad(l) => x.state = "done" /\ x.user = loads[l].user
  <2>1. CASE FinishLoad(l)
    <3>1. loads' = [loads EXCEPT ![l] = [loads[l] EXCEPT !.state = "done"]]
      BY <2>1 DEF FinishLoad
    <3>2. [loads[l] EXCEPT !.state = "done"] \in Load /\ ~AnswerMe(l)
      BY <1>1, <2>1 DEF Load, FinishLoad, AnswerMe
    <3>3. QED
      BY <1>1, <3>1, <3>2 DEF Load
  <2>2. CASE AnswerMe(l)
    <3>1. ~FinishLoad(l)
      BY <2>2 DEF FinishLoad, AnswerMe
    <3>2. CASE \E outcome \in {"refused", "failed"} :
                   loads' = [loads EXCEPT ![l] = [loads[l] EXCEPT !.state = outcome]]
      <4>1. \A outcome \in {"refused", "failed"} :
                [loads[l] EXCEPT !.state = outcome] \in Load
        BY <1>1 DEF Load
      <4>2. QED
        BY <1>1, <3>1, <3>2, <4>1 DEF Load
    <3>3. CASE loads' = [loads EXCEPT ![l] = [loads[l] EXCEPT !.state = "ok", !.user = cookie]]
      <4>1. [loads[l] EXCEPT !.state = "ok", !.user = cookie] \in Load
        BY <1>1 DEF Load, TypeOK
      <4>2. QED
        BY <1>1, <3>1, <3>3, <4>1 DEF Load
    <3>4. QED
      BY <2>2, <3>2, <3>3 DEF AnswerMe
  <2>3. QED
    BY <2>1, <2>2
<1>3. QED
  BY <1>1, <1>2, UpdateFacts

\* The same for the calls of the forms.
LEMMA AttemptFacts ==
    ASSUME TypeOK, NEW a \in 1 .. Len(attempts), AnswerForm(a) \/ FinishForm(a)
    PROVE  /\ attempts' \in Seq(Attempt) /\ Len(attempts') = Len(attempts)
           /\ attempts'[a].at = attempts[a].at
           /\ AnswerForm(a) => attempts'[a].state \in {"done", "failed"}
           /\ FinishForm(a) =>
                  attempts'[a].state = IF attempts[a].state = "done" THEN "accepted"
                                                                     ELSE "refused"
           /\ \A b \in 1 .. Len(attempts) : b # a => attempts'[b] = attempts[b]
<1>1. attempts \in Seq(Attempt) /\ attempts[a] \in Attempt
  BY DEF TypeOK
<1>2. PICK state \in {"done", "failed", "accepted", "refused"} :
        /\ attempts' = [attempts EXCEPT ![a] = [attempts[a] EXCEPT !.state = state]]
        /\ AnswerForm(a) => state \in {"done", "failed"}
        /\ FinishForm(a) =>
               state = IF attempts[a].state = "done" THEN "accepted" ELSE "refused"
  BY DEF AnswerForm, FinishForm
<1>3. /\ [attempts[a] EXCEPT !.state = state] \in Attempt
      /\ [attempts[a] EXCEPT !.state = state].state = state
      /\ [attempts[a] EXCEPT !.state = state].at = attempts[a].at
  BY <1>1 DEF Attempt
<1>4. QED
  BY <1>1, <1>2, <1>3, UpdateFacts

LEMMA SubmitFacts ==
    ASSUME TypeOK, NEW call \in Forms, NEW u \in Users, Submit(call, u)
    PROVE  /\ attempts' \in Seq(Attempt) /\ Len(attempts') = Len(attempts) + 1
           /\ attempts'[Len(attempts) + 1].at = visit
           /\ attempts'[Len(attempts) + 1].state = "sent"
           /\ \A a \in 1 .. Len(attempts) : attempts'[a] = attempts[a]
<1> DEFINE attempt == [at |-> visit, call |-> call, user |-> u, state |-> "sent"]
<1>1. attempt \in Attempt
  BY DEF Attempt, TypeOK
<1>2. attempt.at = visit /\ attempt.state = "sent"
  OBVIOUS
<1>3. attempts' = Append(attempts, attempt) /\ attempts \in Seq(Attempt)
  BY DEF Submit, TypeOK
<1> HIDE DEF attempt
<1>4. QED
  BY <1>1, <1>2, <1>3, AppendFacts

-----------------------------------------------------------------------------
LEMMA TypeStep == TypeOK /\ [Next]_vars => TypeOK'
<1> SUFFICES ASSUME TypeOK, [Next]_vars PROVE TypeOK'
  OBVIOUS
<1>1. Moved => moves' \in 0 .. MaxMoves
  BY PagesAssumption DEF Moved, TypeOK
<1>2. CASE Refetch
  <2>1. session' \in [data : Users \cup {NoUser}, isPending : BOOLEAN]
    BY <1>2 DEF Refetch, TypeOK
  <2>2. loads' \in Seq(Load) /\ current' \in 0 .. Len(loads')
    BY <1>2, EffectFacts DEF Refetch, TypeOK
  <2>3. QED
    BY <1>2, <2>1, <2>2 DEF Refetch, browserVars, routeVars, formVars, TypeOK
<1>3. CASE Focus
  BY <1>1, <1>3 DEF Focus, routeVars, formVars, pageVars, TypeOK
<1>4. CASE ChangeCookie
  BY <1>1, <1>4 DEF ChangeCookie, sessionVars, routeVars, formVars, pageVars, TypeOK
<1>5. ASSUME NEW l \in 1 .. Len(loads), AnswerMe(l) \/ FinishLoad(l) PROVE TypeOK'
  <2>1. loads' \in Seq(Load) /\ Len(loads') = Len(loads)
    BY <1>5, LoadFacts
  <2>2. /\ me' \in Users \cup {NoUser} /\ error' \in {"none", "refused", "failed"}
        /\ current' = current
    <3>1. loads[l] \in Load
      BY DEF TypeOK
    <3>2. QED
      BY <1>5, <3>1 DEF AnswerMe, FinishLoad, Load, TypeOK
  <2>3. QED
    BY <1>5, <2>1, <2>2
    DEF AnswerMe, FinishLoad, browserVars, sessionVars, routeVars, formVars, TypeOK
<1>6. ASSUME NEW call \in Forms, NEW u \in Users, Submit(call, u) PROVE TypeOK'
  <2>1. attempts' \in Seq(Attempt)
    BY <1>6, SubmitFacts
  <2>2. QED
    BY <1>1, <1>6, <2>1 DEF Submit, sessionVars, routeVars, pageVars, TypeOK
<1>7. ASSUME NEW a \in 1 .. Len(attempts), AnswerForm(a) PROVE TypeOK'
  <2>1. attempts' \in Seq(Attempt)
    BY <1>7, AttemptFacts
  <2>2. attempts[a].user \in Users
    <3>1. attempts[a] \in Attempt
      BY DEF TypeOK
    <3>2. QED
      BY <3>1 DEF Attempt
  <2>3. QED
    BY <1>7, <2>1, <2>2 DEF AnswerForm, sessionVars, routeVars, pageVars, TypeOK
<1>8. ASSUME NEW a \in 1 .. Len(attempts), FinishForm(a) PROVE TypeOK'
  <2>1. attempts' \in Seq(Attempt)
    BY <1>8, AttemptFacts
  <2>2. form' \in [error : BOOLEAN, pending : BOOLEAN] /\ signal' \in BOOLEAN
        /\ target' \in Forms \cup {"me"}
    BY <1>8 DEF FinishForm, TypeOK
  <2>3. QED
    BY <1>8, <2>1, <2>2 DEF FinishForm, browserVars, pageVars, TypeOK
<1>9. CASE handleSignOut
  BY <1>1, <1>9 DEF handleSignOut, sessionVars, routeVars, formVars, pageVars, TypeOK
<1>10. CASE FinishSignOut
  <2>1. cookie' \in Users \cup {NoUser} /\ signal' \in BOOLEAN /\ leaving' \in BOOLEAN
    BY <1>10 DEF FinishSignOut, TypeOK
  <2>2. target' \in Forms \cup {"me"}
    BY <1>10 DEF FinishSignOut, Forms, TypeOK
  <2>3. UNCHANGED <<accounts, moves, session, page, visit, form, attempts, loads, current,
                    me, error>>
    BY <1>10 DEF FinishSignOut, formVars, pageVars
  <2>4. QED
    BY <2>1, <2>2, <2>3 DEF TypeOK
<1>11. CASE FollowLink
  <2>1. attempts' \in Seq(Attempt) /\ loads' \in Seq(Load) /\ Len(loads') = 0
    BY <1>11 DEF FollowLink
  <2>2. current' \in 0 .. Len(loads')
    BY <1>11, <2>1 DEF FollowLink
  <2>3. /\ page' \in Forms \cup {"me"} /\ target' \in Forms \cup {"me"} /\ visit' \in Nat
        /\ moves' \in 0 .. MaxMoves
    BY <1>1, <1>11 DEF FollowLink, TypeOK
  <2>4. /\ session' \in [data : Users \cup {NoUser}, isPending : BOOLEAN]
        /\ form' \in [error : BOOLEAN, pending : BOOLEAN]
    BY <1>11 DEF FollowLink, FreshForm
  <2>5. QED
    BY <1>11, <2>1, <2>2, <2>3, <2>4 DEF FollowLink, TypeOK
<1>12. CASE Navigate
  <2>1. visit + 1 \in Nat /\ session.data \in Users \cup {NoUser}
    BY DEF TypeOK
  <2>2. loads' \in Seq(Load) /\ current' \in 0 .. Len(loads')
    <3>1. CASE target = "me"
      <4>1. RunEffect(session.data, visit + 1)
        BY <1>12, <3>1 DEF Navigate
      <4>2. QED
        BY <2>1, <4>1, EffectFacts DEF TypeOK
    <3>2. CASE target # "me"
      BY <1>12, <3>2 DEF Navigate, TypeOK
    <3>3. QED
      BY <3>1, <3>2
  <2>3. form' \in [error : BOOLEAN, pending : BOOLEAN]
    BY <1>12 DEF Navigate, FreshForm
  <2>4. QED
    BY <1>12, <2>1, <2>2, <2>3 DEF Navigate, browserVars, sessionVars, TypeOK
<1>13. CASE UNCHANGED vars
  BY <1>13 DEF vars, browserVars, sessionVars, routeVars, formVars, pageVars, TypeOK
<1>14. QED
  BY <1>2, <1>3, <1>4, <1>5, <1>6, <1>7, <1>8, <1>9, <1>10, <1>11, <1>12, <1>13
  DEF Next, handleSignIn, handleSignUp, Forms

LEMMA TypeInit == Init => TypeOK
<1> SUFFICES ASSUME Init PROVE TypeOK
  OBVIOUS
<1>1. attempts \in Seq(Attempt) /\ loads \in Seq(Load) /\ Len(loads) = 0
  BY DEF Init
<1>2. current \in 0 .. Len(loads) /\ moves \in 0 .. MaxMoves /\ visit \in Nat
  BY <1>1, PagesAssumption DEF Init
<1>3. form \in [error : BOOLEAN, pending : BOOLEAN]
  BY DEF Init, FreshForm
<1>4. /\ accounts \subseteq Users /\ cookie \in Users \cup {NoUser}
      /\ session \in [data : Users \cup {NoUser}, isPending : BOOLEAN]
  BY PagesAssumption DEF Init
<1>5. QED
  BY <1>1, <1>2, <1>3, <1>4 DEF Init, TypeOK

\* Every variable keeps its type.
THEOREM TypeCorrect == Spec => []TypeOK
  BY TypeInit, TypeStep, PTL DEF Spec

-----------------------------------------------------------------------------
(***************************************************************************)
(* The account page. An answer that was not ok carries no user, and the    *)
(* load that is not cancelled belongs to the page shown, so that its error *)
(* is not lost.                                                            *)
(***************************************************************************)
LoadInv ==
    /\ \A l \in 1 .. Len(loads) :
           loads[l].state \in {"sent", "refused", "failed"} => loads[l].user = NoUser
    /\ page = "me" /\ current # 0 => loads[current].at = visit
    /\ LiveLoadWins

LEMMA LoadStep == TypeOK /\ LoadInv /\ [Next]_vars => LoadInv'
<1> SUFFICES ASSUME TypeOK, LoadInv, [Next]_vars PROVE LoadInv'
  OBVIOUS
<1>1. ASSUME UNCHANGED <<loads, current, page, visit, me, error>> PROVE LoadInv'
  BY <1>1 DEF LoadInv, LiveLoadWins
<1>2. ASSUME NEW data \in Users \cup {NoUser}, NEW at \in Nat,
             RunEffect(data, at), visit' = at
      PROVE  LoadInv'
  <2>1. /\ Len(loads') >= Len(loads)
        /\ \A l \in 1 .. Len(loads) : loads'[l] = loads[l]
        /\ \A l \in 1 .. Len(loads') : l > Len(loads) =>
               loads'[l] = [at |-> at, state |-> "sent", user |-> NoUser]
        /\ current' # 0 => current' = Len(loads) + 1
        /\ current' \in 0 .. Len(loads') /\ Len(loads) \in Nat
    BY <1>2, EffectFacts DEF TypeOK
  <2>2. \A l \in 1 .. Len(loads') :
            loads'[l].state \in {"sent", "refused", "failed"} => loads'[l].user = NoUser
    BY <2>1 DEF LoadInv
  <2>3. current' # 0 => loads'[current'].at = visit' /\ loads'[current'].state = "sent"
    BY <1>2, <2>1
  <2>4. QED
    BY <2>2, <2>3 DEF LoadInv, LiveLoadWins
<1>3. CASE Refetch
  <2>1. CASE page = "me"
    BY <1>2, <1>3, <2>1 DEF Refetch, routeVars, TypeOK
  <2>2. CASE page # "me"
    BY <1>3, <2>2 DEF Refetch, routeVars, LoadInv, LiveLoadWins
  <2>3. QED
    BY <2>1, <2>2
<1>4. ASSUME NEW l \in 1 .. Len(loads), AnswerMe(l) PROVE LoadInv'
  <2>1. /\ Len(loads') = Len(loads) /\ loads'[l].at = loads[l].at
        /\ loads'[l].state \in {"ok", "refused", "failed"}
        /\ loads'[l].state # "ok" => loads'[l].user = loads[l].user
        /\ \A k \in 1 .. Len(loads) : k # l => loads'[k] = loads[k]
    BY <1>4, LoadFacts
  <2>2. loads[l].user = NoUser
    BY <1>4 DEF AnswerMe, LoadInv
  <2>3. UNCHANGED <<current, page, visit, me, error>>
    BY <1>4 DEF AnswerMe, routeVars
  <2>4. current # 0 => current \in 1 .. Len(loads)
    BY DEF TypeOK
  <2>5. LiveLoadWins'
    BY <2>1, <2>3, <2>4 DEF LoadInv, LiveLoadWins
  <2>6. QED
    BY <2>1, <2>2, <2>3, <2>4, <2>5 DEF LoadInv
<1>5. ASSUME NEW l \in 1 .. Len(loads), FinishLoad(l) PROVE LoadInv'
  <2>1. /\ Len(loads') = Len(loads) /\ loads'[l].at = loads[l].at
        /\ loads'[l].state = "done" /\ loads'[l].user = loads[l].user
        /\ \A k \in 1 .. Len(loads) : k # l => loads'[k] = loads[k]
    BY <1>5, LoadFacts
  <2>2. UNCHANGED <<current, page, visit>>
    BY <1>5 DEF FinishLoad, routeVars
  <2>3. current # 0 => current \in 1 .. Len(loads)
    BY DEF TypeOK
  <2>4. LiveLoadWins'
    <3>1. CASE l = current
      <4>1. l # 0 /\ loads[l].state \in {"ok", "refused", "failed"}
        BY <1>5 DEF FinishLoad
      <4>2. ASSUME page = "me"
            PROVE  me' = loads[l].user \/ (loads[l].user = NoUser /\ error' # "none")
        <5>1. loads[l].at = visit
          BY <3>1, <4>1, <4>2 DEF LoadInv
        <5>2. CASE loads[l].state = "ok"
          <6>1. me' = loads[l].user
            BY <1>5, <3>1, <5>2 DEF FinishLoad
          <6>2. QED
            BY <6>1
        <5>3. CASE loads[l].state \in {"refused", "failed"}
          <6>1. loads[l].user = NoUser
            BY <5>3 DEF LoadInv
          <6>2. error' = loads[l].state
            BY <1>5, <3>1, <5>1, <5>3 DEF FinishLoad
          <6>3. QED
            BY <5>3, <6>1, <6>2
        <5>4. QED
          BY <4>1, <5>2, <5>3
      <4>3. QED
        BY <2>1, <2>2, <3>1, <4>2 DEF LiveLoadWins
    <3>2. CASE l # current
      <4>1. me' = me /\ (error # "none" => error' # "none")
        BY <1>5, <3>2 DEF FinishLoad
      <4>2. QED
        BY <2>1, <2>2, <2>3, <3>2, <4>1 DEF LoadInv, LiveLoadWins
    <3>3. QED
      BY <3>1, <3>2
  <2>5. QED
    BY <2>1, <2>2, <2>3, <2>4 DEF LoadInv
<1>6. CASE Navigate
  <2>1. CASE target = "me"
    BY <1>2, <1>6, <2>1 DEF Navigate, sessionVars, TypeOK
  <2>2. CASE target # "me"
    BY <1>6, <2>2 DEF Navigate, LoadInv, LiveLoadWins
  <2>3. QED
    BY <2>1, <2>2
<1>7. CASE FollowLink
  <2>1. Len(loads') = 0 /\ current' = 0
    BY <1>7 DEF FollowLink
  <2>2. QED
    BY <2>1 DEF LoadInv, LiveLoadWins
<1>8. QED
  BY <1>1, <1>3, <1>4, <1>5, <1>6, <1>7
  DEF Next, Focus, ChangeCookie, handleSignIn, handleSignUp, Submit, AnswerForm,
      FinishForm, handleSignOut, FinishSignOut, vars, routeVars, pageVars

\* Whatever earlier loads are answered late, and however often the session of
\* the tab changes: once the load for the session shown has ended, the page
\* shows what the API answered to that load, or an error.
THEOREM ProfileIsCurrent == Spec => []LiveLoadWins
<1>1. Init => LoadInv
  BY DEF Init, LoadInv, LiveLoadWins
<1>2. LoadInv => LiveLoadWins
  BY DEF LoadInv
<1>3. QED
  BY <1>1, <1>2, TypeCorrect, LoadStep, PTL DEF Spec

-----------------------------------------------------------------------------
(***************************************************************************)
(* The forms. The disabled button makes the call under way the last one of *)
(* its page; calls of pages that were left do not touch the form shown.    *)
(***************************************************************************)
FormInv ==
    /\ \A a \in 1 .. Len(attempts) :
           /\ attempts[a].at <= visit
           /\ attempts[a].at = visit /\ attempts[a].state \in {"sent", "done", "failed"} =>
                  a = Len(attempts) /\ form.pending
    /\ FormErrorIsCurrent

LEMMA FormStep == TypeOK /\ FormInv /\ [Next]_vars => FormInv'
<1> SUFFICES ASSUME TypeOK, FormInv, [Next]_vars PROVE FormInv'
  OBVIOUS
<1>1. /\ Len(attempts) \in Nat /\ visit \in Nat
      /\ \A a \in 1 .. Len(attempts) : attempts[a] \in Attempt
  BY DEF TypeOK
<1>2. ASSUME UNCHANGED <<attempts, form, visit>> PROVE FormInv'
  BY <1>2 DEF FormInv, FormErrorIsCurrent
<1>3. ASSUME NEW call \in Forms, NEW u \in Users, Submit(call, u) PROVE FormInv'
  <2>1. /\ Len(attempts') = Len(attempts) + 1
        /\ attempts'[Len(attempts) + 1].at = visit
        /\ \A a \in 1 .. Len(attempts) : attempts'[a] = attempts[a]
    BY <1>3, SubmitFacts
  <2>2. ~form.pending /\ form'.pending /\ ~form'.error /\ visit' = visit
    BY <1>3 DEF Submit, routeVars
  <2>3. QED
    BY <1>1, <2>1, <2>2 DEF FormInv, FormErrorIsCurrent
<1>4. ASSUME NEW a \in 1 .. Len(attempts), AnswerForm(a) PROVE FormInv'
  <2>1. /\ Len(attempts') = Len(attempts) /\ attempts'[a].at = attempts[a].at
        /\ \A b \in 1 .. Len(attempts) : b # a => attempts'[b] = attempts[b]
    BY <1>4, AttemptFacts
  <2>2. attempts[a].state = "sent" /\ UNCHANGED <<form, visit>>
    BY <1>4 DEF AnswerForm, routeVars
  <2>3. \A b \in 1 .. Len(attempts') :
            /\ attempts'[b].at <= visit
            /\ attempts'[b].at = visit /\ attempts'[b].state \in {"sent", "done", "failed"}
               => b = Len(attempts) /\ form.pending
    BY <2>1, <2>2 DEF FormInv
  <2>4. FormErrorIsCurrent'
    <3>1. ASSUME form.error PROVE a # Len(attempts)
      BY <2>2, <3>1 DEF FormInv, FormErrorIsCurrent
    <3>2. form.error => Len(attempts) \in 1 .. Len(attempts)
      BY <1>1
    <3>3. QED
      BY <2>1, <2>2, <3>1, <3>2 DEF FormInv, FormErrorIsCurrent
  <2>5. QED
    BY <2>1, <2>2, <2>3, <2>4 DEF FormInv
<1>5. ASSUME NEW a \in 1 .. Len(attempts), FinishForm(a) PROVE FormInv'
  <2>1. /\ Len(attempts') = Len(attempts) /\ attempts'[a].at = attempts[a].at
        /\ attempts'[a].state = IF attempts[a].state = "done" THEN "accepted" ELSE "refused"
        /\ \A b \in 1 .. Len(attempts) : b # a => attempts'[b] = attempts[b]
    BY <1>5, AttemptFacts
  <2>2. attempts[a].state \in {"done", "failed"} /\ visit' = visit
    BY <1>5 DEF FinishForm
  <2>3. CASE attempts[a].at = visit
    <3>1. a = Len(attempts)
      BY <2>2, <2>3 DEF FormInv
    <3>2. form'.error <=> attempts[a].state # "done"
      BY <1>5, <2>3 DEF FinishForm
    <3>3. ~form'.pending
      BY <1>5, <2>3 DEF FinishForm
    <3>4. \A b \in 1 .. Len(attempts') :
              /\ attempts'[b].at <= visit
              /\ ~(attempts'[b].at = visit
                   /\ attempts'[b].state \in {"sent", "done", "failed"})
      BY <2>1, <3>1 DEF FormInv
    <3>5. FormErrorIsCurrent'
      BY <2>1, <2>2, <2>3, <3>1, <3>2, <3>3 DEF FormErrorIsCurrent
    <3>6. QED
      BY <2>2, <3>4, <3>5 DEF FormInv
  <2>4. CASE attempts[a].at # visit
    <3>1. form' = form
      BY <1>5, <2>4 DEF FinishForm
    <3>2. form.error => Len(attempts) # a
      BY <2>4 DEF FormInv, FormErrorIsCurrent
    <3>3. FormErrorIsCurrent'
      BY <1>1, <2>1, <2>2, <3>1, <3>2 DEF FormInv, FormErrorIsCurrent
    <3>4. \A b \in 1 .. Len(attempts') :
              /\ attempts'[b].at <= visit
              /\ attempts'[b].at = visit /\ attempts'[b].state \in {"sent", "done", "failed"}
                 => b = Len(attempts) /\ form.pending
      BY <2>1, <2>4 DEF FormInv
    <3>5. QED
      BY <2>1, <2>2, <3>1, <3>3, <3>4 DEF FormInv
  <2>5. QED
    BY <2>3, <2>4
<1>6. CASE Navigate
  <2>1. form' = FreshForm /\ visit' = visit + 1 /\ attempts' = attempts
    BY <1>6 DEF Navigate
  <2>2. \A a \in 1 .. Len(attempts) : attempts[a].at < visit'
    BY <1>1, <2>1 DEF FormInv, Attempt
  <2>3. QED
    BY <1>1, <2>1, <2>2 DEF FormInv, FormErrorIsCurrent, FreshForm, Attempt
<1>7. CASE FollowLink
  <2>1. Len(attempts') = 0 /\ ~form'.error
    BY <1>7 DEF FollowLink, FreshForm
  <2>2. QED
    BY <2>1 DEF FormInv, FormErrorIsCurrent
<1>8. QED
  BY <1>2, <1>3, <1>4, <1>5, <1>6, <1>7
  DEF Next, Refetch, Focus, ChangeCookie, handleSignIn, handleSignUp, Forms, AnswerMe,
      FinishLoad, handleSignOut, FinishSignOut, vars, routeVars, formVars

\* The error a form shows is that of its last attempt, which has ended: no
\* late answer of an earlier one, or of a page that was left, puts it there.
THEOREM ErrorIsCurrent == Spec => []FormErrorIsCurrent
<1>1. Init => FormInv
  BY DEF Init, FormInv, FormErrorIsCurrent, FreshForm
<1>2. FormInv => FormErrorIsCurrent
  BY DEF FormInv
<1>3. QED
  BY <1>1, <1>2, TypeCorrect, FormStep, PTL DEF Spec
=============================================================================
