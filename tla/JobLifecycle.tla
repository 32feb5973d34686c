---------------------------- MODULE JobLifecycle ----------------------------
(***************************************************************************)
(* What a job queue promises, without clocks, keys, ids or an order: a job *)
(* is given to one worker at a time and at most as often as its budget     *)
(* allows, it is given up only when the budget is spent, and its outcome   *)
(* is final. A job whose worker vanishes is lost with it.                  *)
(*                                                                         *)
(* JobQueue implements this specification when workers report once.        *)
(***************************************************************************)
EXTENDS Naturals

CONSTANTS Jobs, Workers, Budgets

VARIABLES
    phase,   \* where each job is in its life
    owners,  \* the workers running it
    left     \* how many more times it may be started

vars == <<phase, owners, left>>

Init ==
    /\ phase = [j \in Jobs |-> "none"]
    /\ owners = [j \in Jobs |-> {}]
    /\ left = [j \in Jobs |-> 0]

Submit(j, budget) ==
    /\ phase[j] = "none"
    /\ phase' = [phase EXCEPT ![j] = "waiting"]
    /\ left' = [left EXCEPT ![j] = budget]
    /\ UNCHANGED owners

Start(j, w) ==
    /\ phase[j] = "waiting"
    /\ left[j] > 0
    /\ \A i \in Jobs : w \notin owners[i]
    /\ phase' = [phase EXCEPT ![j] = "taken"]
    /\ owners' = [owners EXCEPT ![j] = {w}]
    /\ left' = [left EXCEPT ![j] = @ - 1]

\* The one worker that runs job j lets go of it.
Release(j) ==
    /\ phase[j] = "taken"
    /\ owners[j] # {}
    /\ owners' = [owners EXCEPT ![j] = {}]

Finish(j) ==
    /\ Release(j)
    /\ phase' = [phase EXCEPT ![j] = "done"]
    /\ UNCHANGED left

Retry(j) ==
    /\ Release(j)
    /\ left[j] > 0
    /\ phase' = [phase EXCEPT ![j] = "waiting"]
    /\ UNCHANGED left

GiveUp(j) ==
    /\ Release(j)
    /\ left[j] = 0
    /\ phase' = [phase EXCEPT ![j] = "dead"]
    /\ UNCHANGED left

Lose(j) ==
    /\ Release(j)
    /\ UNCHANGED <<phase, left>>

Next ==
    \E j \in Jobs :
        \/ \E budget \in Budgets : Submit(j, budget)
        \/ \E w \in Workers : Start(j, w)
        \/ Finish(j)
        \/ Retry(j)
        \/ GiveUp(j)
        \/ Lose(j)

Spec == Init /\ [][Next]_vars
=============================================================================
