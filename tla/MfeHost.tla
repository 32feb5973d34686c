------------------------------ MODULE MfeHost ------------------------------
(***************************************************************************)
(* The micro frontend host (apps/mfe-host) and the remotes it composes at  *)
(* run time (apps/mfe-dashboard, packages/mfe): a run of the host's effect *)
(* fetches the manifest, imports the entry script it names and shows the   *)
(* custom element it declares. StrictMode and fast refresh end a run and   *)
(* start the next one, in the same page and with the same state.           *)
(*                                                                         *)
(* Remotes are deployed by another team: each run may be answered with     *)
(* another manifest. Scripts stay in the page, tags stay registered.       *)
(***************************************************************************)
EXTENDS Naturals, FiniteSets

CONSTANTS MaxRuns,     \* bound on the runs of the effect
          Manifests,   \* what the manifest URL may answer: [tag, entry]
          Entries,     \* the entry scripts, and
          Registers,   \* the tag the script of each entry registers
          NoManifest   \* the manifest of a run that has none yet

ASSUME HostAssumption ==
    /\ MaxRuns \in Nat \ {0}
    /\ \A m \in Manifests : m.entry \in Entries /\ m.tag # NoManifest
    /\ NoManifest \notin Manifests
    /\ \A e \in Entries : Registers[e] # NoManifest

Runs == 1 .. MaxRuns

VARIABLES run,        \* the run whose cleanup has not been called
          phase,      \* how far each run has come
          manifest,   \* the manifest each run has parsed
          script,     \* the script element of each entry, and the run waiting for it
          remote,     \* RemoteState as last set, and the run that set it
          shown,      \* the state React has committed
          slot,       \* the element createElement(elementTag) stands for
          roots,      \* React roots the remotes keep alive
          moved,      \* the element was taken out and put back once
          listeners,  \* the runs whose onReady listens on window
          announced,  \* ready events that reached window
          relayed     \* repo:mfe-host:remote-ready events the host dispatched

pageVars == <<run, phase, manifest, script>>
elementVars == <<slot, roots, announced, relayed>>
vars == <<pageVars, remote, shown, elementVars, moved, listeners>>

Loading == [status |-> "loading", manifest |-> NoManifest, by |-> 0]
Ready(r, m) == [status |-> "ready", manifest |-> m, by |-> r]
Failed(r) == [status |-> "error", manifest |-> NoManifest, by |-> r]

\* signal.aborted: the cleanup of a run is called before the next one starts.
aborted(r) == r < run

Defined == {Registers[e] : e \in {e \in Entries : script[e].state = "loaded"}}

NoElement == [tag |-> NoManifest, state |-> "none"]

Init ==
    /\ run = 1
    /\ phase = [r \in Runs |-> IF r = 1 THEN "fetching" ELSE "none"]
    /\ manifest = [r \in Runs |-> NoManifest]
    /\ script = [e \in Entries |-> [state |-> "absent", owner |-> 0]]
    /\ remote = Loading
    /\ shown = Loading
    /\ slot = NoElement
    /\ roots = 0
    /\ moved = FALSE
    /\ listeners = {1}
    /\ announced = 0
    /\ relayed = 0

-----------------------------------------------------------------------------
(***************************************************************************)
(* The custom element and the events of the remote.                        *)
(***************************************************************************)
\* n ready events reach window; every onReady that listens relays each.
dispatchReady(n) ==
    /\ announced' = announced + n
    /\ relayed' = relayed + n * Cardinality(listeners)

\* Deviation: disconnectedCallback forgets the root without unmounting it.
disconnectedCallbackDeviation(element) == 0

\* disconnectedCallback unmounts the root of an element that has one.
disconnectedCallback(element) == IF element.state = "mounted" THEN 1 ELSE 0

\* An element of a registered tag renders and announces itself when it is
\* connected; one of an unknown tag waits for the tag to be registered.
Created(tag) == [tag |-> tag, state |-> IF tag \in Defined THEN "mounted" ELSE "plain"]

\* A host takes the element out of the document and puts it back: the second
\* attachShadow throws, after the root of the first has been unmounted.
Move ==
    /\ slot.state = "mounted"
    /\ ~moved
    /\ moved' = TRUE
    /\ slot' = [slot EXCEPT !.state = "empty"]
    /\ roots' = roots - disconnectedCallback(slot)
    /\ UNCHANGED <<pageVars, remote, shown, listeners, announced, relayed>>

-----------------------------------------------------------------------------
(***************************************************************************)
(* The effects of the host.                                                *)
(***************************************************************************)
\* Deviation: the effect of the relay has no cleanup.
RerunDeviation ==
    /\ run < MaxRuns
    /\ run' = run + 1
    /\ phase' = [phase EXCEPT ![run] = IF @ = "fetching" THEN "settled" ELSE @,
                              ![run + 1] = "fetching"]
    /\ listeners' = listeners \cup {run + 1}
    /\ UNCHANGED <<manifest, script, remote, shown, elementVars, moved>>

\* Both cleanups, then both effects again. The pending fetch of the old run
\* rejects, which its catch ignores; an import it waits for goes on.
Rerun ==
    /\ run < MaxRuns
    /\ run' = run + 1
    /\ phase' = [phase EXCEPT ![run] = IF @ = "fetching" THEN "settled" ELSE @,
                              ![run + 1] = "fetching"]
    /\ listeners' = (listeners \ {run}) \cup {run + 1}
    /\ UNCHANGED <<manifest, script, remote, shown, elementVars, moved>>

\* A request that fails, is not ok, or answers what the schema refuses.
ManifestFails(r) ==
    /\ phase[r] = "fetching"
    /\ phase' = [phase EXCEPT ![r] = "settled"]
    /\ remote' = Failed(r)
    /\ UNCHANGED <<run, manifest, script, shown, elementVars, moved, listeners>>

\* Deviation: the import settles when the script has been appended.
importRemoteEntryDeviation1(r, m) ==
    /\ phase' = [phase EXCEPT ![r] = "settled"]
    /\ remote' = Ready(r, m)
    /\ script' = IF script[m.entry].state # "absent" THEN script
                 ELSE [script EXCEPT ![m.entry] = [state |-> "loading", owner |-> r]]

\* Deviation: a script element that exists is waited for as well, also when
\* its load or error event has been and gone.
importRemoteEntryDeviation2(r, m) ==
    /\ phase' = [phase EXCEPT ![r] = "importing"]
    /\ script' = IF script[m.entry].state # "absent" THEN script
                 ELSE [script EXCEPT ![m.entry] = [state |-> "loading", owner |-> r]]
    /\ UNCHANGED remote

\* importRemoteEntry: a script element of the entry that exists already, in
\* whatever state, settles the import; otherwise one is appended.
importRemoteEntry(r, m) ==
    IF script[m.entry].state # "absent"
    THEN /\ phase' = [phase EXCEPT ![r] = "settled"]
         /\ remote' = Ready(r, m)
         /\ UNCHANGED script
    ELSE /\ phase' = [phase EXCEPT ![r] = "importing"]
         /\ script' = [script EXCEPT ![m.entry] = [state |-> "loading", owner |-> r]]
         /\ UNCHANGED remote

ManifestArrives(r, m) ==
    /\ phase[r] = "fetching"
    /\ manifest' = [manifest EXCEPT ![r] = m]
    /\ importRemoteEntry(r, m)
    /\ UNCHANGED <<run, shown, elementVars, moved, listeners>>

\* The module of the remote is evaluated: it registers its tag unless that is
\* taken, which upgrades an element that waits for it, and announces itself.
\* Then the load event lets the run that appended the script go on.
ScriptLoads(e) ==
    LET r == script[e].owner
        upgrades == slot.state = "plain" /\ slot.tag = Registers[e]
    IN  /\ script[e].state = "loading"
        /\ script' = [script EXCEPT ![e].state = "loaded"]
        /\ slot' = IF upgrades THEN [slot EXCEPT !.state = "mounted"] ELSE slot
        /\ roots' = IF upgrades THEN roots + 1 ELSE roots
        /\ dispatchReady(IF upgrades THEN 2 ELSE 1)
        /\ phase' = [phase EXCEPT ![r] = "settled"]
        /\ remote' = Ready(r, manifest[r])
        /\ UNCHANGED <<run, manifest, shown, moved, listeners>>

\* Deviation: the catch does not look at signal.aborted.
ScriptFailsDeviation(e) ==
    LET r == script[e].owner
    IN  /\ script[e].state = "loading"
        /\ script' = [script EXCEPT ![e].state = "failed"]
        /\ phase' = [phase EXCEPT ![r] = "settled"]
        /\ remote' = Failed(r)
        /\ UNCHANGED <<run, manifest, shown, elementVars, moved, listeners>>

\* The element of a script that failed stays in the head.
ScriptFails(e) ==
    LET r == script[e].owner
    IN  /\ script[e].state = "loading"
        /\ script' = [script EXCEPT ![e].state = "failed"]
        /\ phase' = [phase EXCEPT ![r] = "settled"]
        /\ remote' = IF aborted(r) THEN remote ELSE Failed(r)
        /\ UNCHANGED <<run, manifest, shown, elementVars, moved, listeners>>

\* React commits the last RemoteState: RemoteSlot keeps an element whose tag
\* has not changed, and replaces or removes any other.
Commit ==
    LET wanted == IF remote.status = "ready" THEN remote.manifest.tag ELSE NoManifest
        new == IF wanted = NoManifest THEN NoElement ELSE Created(wanted)
        mounts == IF new.state = "mounted" THEN 1 ELSE 0
    IN  /\ shown # remote
        /\ shown' = remote
        /\ IF wanted = slot.tag THEN UNCHANGED elementVars
           ELSE /\ slot' = new
                /\ roots' = roots - disconnectedCallback(slot) + mounts
                /\ dispatchReady(mounts)
        /\ UNCHANGED <<pageVars, remote, moved, listeners>>

Answer(r) == ManifestFails(r) \/ \E m \in Manifests : ManifestArrives(r, m)
Settle(e) == ScriptLoads(e) \/ ScriptFails(e)

Next ==
    \/ Rerun \/ Move \/ Commit
    \/ \E r \in Runs : Answer(r)
    \/ \E e \in Entries : Settle(e)

Spec == Init /\ [][Next]_vars

\* The browser settles every fetch and every script, and React commits.
FairSpec ==
    /\ Spec
    /\ WF_vars(Commit)
    /\ \A r \in Runs : WF_vars(Answer(r))
    /\ \A e \in Entries : WF_vars(Settle(e))

-----------------------------------------------------------------------------
\* Everything has its type.
TypeOK ==
    /\ run \in Runs
    /\ phase \in [Runs -> {"none", "fetching", "importing", "settled"}]
    /\ manifest \in [Runs -> Manifests \cup {NoManifest}]
    /\ script \in [Entries -> [state : {"absent", "loading", "loaded", "failed"},
                               owner : Runs \cup {0}]]
    /\ {remote, shown} \subseteq [status : {"loading", "ready", "error"},
                                  manifest : Manifests \cup {NoManifest}, by : Runs \cup {0}]
    /\ slot \in [tag : {m.tag : m \in Manifests} \cup {NoManifest},
                 state : {"none", "plain", "mounted", "empty"}]
    /\ {roots, announced, relayed} \subseteq Nat
    /\ moved \in BOOLEAN
    /\ listeners \subseteq Runs

\* "REMOTE READY" is said of a script that ran, except by a run that found the
\* script element of an earlier run still loading or failed.
ReadyMeansLoaded ==
    remote.status = "ready" =>
        LET entry == script[remote.manifest.entry]
        IN  entry.state = "loaded" \/ (entry.state # "absent" /\ entry.owner < remote.by)

\* A run that has been cleaned up changes the page only by finishing an import
\* it had begun: none of its failures is shown over what a later run shows.
ReplacedRunsFailSilently ==
    [][\A r \in Runs :
           remote' # remote /\ remote'.by = r /\ r < run =>
               remote'.status = "ready" /\ phase[r] = "importing"]_vars

\* There is a live React root exactly while the slot holds an element of a
\* registered tag that was never moved, whichever was first, the element or
\* the registration, and however the runs replaced each other.
RootsFollowTheSlot ==
    roots = IF slot.tag \in Defined /\ slot.state # "empty" THEN 1 ELSE 0

\* Every ready event is relayed once, also when the effect was run again.
RelayedOnce == relayed = announced

\* If the network settles every request, the page stops loading.
StopsLoading == <>(shown.status # "loading")
=============================================================================
