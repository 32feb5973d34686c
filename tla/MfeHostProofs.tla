---------------------------- MODULE MfeHostProofs ----------------------------
(***************************************************************************)
(* Proofs about MfeHost, for any number of runs, manifests and entries:    *)
(* type correctness, what REMOTE READY may mean, the single root, the      *)
(* single relay, and the silence of replaced runs.                         *)
(***************************************************************************)
EXTENDS MfeHost, FiniteSetTheorems, TLAPS

\* One listener, that of the live run; what it relays is what was announced.
RelayInv == listeners = {run} /\ relayed = announced

\* Only the live run fetches.
FetchInv == \A r \in Runs : phase[r] = "fetching" => r = run

\* A script element was appended by a run that has parsed a manifest naming
\* it, and that waits for it as long as it loads.
ScriptInv ==
    \A e \in Entries : script[e].state # "absent" =>
        LET r == script[e].owner
        IN  /\ r \in Runs /\ r <= run
            /\ phase[r] # "fetching"
            /\ manifest[r] \in Manifests /\ manifest[r].entry = e
            /\ script[e].state = "loading" => phase[r] = "importing"

\* What is shown as ready has a manifest.
RemoteInv == remote.status = "ready" => remote.manifest \in Manifests

\* The element in the slot is plain until its tag is registered, and has a
\* root exactly when it is mounted.
SlotInv ==
    /\ slot.state = "none" => slot.tag = NoManifest
    /\ slot.state = "plain" => slot.tag \notin Defined
    /\ slot.state \in {"mounted", "empty"} => slot.tag \in Defined
    /\ roots = IF slot.state = "mounted" THEN 1 ELSE 0

HostInv ==
    TypeOK /\ RelayInv /\ FetchInv /\ ScriptInv /\ RemoteInv /\ ReadyMeansLoaded
    /\ SlotInv

LEMMA HostInit == Init => HostInv
<1> SUFFICES ASSUME Init PROVE HostInv
  OBVIOUS
<1> USE HostAssumption
<1>1. 1 \in Runs
  BY DEF Runs
<1>2. TypeOK
  <2>1. run \in Runs /\ listeners \subseteq Runs
    BY <1>1 DEF Init
  <2>2. phase \in [Runs -> {"none", "fetching", "importing", "settled"}]
    BY DEF Init
  <2>3. /\ manifest \in [Runs -> Manifests \cup {NoManifest}]
        /\ script \in [Entries -> [state : {"absent", "loading", "loaded", "failed"},
                                   owner : Runs \cup {0}]]
    BY DEF Init
  <2>4. {remote, shown} \subseteq [status : {"loading", "ready", "error"},
                                  manifest : Manifests \cup {NoManifest}, by : Runs \cup {0}]
    BY DEF Init, Loading
  <2>5. slot \in [tag : {m.tag : m \in Manifests} \cup {NoManifest},
                 state : {"none", "plain", "mounted", "empty"}]
    BY DEF Init, NoElement
  <2>6. {roots, announced, relayed} \subseteq Nat
    BY DEF Init
  <2>7. moved \in BOOLEAN
    BY Zenon DEF Init
  <2>8. QED
    BY <2>1, <2>2, <2>3, <2>4, <2>5, <2>6, <2>7 DEF TypeOK
<1>3. RelayInv /\ FetchInv /\ ScriptInv /\ RemoteInv /\ ReadyMeansLoaded
  BY DEF Init, RelayInv, FetchInv, ScriptInv, RemoteInv, ReadyMeansLoaded, Loading
<1>4. SlotInv
  BY DEF Init, SlotInv, NoElement
<1>5. QED
  BY <1>2, <1>3, <1>4 DEF HostInv

LEMMA RunsArePositive == \A r \in Runs : r \in Nat /\ r > 0 /\ r # 0
BY HostAssumption DEF Runs

\* With one listener an announcement is relayed once.
LEMMA DispatchRelaysOnce ==
    ASSUME RelayInv, run \in Runs, announced \in Nat, NEW n \in Nat, dispatchReady(n),
           run' = run, listeners' = listeners
    PROVE  RelayInv' /\ announced' \in Nat /\ relayed' \in Nat
<1>1. Cardinality(listeners) = 1
  BY FS_Singleton DEF RelayInv
<1>2. relayed' = relayed + n /\ announced' = announced + n
  BY <1>1 DEF dispatchReady, RelayInv
<1>3. QED
  BY <1>2 DEF RelayInv

\* No tag is registered that is NoManifest.
LEMMA DefinedIsProper == NoManifest \notin Defined
BY HostAssumption DEF Defined

LEMMA HostStep == HostInv /\ [Next]_vars => HostInv'
<1> SUFFICES ASSUME HostInv, [Next]_vars PROVE HostInv'
  OBVIOUS
<1> USE HostAssumption
<1> USE DEF HostInv
<1>1. /\ run \in Nat /\ MaxRuns \in Nat
      /\ phase \in [Runs -> {"none", "fetching", "importing", "settled"}]
      /\ manifest \in [Runs -> Manifests \cup {NoManifest}]
  BY DEF TypeOK, Runs
<1>2. CASE Rerun
  <2>1. run + 1 \in Runs /\ run' = run + 1
    BY <1>2, <1>1 DEF Rerun, Runs, TypeOK
  <2>2. /\ phase' \in [Runs -> {"none", "fetching", "importing", "settled"}]
        /\ \A r \in Runs : /\ phase'[r] = "fetching" => r = run + 1
                           /\ phase[r] = "importing" /\ r # run + 1 => phase'[r] = "importing"
    BY <1>2, <1>1, <2>1 DEF Rerun, FetchInv, TypeOK
  <2>3. listeners' = {run'}
    BY <1>2 DEF Rerun, RelayInv
  <2>4. TypeOK'
    BY <1>2, <2>1, <2>2, <2>3 DEF Rerun, TypeOK, elementVars
  <2>5. RelayInv' /\ FetchInv'
    BY <1>2, <2>1, <2>2, <2>3 DEF Rerun, RelayInv, FetchInv, elementVars
  <2>6. ScriptInv'
    BY <1>2, <1>1, <2>1, <2>2 DEF Rerun, ScriptInv, Runs
  <2>7. RemoteInv' /\ ReadyMeansLoaded'
    BY <1>2 DEF Rerun, RemoteInv, ReadyMeansLoaded
  <2>8. SlotInv'
    BY <1>2 DEF Rerun, SlotInv, Defined, elementVars
  <2>9. QED
    BY <2>4, <2>5, <2>6, <2>7, <2>8
<1>3. CASE Move
  <2>1. slot' = [tag |-> slot.tag, state |-> "empty"] /\ roots' = 0
    BY <1>3 DEF Move, SlotInv, TypeOK, disconnectedCallback
  <2>2. TypeOK'
    BY <1>3, <2>1 DEF Move, TypeOK, pageVars
  <2>3. RelayInv' /\ FetchInv' /\ ScriptInv' /\ RemoteInv' /\ ReadyMeansLoaded'
    BY <1>3 DEF Move, pageVars, RelayInv, FetchInv, ScriptInv, RemoteInv, ReadyMeansLoaded
  <2>4. SlotInv'
    BY <1>3, <2>1 DEF Move, SlotInv, Defined, pageVars
  <2>5. QED
    BY <2>2, <2>3, <2>4
<1>4. CASE Commit
  <2> DEFINE wanted == IF remote.status = "ready" THEN remote.manifest.tag ELSE NoManifest
             new == IF wanted = NoManifest THEN NoElement ELSE Created(wanted)
             mounts == IF new.state = "mounted" THEN 1 ELSE 0
  <2>1. UNCHANGED <<run, phase, manifest, script, remote, moved, listeners>> /\ shown' = remote
    BY <1>4 DEF Commit, pageVars
  <2>2. FetchInv' /\ ScriptInv' /\ RemoteInv' /\ ReadyMeansLoaded'
    BY <2>1 DEF FetchInv, ScriptInv, RemoteInv, ReadyMeansLoaded
  <2>3. Defined' = Defined
    BY <2>1 DEF Defined
  <2>4. CASE wanted = slot.tag
    <3>1. UNCHANGED elementVars
      BY <1>4, <2>4 DEF Commit
    <3>2. TypeOK' /\ RelayInv' /\ SlotInv'
      BY <2>1, <2>3, <3>1 DEF TypeOK, RelayInv, SlotInv, elementVars
    <3>3. QED
      BY <2>2, <3>2
  <2>5. CASE wanted # slot.tag
    <3>1. /\ slot' = new
          /\ roots' = roots - disconnectedCallback(slot) + mounts
          /\ dispatchReady(mounts)
      BY <1>4, <2>5 DEF Commit
    <3>2. wanted \in {m.tag : m \in Manifests} \cup {NoManifest}
      BY DEF RemoteInv
    <3>3. /\ new.state \in {"none", "plain", "mounted"}
          /\ new = [tag |-> wanted, state |-> new.state]
          /\ new.state = "none" <=> wanted = NoManifest
          /\ new.state = "mounted" <=> wanted # NoManifest /\ wanted \in Defined
      BY DEF NoElement, Created
    <3>4. roots' = mounts
      BY <3>1 DEF SlotInv, disconnectedCallback
    <3>5. RelayInv' /\ announced' \in Nat /\ relayed' \in Nat
      BY <3>1, <2>1, DispatchRelaysOnce DEF TypeOK
    <3>6. TypeOK'
      BY <2>1, <3>1, <3>2, <3>3, <3>4, <3>5 DEF TypeOK
    <3>7. SlotInv'
      BY <2>3, <3>1, <3>3, <3>4 DEF SlotInv
    <3>8. QED
      BY <2>2, <3>5, <3>6, <3>7
  <2>6. QED
    BY <2>4, <2>5
<1>5. ASSUME NEW r \in Runs, ManifestFails(r) PROVE HostInv'
  <2>1. /\ phase' = [phase EXCEPT ![r] = "settled"] /\ remote' = Failed(r)
        /\ UNCHANGED <<run, manifest, script, shown, elementVars, moved, listeners>>
        /\ phase[r] = "fetching"
    BY <1>5 DEF ManifestFails
  <2>2. TypeOK'
    BY <2>1 DEF TypeOK, Failed, elementVars
  <2>3. RelayInv' /\ FetchInv' /\ ScriptInv'
    BY <1>1, <2>1 DEF RelayInv, FetchInv, ScriptInv, elementVars
  <2>4. RemoteInv' /\ ReadyMeansLoaded'
    BY <2>1 DEF RemoteInv, ReadyMeansLoaded, Failed
  <2>5. SlotInv'
    BY <2>1 DEF SlotInv, Defined, elementVars
  <2>6. QED
    BY <2>2, <2>3, <2>4, <2>5
<1>6. ASSUME NEW r \in Runs, NEW m \in Manifests, ManifestArrives(r, m) PROVE HostInv'
  <2>1. /\ phase[r] = "fetching" /\ r = run
        /\ manifest' = [manifest EXCEPT ![r] = m]
        /\ importRemoteEntry(r, m)
        /\ UNCHANGED <<run, shown, elementVars, moved, listeners>>
    BY <1>6 DEF ManifestArrives, FetchInv
  <2>2. RelayInv'
    BY <2>1 DEF RelayInv, elementVars
  <2>3. \A e \in Entries : script[e].state # "absent" => script[e].owner # r
    BY <2>1 DEF ScriptInv
  <2>4. CASE script[m.entry].state # "absent"
    <3>1. /\ phase' = [phase EXCEPT ![r] = "settled"]
          /\ remote' = Ready(r, m) /\ script' = script
      BY <2>1, <2>4 DEF importRemoteEntry
    <3>2. TypeOK'
      BY <2>1, <3>1 DEF TypeOK, Ready, elementVars
    <3>3. FetchInv' /\ RemoteInv'
      BY <1>1, <2>1, <3>1 DEF FetchInv, RemoteInv, Ready
    <3>4. ScriptInv'
      BY <1>1, <2>1, <2>3, <3>1 DEF ScriptInv
    <3>5. ReadyMeansLoaded'
      <4>1. script[m.entry].owner < r
        BY <2>1, <2>3, <2>4, <1>1, RunsArePositive DEF ScriptInv
      <4>2. QED
        BY <2>4, <3>1, <4>1 DEF ReadyMeansLoaded, Ready
    <3>6. SlotInv'
      BY <2>1, <3>1 DEF SlotInv, Defined, elementVars
    <3>7. QED
      BY <2>2, <3>2, <3>3, <3>4, <3>5, <3>6
  <2>5. CASE script[m.entry].state = "absent"
    <3>1. /\ phase' = [phase EXCEPT ![r] = "importing"]
          /\ script' = [script EXCEPT ![m.entry] = [state |-> "loading", owner |-> r]]
          /\ remote' = remote
      BY <2>1, <2>5 DEF importRemoteEntry
    <3>2. TypeOK'
      BY <2>1, <3>1 DEF TypeOK, elementVars
    <3>3. FetchInv' /\ RemoteInv'
      BY <1>1, <2>1, <3>1 DEF FetchInv, RemoteInv
    <3>4. ScriptInv'
      <4> SUFFICES ASSUME NEW e \in Entries, script'[e].state # "absent"
                   PROVE  LET q == script'[e].owner
                          IN  /\ q \in Runs /\ q <= run'
                              /\ phase'[q] # "fetching"
                              /\ manifest'[q] \in Manifests /\ manifest'[q].entry = e
                              /\ script'[e].state = "loading" => phase'[q] = "importing"
        BY DEF ScriptInv
      <4>1. CASE e = m.entry
        BY <1>1, <2>1, <3>1, <4>1 DEF TypeOK
      <4>2. CASE e # m.entry
        <5>1. script'[e] = script[e]
          BY <3>1, <4>2 DEF TypeOK
        <5>2. QED
          BY <5>1, <1>1, <2>1, <2>3, <3>1 DEF ScriptInv
      <4>3. QED
        BY <4>1, <4>2
    <3>5. ReadyMeansLoaded'
      BY <2>5, <3>1 DEF ReadyMeansLoaded, TypeOK
    <3>6. Defined' = Defined
      BY <2>5, <3>1 DEF Defined, TypeOK
    <3>7. SlotInv'
      BY <2>1, <3>6 DEF SlotInv, elementVars
    <3>8. QED
      BY <2>2, <3>2, <3>3, <3>4, <3>5, <3>7
  <2>6. QED
    BY <2>4, <2>5
<1>7. ASSUME NEW e \in Entries, ScriptLoads(e) PROVE HostInv'
  <2> DEFINE r == script[e].owner
             upgrades == slot.state = "plain" /\ slot.tag = Registers[e]
             n == IF upgrades THEN 2 ELSE 1
  <2>1. /\ script[e].state = "loading"
        /\ script' = [script EXCEPT ![e].state = "loaded"]
        /\ slot' = IF upgrades THEN [slot EXCEPT !.state = "mounted"] ELSE slot
        /\ roots' = IF upgrades THEN roots + 1 ELSE roots
        /\ dispatchReady(n)
        /\ phase' = [phase EXCEPT ![r] = "settled"]
        /\ remote' = Ready(r, manifest[r])
        /\ UNCHANGED <<run, manifest, shown, moved, listeners>>
    BY <1>7 DEF ScriptLoads
  <2>2. r \in Runs /\ r <= run /\ manifest[r] \in Manifests /\ manifest[r].entry = e
    BY <2>1 DEF ScriptInv
  <2>3. RelayInv' /\ announced' \in Nat /\ relayed' \in Nat
    <3>1. n \in Nat
      OBVIOUS
    <3>2. QED
      BY <2>1, <3>1, DispatchRelaysOnce DEF TypeOK
  <2>4. script'[e] = [state |-> "loaded", owner |-> r]
        /\ \A f \in Entries \ {e} : script'[f] = script[f]
    BY <2>1 DEF TypeOK
  <2>5. TypeOK'
    <3>1. roots' \in Nat
      BY <2>1 DEF TypeOK
    <3>2. script' \in [Entries -> [state : {"absent", "loading", "loaded", "failed"},
                                   owner : Runs \cup {0}]]
      BY <2>1 DEF TypeOK
    <3>3. QED
      BY <2>1, <2>2, <2>3, <3>1, <3>2 DEF TypeOK, Ready
  <2>6. FetchInv' /\ RemoteInv'
    BY <1>1, <2>1, <2>2 DEF FetchInv, RemoteInv, Ready
  <2>7. ScriptInv'
    <3> SUFFICES ASSUME NEW f \in Entries, script'[f].state # "absent"
                 PROVE  LET q == script'[f].owner
                        IN  /\ q \in Runs /\ q <= run'
                            /\ phase'[q] # "fetching"
                            /\ manifest'[q] \in Manifests /\ manifest'[q].entry = f
                            /\ script'[f].state = "loading" => phase'[q] = "importing"
      BY DEF ScriptInv
    <3>1. CASE f = e
      BY <1>1, <2>1, <2>2, <2>4, <3>1
    <3>2. CASE f # e
      <4>1. script[f].owner # r
        BY <2>2, <2>4, <3>2 DEF ScriptInv
      <4>2. QED
        BY <1>1, <2>1, <2>2, <2>4, <3>2, <4>1 DEF ScriptInv
    <3>3. QED
      BY <3>1, <3>2
  <2>8. ReadyMeansLoaded'
    BY <2>1, <2>2, <2>4 DEF ReadyMeansLoaded, Ready
  <2>9. SlotInv'
    <3>1. Defined' = Defined \cup {Registers[e]}
      BY <2>1, <2>4 DEF Defined
    <3>2. QED
      BY <2>1, <3>1 DEF SlotInv, TypeOK
  <2>10. QED
    BY <2>3, <2>5, <2>6, <2>7, <2>8, <2>9
<1>8. ASSUME NEW e \in Entries, ScriptFails(e) PROVE HostInv'
  <2> DEFINE r == script[e].owner
  <2>1. /\ script[e].state = "loading"
        /\ script' = [script EXCEPT ![e].state = "failed"]
        /\ phase' = [phase EXCEPT ![r] = "settled"]
        /\ remote' = IF aborted(r) THEN remote ELSE Failed(r)
        /\ UNCHANGED <<run, manifest, shown, elementVars, moved, listeners>>
    BY <1>8 DEF ScriptFails
  <2>2. r \in Runs /\ r <= run /\ manifest[r] \in Manifests /\ manifest[r].entry = e
    BY <2>1 DEF ScriptInv
  <2>3. RelayInv'
    BY <2>1 DEF RelayInv, elementVars
  <2>4. script'[e] = [state |-> "failed", owner |-> r]
        /\ \A f \in Entries \ {e} : script'[f] = script[f]
    BY <2>1 DEF TypeOK
  <2>5. TypeOK'
    BY <2>1, <2>2 DEF TypeOK, Failed, elementVars
  <2>6. FetchInv' /\ RemoteInv'
    BY <1>1, <2>1, <2>2 DEF FetchInv, RemoteInv, Failed
  <2>7. ScriptInv'
    <3> SUFFICES ASSUME NEW f \in Entries, script'[f].state # "absent"
                 PROVE  LET q == script'[f].owner
                        IN  /\ q \in Runs /\ q <= run'
                            /\ phase'[q] # "fetching"
                            /\ manifest'[q] \in Manifests /\ manifest'[q].entry = f
                            /\ script'[f].state = "loading" => phase'[q] = "importing"
      BY DEF ScriptInv
    <3>1. CASE f = e
      BY <1>1, <2>1, <2>2, <2>4, <3>1
    <3>2. CASE f # e
      <4>1. script[f].owner # r
        BY <2>2, <2>4, <3>2 DEF ScriptInv
      <4>2. QED
        BY <1>1, <2>1, <2>2, <2>4, <3>2, <4>1 DEF ScriptInv
    <3>3. QED
      BY <3>1, <3>2
  <2>8. ReadyMeansLoaded'
    BY <2>1, <2>4 DEF ReadyMeansLoaded, Failed, RemoteInv
  <2>9. SlotInv'
    <3>1. Defined' = Defined
      BY <2>1, <2>4 DEF Defined
    <3>2. QED
      BY <2>1, <3>1 DEF SlotInv, elementVars
  <2>10. QED
    BY <2>3, <2>5, <2>6, <2>7, <2>8, <2>9
<1>9. CASE UNCHANGED vars
  BY <1>9 DEF vars, pageVars, elementVars, TypeOK, RelayInv, FetchInv, ScriptInv,
     RemoteInv, ReadyMeansLoaded, SlotInv, Defined
<1>10. QED
  BY <1>2, <1>3, <1>4, <1>5, <1>6, <1>7, <1>8, <1>9 DEF Next, Answer, Settle

\* Every variable of the host and of the page keeps its type. (main.tsx)
THEOREM TypeCorrect == Spec => []TypeOK
<1>1. HostInv => TypeOK
  BY DEF HostInv
<1>2. QED
  BY <1>1, HostInit, HostStep, PTL DEF Spec

\* However often the effect is run again and whatever the network answers,
\* REMOTE READY is said of a script that ran, or of one an earlier run had
\* appended. (main.tsx, loadRemote and importRemoteEntry)
THEOREM ReadyIsTrue == Spec => []ReadyMeansLoaded
<1>1. HostInv => ReadyMeansLoaded
  BY DEF HostInv
<1>2. QED
  BY <1>1, HostInit, HostStep, PTL DEF Spec

\* The remote has a root that renders exactly while its element, registered
\* and never moved, is in the slot. (register.tsx, connectedCallback)
THEOREM RootsAreNotLeft == Spec => []RootsFollowTheSlot
<1>1. HostInv => RootsFollowTheSlot
  <2> SUFFICES ASSUME HostInv PROVE RootsFollowTheSlot
    OBVIOUS
  <2>1. slot.state \in {"none", "plain", "mounted", "empty"}
    BY DEF HostInv, TypeOK
  <2>2. QED
    BY <2>1, DefinedIsProper DEF HostInv, SlotInv, RootsFollowTheSlot
<1>2. QED
  BY <1>1, HostInit, HostStep, PTL DEF Spec

\* Every ready event is relayed once, whichever listeners were attached when it
\* was dispatched. (main.tsx, onReady)
THEOREM EventsAreRelayedOnce == Spec => []RelayedOnce
<1>1. HostInv => RelayedOnce
  BY DEF HostInv, RelayInv, RelayedOnce
<1>2. QED
  BY <1>1, HostInit, HostStep, PTL DEF Spec

\* No failure of a run that was cleaned up is shown. (main.tsx 39-46)
THEOREM ReplacedRunsAreSilent == Spec => ReplacedRunsFailSilently
<1> DEFINE Silent == \A r \in Runs :
               remote' # remote /\ remote'.by = r /\ r < run =>
                   remote'.status = "ready" /\ phase[r] = "importing"
<1>1. HostInv /\ [Next]_vars => [Silent]_vars
  <2> SUFFICES ASSUME HostInv, Next, remote' # remote,
                      NEW r \in Runs, remote'.by = r, r < run
               PROVE  remote'.status = "ready" /\ phase[r] = "importing"
    BY DEF vars
  <2> USE DEF HostInv
  <2>1. r # run /\ run \in Nat /\ r \in Nat
    BY RunsArePositive DEF TypeOK
  <2>2. CASE Rerun \/ Move \/ Commit
    BY <2>2 DEF Rerun, Move, Commit
  <2>3. ASSUME NEW q \in Runs, Answer(q) PROVE FALSE
    <3>1. phase[q] = "fetching" /\ q = run
      BY <2>3 DEF Answer, ManifestFails, ManifestArrives, FetchInv
    <3>2. remote'.by = q
      BY <2>3 DEF Answer, ManifestFails, ManifestArrives, importRemoteEntry, Failed, Ready
    <3>3. QED
      BY <2>1, <3>1, <3>2
  <2>4. ASSUME NEW e \in Entries, ScriptLoads(e)
        PROVE  remote'.status = "ready" /\ phase[r] = "importing"
    <3>1. script[e].state = "loading" /\ remote' = Ready(script[e].owner, manifest[script[e].owner])
      BY <2>4 DEF ScriptLoads
    <3>2. QED
      BY <3>1 DEF Ready, ScriptInv
  <2>5. ASSUME NEW e \in Entries, ScriptFails(e) PROVE FALSE
    <3>1. remote' = Failed(script[e].owner) /\ ~aborted(script[e].owner)
      BY <2>5 DEF ScriptFails
    <3>2. QED
      BY <2>1, <3>1 DEF Failed, aborted
  <2>6. QED
    BY <2>2, <2>3, <2>4, <2>5 DEF Next, Settle
<1>2. QED
  BY <1>1, HostInit, HostStep, PTL DEF Spec, ReplacedRunsFailSilently
=============================================================================
