------------------------ MODULE TemplateScriptsProofs ------------------------
(***************************************************************************)
(* Theorems about TemplateScripts, for any selection of surfaces, modes,   *)
(* files and names and any number of runs and interruptions.               *)
(***************************************************************************)
EXTENDS TemplateScripts, TLAPS

\* What has been done before the n-th step of a removal.
Steps == 1 .. 6
LEMMA StepOrder ==
    ASSUME NEW n \in Steps
    PROVE  /\ Len(PruneOrder) + 1 = 6
           /\ (\E i \in 1 .. n - 1 : PruneOrder[i] = "appDirs") <=> n > 1
           /\ (\E i \in 1 .. n - 1 : PruneOrder[i] = "examples") <=> n > 2
           /\ (\E i \in 1 .. n - 1 : PruneOrder[i] = "package.json") <=> n > 3
           /\ (\E i \in 1 .. n - 1 : PruneOrder[i] = "project.config.json") <=> n > 4
           /\ (\E i \in 1 .. n - 1 : PruneOrder[i] = "README.md") <=> n > 5
<1>1. /\ PruneOrder[1] = "appDirs" /\ PruneOrder[2] = "examples"
      /\ PruneOrder[3] = "package.json" /\ PruneOrder[4] = "project.config.json"
      /\ PruneOrder[5] = "README.md" /\ Len(PruneOrder) = 5
  BY DEF PruneOrder
<1>2. 1 .. n - 1 = {i \in {1, 2, 3, 4, 5} : i < n}
  BY DEF Steps
<1>3. QED
  BY <1>1, <1>2 DEF Steps

\* How far each part of the tree has come when a removal ends (n = 6) or is
\* interrupted in its n-th step.
RemovedUpTo(drop, n) ==
    /\ appDirs' \subseteq appDirs /\ examples' \subseteq examples
    /\ \A s \in Surfaces \ drop : s \in appDirs' <=> s \in appDirs
    /\ \A e \in examples : e \notin ExamplesOf(drop) => e \in examples'
    /\ n > 1 => appDirs' = appDirs \ drop
    /\ n > 2 => examples' = examples \ ExamplesOf(drop)
    /\ devScripts' = IF n > 3 THEN devScripts \ drop ELSE devScripts
    /\ devMfe' = IF n > 3 THEN rebuildMfeMetaScript(surfaces \ drop) ELSE devMfe
    /\ surfaces' = IF n > 4 THEN surfaces \ drop ELSE surfaces
    /\ readme' = IF n > 5 THEN readme \ drop ELSE readme
    /\ torn' = IF n = 6 THEN torn \ drop ELSE torn \cup drop
    /\ bootstrap' = "none"
    /\ UNCHANGED <<authVars, nameVars>>

\* A removal writes a prefix of its files.
LEMMA PruneFacts ==
    ASSUME TypeOK, NEW drop \in SUBSET Surfaces, Prune(drop)
    PROVE  /\ \E n \in Steps : RemovedUpTo(drop, n)
           /\ envFiles' \in [Surfaces -> {"absent", "copied", "edited"}]
           /\ \A s \in Surfaces : envFiles'[s] \in {"absent", envFiles[s]}
<1>1. Len(PruneOrder) = 5
  BY DEF PruneOrder
<1>2. ASSUME NEW n \in Steps, NEW part, Pruned(drop, n, part),
             torn' = IF n = 6 THEN torn \ drop ELSE torn \cup drop,
             UNCHANGED <<authVars, nameVars>>
      PROVE  RemovedUpTo(drop, n)
  BY <1>2, StepOrder DEF Pruned, RemovedUpTo
<1>3. ASSUME NEW n, NEW part, Pruned(drop, n, part)
      PROVE  /\ envFiles' \in [Surfaces -> {"absent", "copied", "edited"}]
             /\ \A s \in Surfaces : envFiles'[s] \in {"absent", envFiles[s]}
  BY <1>3 DEF Pruned, TypeOK
<1>4. CASE PruneEnds(drop)
  <2>1. Pruned(drop, 6, {}) /\ 6 \in Steps
    BY <1>1, <1>4 DEF PruneEnds, Steps
  <2>2. torn' = torn \ drop /\ UNCHANGED <<authVars, nameVars>>
    BY <1>4 DEF PruneEnds, pruneFrame
  <2>3. QED
    BY <1>2, <1>3, <2>1, <2>2
<1>5. CASE PruneInterrupted(drop)
  <2> DEFINE PartOf(n) == \E part : Pruned(drop, n, part)
  <2>1. PICK n \in 1 .. 5 : PartOf(n)
    BY <1>1, <1>5 DEF PruneInterrupted
  <2>2. n \in Steps /\ n # 6
    BY DEF Steps
  <2>3. torn' = torn \cup drop /\ UNCHANGED <<authVars, nameVars>>
    BY <1>5 DEF PruneInterrupted, pruneFrame
  <2>4. PICK part : Pruned(drop, n, part)
    BY <2>1
  <2>5. QED
    BY <1>2, <1>3, <2>2, <2>3, <2>4
<1>6. QED
  BY <1>4, <1>5 DEF Prune

\* The steps that write something of a removal's files are removals.
LEMMA OtherSteps ==
    ASSUME TypeOK, [Next]_vars
    PROVE  \/ \E drop \in SUBSET Surfaces : Prune(drop)
           \/ UNCHANGED surfaceVars
<1>1. \A keep \in SUBSET Surfaces : DropSet(keep) \in SUBSET Surfaces
  BY DEF DropSet, TypeOK
<1>2. QED
  BY <1>1 DEF Next, SelectAuth, Rename, Bootstrap, Edit, vars

-----------------------------------------------------------------------------
(***************************************************************************)
(* Types.                                                                  *)
(***************************************************************************)

LEMMA PruneTypes ==
    ASSUME TypeOK, NEW drop \in SUBSET Surfaces, Prune(drop)
    PROVE  TypeOK'
<1>1. PICK n \in Steps : RemovedUpTo(drop, n)
  BY PruneFacts
<1>2. envFiles' \in [Surfaces -> {"absent", "copied", "edited"}]
  BY PruneFacts
<1>3. devMfe' \subseteq MfeSurfaces
  BY <1>1 DEF RemovedUpTo, rebuildMfeMetaScript, TypeOK
<1>4. /\ appDirs' \subseteq Surfaces /\ examples' \subseteq ExamplesOf(Surfaces)
      /\ devScripts' \subseteq Surfaces /\ surfaces' \subseteq Surfaces
      /\ readme' \subseteq Marked /\ torn' \subseteq Surfaces /\ bootstrap' = "none"
  BY <1>1 DEF RemovedUpTo, TypeOK
<1>5. UNCHANGED <<authMode, exampleAuth, authTorn, fileName, projectName>>
  BY <1>1 DEF RemovedUpTo, authVars, nameVars
<1>6. runs' \in 0 .. MaxRuns /\ interrupts' \in 0 .. MaxInterrupts
  BY ScriptsAssumption
  DEF Prune, Run, PruneEnds, PruneInterrupted, Ends, Interrupted, TypeOK
<1>7. QED
  BY <1>2, <1>3, <1>4, <1>5, <1>6 DEF TypeOK

LEMMA TypeStep == TypeOK /\ [Next]_vars => TypeOK'
<1> SUFFICES ASSUME TypeOK, [Next]_vars PROVE TypeOK'
  OBVIOUS
<1>1. \A keep \in SUBSET Surfaces : DropSet(keep) \in SUBSET Surfaces
  BY DEF DropSet, TypeOK
<1>2. Run => runs' \in 0 .. MaxRuns
  BY ScriptsAssumption DEF Run, TypeOK
<1>3. Ends \/ Interrupted => interrupts' \in 0 .. MaxInterrupts
  BY ScriptsAssumption DEF Ends, Interrupted, TypeOK
<1>4. ASSUME NEW mode \in Modes, SelectAuth(mode) PROVE TypeOK'
  <2>1. \A e \in AuthExamples : rewriteEnv(exampleAuth[e], mode) \in [mode : Modes, service : Service]
    BY DEF rewriteEnv, TypeOK, Service
  <2>2. /\ authMode' = mode
        /\ exampleAuth' \in [AuthExamples -> [mode : Modes, service : Service]]
    BY <1>4, <2>1 DEF SelectAuth, Selected, TypeOK
  <2>3. QED
    BY <1>2, <1>3, <1>4, <2>2 DEF SelectAuth, surfaceVars, nameVars, TypeOK
<1>5. ASSUME NEW name \in Names \ {Default}, Rename(name) PROVE TypeOK'
  <2>1. fileName' \in [Files -> Names] /\ projectName' \in Names
    BY <1>5 DEF Rename, TypeOK
  <2>2. QED
    BY <1>2, <1>3, <1>5, <2>1 DEF Rename, surfaceVars, authVars, TypeOK
<1>6. ASSUME NEW force \in BOOLEAN, Bootstrap(force) PROVE TypeOK'
  <2>1. envFiles' \in [Surfaces -> {"absent", "copied", "edited"}]
    BY <1>6 DEF Bootstrap, Provisioned, TypeOK
  <2>2. bootstrap' \in {"none", "done", "failed"}
    BY <1>6 DEF Bootstrap
  <2>3. runs' \in 0 .. MaxRuns /\ interrupts' \in 0 .. MaxInterrupts
    BY <1>2, <1>3, <1>6 DEF Bootstrap
  <2>4. \A f \in Files : f.kind = "env" => Example(f.of) \in Files
    BY DEF Files, Example
  <2>5. fileName' \in [Files -> Names]
    BY <1>6, <2>4 DEF Bootstrap, Provisioned, TypeOK
  <2>6. QED
    BY <1>6, <2>1, <2>2, <2>3, <2>5 DEF Bootstrap, surfaceVars, authVars, TypeOK
<1>7. ASSUME NEW s \in Surfaces, Edit(s) PROVE TypeOK'
  BY <1>7 DEF Edit, surfaceVars, authVars, nameVars, TypeOK
<1>8. CASE UNCHANGED vars
  BY <1>8 DEF vars, surfaceVars, authVars, nameVars, TypeOK
<1>9. QED
  BY <1>1, <1>4, <1>5, <1>6, <1>7, <1>8, PruneTypes DEF Next

\* Every variable keeps its type.
THEOREM TypeCorrect == Spec => []TypeOK
<1>1. Init => TypeOK
  <2> SUFFICES ASSUME Init PROVE TypeOK
    OBVIOUS
  <2>1. /\ exampleAuth \in [AuthExamples -> [mode : Modes, service : Service]]
        /\ authMode \in Modes
    BY ScriptsAssumption DEF Init, Service
  <2>2. /\ 0 \in 0 .. MaxRuns /\ 0 \in 0 .. MaxInterrupts
        /\ Default \in Names
    BY ScriptsAssumption
  <2>3. QED
    BY <2>1, <2>2 DEF Init, TypeOK, MfeSurfaces, Marked
<1>2. QED
  BY <1>1, TypeStep, PTL DEF Spec

-----------------------------------------------------------------------------
(***************************************************************************)
(* Removals. CommitPointsLast and OnlyTornDisagrees are inductive: what    *)
(* they need of a removal is only how far it came in each part of the tree. *)
(***************************************************************************)

\* An example belongs to one surface.
LEMMA ExampleFacts ==
    /\ \A s, drop : s \in drop => ExamplesOf({s}) \subseteq ExamplesOf(drop)
    /\ \A s, drop : s \notin drop => ExamplesOf({s}) \cap ExamplesOf(drop) = {}
  BY DEF ExamplesOf

LEMMA CommitStep ==
    TypeOK /\ CommitPointsLast /\ [Next]_vars => CommitPointsLast'
<1> SUFFICES ASSUME TypeOK, CommitPointsLast, [Next]_vars PROVE CommitPointsLast'
  OBVIOUS
<1> DEFINE Gone(s) == /\ s \notin appDirs \cup devScripts \cup devMfe
                      /\ ExamplesOf({s}) \cap examples = {}
           Named == projectName # Default => \A f \in Walked : fileName[f] # Default
<1>1. (\A s \in Surfaces \ surfaces : Gone(s)) /\ Named
  BY DEF CommitPointsLast
<1>2. ASSUME NEW drop \in SUBSET Surfaces, Prune(drop), NEW s \in Surfaces \ surfaces'
      PROVE  Gone(s)'
  <2>1. PICK n \in Steps : RemovedUpTo(drop, n)
    BY <1>2, PruneFacts
  <2>2. CASE s \notin surfaces
    <3>1. Gone(s)
      BY <1>1, <2>2
    <3>2. s \notin devMfe'
      BY <2>1, <2>2, <3>1 DEF RemovedUpTo, rebuildMfeMetaScript
    <3>3. s \notin devScripts'
      BY <2>1, <3>1 DEF RemovedUpTo
    <3>4. QED
      BY <2>1, <3>1, <3>2, <3>3 DEF RemovedUpTo
  <2>3. CASE s \in surfaces
    <3>1. n > 4 /\ s \in drop
      BY <1>2, <2>1, <2>3 DEF RemovedUpTo
    <3>2. n > 1 /\ n > 2 /\ n > 3
      BY <3>1 DEF Steps
    <3>3. s \notin appDirs' /\ s \notin devScripts' /\ s \notin devMfe'
      BY <2>1, <3>1, <3>2 DEF RemovedUpTo, rebuildMfeMetaScript
    <3>4. ExamplesOf({s}) \cap examples' = {}
      BY <2>1, <3>1, <3>2, ExampleFacts DEF RemovedUpTo
    <3>5. QED
      BY <3>3, <3>4
  <2>4. QED
    BY <2>2, <2>3
<1>3. ASSUME UNCHANGED surfaceVars, NEW s \in Surfaces \ surfaces'
      PROVE  Gone(s)'
  BY <1>1, <1>3 DEF surfaceVars
<1>4. ASSUME NEW name \in Names \ {Default}, Rename(name) PROVE Named'
  <2>1. Walked' = Walked /\ Walked \subseteq Files
    BY <1>4 DEF Rename, Walked, surfaceVars
  <2>2. \A f \in Files : fileName'[f] \in {fileName[f], name}
    BY <1>4 DEF Rename
  <2>3. CASE projectName' = projectName
    BY <1>1, <2>1, <2>2, <2>3
  <2>4. CASE projectName' # projectName
    <3>1. ASSUME NEW f \in Walked PROVE fileName'[f] # Default
      BY <1>4, <2>1, <2>4 DEF Rename, Changed
    <3>2. QED
      BY <2>1, <3>1
  <2>5. QED
    BY <2>3, <2>4
<1>5. ASSUME NEW force \in BOOLEAN, Bootstrap(force) PROVE Named'
  <2>1. projectName' = projectName /\ examples' = examples
    BY <1>5 DEF Bootstrap, surfaceVars
  <2>2. ASSUME NEW n, Provisioned(n, force), NEW f \in Walked'
        PROVE  \E g \in Walked : fileName'[f] = fileName[g]
    <3>1. f \in Files
      BY DEF Walked
    <3>2. CASE /\ f.kind = "env" /\ NeedsCopy(f.of, force)
               /\ \E i \in 1 .. n : EnvPairs[i] = f.of
      <4>1. Example(f.of) \in Walked
        BY <3>1, <3>2 DEF NeedsCopy, Walked, Files, Example
      <4>2. fileName'[f] = fileName[Example(f.of)]
        BY <2>2, <3>1, <3>2 DEF Provisioned
      <4>3. QED
        BY <4>1, <4>2
    <3>3. CASE ~(/\ f.kind = "env" /\ NeedsCopy(f.of, force)
                 /\ \E i \in 1 .. n : EnvPairs[i] = f.of)
      <4>1. f.of \in Surfaces /\ f.kind = "env" => envFiles'[f.of] = envFiles[f.of]
        BY <2>2, <3>3 DEF Provisioned
      <4>2. f.kind = "env" => f.of \in Surfaces
        BY <3>1 DEF Files
      <4>3. f \in Walked
        BY <2>1, <3>1, <4>1, <4>2 DEF Walked
      <4>4. fileName'[f] = fileName[f]
        BY <2>2, <3>1, <3>3 DEF Provisioned
      <4>5. QED
        BY <4>3, <4>4
    <3>4. QED
      BY <3>2, <3>3
  <2>3. \E n : Provisioned(n, force)
    BY <1>5 DEF Bootstrap
  <2>4. QED
    BY <1>1, <2>1, <2>2, <2>3
<1>6. ASSUME UNCHANGED nameVars, examples' \subseteq examples,
             \A s \in Surfaces : envFiles'[s] = "absent" \/ envFiles[s] # "absent"
      PROVE  Named'
  <2>1. Walked' \subseteq Walked
    BY <1>6 DEF Walked, Files
  <2>2. QED
    BY <1>1, <1>6, <2>1 DEF nameVars
<1>7. Named'
  <2>1. ASSUME NEW drop \in SUBSET Surfaces, Prune(drop) PROVE Named'
    <3>1. PICK n \in Steps : RemovedUpTo(drop, n)
      BY <2>1, PruneFacts
    <3>2. \A s \in Surfaces : envFiles'[s] \in {"absent", envFiles[s]}
      BY <2>1, PruneFacts
    <3>3. QED
      BY <1>6, <3>1, <3>2 DEF RemovedUpTo
  <2>2. \A keep \in SUBSET Surfaces : DropSet(keep) \in SUBSET Surfaces
    BY DEF DropSet, TypeOK
  <2>3. ASSUME NEW mode \in Modes, SelectAuth(mode) PROVE Named'
    BY <1>6, <2>3 DEF SelectAuth, surfaceVars
  <2>4. ASSUME NEW s \in Surfaces, Edit(s) PROVE Named'
    BY <1>6, <2>4 DEF Edit, surfaceVars, TypeOK
  <2>5. CASE UNCHANGED vars
    BY <1>6, <2>5 DEF vars, surfaceVars
  <2>6. QED
    BY <1>4, <1>5, <2>1, <2>2, <2>3, <2>4, <2>5 DEF Next
<1>8. \A s \in Surfaces \ surfaces' : Gone(s)'
  BY <1>2, <1>3, OtherSteps
<1>9. QED
  BY <1>7, <1>8 DEF CommitPointsLast

LEMMA AgreeStep ==
    TypeOK /\ OnlyTornDisagrees /\ [Next]_vars => OnlyTornDisagrees'
<1> SUFFICES ASSUME TypeOK, OnlyTornDisagrees, [Next]_vars PROVE OnlyTornDisagrees'
  OBVIOUS
<1> DEFINE Agrees(s) ==
               /\ s \in surfaces <=> s \in appDirs
               /\ s \in surfaces <=> s \in devScripts
               /\ s \in surfaces => ExamplesOf({s}) \subseteq examples
               /\ s \in MfeSurfaces => (s \in surfaces <=> s \in devMfe)
               /\ s \in Marked => (s \in surfaces <=> s \in readme)
<1>1. \A s \in Surfaces \ torn : Agrees(s)
  BY DEF OnlyTornDisagrees
<1>2. ASSUME NEW drop \in SUBSET Surfaces, Prune(drop), NEW s \in Surfaces \ torn'
      PROVE  Agrees(s)'
  <2>1. PICK n \in Steps : RemovedUpTo(drop, n)
    BY <1>2, PruneFacts
  <2>2. CASE s \in drop
    <3>1. n = 6
      BY <1>2, <2>1, <2>2 DEF RemovedUpTo
    <3>2. s \notin surfaces' /\ s \notin appDirs' /\ s \notin devScripts' /\ s \notin readme'
      BY <2>1, <2>2, <3>1 DEF RemovedUpTo
    <3>3. s \notin devMfe'
      BY <2>1, <2>2, <3>1 DEF RemovedUpTo, rebuildMfeMetaScript
    <3>4. QED
      BY <3>2, <3>3
  <2>3. CASE s \notin drop
    <3>1. Agrees(s)
      BY <1>1, <1>2, <2>1, <2>3 DEF RemovedUpTo
    <3>2. (s \in surfaces' <=> s \in surfaces) /\ (s \in appDirs' <=> s \in appDirs)
          /\ (s \in devScripts' <=> s \in devScripts) /\ (s \in readme' <=> s \in readme)
      BY <2>1, <2>3 DEF RemovedUpTo
    <3>3. s \in surfaces => ExamplesOf({s}) \subseteq examples'
      <4>1. ExamplesOf({s}) \cap ExamplesOf(drop) = {}
        BY <2>3, ExampleFacts
      <4>2. QED
        BY <2>1, <3>1, <4>1 DEF RemovedUpTo
    <3>4. s \in MfeSurfaces => (s \in devMfe' <=> s \in devMfe)
      BY <2>1, <2>3, <3>1 DEF RemovedUpTo, rebuildMfeMetaScript
    <3>5. QED
      BY <3>1, <3>2, <3>3, <3>4 DEF MfeSurfaces, Marked
  <2>4. QED
    BY <2>2, <2>3
<1>3. ASSUME UNCHANGED surfaceVars, NEW s \in Surfaces \ torn'
      PROVE  Agrees(s)'
  BY <1>1, <1>3 DEF surfaceVars
<1>4. QED
  BY <1>2, <1>3, OtherSteps DEF OnlyTornDisagrees

-----------------------------------------------------------------------------
(***************************************************************************)
(* Selections of an auth mode, and provisioning.                           *)
(***************************************************************************)

LEMMA AuthStep == TypeOK /\ AuthAgrees /\ [Next]_vars => AuthAgrees'
<1> SUFFICES ASSUME TypeOK, AuthAgrees, [Next]_vars PROVE AuthAgrees'
  OBVIOUS
<1>1. ASSUME UNCHANGED authVars, examples' \subseteq examples PROVE AuthAgrees'
  BY <1>1 DEF AuthAgrees, authVars
<1>2. ASSUME NEW drop \in SUBSET Surfaces, Prune(drop) PROVE AuthAgrees'
  <2>1. PICK n \in Steps : RemovedUpTo(drop, n)
    BY <1>2, PruneFacts
  <2>2. QED
    BY <1>1, <2>1 DEF RemovedUpTo
<1>3. ASSUME NEW mode \in Modes, SelectAuth(mode) PROVE AuthAgrees'
  <2>1. CASE authTorn'
    BY <2>1 DEF AuthAgrees
  <2>2. CASE ~authTorn'
    <3>1. Selected(mode, Len(AuthOrder))
      BY <1>3, <2>2 DEF SelectAuth
    <3>2. AuthExamples \subseteq {AuthOrder[i] : i \in 1 .. Len(AuthOrder)}
      <4>1. /\ Len(AuthOrder) = 4
            /\ AuthOrder[1] = <<"api", "local">> /\ AuthOrder[2] = <<"api", "production">>
            /\ AuthOrder[3] = <<"web", "local">> /\ AuthOrder[4] = <<"web", "production">>
        BY DEF AuthOrder
      <4>2. 1 \in 1 .. 4 /\ 2 \in 1 .. 4 /\ 3 \in 1 .. 4 /\ 4 \in 1 .. 4
        OBVIOUS
      <4>3. AuthExamples \subseteq {AuthOrder[1], AuthOrder[2], AuthOrder[3], AuthOrder[4]}
        BY <4>1 DEF AuthExamples, AuthSurfaces, Stages
      <4>4. QED
        BY <4>1, <4>2, <4>3
    <3>3. /\ authMode' = mode
          /\ exampleAuth' = [e \in AuthExamples |-> rewriteEnv(exampleAuth[e], mode)]
      BY <3>1, <3>2 DEF Selected
    <3>4. \A e \in AuthExamples : exampleAuth'[e].mode = mode
      BY <3>3 DEF rewriteEnv
    <3>5. QED
      BY <3>3, <3>4 DEF AuthAgrees
  <2>3. QED
    BY <2>1, <2>2
<1>4. \A keep \in SUBSET Surfaces : DropSet(keep) \in SUBSET Surfaces
  BY DEF DropSet, TypeOK
<1>5. QED
  BY <1>1, <1>2, <1>3, <1>4
  DEF Next, Rename, Bootstrap, Edit, vars, surfaceVars

LEMMA BootstrapStep ==
    TypeOK /\ CommitPointsLast /\ OnlyTornDisagrees /\ BootstrapWorks /\ [Next]_vars
    => BootstrapWorks'
<1> SUFFICES ASSUME TypeOK, CommitPointsLast, OnlyTornDisagrees, BootstrapWorks, [Next]_vars
             PROVE  BootstrapWorks'
  OBVIOUS
<1>1. ASSUME bootstrap' = "none" PROVE BootstrapWorks'
  BY <1>1 DEF BootstrapWorks
<1>2. ASSUME NEW drop \in SUBSET Surfaces, Prune(drop) PROVE BootstrapWorks'
  <2>1. PICK n \in Steps : RemovedUpTo(drop, n)
    BY <1>2, PruneFacts
  <2>2. QED
    BY <1>1, <2>1 DEF RemovedUpTo
<1>3. ASSUME NEW force \in BOOLEAN, Bootstrap(force) PROVE BootstrapWorks'
  <2>1. UNCHANGED surfaceVars /\ Len(EnvPairs) = 5
    BY <1>3 DEF Bootstrap, EnvPairs
  <2>2. CASE bootstrap' = "none"
    BY <1>1, <2>2
  <2>3. CASE bootstrap' = "failed"
    <3>1. PICK n \in 1 .. 5 : Copies(n - 1, force) /\ ~Copies(n, force)
      BY <1>3, <2>1, <2>3 DEF Bootstrap
    <3>2. PICK i \in 1 .. n : /\ <<EnvPairs[i], "local">> \in examples
                              /\ EnvPairs[i] \notin appDirs
      BY <3>1 DEF Copies, NeedsCopy
    <3> DEFINE s == EnvPairs[i]
    <3>3. s \in Surfaces
      BY <3>2 DEF TypeOK, ExamplesOf
    <3>4. <<s, "local">> \in ExamplesOf({s})
      BY <3>2 DEF TypeOK, ExamplesOf
    <3>5. s \in surfaces
      BY <3>2, <3>3, <3>4 DEF CommitPointsLast
    <3>6. s \in torn
      BY <3>2, <3>3, <3>5 DEF OnlyTornDisagrees
    <3>7. QED
      BY <2>1, <2>3, <3>6 DEF BootstrapWorks, surfaceVars
  <2>4. CASE bootstrap' = "done"
    <3>1. Provisioned(5, force)
      BY <1>3, <2>1, <2>4 DEF Bootstrap
    <3>2. ASSUME NEW s \in appDirs, <<s, "local">> \in examples
          PROVE  envFiles'[s] # "absent"
      <4>1. s \in Surfaces \ {"mfe-dashboard"}
        BY <3>2 DEF TypeOK, ExamplesOf
      <4>2. \E i \in 1 .. 5 : EnvPairs[i] = s
        <5>1. s \in {"api", "web", "desktop", "mobile", "mfe-host"}
          BY <4>1, ScriptsAssumption
        <5>2. /\ EnvPairs[1] = "api" /\ EnvPairs[2] = "web" /\ EnvPairs[3] = "desktop"
              /\ EnvPairs[4] = "mobile" /\ EnvPairs[5] = "mfe-host"
          BY DEF EnvPairs
        <5>3. QED
          BY <5>1, <5>2
      <4>3. envFiles'[s] = IF NeedsCopy(s, force) THEN "copied" ELSE envFiles[s]
        BY <3>1, <4>1, <4>2 DEF Provisioned
      <4>4. QED
        BY <3>2, <4>3 DEF NeedsCopy
    <3>3. QED
      BY <2>1, <2>4, <3>2 DEF BootstrapWorks, surfaceVars
  <2>5. QED
    BY <1>3, <2>2, <2>3, <2>4 DEF Bootstrap
<1>4. ASSUME NEW s \in Surfaces, Edit(s) PROVE BootstrapWorks'
  BY <1>4 DEF Edit, surfaceVars, BootstrapWorks, TypeOK
<1>5. \A keep \in SUBSET Surfaces : DropSet(keep) \in SUBSET Surfaces
  BY DEF DropSet, TypeOK
<1>6. CASE UNCHANGED vars
  BY <1>6 DEF vars, surfaceVars, BootstrapWorks
<1>7. QED
  BY <1>1, <1>2, <1>3, <1>4, <1>5, <1>6 DEF Next, SelectAuth, Rename

-----------------------------------------------------------------------------
LEMMA ScriptsInit ==
    Init => CommitPointsLast /\ OnlyTornDisagrees /\ AuthAgrees /\ BootstrapWorks
<1> SUFFICES ASSUME Init
             PROVE  CommitPointsLast /\ OnlyTornDisagrees /\ AuthAgrees /\ BootstrapWorks
  OBVIOUS
<1>1. CommitPointsLast
  BY DEF Init, CommitPointsLast
<1>2. OnlyTornDisagrees
  BY ExampleFacts DEF Init, OnlyTornDisagrees, MfeSurfaces
<1>3. AuthAgrees
  BY DEF Init, AuthAgrees
<1>4. BootstrapWorks
  BY DEF Init, BootstrapWorks
<1>5. QED
  BY <1>1, <1>2, <1>3, <1>4

\* Wherever runs were interrupted: a surface the configuration does not list
\* has left nothing behind that a script looks for, and a project that calls
\* itself renamed holds no file with the template's name among those a rename
\* looks at, provisioned copies included. (The files of SKIP_FILES and copies
\* called .env.local are not among them.)
THEOREM RemovalsCommitLast == Spec => []CommitPointsLast
  BY TypeCorrect, ScriptsInit, CommitStep, PTL DEF Spec

\* The parts of the tree disagree about no surface but those of a removal that
\* was begun and not finished. (select-surfaces.mjs)
THEOREM PartsAgree == Spec => []OnlyTornDisagrees
  BY TypeCorrect, ScriptsInit, CommitStep, AgreeStep, PTL DEF Spec

\* A selection that ended leaves one mode in the configuration and in every
\* example, whatever was selected, pruned or interrupted before.
THEOREM SelectionsAgree == Spec => []AuthAgrees
  BY TypeCorrect, ScriptsInit, AuthStep, PTL DEF Spec

\* Provisioning fails only in a tree with an unfinished removal, and when it
\* ends no app is without its env file.
THEOREM ProvisioningWorks == Spec => []BootstrapWorks
  BY TypeCorrect, ScriptsInit, CommitStep, AgreeStep, BootstrapStep, PTL DEF Spec
=============================================================================
