--------------------------- MODULE TemplateScripts ---------------------------
(***************************************************************************)
(* The scripts an adopter runs on a copy of the template, and the working  *)
(* tree they leave behind: scripts/select-surfaces.mjs,                    *)
(* select-auth-strategy.mjs, rename-template.mjs and bootstrap.mjs.        *)
(*                                                                         *)
(* Each script reads what it needs, computes every new content, and then   *)
(* writes file after file. Nobody else touches the tree meanwhile, so a    *)
(* run is one action: it writes all of its files, or it is interrupted and *)
(* leaves a prefix of them. Arguments a script refuses change nothing and  *)
(* are left out, like dry runs.                                            *)
(***************************************************************************)
EXTENDS Naturals, Sequences

CONSTANTS
    Surfaces,        \* the surfaces of the registry
    Modes,           \* authentication modes
    ServiceModes,    \* the modes that need a service URL
    DefaultMode,     \* the mode the template ships with
    Texts,           \* files of the repository that carry the project's name
    SkippedTexts,    \* those of them that rename-template.mjs passes over
    Names,           \* names a project may take
    Default,         \* the name the template ships with
    MaxRuns,         \* bound: runs of the scripts
    MaxInterrupts    \* bound: runs that are interrupted

\* Facts of SURFACE_REGISTRY, of README.md (the surfaces with a marked
\* section), of the changes of the auth script, and of ENV_PAIRS.
MfeSurfaces == Surfaces \cap {"mfe-host", "mfe-dashboard"}
Stages == {"local", "production"}
ExamplesOf(S) == (S \ {"mfe-dashboard"}) \X Stages
Marked == Surfaces \cap {"mfe-host"}
AuthSurfaces == {"api", "web"}
AuthExamples == AuthSurfaces \X Stages
EnvPairs == <<"api", "web", "desktop", "mobile", "mfe-host">>

\* The files that carry the project's name: texts, the local env examples, and
\* their copies, which are called .env.local in web and mobile, else .env.
Files == [kind : {"text"}, of : Texts] \cup [kind : {"example", "env"}, of : Surfaces]
Example(s) == [kind |-> "example", of |-> s]
CalledEnvLocal == {"web", "mobile"}

ASSUME ScriptsAssumption ==
    /\ Surfaces \subseteq
           {"web", "api", "desktop", "mobile", "mfe-host", "mfe-dashboard"}
    /\ AuthSurfaces \subseteq Surfaces
    /\ ServiceModes \subseteq Modes /\ DefaultMode \in Modes \ ServiceModes
    /\ SkippedTexts \subseteq Texts
    /\ Default \in Names
    /\ MaxRuns \in Nat /\ MaxInterrupts \in Nat

VARIABLES
    appDirs,      \* surfaces whose app directory exists
    examples,     \* env example files that exist
    devScripts,   \* surfaces with a dev:<surface> script in package.json
    devMfe,       \* the surfaces dev:mfe starts, {} when there is no dev:mfe
    surfaces,     \* the surfaces of project.config.json
    readme,       \* surfaces with a marked section in README.md
    authMode,     \* authMode of project.config.json
    exampleAuth,  \* AUTH_MODE and AUTH_SERVICE_URL of the env examples
    envFiles,     \* the env file of each app: "absent", "copied" or "edited"
    fileName,     \* the project name each file carries
    projectName,  \* projectName of project.config.json
    runs,         \* history: runs so far
    interrupts,   \* history: runs that were interrupted
    torn,         \* history: surfaces whose removal was begun, not finished
    authTorn,     \* history: the last auth selection was interrupted
    bootstrap     \* history: how the last run ended, if it was a bootstrap

surfaceVars == <<appDirs, examples, devScripts, devMfe, surfaces, readme, torn>>
authVars == <<authMode, exampleAuth, authTorn>>
nameVars == <<fileName, projectName>>
vars == <<surfaceVars, authVars, nameVars, envFiles, runs, interrupts,
          bootstrap>>

Service == {"commented", "set"}

Init ==
    /\ appDirs = Surfaces
    /\ examples = ExamplesOf(Surfaces)
    /\ devScripts = Surfaces
    /\ devMfe = MfeSurfaces
    /\ surfaces = Surfaces
    /\ readme = Marked
    /\ authMode = DefaultMode
    /\ exampleAuth = [e \in AuthExamples |->
                         [mode |-> DefaultMode, service |-> "commented"]]
    /\ envFiles = [s \in Surfaces |-> "absent"]
    /\ fileName = [f \in Files |-> Default]
    /\ projectName = Default
    /\ runs = 0
    /\ interrupts = 0
    /\ torn = {}
    /\ authTorn = FALSE
    /\ bootstrap = "none"

Run ==
    /\ runs < MaxRuns
    /\ runs' = runs + 1
Ends == UNCHANGED interrupts
Interrupted ==
    /\ interrupts < MaxInterrupts
    /\ interrupts' = interrupts + 1

(* Definitions named ...Deviation are bugs this code could have. The       *)
(* specification never uses one: each is put in the place of the           *)
(* definition after it to see that a property notices.                     *)

-----------------------------------------------------------------------------
(***************************************************************************)
(* select-surfaces.mjs                                                     *)
(***************************************************************************)

\* The configuration is written before package.json.
PruneOrderDeviation ==
    <<"appDirs", "examples", "project.config.json", "package.json", "README.md">>

\* The order applyPlan writes in; the first two are loops over files.
PruneOrder ==
    <<"appDirs", "examples", "package.json", "project.config.json", "README.md">>

DropSet(keep) == surfaces \ keep

\* The kept surfaces are not consulted: dev:mfe stays as it is.
rebuildMfeMetaScriptDeviation(remaining) == devMfe

\* dev:mfe, when there is one, is rebuilt from the remaining surfaces.
rebuildMfeMetaScript(remaining) ==
    IF devMfe = {} THEN {} ELSE remaining \cap MfeSurfaces

\* The files the n-th step removes one by one.
LoopOf(n, drop) ==
    CASE PruneOrder[n] = "appDirs" -> drop
      [] PruneOrder[n] = "examples" -> ExamplesOf(drop)
      [] OTHER -> {}

\* The tree when applyPlan has done the steps before the n-th, and of the
\* n-th has removed the files in part.
Pruned(drop, n, part) ==
    LET done(file) == \E i \in 1 .. n - 1 : PruneOrder[i] = file
        removed(file, all) == IF done(file) THEN all ELSE all \cap part
        dirs == removed("appDirs", drop)
    IN  /\ appDirs' = appDirs \ dirs
        /\ envFiles' = [s \in Surfaces |->
                           IF s \in dirs THEN "absent" ELSE envFiles[s]]
        /\ examples' = examples \ removed("examples", ExamplesOf(drop))
        /\ IF done("package.json")
           THEN /\ devScripts' = devScripts \ drop
                /\ devMfe' = rebuildMfeMetaScript(surfaces \ drop)
           ELSE UNCHANGED <<devScripts, devMfe>>
        /\ surfaces' = IF done("project.config.json") THEN surfaces \ drop
                                                      ELSE surfaces
        /\ readme' = IF done("README.md") THEN readme \ drop ELSE readme
        /\ bootstrap' = "none"

pruneFrame == <<authVars, nameVars>>

PruneEnds(drop) ==
    /\ Pruned(drop, Len(PruneOrder) + 1, {})
    /\ torn' = torn \ drop
    /\ Ends
    /\ UNCHANGED pruneFrame

PruneInterrupted(drop) ==
    /\ \E n \in 1 .. Len(PruneOrder) :
        \E part \in SUBSET LoopOf(n, drop) : Pruned(drop, n, part)
    /\ torn' = torn \cup drop
    /\ Interrupted
    /\ UNCHANGED pruneFrame

\* --drop takes any surfaces, --keep what is configured and not kept; with
\* nothing to drop the script stops there.
Prune(drop) ==
    /\ Run
    /\ drop # {}
    /\ PruneEnds(drop) \/ PruneInterrupted(drop)

-----------------------------------------------------------------------------
(***************************************************************************)
(* select-auth-strategy.mjs                                                *)
(***************************************************************************)

\* The production examples are forgotten.
AuthOrderDeviation == <<<<"api", "local">>, <<"web", "local">>>>

\* The env examples, in the order they are written after the configuration.
AuthOrder ==
    <<<<"api", "local">>, <<"api", "production">>,
      <<"web", "local">>, <<"web", "production">>>>

\* rewriteEnv: a value that is not given leaves its line alone.
rewriteEnv(example, mode) ==
    [mode |-> mode,
     service |-> IF mode \in ServiceModes THEN "set" ELSE example.service]

\* The configuration and the first n examples are written. All four are read
\* first: when one was pruned the script fails and has written nothing.
Selected(mode, n) ==
    LET written == {AuthOrder[i] : i \in 1 .. n} IN
    /\ AuthExamples \subseteq examples
    /\ authMode' = mode
    /\ exampleAuth' = [e \in AuthExamples |->
           IF e \in written THEN rewriteEnv(exampleAuth[e], mode)
                            ELSE exampleAuth[e]]

SelectAuth(mode) ==
    /\ Run
    /\ \/ /\ Selected(mode, Len(AuthOrder))
          /\ authTorn' = FALSE
          /\ Ends
       \/ /\ \E n \in 0 .. Len(AuthOrder) - 1 : Selected(mode, n)
          /\ authTorn' = TRUE
          /\ Interrupted
    /\ bootstrap' = "none"
    /\ UNCHANGED <<surfaceVars, nameVars, envFiles>>

-----------------------------------------------------------------------------
(***************************************************************************)
(* rename-template.mjs                                                     *)
(***************************************************************************)

\* walkFiles: what exists, has one of TEXT_EXTENSIONS (".example" and ".env" are,
\* ".local" is not) and is not in SKIP_FILES or SKIP_DIRS.
Walked ==
    {f \in Files :
        \/ f.kind = "text" /\ f.of \notin SkippedTexts
        \/ f.kind = "example" /\ <<f.of, "local">> \in examples
        \/ f.kind = "env" /\ envFiles[f.of] # "absent" /\ f.of \notin CalledEnvLocal}

\* The replacement searches for the name the template ships with.
Changed == {f \in Walked : fileName[f] = Default}

\* Every changed file, in the order of the walk, then project.config.json.
Rename(name) ==
    /\ Run
    /\ \/ /\ fileName' = [f \in Files |->
                             IF f \in Changed THEN name ELSE fileName[f]]
          /\ projectName' = name
          /\ Ends
       \/ /\ \E written \in SUBSET Changed :
                 fileName' = [f \in Files |->
                                 IF f \in written THEN name ELSE fileName[f]]
          /\ UNCHANGED projectName
          /\ Interrupted
    /\ bootstrap' = "none"
    /\ UNCHANGED <<surfaceVars, authVars, envFiles>>

-----------------------------------------------------------------------------
(***************************************************************************)
(* bootstrap.mjs                                                           *)
(***************************************************************************)
NeedsCopyDeviation(s, force) ==
    s \in Surfaces /\ (envFiles[s] = "absent" \/ force)

NeedsCopy(s, force) ==
    /\ <<s, "local">> \in examples
    /\ envFiles[s] = "absent" \/ force

\* The first n pairs are handled: copied, with the name the example carries,
\* unless the file is there already.
Provisioned(n, force) ==
    LET copied(s) == /\ \E i \in 1 .. n : EnvPairs[i] = s
                     /\ NeedsCopy(s, force)
    IN  /\ envFiles' = [s \in Surfaces |->
                           IF copied(s) THEN "copied" ELSE envFiles[s]]
        /\ fileName' = [f \in Files |->
                           IF f.kind = "env" /\ copied(f.of)
                           THEN fileName[Example(f.of)] ELSE fileName[f]]

\* copyFileSync into a directory that does not exist throws.
Copies(n, force) ==
    \A i \in 1 .. n : NeedsCopy(EnvPairs[i], force) => EnvPairs[i] \in appDirs

Bootstrap(force) ==
    /\ Run
    /\ \/ /\ Copies(Len(EnvPairs), force)
          /\ Provisioned(Len(EnvPairs), force)
          /\ bootstrap' = "done"
          /\ Ends
       \/ \E n \in 1 .. Len(EnvPairs) :
          /\ Copies(n - 1, force) /\ ~Copies(n, force)
          /\ Provisioned(n - 1, force)
          /\ bootstrap' = "failed"
          /\ Ends
       \/ \E n \in 0 .. Len(EnvPairs) - 1 :
          /\ Copies(n, force)
          /\ Provisioned(n, force)
          /\ bootstrap' = "none"
          /\ Interrupted
    /\ UNCHANGED <<surfaceVars, authVars, projectName>>

\* The adopter changes a provisioned env file.
Edit(s) ==
    /\ envFiles[s] = "copied"
    /\ envFiles' = [envFiles EXCEPT ![s] = "edited"]
    /\ UNCHANGED <<surfaceVars, authVars, nameVars, runs, interrupts, bootstrap>>

Next ==
    \/ \E drop \in SUBSET Surfaces : Prune(drop)
    \/ \E keep \in SUBSET Surfaces : Prune(DropSet(keep))
    \/ \E mode \in Modes : SelectAuth(mode)
    \/ \E name \in Names \ {Default} : Rename(name)
    \/ \E force \in BOOLEAN : Bootstrap(force)
    \/ \E s \in Surfaces : Edit(s)

Spec == Init /\ [][Next]_vars

-----------------------------------------------------------------------------
(***************************************************************************)
(* Properties                                                              *)
(***************************************************************************)

\* Type invariant.
TypeOK ==
    /\ appDirs \subseteq Surfaces
    /\ examples \subseteq ExamplesOf(Surfaces)
    /\ devScripts \subseteq Surfaces
    /\ devMfe \subseteq MfeSurfaces
    /\ surfaces \subseteq Surfaces
    /\ readme \subseteq Marked
    /\ authMode \in Modes
    /\ exampleAuth \in [AuthExamples -> [mode : Modes, service : Service]]
    /\ envFiles \in [Surfaces -> {"absent", "copied", "edited"}]
    /\ fileName \in [Files -> Names]
    /\ projectName \in Names
    /\ runs \in 0 .. MaxRuns
    /\ interrupts \in 0 .. MaxInterrupts
    /\ torn \subseteq Surfaces
    /\ authTorn \in BOOLEAN
    /\ bootstrap \in {"none", "done", "failed"}

\* project.config.json is the commit point of a removal and of a rename,
\* wherever runs were interrupted: a surface it no longer lists has no
\* directory, env example or script left (so that --keep, which starts from
\* the configured surfaces, never overlooks one), and in a project that calls
\* itself renamed no file that a rename looks at has the template's name, nor
\* gets it back by provisioning. (Files it passes over keep the name: two of
\* SKIP_FILES, and the copies called .env.local that were made before.)
CommitPointsLast ==
    /\ \A s \in Surfaces \ surfaces :
           /\ s \notin appDirs \cup devScripts \cup devMfe
           /\ ExamplesOf({s}) \cap examples = {}
    /\ projectName # Default => \A f \in Walked : fileName[f] # Default

\* The parts of the tree disagree about a surface only while a removal of it
\* has been begun and not been finished; one run of --drop that ends is
\* enough to finish it, whatever came in between.
OnlyTornDisagrees ==
    \A s \in Surfaces \ torn :
        /\ s \in surfaces <=> s \in appDirs
        /\ s \in surfaces <=> s \in devScripts
        /\ s \in surfaces => ExamplesOf({s}) \subseteq examples
        /\ s \in MfeSurfaces => (s \in surfaces <=> s \in devMfe)
        /\ s \in Marked => (s \in surfaces <=> s \in readme)

\* After a selection that ended, the configuration and the env examples of
\* both apps and both stages name one mode.
AuthAgrees ==
    ~authTorn => \A e \in AuthExamples \cap examples : exampleAuth[e].mode = authMode

\* Provisioning fails only on a tree in which a removal was left half done,
\* and when it ends every app that is there has its env file.
BootstrapWorks ==
    /\ bootstrap = "failed" => torn # {}
    /\ bootstrap = "done" =>
           \A s \in appDirs : <<s, "local">> \in examples =>
                                  envFiles[s] # "absent"
=============================================================================
