-------------------------- MODULE ApiProcessProofs --------------------------
(***************************************************************************)
(* Proofs about the process of the API. First its life, GracefulShutdown,  *)
(* for every number of signals, repetitions and requests: type correctness *)
(* and the safety of the shutdown. Then the environment it and the other   *)
(* apps start with, EnvLoader, for every tree of examples and every        *)
(* platform.                                                               *)
(***************************************************************************)
EXTENDS GracefulShutdown, EnvLoader, TLAPS

\* Every variable keeps its type, in every interleaving of the signals with
\* the awaits of shutdown() (main.ts).
THEOREM TypeCorrect == Spec => []TypeOK
<1>1. Init => TypeOK
  <2> SUFFICES ASSUME Init PROVE TypeOK
    OBVIOUS
  <2>1. sent \in [Signals -> 0 .. MaxSignals]
    <3>1. 0 \in 0 .. MaxSignals
      BY ShutdownAssumption
    <3>2. QED
      BY <3>1 DEF Init
  <2>2. stage \in [Signals -> Stages] /\ request \in [Requests -> Fates]
    BY DEF Init, Stages, Fates
  <2>3. exitCode \in Codes
    BY DEF Init, Codes
  <2>4. QED
    BY <2>1, <2>2, <2>3 DEF Init, TypeOK
<1>2. TypeOK /\ [Next]_vars => TypeOK'
  <2> SUFFICES ASSUME TypeOK, [Next]_vars PROVE TypeOK'
    OBVIOUS
  <2> USE DEF TypeOK
  <2>1. ASSUME NEW s \in Signals, Send(s)
        PROVE  sent' \in [Signals -> 0 .. MaxSignals]
    <3>1. sent[s] + 1 \in 0 .. MaxSignals
      BY <2>1, ShutdownAssumption DEF Send
    <3>2. QED
      BY <2>1, <3>1 DEF Send
  <2>2. ASSUME NEW code \in Codes, Exit(code)
        PROVE  /\ process' \in {"booting", "up", "exited"}
               /\ exitCode' \in Codes
               /\ listening' \in BOOLEAN
               /\ request' \in [Requests -> Fates]
    BY <2>2 DEF Exit, Fates
  <2>3. {"success", "failure", "killed", "drained"} \subseteq Codes
    BY DEF Codes
  <2>4. ASSUME NEW s \in Signals, NEW to \in Stages,
               stage' = [stage EXCEPT ![s] = to]
        PROVE  stage' \in [Signals -> Stages]
    BY <2>4
  <2>5. {"none", "closingServer", "closingApp", "closingDb", "flushing"} \subseteq Stages
    BY DEF Stages
  <2>6. CASE Boot
    BY <2>6 DEF Boot, resourceVars
  <2>7. ASSUME NEW r \in Requests,
               Arrive(r) \/ Respond(r) \/ ClientLeaves(r) \/ HandlerEnds(r)
        PROVE  TypeOK'
    BY <2>7 DEF Arrive, Respond, ClientLeaves, HandlerEnds, signalVars, resourceVars, Fates
  <2>8. ASSUME NEW s \in Signals, Killed(s) PROVE TypeOK'
    BY <2>8, <2>1, <2>2, <2>3 DEF Killed, resourceVars
  <2>9. ASSUME NEW s \in Signals, Ignored(s) PROVE TypeOK'
    BY <2>9, <2>1 DEF Ignored, resourceVars
  <2>10. ASSUME NEW s \in Signals, StartShutdown(s) PROVE TypeOK'
    <3>1. sent' \in [Signals -> 0 .. MaxSignals]
      BY <2>10, <2>1 DEF StartShutdown
    <3>2. stage' \in [Signals -> Stages]
      BY <2>10, <2>4, <2>5 DEF StartShutdown, Begin
    <3>3. QED
      BY <2>10, <3>1, <3>2 DEF StartShutdown, Begin, resourceVars
  <2>11. ASSUME NEW s \in Signals, ServerClosed(s) \/ DbClosed(s) PROVE TypeOK'
    BY <2>11, <2>4, <2>5 DEF ServerClosed, DbClosed, signalVars, resourceVars
  <2>12. ASSUME NEW s \in Signals, AppClosed(s) PROVE TypeOK'
    <3>1. stage' \in [Signals -> Stages]
      BY <2>12, <2>4, <2>5 DEF AppClosed
    <3>2. dbCloses' \in Nat
      BY <2>12 DEF AppClosed
    <3>3. QED
      BY <2>12, <3>1, <3>2 DEF AppClosed, signalVars
  <2>13. ASSUME NEW s \in Signals, Finished(s) \/ StepFailed(s) \/ ForceExit(s)
        PROVE  TypeOK'
    <3>1. stage' \in [Signals -> Stages]
      BY <2>13, <2>4, <2>5 DEF Finished, StepFailed, ForceExit
    <3>2. \E code \in Codes : Exit(code)
      BY <2>13, <2>3 DEF Finished, StepFailed, ForceExit
    <3>3. QED
      BY <2>13, <2>2, <3>1, <3>2
      DEF Finished, StepFailed, ForceExit, signalVars, resourceVars
  <2>14. ASSUME NEW s \in Signals, Drained(s) PROVE TypeOK'
    BY <2>14, <2>2, <2>3 DEF Drained, signalVars, resourceVars
  <2>15. CASE UNCHANGED vars
    BY <2>15 DEF vars, signalVars, resourceVars
  <2>16. QED
    BY <2>6, <2>7, <2>8, <2>9, <2>10, <2>11, <2>12, <2>13, <2>14, <2>15 DEF Next
<1>3. QED
  BY <1>1, <1>2, PTL DEF Spec

-----------------------------------------------------------------------------
(***************************************************************************)
(* The shutdown. None of the four properties is inductive: each depends on *)
(* there being one run only, on the server being closed from its first     *)
(* step on, and on what that run has reached.                              *)
(***************************************************************************)

NoneInFlight == \A r \in Requests : request[r] # "inFlight"

\* Until a signal starts a shutdown nothing of it has happened, and a process
\* that is up accepts connections; from then on it accepts none.
BeforeAndAfter ==
    /\ ~shuttingDown => /\ \A s \in Signals : stage[s] = "none"
                        /\ dbOpen
    /\ process = "booting" => handlers = {} /\ ~shuttingDown /\ NoneInFlight
    /\ process = "up" => (listening <=> ~shuttingDown)

\* There is one run, and it has drained the server before it goes on.
OneRun ==
    /\ \A s, t \in Signals : stage[s] # "none" /\ stage[t] # "none" => s = t
    /\ \A s \in Signals :
           stage[s] \in {"closingApp", "closingDb", "flushing"} => NoneInFlight

\* The pool is open until that run ends it, once.
PoolFollowsRun ==
    /\ dbCloses = IF dbOpen THEN 0 ELSE 1
    /\ \A s \in Signals :
           process = "up" =>
               /\ stage[s] \in {"closingServer", "closingApp"} => dbOpen
               /\ stage[s] \in {"closingDb", "flushing"} => ~dbOpen

\* Requests are cut at the end of the process and only then.
CutAtTheEnd ==
    /\ process = "exited" => NoneInFlight
    /\ process # "exited" => exitCode = "none" /\ ~Cut

ShutdownInv ==
    /\ BeforeAndAfter
    /\ OneRun
    /\ PoolFollowsRun
    /\ CutAtTheEnd
    /\ ~dbOpen => NoneInFlight
    /\ CleanExit
    /\ CutIsExplained

LEMMA ShutdownInit == Init => ShutdownInv
  BY DEF Init, ShutdownInv, BeforeAndAfter, OneRun, PoolFollowsRun, CutAtTheEnd,
         NoneInFlight, Cut, CleanExit, CutIsExplained

LEMMA ShutdownStep == TypeOK /\ ShutdownInv /\ [Next]_vars => ShutdownInv'
<1> SUFFICES ASSUME TypeOK, ShutdownInv, [Next]_vars PROVE ShutdownInv'
  OBVIOUS
<1> USE DEF TypeOK, ShutdownInv, BeforeAndAfter, OneRun, PoolFollowsRun,
            CutAtTheEnd, NoneInFlight, Cut, CleanExit, CutIsExplained
<1>1. CASE Boot
  BY <1>1 DEF Boot, resourceVars
<1>2. ASSUME NEW r \in Requests, Arrive(r) PROVE ShutdownInv'
  BY <1>2 DEF Arrive, signalVars, resourceVars
<1>3. ASSUME NEW r \in Requests, Respond(r) PROVE ShutdownInv'
  BY <1>3 DEF Respond, signalVars, resourceVars
<1>4. ASSUME NEW s \in Signals, Killed(s) PROVE ShutdownInv'
  BY <1>4 DEF Killed, Send, Exit, InFlight, resourceVars
<1>5. ASSUME NEW s \in Signals, Ignored(s) PROVE ShutdownInv'
  BY <1>5 DEF Ignored, Send, resourceVars
<1>6. ASSUME NEW s \in Signals, StartShutdown(s) PROVE ShutdownInv'
  BY <1>6 DEF StartShutdown, Send, Begin, resourceVars
<1>7. ASSUME NEW s \in Signals, ServerClosed(s) PROVE ShutdownInv'
  BY <1>7 DEF ServerClosed, InFlight, signalVars, resourceVars
<1>8. ASSUME NEW s \in Signals, AppClosed(s) PROVE ShutdownInv'
  BY <1>8 DEF AppClosed, signalVars
<1>9. ASSUME NEW s \in Signals, DbClosed(s) PROVE ShutdownInv'
  BY <1>9 DEF DbClosed, signalVars, resourceVars
<1>10. ASSUME NEW s \in Signals, Finished(s) PROVE ShutdownInv'
  BY <1>10 DEF Finished, Exit, InFlight, signalVars
<1>11. ASSUME NEW s \in Signals, StepFailed(s) PROVE ShutdownInv'
  BY <1>11 DEF StepFailed, Exit, InFlight, signalVars, resourceVars
<1>12. ASSUME NEW s \in Signals, ForceExit(s) PROVE ShutdownInv'
  BY <1>12 DEF ForceExit, Exit, InFlight, signalVars, resourceVars
<1>13. ASSUME NEW r \in Requests, ClientLeaves(r) \/ HandlerEnds(r)
       PROVE  ShutdownInv'
  BY <1>13 DEF ClientLeaves, HandlerEnds, signalVars, resourceVars
<1>14. ASSUME NEW s \in Signals, Drained(s) PROVE ShutdownInv'
  BY <1>14 DEF Drained, Exit, InFlight, signalVars, resourceVars
<1>15. CASE UNCHANGED vars
  BY <1>15 DEF vars, signalVars, resourceVars
<1>16. QED
  BY <1>1, <1>2, <1>3, <1>4, <1>5, <1>6, <1>7, <1>8, <1>9, <1>10, <1>11,
     <1>12, <1>13, <1>14, <1>15 DEF Next

\* Exit status 0 means that no connected client's request was cut, also when the
\* event loop ran empty at a step that never settles; and a run of shutdown()
\* that came to its process.exit(0) has closed the pool and the exporter.
\* (main.ts, shutdown)
THEOREM ExitIsClean == Spec => []CleanExit
<1>1. ShutdownInv => CleanExit
  BY DEF ShutdownInv
<1>2. QED
  BY <1>1, TypeCorrect, ShutdownInit, ShutdownStep, PTL DEF Spec

\* No handler finds the pool closed unless its client has left, and the pool is
\* ended at most once. (main.ts, shutdown; db/src/client.ts, close)
THEOREM PoolIsThere == Spec => []PoolOutlivesRequests
<1>1. ShutdownInv => PoolOutlivesRequests
  BY DEF ShutdownInv, PoolFollowsRun, NoneInFlight, PoolOutlivesRequests, Handled
<1>2. QED
  BY <1>1, TypeCorrect, ShutdownInit, ShutdownStep, PTL DEF Spec

\* Only the deadline or a signal without a listener cuts a request.
\* (main.ts, shutdown)
THEOREM NothingElseCuts == Spec => []CutIsExplained
<1>1. ShutdownInv => CutIsExplained
  BY DEF ShutdownInv
<1>2. QED
  BY <1>1, TypeCorrect, ShutdownInit, ShutdownStep, PTL DEF Spec

-----------------------------------------------------------------------------
(***************************************************************************)
(* The environment. For every tree of examples and every platform: an API  *)
(* in production that comes up uses no fallback of development, and what   *)
(* the check of the examples accepts boots.                                *)
(***************************************************************************)
\* What is known of an app that was started: its loader decided on what the
\* app passed to it, and made its environment of that.
BootInv ==
    \A b \in Boots :
        LET app == files[b.file].app
            source == Passed(app, b.platform)
        IN  b.up = Accepts(app, source) /\ b.env = EnvOf(app, source)

LEMMA BootStep == BootInv /\ [EnvNext]_envVars => BootInv'
<1> SUFFICES ASSUME BootInv, [EnvNext]_envVars PROVE BootInv'
  OBVIOUS
<1>1. CASE UNCHANGED <<files, booted>>
  BY <1>1 DEF BootInv, Boots
<1>2. ASSUME NEW i \in 1 .. Len(files), NEW drift \in Drifts, BootApp(i, drift) PROVE BootInv'
  <2> DEFINE app == files[i].app
             platform == Platform(files[i], drift)
             source == Passed(app, platform)
             boot == [file |-> i, drift |-> drift, platform |-> platform,
                      up |-> Accepts(app, source), env |-> EnvOf(app, source)]
  <2>1. booted' = <<boot>> /\ files' = files
    BY <1>2 DEF BootApp
  <2> HIDE DEF boot
  <2>2. Boots' = {boot}
    BY <2>1 DEF Boots
  <2>3. /\ boot.up = Accepts(files[boot.file].app, Passed(files[boot.file].app, boot.platform))
        /\ boot.env = EnvOf(files[boot.file].app, Passed(files[boot.file].app, boot.platform))
    BY DEF boot
  <2>4. QED
    BY <2>1, <2>2, <2>3 DEF BootInv
<1>3. QED
  BY <1>1, <1>2 DEF EnvNext, CheckFile, Report, envVars

\* The variables the loader of the API hydrates. A variable that is set to
\* anything but "" keeps its value.
LEMMA ApiHydrates ==
    ASSUME NEW source, NEW k \in ApiKeys
    PROVE  /\ EnvOf("api", source)[k] = Field(pickEnv(source, ApiKeys), k)
           /\ k \in DOMAIN source /\ source[k] # "empty" => EnvOf("api", source)[k] = source[k]
<1>1. AppKeys["api"] = ApiKeys
  BY DEF AppKeys, Apps
<1>2. EnvOf("api", source)[k] = Field(pickEnv(source, ApiKeys), k)
  BY <1>1 DEF EnvOf, Hydrated
<1>3. ASSUME k \in DOMAIN source, source[k] # "empty"
      PROVE  Field(pickEnv(source, ApiKeys), k) = source[k]
  BY <1>3 DEF Field, pickEnv
<1>4. QED
  BY <1>2, <1>3

\* What an accepted environment of the API in production holds.
LEMMA ProductionIsComplete ==
    ASSUME NEW source, Accepts("api", source),
           "APP_ENV" \in DOMAIN source, source["APP_ENV"] = "production"
    PROVE  LET env == EnvOf("api", source)
           IN  /\ env["APP_ENV"] = "production"
               /\ \A k \in ApiRequires(env) : env[k] # "undefined"
<1> DEFINE env == EnvOf("api", source)
<1>1. env["APP_ENV"] = "production"
  BY ApiHydrates DEF ApiKeys
<1>2. StageKey["api"] = "APP_ENV" /\ Requires("api", env) = ApiRequires(env)
  BY DEF StageKey, Apps, Requires
<1>3. requireInProduction(env["APP_ENV"], env, ApiRequires(env))
  BY <1>2 DEF Accepts
<1>4. QED
  BY <1>1, <1>3 DEF requireInProduction

\* An API that was told it is in production and comes up has a pool, keeps its
\* sessions in it, signs them with its own secret and origin and does not
\* admit the development origins, whatever the rest of its environment is.
\* (apps/api.ts superRefine; main.ts; auth.ts)
THEOREM ProductionUsesNoFallback == EnvSpec => []NoFallbackInProduction
<1>1. EnvInit => BootInv
  BY DEF EnvInit, BootInv, Boots
<1>2. BootInv => NoFallbackInProduction
  <2> SUFFICES ASSUME BootInv, NEW b \in Boots, files[b.file].app = "api", b.up,
                      "APP_ENV" \in DOMAIN b.platform, b.platform["APP_ENV"] = "production"
               PROVE  /\ Database(b.env) = "pool"
                      /\ Sessions(b.env) # "memory"
                      /\ Sessions(b.env) # "none" =>
                             Signing(b.env) = [secret |-> "own", baseURL |-> "own"]
                      /\ corsOrigin(b.env) # "defaultDevOrigins"
    BY DEF NoFallbackInProduction
  <2>1. Accepts("api", b.platform) /\ b.env = EnvOf("api", b.platform)
    BY DEF BootInv, Passed
  <2>2. b.env["APP_ENV"] = "production" /\ \A k \in ApiRequires(b.env) : b.env[k] # "undefined"
    BY <2>1, ProductionIsComplete
  <2>3. Database(b.env) = "pool" /\ Sessions(b.env) # "memory"
    BY <2>2 DEF ApiRequires, Database, Sessions
  <2>4. ASSUME Sessions(b.env) # "none"
        PROVE  Signing(b.env) = [secret |-> "own", baseURL |-> "own"]
    <3>1. b.env["AUTH_MODE"] = "better-auth-embedded"
      BY <2>4 DEF Sessions
    <3>2. b.env["BETTER_AUTH_SECRET"] # "undefined" /\ b.env["BETTER_AUTH_URL"] # "undefined"
      BY <2>2, <3>1 DEF ApiRequires
    <3>3. QED
      BY <3>2 DEF Signing
  <2>5. corsOrigin(b.env) # "defaultDevOrigins"
    BY <2>2 DEF corsOrigin
  <2>6. QED
    BY <2>3, <2>4, <2>5
<1>3. QED
  BY <1>1, <1>2, BootStep, PTL DEF EnvSpec

-----------------------------------------------------------------------------
(***************************************************************************)
(* What the check accepts boots. The check has looked at every file when   *)
(* it ends, and reported those a loader refused.                           *)
(***************************************************************************)
CheckInv ==
    /\ files \in Trees
    /\ next \in Nat
    /\ \A i \in 1 .. Len(files) : i < next /\ Fails(files[i]) => i \in failures
    /\ exit = "success" => next > Len(files) /\ failures = {}
    /\ \A b \in Boots :
           /\ b.file \in 1 .. Len(files) /\ files[b.file].app \in Apps
           /\ b.drift \in Drifts /\ b.platform = Platform(files[b.file], b.drift)

LEMMA CheckStep ==
    ASSUME CheckInv, [EnvNext]_envVars PROVE CheckInv'
<1>1. CASE CheckFile
  <2>1. next' = next + 1 /\ UNCHANGED <<files, exit, booted>>
    BY <1>1 DEF CheckFile
  <2>2. \A i \in 1 .. Len(files) : i < next + 1 /\ Fails(files[i]) => i \in failures'
    BY <1>1 DEF CheckFile, CheckInv
  <2>3. exit # "success"
    BY <1>1, EnvAssumption DEF CheckFile, CheckInv
  <2>4. QED
    BY <2>1, <2>2, <2>3 DEF CheckInv, Boots
<1>2. CASE Report
  BY <1>2 DEF Report, CheckInv, Boots
<1>3. ASSUME NEW i \in 1 .. Len(files), NEW drift \in Drifts, BootApp(i, drift)
      PROVE  CheckInv'
  <2> DEFINE boot == booted'[1]
  <2>1. /\ Boots' = {boot} /\ boot.file = i /\ boot.drift = drift
        /\ boot.platform = Platform(files[i], drift)
    BY <1>3 DEF BootApp, Boots
  <2>2. UNCHANGED <<files, next, failures, exit>> /\ files[i].app \in Apps
    BY <1>3 DEF BootApp
  <2> HIDE DEF boot
  <2>3. QED
    BY <2>1, <2>2 DEF CheckInv
<1>4. CASE UNCHANGED envVars
  BY <1>4 DEF envVars, CheckInv, Boots
<1>5. QED
  BY <1>1, <1>2, <1>3, <1>4 DEF EnvNext

\* A platform that differs from an example only harmlessly: an app finds there
\* what the example has, or a good value of a variable that is no mode.
LEMMA HarmlessValues ==
    ASSUME NEW file, NEW drift \in Drifts, Harmless(file.app, drift), file.app \in Apps,
           NEW k \in AppKeys[file.app]
    PROVE  LET example == parseEnvFile(file.lines)
               platform == Platform(file, drift)
           IN  \/ /\ k \in DOMAIN example <=> k \in DOMAIN platform
                  /\ k \in DOMAIN example => platform[k] = example[k]
               \/ /\ k \in DOMAIN platform /\ platform[k] = "good"
                  /\ k \notin {"AUTH_MODE", "NEXT_PUBLIC_AUTH_MODE"}
<1>1. drift.forgets = {} /\ (k \in DOMAIN drift.sets => drift.sets[k] = "good")
  BY DEF Harmless
<1>2. QED
  BY <1>1, EnvAssumption DEF Platform

\* Such a platform has no variable the guard refuses, if the example has none.
LEMMA HarmlessNames ==
    ASSUME NEW file, NEW drift \in Drifts, Harmless(file.app, drift), file.app \in Apps,
           Offenders(file.app, parseEnvFile(file.lines)) = {}
    PROVE  Offenders(file.app, Passed(file.app, Platform(file, drift))) = {}
<1> DEFINE app == file.app
           platform == Platform(file, drift)
<1>1. CASE app = "api"
  <2>1. Passed(app, platform) = platform /\ ForbiddenKeys(app) = {}
    BY <1>1 DEF Passed, ForbiddenKeys
  <2>2. DOMAIN platform \subseteq DOMAIN drift.sets \cup DOMAIN parseEnvFile(file.lines)
    BY DEF Platform
  <2>3. ASSUME NEW x \in DOMAIN drift.sets, NEW p \in ForbiddenPrefixes(app), x \in Prefixed[p]
        PROVE  x \in FRAMEWORK_INTERNAL_KEYS
    <3>1. p \in DOMAIN Prefixed /\ x \notin AppKeys[app]
      BY <1>1, <2>3 DEF ForbiddenPrefixes, Prefixed, AppKeys, Apps, ApiKeys, WebKeys,
                        MobileKeys, DesktopKeys, MfeHostKeys
    <3>2. QED
      BY <1>1, <2>3, <3>1 DEF Harmless
  <2>4. QED
    BY <2>1, <2>2, <2>3 DEF Offenders
<1>2. CASE app # "api"
  <2>1. DOMAIN Passed(app, platform) \subseteq
            IF app = "web" THEN WebKeys ELSE IF app = "mobile" THEN MobileKeys
            ELSE Prefixed["VITE_"]
    BY <1>2 DEF Passed, pickEnv, Apps, WebKeys
  <2>2. QED
    BY <1>2, <2>1
    DEF Offenders, ForbiddenKeys, ForbiddenPrefixes, Prefixed, Secrets, Apps, WebKeys,
        MobileKeys, DesktopKeys, MfeHostKeys
<1>3. QED
  BY <1>1, <1>2

\* What an app passes on of the variables its loader knows: all of them, or
\* the three the web app names.
LEMMA PassedOn ==
    ASSUME NEW app \in Apps, NEW platform, NEW k \in AppKeys[app]
    PROVE  LET source == Passed(app, platform)
               all == app # "web" \/ k \in {"NEXT_PUBLIC_API_URL", "NEXT_PUBLIC_APP_ENV",
                                            "NEXT_PUBLIC_WEB_URL"}
           IN  /\ k \in DOMAIN source => k \in DOMAIN platform /\ source[k] = platform[k]
               /\ all /\ k \in DOMAIN platform => k \in DOMAIN source
               /\ ~all => k \notin DOMAIN source
<1>1. app \in {"desktop", "mfe-host"} => k \in Prefixed["VITE_"]
  BY DEF Prefixed, AppKeys, Apps, DesktopKeys, MfeHostKeys
<1>2. app = "mobile" => k \in MobileKeys
  BY DEF AppKeys, Apps
<1>3. QED
  BY <1>1, <1>2 DEF Passed, pickEnv, Apps

\* Each field becomes what it became in the check of the example, or good.
LEMMA HarmlessFields ==
    ASSUME NEW file, NEW drift \in Drifts, Harmless(file.app, drift), file.app \in Apps,
           NEW k \in AppKeys[file.app],
           file.app # "web" \/ k \in {"NEXT_PUBLIC_API_URL", "NEXT_PUBLIC_APP_ENV",
                                      "NEXT_PUBLIC_WEB_URL"}
    PROVE  LET env == EnvOf(file.app, parseEnvFile(file.lines))
               started == EnvOf(file.app, Passed(file.app, Platform(file, drift)))
           IN  started[k] = env[k] \/ (started[k] = "good" /\ k \notin {"AUTH_MODE"})
<1> DEFINE example == parseEnvFile(file.lines)
           platform == Platform(file, drift)
           source == Passed(file.app, platform)
           keys == AppKeys[file.app]
<1>1. /\ EnvOf(file.app, example)[k] = Field(pickEnv(example, keys), k)
      /\ EnvOf(file.app, source)[k] = Field(pickEnv(source, keys), k)
  BY DEF EnvOf, Hydrated
<1>2. /\ k \in DOMAIN source <=> k \in DOMAIN platform
      /\ k \in DOMAIN source => source[k] = platform[k]
  BY PassedOn
<1>3. \/ /\ k \in DOMAIN example <=> k \in DOMAIN platform
         /\ k \in DOMAIN example => platform[k] = example[k]
      \/ /\ k \in DOMAIN platform /\ platform[k] = "good" /\ k # "AUTH_MODE"
  BY HarmlessValues
<1> HIDE DEF example, platform, source
<1>4. QED
  BY <1>1, <1>2, <1>3 DEF Field, pickEnv, example, platform, source

LEMMA HarmlessIsAccepted ==
    ASSUME NEW file, NEW drift \in Drifts, Harmless(file.app, drift), file.app \in Apps,
           Accepts(file.app, parseEnvFile(file.lines))
    PROVE  Accepts(file.app, Passed(file.app, Platform(file, drift)))
<1> DEFINE app == file.app
           example == parseEnvFile(file.lines)
           platform == Platform(file, drift)
           source == Passed(app, platform)
           env == EnvOf(app, example)
           started == EnvOf(app, source)
<1>1. Offenders(app, source) = {}
  BY HarmlessNames DEF Accepts
<1>2. ASSUME NEW k \in AppKeys[app], k \in DOMAIN source
      PROVE  ~FieldFails(k, source[k])
  <2>1. k \in DOMAIN platform /\ source[k] = platform[k]
    BY <1>2, PassedOn
  <2>2. k \in DOMAIN example => ~FieldFails(k, example[k])
    BY DEF Accepts
  <2>3. QED
    BY <2>1, <2>2, HarmlessValues DEF FieldFails
<1>3. ASSUME started[StageKey[app]] = "production", NEW k \in Requires(app, started)
      PROVE  started[k] \notin {"undefined", "empty"}
  <2>1. /\ StageKey[app] \in AppKeys[app]
        /\ app = "web" => StageKey[app] = "NEXT_PUBLIC_APP_ENV"
    BY DEF StageKey, AppKeys, Apps, ApiKeys, WebKeys, DesktopKeys, MobileKeys, MfeHostKeys
  <2>2. env[StageKey[app]] = "production"
    BY <1>3, <2>1, HarmlessFields
  <2>3. \A x \in Requires(app, env) : env[x] \notin {"undefined", "empty"}
    BY <2>2 DEF Accepts, requireInProduction
  <2>4. app = "api" => started["AUTH_MODE"] = env["AUTH_MODE"]
    BY HarmlessFields DEF AppKeys, Apps, ApiKeys
  <2>5. app = "web" => started["NEXT_PUBLIC_AUTH_MODE"] = "better-auth-embedded"
    <3>1. ASSUME app = "web"
          PROVE  "NEXT_PUBLIC_AUTH_MODE" \in AppKeys[app]
                 /\ "NEXT_PUBLIC_AUTH_MODE" \notin DOMAIN source
      BY <3>1, PassedOn DEF AppKeys, Apps, WebKeys
    <3>2. QED
      BY <3>1 DEF EnvOf, Hydrated, Field, pickEnv, Default, Optional
  <2>6. k \in Requires(app, env)
    BY <1>3, <2>4, <2>5 DEF Requires, ApiRequires, WebRequires, Apps
  <2>7. /\ k \in AppKeys[app]
        /\ app = "web" => k \in {"NEXT_PUBLIC_API_URL", "NEXT_PUBLIC_WEB_URL"}
    BY <1>3, <2>5
    DEF Requires, ApiRequires, WebRequires, DesktopRequires, MobileRequires,
        MfeHostRequires, AppKeys, Apps, ApiKeys, WebKeys, DesktopKeys, MobileKeys, MfeHostKeys
  <2>8. QED
    BY <2>3, <2>6, <2>7, HarmlessFields
<1>4. QED
  BY <1>1, <1>2, <1>3 DEF Accepts, requireInProduction

\* If the check of the examples succeeds, an app boots with the variables of
\* any of its examples, on every platform that sets other variables or good
\* values besides. (check-examples.ts; the loaders; env.ts of the apps)
THEOREM CheckedExamplesBoot == EnvSpec => []PassedExamplesBoot
<1>1. EnvInit => CheckInv
  BY DEF EnvInit, CheckInv, Boots
<1>2. BootInv /\ CheckInv => PassedExamplesBoot
  <2> SUFFICES ASSUME BootInv, CheckInv, exit = "success", NEW b \in Boots,
                      Harmless(files[b.file].app, b.drift)
               PROVE  b.up
    BY DEF PassedExamplesBoot
  <2>1. /\ b.file \in 1 .. Len(files) /\ files[b.file].app \in Apps /\ b.drift \in Drifts
        /\ b.platform = Platform(files[b.file], b.drift)
    BY DEF CheckInv
  <2>2. ~Fails(files[b.file])
    <3>1. Len(files) \in Nat
      BY EnvAssumption DEF CheckInv
    <3>2. b.file < next
      BY <2>1, <3>1 DEF CheckInv
    <3>3. QED
      BY <2>1, <3>2 DEF CheckInv
  <2>3. Accepts(files[b.file].app, parseEnvFile(files[b.file].lines))
    BY <2>1, <2>2 DEF Fails, Inherited, Apps
  <2>4. Accepts(files[b.file].app, Passed(files[b.file].app, b.platform))
    BY <2>1, <2>3, HarmlessIsAccepted
  <2>5. QED
    BY <2>4 DEF BootInv
<1>3. EnvInit => BootInv
  BY DEF EnvInit, BootInv, Boots
<1>4. CheckInv /\ [EnvNext]_envVars => CheckInv'
  BY CheckStep
<1>5. QED
  BY <1>1, <1>2, <1>3, <1>4, BootStep, PTL DEF EnvSpec
=============================================================================
