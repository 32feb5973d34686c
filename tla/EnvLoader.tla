----------------------------- MODULE EnvLoader -----------------------------
(***************************************************************************)
(* The environment of every app: the loaders of packages/env, the script   *)
(* that checks env/<stage>/<app>.env.example with them, and the boot of an *)
(* app with the variables its platform gives it.                           *)
(*                                                                         *)
(* A variable has a class of values: "good" for what its format accepts,   *)
(* "empty" for "", "malformed" for what the format refuses, "commas" for a *)
(* list without an entry, and the literal for an enumeration. A source is  *)
(* a function on the variables that are set.                               *)
(***************************************************************************)
EXTENDS Naturals, SequencesExt

CONSTANTS Trees,    \* the sequences of example files to check
          Drifts    \* how the platform's variables differ from an example

VARIABLES files,     \* the example files, in the order of readdirSync
          next,      \* the next file to check
          failures,  \* the files reported so far
          exit,      \* "none" while the script runs, then its exit status
          booted     \* the app that was started, if any

envVars == <<files, next, failures, exit, booted>>

\* A tree has finitely many files. The values of an enumeration are its
\* literals, so that no platform sets one to "good".
ASSUME EnvAssumption ==
    /\ \A tree \in Trees : Len(tree) \in Nat
    /\ \A drift \in Drifts, k \in {"AUTH_MODE", "NEXT_PUBLIC_AUTH_MODE"} :
           k \in DOMAIN drift.sets => drift.sets[k] # "good"

Modes == {"better-auth-embedded", "external-oidc", "sso-gateway", "central-auth-service"}
ServiceModes == {"sso-gateway", "central-auth-service"}
Secrets == {"BETTER_AUTH_SECRET", "DATABASE_URL"}

ApiKeys == {"APP_ENV", "AUTH_AUDIENCE", "AUTH_ISSUER_URL", "AUTH_MODE", "AUTH_SERVICE_URL",
            "AUTH_TOPOLOGY", "LOG_LEVEL", "NODE_ENV", "OTEL_EXPORTER_OTLP_ENDPOINT",
            "OTEL_SERVICE_VERSION", "PORT", "PROJECT_NAME", "PROJECT_SLUG", "PROJECT_TIMEZONE",
            "DATABASE_URL", "BETTER_AUTH_URL", "BETTER_AUTH_SECRET", "JOBS_ENABLED",
            "CORS_ORIGINS", "SHUTDOWN_TIMEOUT_MS"}
WebKeys == {"NEXT_PUBLIC_API_URL", "NEXT_PUBLIC_APP_ENV", "NEXT_PUBLIC_AUTH_ISSUER_URL",
            "NEXT_PUBLIC_AUTH_MODE", "NEXT_PUBLIC_AUTH_SERVICE_URL",
            "NEXT_PUBLIC_AUTH_TOPOLOGY", "NEXT_PUBLIC_WEB_URL"}
DesktopKeys == {"VITE_API_URL", "VITE_APP_ENV", "VITE_DESKTOP_URL"}
MobileKeys == {"EXPO_PUBLIC_API_URL", "EXPO_PUBLIC_APP_ENV", "EXPO_PUBLIC_MOBILE_URL"}
MfeHostKeys == {"VITE_MFE_DASHBOARD_MANIFEST_URL", "VITE_MFE_HOST_ENV", "VITE_MFE_HOST_URL"}

\* The apps check-examples.ts knows, and the variables their loaders keep.
Apps == {"api", "web", "desktop", "mobile", "mfe-host"}

AppKeys == [app \in Apps |-> CASE app = "api" -> ApiKeys
                               [] app = "web" -> WebKeys
                               [] app = "desktop" -> DesktopKeys
                               [] app = "mobile" -> MobileKeys
                               [] app = "mfe-host" -> MfeHostKeys]

\* The variables of each public prefix, with one no schema knows.
Prefixed == [NEXT_PUBLIC_ |-> WebKeys \cup {"NEXT_PUBLIC_OTHER"},
             EXPO_PUBLIC_ |-> MobileKeys \cup {"EXPO_PUBLIC_OTHER"},
             VITE_ |-> DesktopKeys \cup MfeHostKeys \cup {"VITE_OTHER", "VITE_USER_NODE_ENV"}]

ForbiddenPrefixes(app) ==
    CASE app = "api" -> {"EXPO_PUBLIC_", "NEXT_PUBLIC_", "VITE_"}
      [] app = "web" -> {"EXPO_PUBLIC_", "VITE_"}
      [] app = "mobile" -> {"NEXT_PUBLIC_", "VITE_"}
      [] app \in {"desktop", "mfe-host"} -> {"EXPO_PUBLIC_", "NEXT_PUBLIC_"}

ForbiddenKeys(app) == IF app = "api" THEN {} ELSE Secrets

FRAMEWORK_INTERNAL_KEYS == {"VITE_USER_NODE_ENV"}

Offenders(app, source) ==
    (DOMAIN source \ FRAMEWORK_INTERNAL_KEYS)
        \cap (ForbiddenKeys(app) \cup UNION {Prefixed[p] : p \in ForbiddenPrefixes(app)})

pickEnv(source, keys) == [k \in keys \cap DOMAIN source |-> source[k]]

StageKey == [app \in Apps |-> CASE app = "api" -> "APP_ENV"
                                [] app = "web" -> "NEXT_PUBLIC_APP_ENV"
                                [] app = "desktop" -> "VITE_APP_ENV"
                                [] app = "mobile" -> "EXPO_PUBLIC_APP_ENV"
                                [] app = "mfe-host" -> "VITE_MFE_HOST_ENV"]

\* Keys without a default stay undefined.
Optional == {"AUTH_ISSUER_URL", "AUTH_SERVICE_URL", "BETTER_AUTH_SECRET", "BETTER_AUTH_URL",
             "CORS_ORIGINS", "DATABASE_URL", "OTEL_EXPORTER_OTLP_ENDPOINT",
             "OTEL_SERVICE_VERSION", "NEXT_PUBLIC_AUTH_ISSUER_URL",
             "NEXT_PUBLIC_AUTH_SERVICE_URL"}

Default(k) ==
    IF k \in {"AUTH_MODE", "NEXT_PUBLIC_AUTH_MODE"} THEN "better-auth-embedded"
    ELSE IF \E app \in Apps : k = StageKey[app] THEN "local" ELSE "default"

\* Every format refuses "", except that of CORS_ORIGINS, which takes any
\* string and reads "" as absent and commas as a list without an entry.
FieldFails(k, v) == k # "CORS_ORIGINS" /\ v \in {"empty", "malformed"}

Field(picked, k) ==
    IF k \notin DOMAIN picked THEN IF k \in Optional THEN "undefined" ELSE Default(k)
    ELSE IF k = "CORS_ORIGINS" /\ picked[k] = "empty" THEN "undefined" ELSE picked[k]

Hydrated(app, picked) == [k \in AppKeys[app] |-> Field(picked, k)]

-----------------------------------------------------------------------------
\* Deviation: the branch of the embedded mode returns before the rest.
ApiRequiresDeviation(env) ==
    IF env["AUTH_MODE"] = "better-auth-embedded"
    THEN {"BETTER_AUTH_SECRET", "BETTER_AUTH_URL"}
    ELSE {"DATABASE_URL", "CORS_ORIGINS", "AUTH_ISSUER_URL"} \cup
         IF env["AUTH_MODE"] \in ServiceModes THEN {"AUTH_SERVICE_URL"} ELSE {}

\* What superRefine asks for in production.
ApiRequires(env) ==
    {"DATABASE_URL", "CORS_ORIGINS"} \cup
    IF env["AUTH_MODE"] = "better-auth-embedded"
    THEN {"BETTER_AUTH_SECRET", "BETTER_AUTH_URL"}
    ELSE {"AUTH_ISSUER_URL"} \cup
         IF env["AUTH_MODE"] \in ServiceModes THEN {"AUTH_SERVICE_URL"} ELSE {}

WebRequires(env) ==
    {"NEXT_PUBLIC_API_URL", "NEXT_PUBLIC_WEB_URL"} \cup
    IF env["NEXT_PUBLIC_AUTH_MODE"] = "better-auth-embedded" THEN {}
    ELSE {"NEXT_PUBLIC_AUTH_ISSUER_URL"} \cup
         IF env["NEXT_PUBLIC_AUTH_MODE"] \in ServiceModes
         THEN {"NEXT_PUBLIC_AUTH_SERVICE_URL"} ELSE {}

DesktopRequires == {"VITE_API_URL", "VITE_DESKTOP_URL"}
MobileRequires == {"EXPO_PUBLIC_API_URL", "EXPO_PUBLIC_MOBILE_URL"}
MfeHostRequires == {"VITE_MFE_DASHBOARD_MANIFEST_URL", "VITE_MFE_HOST_URL"}

Requires(app, env) ==
    CASE app = "api" -> ApiRequires(env)
      [] app = "web" -> WebRequires(env)
      [] app = "desktop" -> DesktopRequires
      [] app = "mobile" -> MobileRequires
      [] app = "mfe-host" -> MfeHostRequires

requireInProduction(stage, env, keys) ==
    stage = "production" => \A k \in keys : env[k] \notin {"undefined", "empty"}

\* A loader: the guard on the whole source, then the fields, then the
\* requirements on what the fields became. Not accepting is a throw.
EnvOf(app, source) == Hydrated(app, pickEnv(source, AppKeys[app]))

Accepts(app, source) ==
    LET env == EnvOf(app, source)
    IN  /\ Offenders(app, source) = {}
        /\ \A k \in AppKeys[app] \cap DOMAIN source : ~FieldFails(k, source[k])
        /\ requireInProduction(env[StageKey[app]], env, Requires(app, env))

-----------------------------------------------------------------------------
(***************************************************************************)
(* check-examples.ts: every file is parsed and loaded; what fails is noted *)
(* and the next one is tried; the status says whether any failed.          *)
(***************************************************************************)
unquote(text) ==
    CASE text = "quoted" -> "good"
      [] text = "quotedEmpty" -> "empty"
      [] OTHER -> text

\* Blank lines, comments and lines without "=" are skipped; the last
\* assignment of a variable counts.
parseEnvFile(lines) ==
    LET take(source, line) ==
            IF line.ignored THEN source
            ELSE (line.key :> unquote(line.text)) @@ source
    IN  FoldLeft(take, <<>>, lines)

\* isAppName asks with "in", which also finds what appLoaders inherits: a file
\* with the name of such a function is given to it, and none of these throws.
Inherited == {"constructor", "hasOwnProperty", "isPrototypeOf", "propertyIsEnumerable",
              "toLocaleString", "toString", "valueOf", "__lookupGetter__",
              "__lookupSetter__"}

Fails(file) ==
    /\ file.app \notin Inherited
    /\ file.app \notin Apps \/ ~Accepts(file.app, parseEnvFile(file.lines))

EnvInit ==
    /\ files \in Trees
    /\ next = 1
    /\ failures = {}
    /\ exit = "none"
    /\ booted = <<>>

CheckFile ==
    /\ next <= Len(files)
    /\ failures' = IF Fails(files[next]) THEN failures \cup {next} ELSE failures
    /\ next' = next + 1
    /\ UNCHANGED <<files, exit, booted>>

Report ==
    /\ exit = "none"
    /\ next > Len(files)
    /\ exit' = IF failures # {} THEN "failure" ELSE "success"
    /\ UNCHANGED <<files, next, failures, booted>>

-----------------------------------------------------------------------------
(***************************************************************************)
(* The boot of an app on a platform whose variables are those of a checked *)
(* example with some set, changed or forgotten.                            *)
(***************************************************************************)
Platform(file, drift) ==
    LET example == parseEnvFile(file.lines)
    IN  [k \in DOMAIN drift.sets \cup (DOMAIN example \ drift.forgets) |->
            IF k \in DOMAIN drift.sets THEN drift.sets[k] ELSE example[k]]

\* Deviation: env.ts of the web app passes process.env.
PassedDeviation(app, platform) ==
    CASE app \in {"api", "web"} -> platform
      [] app = "mobile" -> pickEnv(platform, MobileKeys)
      [] app \in {"desktop", "mfe-host"} -> pickEnv(platform, Prefixed["VITE_"])

\* What an app hands to its loader: process.env, the three keys env.ts names,
\* or what Vite exposes as import.meta.env.
Passed(app, platform) ==
    CASE app = "api" -> platform
      [] app = "web" -> pickEnv(platform, {"NEXT_PUBLIC_API_URL", "NEXT_PUBLIC_APP_ENV",
                                           "NEXT_PUBLIC_WEB_URL"})
      [] app = "mobile" -> pickEnv(platform, MobileKeys)
      [] app \in {"desktop", "mfe-host"} -> pickEnv(platform, Prefixed["VITE_"])

\* What the API makes of its environment: the pool, the store of the
\* sessions, what signs them, and the origins CORS admits.
Database(env) == IF env["DATABASE_URL"] = "undefined" THEN "none" ELSE "pool"

Sessions(env) ==
    IF env["AUTH_MODE"] # "better-auth-embedded" THEN "none"
    ELSE IF Database(env) = "pool" THEN "drizzle" ELSE "memory"

Signing(env) ==
    [secret |-> IF env["BETTER_AUTH_SECRET"] = "undefined" THEN "hardCoded" ELSE "own",
     baseURL |-> IF env["BETTER_AUTH_URL"] = "undefined" THEN "localhost" ELSE "own"]

corsOrigin(env) ==
    IF env["CORS_ORIGINS"] \notin {"undefined", "commas"} THEN "allowlist"
    ELSE IF env["APP_ENV"] = "production" THEN "denied" ELSE "defaultDevOrigins"

BootApp(i, drift) ==
    LET app == files[i].app
        platform == Platform(files[i], drift)
        source == Passed(app, platform)
    IN  /\ exit # "none"
        /\ booted = <<>>
        /\ app \in Apps
        /\ booted' = <<[file |-> i, drift |-> drift, platform |-> platform,
                        up |-> Accepts(app, source), env |-> EnvOf(app, source)]>>
        /\ UNCHANGED <<files, next, failures, exit>>

EnvNext ==
    \/ CheckFile
    \/ Report
    \/ \E i \in 1 .. Len(files), drift \in Drifts : BootApp(i, drift)

EnvSpec == EnvInit /\ [][EnvNext]_envVars

-----------------------------------------------------------------------------
Boots == {booted[b] : b \in DOMAIN booted}

\* An API told that it is in production, and that comes up, uses none of the
\* fallbacks of development: it has a pool, its sessions are not in memory,
\* they are not signed with the secret of the repository for a localhost
\* origin, and the development origins are not admitted.
NoFallbackInProduction ==
    \A b \in Boots :
        /\ files[b.file].app = "api" /\ b.up
        /\ "APP_ENV" \in DOMAIN b.platform /\ b.platform["APP_ENV"] = "production"
        => /\ Database(b.env) = "pool"
           /\ Sessions(b.env) # "memory"
           /\ Sessions(b.env) # "none" => Signing(b.env) = [secret |-> "own", baseURL |-> "own"]
           /\ corsOrigin(b.env) # "defaultDevOrigins"

\* Variables the app does not use, other than the public ones of another app
\* on the API's platform, and real values in place of an example's.
Harmless(app, drift) ==
    /\ drift.forgets = {}
    /\ \A k \in DOMAIN drift.sets :
           IF k \in AppKeys[app] THEN drift.sets[k] = "good"
           ELSE app # "api" \/ k \notin UNION {Prefixed[p] \ FRAMEWORK_INTERNAL_KEYS :
                                                   p \in DOMAIN Prefixed}

\* If the check of the examples succeeds, every app boots with the variables
\* of any of its examples, also on a platform that sets more than they do.
PassedExamplesBoot ==
    exit = "success" =>
        \A b \in Boots : Harmless(files[b.file].app, b.drift) => b.up
=============================================================================
