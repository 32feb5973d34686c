---------------------------- MODULE MCEnvLoader ----------------------------
(* Trees of examples and platforms for model checking EnvLoader.           *)
EXTENDS EnvLoader

Url == {"unset", "empty", "good"}

Line(k, v) == [ignored |-> v = "unset", key |-> k, text |-> v]

\* The examples of an app with one line for each variable its loader decides
\* on, over the values that matter; an unset one is commented out.
ApiExamples ==
    {[app |-> "api",
      lines |-> <<Line("APP_ENV", stage), Line("AUTH_MODE", mode), Line("DATABASE_URL", db),
                  Line("CORS_ORIGINS", cors), Line("BETTER_AUTH_SECRET", secret),
                  Line("BETTER_AUTH_URL", url), Line("AUTH_ISSUER_URL", issuer),
                  Line("AUTH_SERVICE_URL", service)>>] :
        stage \in {"unset", "malformed", "local", "production"},
        mode \in {"unset", "malformed"} \cup Modes, db \in Url,
        cors \in {"unset", "empty", "commas", "good"},
        secret \in {"unset", "malformed", "quoted"}, url \in {"unset", "good"},
        issuer \in Url, service \in {"unset", "good"}}

WebExamples ==
    {[app |-> "web",
      lines |-> <<Line("NEXT_PUBLIC_APP_ENV", stage), Line("NEXT_PUBLIC_AUTH_MODE", mode),
                  Line("NEXT_PUBLIC_API_URL", api), Line("NEXT_PUBLIC_WEB_URL", web),
                  Line("NEXT_PUBLIC_AUTH_ISSUER_URL", issuer),
                  Line("NEXT_PUBLIC_AUTH_SERVICE_URL", service)>>] :
        stage \in {"unset", "malformed", "production"},
        mode \in {"unset", "malformed"} \cup Modes,
        api \in {"unset", "quoted", "quotedEmpty"}, web \in {"unset", "good"},
        issuer \in Url, service \in {"unset", "good"}}

Plain == {[app |-> app, lines |-> <<Line(StageKey[app], stage), Line(k, v)>>] :
              app \in {"desktop", "mobile", "mfe-host"}, stage \in {"unset", "production"},
              k \in {"VITE_API_URL", "EXPO_PUBLIC_API_URL", "VITE_MFE_HOST_URL"}, v \in Url}
Pasted == {[app |-> app, lines |-> <<Line(k, "good")>>] :
               app \in Apps, k \in {"VITE_API_URL", "NEXT_PUBLIC_API_URL", "EXPO_PUBLIC_API_URL",
                                    "DATABASE_URL", "VITE_USER_NODE_ENV", "NODE_ENV"}}
Repeated == {[app |-> "api", lines |-> <<Line("APP_ENV", v), Line("DATABASE_URL", "good"),
                                         Line("APP_ENV", w)>>] :
                 v, w \in {"local", "production", "unset", "empty"}}
Small == Plain \cup Pasted \cup Repeated \cup {[app |-> app, lines |-> <<>>] : app \in {"admin", "constructor"}}

SomeTrees == {<<f>> : f \in ApiExamples \cup WebExamples}
             \cup (Small \X Small)

SomeDrifts == {[sets |-> <<>>, forgets |-> {}]}
    \cup {[sets |-> <<>>, forgets |-> {k}] : k \in {"APP_ENV", "AUTH_MODE", "DATABASE_URL",
                                                    "NEXT_PUBLIC_APP_ENV", "NEXT_PUBLIC_AUTH_MODE"}}
    \cup {[sets |-> (k :> "good"), forgets |-> {}] : k \in {"BETTER_AUTH_SECRET", "VITE_OTHER",
                                                           "VITE_USER_NODE_ENV", "NEXT_PUBLIC_API_URL"}}
    \cup {[sets |-> (k :> "production"), forgets |-> {}] : k \in {"APP_ENV", "NODE_ENV"}}
=============================================================================
