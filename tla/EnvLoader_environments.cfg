\* Every example of the API and of the web app over the variables that matter,
\* pairs of the others, and platforms that set, change or forget one of them.
CONSTANTS
    Trees <- SomeTrees
    Drifts <- SomeDrifts
SPECIFICATION EnvSpec
INVARIANTS NoFallbackInProduction PassedExamplesBoot
CHECK_DEADLOCK FALSE
