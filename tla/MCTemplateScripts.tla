-------------------------- MODULE MCTemplateScripts --------------------------
(* Instances of TemplateScripts for TLC. *)
EXTENDS TemplateScripts

\* The surfaces with an auth configuration, one without env examples, and the
\* two that share a script.
FourSurfaces == {"api", "web", "mfe-host", "mfe-dashboard"}

\* One mode of each kind: no URL, an issuer only, an issuer and a service.
OneOfEachMode ==
    {"better-auth-embedded", "external-oidc", "central-auth-service"}

\* One file that a rename looks at and one of SKIP_FILES.
TwoTexts == {"README.md", "docs/template-strategy.md"}
OneSkipped == {"docs/template-strategy.md"}
=============================================================================
