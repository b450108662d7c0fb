----------------------------- MODULE KeysClaims -----------------------------
(* What the documentation promises a user who has the bootstrap key.       *)
EXTENDS Keys

\* The user opens the login form again and again, and sends it off whenever
\* the gateway takes it.
TriesToLogIn ==
    \A b \in Browsers : WF_vars(Next /\ LoginForm(b)) /\ SF_vars(Next /\ LoginSubmit(b, bootstrap))

PatientSpec == Spec /\ TriesToLogIn

\* "Log into the Admin UI at http://localhost:8080/admin/login with the
\* bootstrap key" (docs-src/docs/getting-started/bootstrap-key.md:25): as long as
\* that key is good, a user who keeps trying gets in.
BootstrapLogsIn ==
    \A b \in Browsers : <>(~VerifyAdmin(bootstrap) \/ SignedIn(b))

=============================================================================
