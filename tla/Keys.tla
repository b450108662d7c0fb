-------------------------------- MODULE Keys --------------------------------
(***************************************************************************)
(* Who is let in: the keys of the configuration file, the keys of the key  *)
(* store, the bootstrap key, and the signed cookies of the admin pages.    *)
(* A token stands for a secret and for the id of its key.  Bearer tokens   *)
(* are resolved in the same order by the REST dependencies and by the MCP  *)
(* middleware, before the first wait of a request; a cookie is checked on  *)
(* its own, without a look at the key it was issued for.                   *)
(***************************************************************************)
EXTENDS Integers, FiniteSets

CONSTANTS
    Ids,            \* key ids the store generates
    ConfigKeys,     \* tokens that may be in auth.keys
    Configs,        \* the auth.keys of the file's versions: [ConfigKeys -> Roles]
    bootstrap,      \* the token in BOOTSTRAP_ADMIN_KEY
    HasBootstrap,   \* the variable is set
    KeepsSecret,    \* ADMIN_SESSION_SECRET is set
    Browsers,
    Seeded,         \* browsers that hold an admin_session cookie of another making
    SessionTTL, CsrfTTL,    \* in ticks
    MaxClock,       \* bound: ticks
    MaxRunning,     \* bound: keys with requests under way at a time
    MaxBoots        \* bound: restarts

Roles == {"none", "operator", "admin"}
Tokens == Ids \cup ConfigKeys \cup {bootstrap}

ASSUME KeysAssumption ==
    /\ Ids \cap ConfigKeys = {}
    /\ bootstrap \notin Ids \cup ConfigKeys
    /\ Configs \subseteq [ConfigKeys -> Roles]
    /\ HasBootstrap \in BOOLEAN /\ KeepsSecret \in BOOLEAN
    /\ Seeded \subseteq Browsers
    /\ SessionTTL \in Nat /\ CsrfTTL \in Nat

ASSUME BoundsAssumption == MaxClock \in Nat /\ MaxBoots \in Nat

VARIABLES
    role,           \* rows of api_keys: "none" where there is none
    revoked,        \* ids whose row is revoked
    config,         \* auth.keys of the current configuration
    cookie,         \* the admin_session cookie each browser holds
    form,           \* the csrf token of the page each browser shows
    running,        \* tokens of the requests that are under way
    clock,
    boots,
    seen            \* history: when each token was last good for an admin

storeVars == <<role, revoked>>
uiVars == <<cookie, form>>
vars == <<role, revoked, config, cookie, form, running, clock, boots, seen>>

-----------------------------------------------------------------------------
(* Bearer tokens.                                                          *)

ActiveAdmins == {k \in Ids \ revoked : role[k] = "admin"}

\* Fault: valid while the table is empty, as the module's docstring has it.
BootstrapWhileEmpty(t) == HasBootstrap /\ t = bootstrap /\ \A k \in Ids : role[k] = "none"

BootstrapValid(t) == HasBootstrap /\ t = bootstrap /\ ActiveAdmins = {}

\* Fault: the row's `revoked` is not looked at.
StoredRoleAnyway(t) == IF t \in Ids THEN role[t] ELSE "none"

\* verify_key: a revoked key is as good as none.
StoredRole(t) == IF t \in Ids \ revoked THEN role[t] ELSE "none"

ConfigRole(t) == IF t \in ConfigKeys THEN config[t] ELSE "none"

\* The role a token is admitted with, from the first source that knows it.
FoundRole(t) ==
    IF ConfigRole(t) # "none" THEN ConfigRole(t)
    ELSE IF StoredRole(t) # "none" THEN StoredRole(t)
    ELSE IF BootstrapValid(t) THEN "admin"
    ELSE "none"

VerifyAuth(t) == FoundRole(t) # "none"
VerifyAdmin(t) == FoundRole(t) = "admin"

-----------------------------------------------------------------------------
(* Cookies and csrf tokens.                                                *)

Secret == IF KeepsSecret THEN 0 ELSE boots

NoCookie == [key |-> bootstrap, at |-> 0, secret |-> -2]
Foreign == [key |-> bootstrap, at |-> 0, secret |-> -1]
CreateSession(k) == [key |-> k, at |-> clock, secret |-> Secret]

NoForm == [cookie |-> NoCookie, expires |-> 0, secret |-> -1]
GenerateCsrf(c) == [cookie |-> c, expires |-> clock + CsrfTTL, secret |-> Secret]
VerifyCsrf(c, f) == clock <= f.expires /\ f.cookie = c /\ f.secret = Secret

\* verify_session: the signature and the age.
VerifySession(c) == c.secret = Secret /\ clock - c.at <= SessionTTL

SignedIn(b) == VerifySession(cookie[b])

\* _get_common_context: every page carries a csrf token for the cookie that
\* came with the request, whatever that cookie is.
Rendered(b) == IF cookie[b] = NoCookie THEN NoForm ELSE GenerateCsrf(cookie[b])

-----------------------------------------------------------------------------

Init ==
    /\ role = [k \in Ids |-> "none"]
    /\ revoked = {}
    /\ config \in Configs
    /\ cookie = [b \in Browsers |-> IF b \in Seeded THEN Foreign ELSE NoCookie]
    /\ form = [b \in Browsers |-> NoForm]
    /\ running = {}
    /\ clock = 0
    /\ boots = 0
    /\ seen = [t \in Tokens |-> 0]

\* A search or an extraction, over REST or MCP, from its check to its end.
BeginCall(t) ==
    /\ VerifyAuth(t)
    /\ running' = running \cup {t}
    /\ Cardinality(running') <= MaxRunning
    /\ UNCHANGED <<storeVars, config, uiVars, clock, boots>>

EndCall(t) ==
    /\ t \in running
    /\ running' = running \ {t}
    /\ UNCHANGED <<storeVars, config, uiVars, clock, boots>>

\* The id is new, the row active.
RowAdded(k, r) ==
    /\ role[k] = "none"
    /\ role' = [role EXCEPT ![k] = r]
    /\ UNCHANGED revoked

\* Fault: the update is made without looking for the row.
RowRevokedBlindly(k) ==
    /\ revoked' = revoked \cup {k}
    /\ UNCHANGED role

\* Revoking a revoked key changes nothing; an unknown id is not found.
RowRevoked(k) ==
    /\ role[k] # "none"
    /\ revoked' = revoked \cup {k}
    /\ UNCHANGED role

CreateKey(t, k, r) ==
    /\ VerifyAdmin(t)
    /\ r # "none"
    /\ RowAdded(k, r)
    /\ UNCHANGED <<config, uiVars, running, clock, boots>>

RevokeKey(t, k) ==
    /\ VerifyAdmin(t)
    /\ RowRevoked(k)
    /\ UNCHANGED <<config, uiVars, running, clock, boots>>

\* POST /admin/reload; a file that does not validate leaves the old one.
Reload(t) ==
    /\ VerifyAdmin(t)
    /\ config' \in Configs
    /\ UNCHANGED <<storeVars, uiVars, running, clock, boots>>

LoginForm(b) ==
    /\ form' = [form EXCEPT ![b] = Rendered(b)]
    /\ UNCHANGED <<storeVars, config, cookie, running, clock, boots>>

\* Fault: a session that is still good stands in for the key.
LoginSubmitLax(b, t) ==
    /\ cookie[b] # NoCookie
    /\ VerifyCsrf(cookie[b], form[b])
    /\ VerifyAdmin(t) \/ (SignedIn(b) /\ cookie[b].key = t)
    /\ cookie' = [cookie EXCEPT ![b] = CreateSession(t)]
    /\ form' = [form EXCEPT ![b] = NoForm]
    /\ UNCHANGED <<storeVars, config, running, clock, boots>>

\* The csrf check comes first and needs a cookie.  A login is answered with a
\* redirect to the dashboard, a page of its own.
LoginSubmit(b, t) ==
    /\ cookie[b] # NoCookie
    /\ VerifyCsrf(cookie[b], form[b])
    /\ VerifyAdmin(t)
    /\ cookie' = [cookie EXCEPT ![b] = CreateSession(t)]
    /\ form' = [form EXCEPT ![b] = NoForm]
    /\ UNCHANGED <<storeVars, config, running, clock, boots>>

\* A login with another key is answered with the form, without a csrf token.
LoginRefused(b, t) ==
    /\ cookie[b] # NoCookie
    /\ VerifyCsrf(cookie[b], form[b])
    /\ ~VerifyAdmin(t)
    /\ form' = [form EXCEPT ![b] = NoForm]
    /\ UNCHANGED <<storeVars, config, cookie, running, clock, boots>>

\* A page of the admin interface: it reads, and changes no key.
Page(b) ==
    /\ SignedIn(b)
    /\ form' = [form EXCEPT ![b] = Rendered(b)]
    /\ UNCHANGED <<storeVars, config, cookie, running, clock, boots>>

\* Logging out, or the browser dropping the cookie at its max_age: the server
\* keeps no list of sessions, so the cookie's value stays good.  The login
\* form is shown.
Logout(b) ==
    /\ cookie' = [cookie EXCEPT ![b] = NoCookie]
    /\ form' = [form EXCEPT ![b] = NoForm]
    /\ UNCHANGED <<storeVars, config, running, clock, boots>>

Tick ==
    /\ clock < MaxClock
    /\ clock' = clock + 1
    /\ UNCHANGED <<storeVars, config, uiVars, running, boots>>

\* The rows stay, requests end, the file is read again, and without a
\* configured secret there is a new one.
Restart ==
    /\ boots < MaxBoots
    /\ boots' = boots + 1
    /\ running' = {}
    /\ config' \in Configs
    /\ UNCHANGED <<storeVars, uiVars, clock>>

Note == seen' = [t \in Tokens |-> IF VerifyAdmin(t) THEN clock ELSE seen[t]]

Step ==
    \/ \E t \in Tokens :
          \/ BeginCall(t)
          \/ EndCall(t)
          \/ Reload(t)
          \/ \E k \in Ids :
                \/ \E r \in Roles : CreateKey(t, k, r)
                \/ RevokeKey(t, k)
          \/ \E b \in Browsers :
                \/ LoginSubmit(b, t)
                \/ LoginRefused(b, t)
    \/ \E b \in Browsers :
          \/ LoginForm(b)
          \/ Page(b)
          \/ Logout(b)
    \/ Tick
    \/ Restart

Next == Step /\ Note

Spec == Init /\ [][Next]_vars

-----------------------------------------------------------------------------
(* Properties.                                                             *)

Times == 0..MaxClock
Signings == -2..MaxBoots
Cookies == [key : Tokens, at : Times, secret : Signings]

\* Every variable stays within its type, and only rows are revoked.
TypeOK ==
    /\ role \in [Ids -> Roles]
    /\ revoked \subseteq {k \in Ids : role[k] # "none"}
    /\ config \in Configs
    /\ cookie \in [Browsers -> Cookies]
    /\ form \in [Browsers -> [cookie : Cookies, expires : Nat, secret : Signings]]
    /\ running \subseteq Tokens
    /\ clock \in Times /\ boots \in 0..MaxBoots
    /\ seen \in [Tokens -> Times]

\* Revocation takes effect at once and for good: a request that is under way
\* may end, no other begins, with REST or MCP, after reloads and restarts too
\* (verify_key, McpAuthMiddleware._find_key).
RevokedStaysOut ==
    [][\A k \in revoked : k \in revoked' /\ (k \in running' => k \in running)]_vars

\* A cookie outlives the key it was issued for by SessionTTL at most, however
\* the key was lost (revoked, taken from the file, or the bootstrap key shut
\* out by the first admin key), and whatever is done with the cookie meanwhile:
\* the pages it opens render csrf tokens for a new login, but do not renew it.
StaleAccessBounded ==
    \A b \in Browsers :
        SignedIn(b) => LET k == cookie[b].key
                       IN  VerifyAdmin(k) \/ clock <= seen[k] + SessionTTL

\* With a bootstrap key in the environment there is always a token an admin
\* gets in with, whatever is revoked or edited (_check_bootstrap_key counts the
\* active admin keys, not the rows).
AlwaysAnAdmin == HasBootstrap => \E t \in Tokens : VerifyAdmin(t)

=============================================================================
