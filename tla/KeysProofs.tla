----------------------------- MODULE KeysProofs -----------------------------
(***************************************************************************)
(* Keys: the type invariant, revocation is for good, a lost key's cookie   *)
(* is good for one SessionTTL at most, and the bootstrap key leaves no     *)
(* deployment without an admin.                                            *)
(***************************************************************************)
EXTENDS Keys, TLAPS

-----------------------------------------------------------------------------
(* Type correctness.                                                       *)

LEMMA CookiesTyped ==
    ASSUME TypeOK
    PROVE  /\ Secret \in Signings
           /\ NoCookie \in Cookies /\ Foreign \in Cookies
           /\ \A k \in Tokens : CreateSession(k) \in Cookies
  BY KeysAssumption, BoundsAssumption
  DEF TypeOK, Cookies, Times, Signings, Tokens, Secret, NoCookie, Foreign, CreateSession

LEMMA FormsTyped ==
    ASSUME TypeOK
    PROVE  /\ NoForm \in [cookie : Cookies, expires : Nat, secret : Signings]
           /\ \A b \in Browsers :
                 Rendered(b) \in [cookie : Cookies, expires : Nat, secret : Signings]
<1>1. NoForm \in [cookie : Cookies, expires : Nat, secret : Signings]
  BY CookiesTyped, BoundsAssumption DEF NoForm, Signings
<1>2. \A b \in Browsers : cookie[b] \in Cookies /\ clock + CsrfTTL \in Nat
  BY KeysAssumption, BoundsAssumption DEF TypeOK, Times
<1> QED BY <1>1, <1>2, CookiesTyped DEF Rendered, GenerateCsrf

LEMMA InitTypeOK == Init => TypeOK
<1> SUFFICES ASSUME Init PROVE TypeOK OBVIOUS
<1>1. NoCookie \in Cookies /\ Foreign \in Cookies
  BY BoundsAssumption DEF NoCookie, Foreign, Cookies, Times, Signings, Tokens
<1>2. NoForm \in [cookie : Cookies, expires : Nat, secret : Signings]
  BY <1>1, BoundsAssumption DEF NoForm, Signings
<1> QED BY <1>1, <1>2, BoundsAssumption DEF Init, TypeOK, Roles, Times

LEMMA NextTypeOK == TypeOK /\ [Next]_vars => TypeOK'
<1> SUFFICES ASSUME TypeOK, [Next]_vars PROVE TypeOK'
  OBVIOUS
<1>1. CASE UNCHANGED vars
  BY <1>1 DEF TypeOK, vars, Cookies, Times, Signings, Tokens
<1>2. CASE Next
  <2>1. seen' \in [Tokens -> Times]
    BY <1>2 DEF Next, Note, TypeOK
  <2>2. ASSUME NEW t \in Tokens, BeginCall(t) PROVE TypeOK'
    BY <2>1, <2>2 DEF BeginCall, TypeOK, storeVars, uiVars
  <2>3. ASSUME NEW t \in Tokens, EndCall(t) PROVE TypeOK'
    BY <2>1, <2>3 DEF EndCall, TypeOK, storeVars, uiVars
  <2>4. ASSUME NEW t \in Tokens, Reload(t) PROVE TypeOK'
    BY <2>1, <2>4 DEF Reload, TypeOK, storeVars, uiVars
  <2>5. ASSUME NEW t \in Tokens, NEW k \in Ids, NEW r \in Roles, CreateKey(t, k, r)
        PROVE TypeOK'
    BY <2>1, <2>5 DEF CreateKey, RowAdded, TypeOK, uiVars
  <2>6. ASSUME NEW t \in Tokens, NEW k \in Ids, RevokeKey(t, k) PROVE TypeOK'
    BY <2>1, <2>6 DEF RevokeKey, RowRevoked, TypeOK, uiVars
  <2>7. ASSUME NEW t \in Tokens, NEW b \in Browsers, LoginSubmit(b, t) PROVE TypeOK'
    BY <2>1, <2>7, CookiesTyped, FormsTyped DEF LoginSubmit, TypeOK, storeVars
  <2>8. ASSUME NEW t \in Tokens, NEW b \in Browsers, LoginRefused(b, t) PROVE TypeOK'
    BY <2>1, <2>8, FormsTyped DEF LoginRefused, TypeOK, storeVars
  <2>9. ASSUME NEW b \in Browsers, LoginForm(b) PROVE TypeOK'
    BY <2>1, <2>9, FormsTyped DEF LoginForm, TypeOK, storeVars
  <2>10. ASSUME NEW b \in Browsers, Page(b) PROVE TypeOK'
    BY <2>1, <2>10, FormsTyped DEF Page, TypeOK, storeVars
  <2>11. ASSUME NEW b \in Browsers, Logout(b) PROVE TypeOK'
    BY <2>1, <2>11, CookiesTyped, FormsTyped DEF Logout, TypeOK, storeVars
  <2>12. CASE Tick
    BY <2>1, <2>12, BoundsAssumption DEF Tick, TypeOK, storeVars, uiVars, Times
  <2>13. CASE Restart
    BY <2>1, <2>13, BoundsAssumption DEF Restart, TypeOK, storeVars, uiVars
  <2> QED
    BY <1>2, <2>2, <2>3, <2>4, <2>5, <2>6, <2>7, <2>8, <2>9, <2>10, <2>11, <2>12, <2>13
    DEF Next, Step
<1> QED BY <1>1, <1>2

\* Every variable stays within its type, for any number of keys, browsers,
\* versions of the file and restarts.
THEOREM KeysTypeCorrect == Spec => []TypeOK
  BY InitTypeOK, NextTypeOK, PTL DEF Spec

-----------------------------------------------------------------------------
(* Revocation.                                                             *)

\* No source knows a revoked key: the file and the environment never did.
LEMMA RevokedUnknown ==
    ASSUME TypeOK, NEW k \in revoked
    PROVE  ~VerifyAuth(k)
<1>1. k \in Ids /\ k \notin ConfigKeys /\ k # bootstrap
  BY KeysAssumption DEF TypeOK
<1> QED BY <1>1 DEF VerifyAuth, FoundRole, ConfigRole, StoredRole, BootstrapValid

LEMMA NextRevokedStaysOut ==
    TypeOK /\ [Next]_vars =>
        [\A k \in revoked : k \in revoked' /\ (k \in running' => k \in running)]_vars
<1> SUFFICES ASSUME TypeOK, Next, NEW k \in revoked
             PROVE  k \in revoked' /\ (k \in running' => k \in running)
  OBVIOUS
<1>1. ASSUME NEW t \in Tokens, BeginCall(t)
      PROVE  k \in revoked' /\ (k \in running' => k \in running)
  <2>1. t # k
    BY <1>1, RevokedUnknown DEF BeginCall
  <2> QED BY <1>1, <2>1 DEF BeginCall, storeVars
<1>2. ASSUME NEW t \in Tokens, EndCall(t)
      PROVE  k \in revoked' /\ (k \in running' => k \in running)
  BY <1>2 DEF EndCall, storeVars
<1>3. ASSUME NEW t \in Tokens, NEW j \in Ids, RevokeKey(t, j)
      PROVE  k \in revoked' /\ (k \in running' => k \in running)
  BY <1>3 DEF RevokeKey, RowRevoked
<1>4. CASE Restart
  BY <1>4 DEF Restart, storeVars
<1>5. CASE /\ UNCHANGED <<revoked, running>>
  BY <1>5
<1> QED
  BY <1>1, <1>2, <1>3, <1>4, <1>5
  DEF Next, Step, Reload, CreateKey, RowAdded, LoginSubmit, LoginRefused, LoginForm, Page, Logout, Tick,
      storeVars

\* Revocation takes effect at once and for good.
THEOREM RevocationIsFinal == Spec => RevokedStaysOut
<1>1. TypeOK /\ [Next]_vars =>
        [\A k \in revoked : k \in revoked' /\ (k \in running' => k \in running)]_vars
  BY NextRevokedStaysOut
<1> QED BY <1>1, KeysTypeCorrect, PTL DEF Spec, RevokedStaysOut

-----------------------------------------------------------------------------
(* Cookies of lost keys.                                                   *)

\* No cookie is of the future, and one this gateway signed names a key that is
\* good for an admin, or was when the cookie was signed or later.
CookiesEarned ==
    \A b \in Browsers :
        /\ cookie[b].at <= clock
        /\ cookie[b].secret >= 0 => \/ VerifyAdmin(cookie[b].key)
                                    \/ cookie[b].at <= seen[cookie[b].key]

LEMMA InitCookiesEarned == Init => CookiesEarned
  BY BoundsAssumption DEF Init, CookiesEarned, NoCookie, Foreign

LEMMA NextCookiesEarned == TypeOK /\ CookiesEarned /\ [Next]_vars => CookiesEarned'
<1> SUFFICES ASSUME TypeOK, CookiesEarned, [Next]_vars, NEW b \in Browsers
             PROVE  /\ cookie'[b].at <= clock'
                    /\ cookie'[b].secret >= 0 => \/ VerifyAdmin(cookie[b].key)'
                                                 \/ cookie'[b].at <= seen'[cookie'[b].key]
  BY DEF CookiesEarned
<1>1. CASE UNCHANGED vars
  <2>1. VerifyAdmin(cookie[b].key)' <=> VerifyAdmin(cookie[b].key)
    BY <1>1 DEF vars, VerifyAdmin, FoundRole, ConfigRole, StoredRole, BootstrapValid, ActiveAdmins
  <2> QED BY <1>1, <2>1 DEF CookiesEarned, vars
<1>2. CASE Next
  <2>1. cookie[b] \in Cookies /\ clock \in Times
    BY DEF TypeOK
  <2>2. clock <= clock'
    BY <1>2, <2>1, BoundsAssumption
    DEF Next, Step, BeginCall, EndCall, Reload, CreateKey, RevokeKey, LoginSubmit, LoginRefused,
        LoginForm, Page, Logout, Tick, Restart, Times
  <2>3. CASE cookie'[b] = cookie[b]
    <3>1. cookie'[b].at <= clock'
      BY <2>1, <2>2, <2>3, <1>2, BoundsAssumption
      DEF CookiesEarned, Cookies, Times, Next, Step, BeginCall, EndCall, Reload, CreateKey,
          RevokeKey, LoginSubmit, LoginRefused, LoginForm, Page, Logout, Tick, Restart
    <3>2. CASE VerifyAdmin(cookie[b].key)
      <4>1. seen'[cookie[b].key] = clock
        BY <1>2, <2>1, <3>2 DEF Next, Note, Cookies
      <4> QED BY <2>3, <3>1, <4>1 DEF CookiesEarned
    <3>3. CASE ~VerifyAdmin(cookie[b].key)
      <4>1. seen'[cookie[b].key] = seen[cookie[b].key]
        BY <1>2, <2>1, <3>3 DEF Next, Note, Cookies
      <4> QED BY <2>3, <3>1, <3>3, <4>1 DEF CookiesEarned
    <3> QED BY <3>2, <3>3
  <2>4. ASSUME NEW t \in Tokens, NEW a \in Browsers, LoginSubmit(a, t), cookie'[b] # cookie[b]
        PROVE  cookie'[b].at <= clock' /\ cookie'[b].at <= seen'[cookie'[b].key]
    <3>1. cookie'[b] = CreateSession(t)
      BY <2>4 DEF LoginSubmit, TypeOK
    <3>2. seen'[t] = clock
      BY <1>2, <2>4 DEF LoginSubmit, Next, Note
    <3> QED BY <2>2, <3>1, <3>2, <2>1 DEF CreateSession, Times
  <2>5. ASSUME NEW a \in Browsers, Logout(a), cookie'[b] # cookie[b]
        PROVE  cookie'[b].at <= clock' /\ ~(cookie'[b].secret >= 0)
    <3>1. cookie'[b] = NoCookie
      BY <2>5 DEF Logout, TypeOK
    <3>2. clock' = clock
      BY <2>5 DEF Logout
    <3>3. NoCookie.at = 0 /\ NoCookie.secret = -2
      BY DEF NoCookie
    <3>4. 0 <= clock
      BY <2>1, BoundsAssumption DEF Times
    <3> QED BY <3>1, <3>2, <3>3, <3>4
  <2>6. \/ cookie'[b] = cookie[b]
        \/ \E t \in Tokens, a \in Browsers : LoginSubmit(a, t)
        \/ \E a \in Browsers : Logout(a)
    BY <1>2
    DEF Next, Step, BeginCall, EndCall, Reload, CreateKey, RevokeKey, LoginRefused, LoginForm,
        Page, Tick, Restart, uiVars
  <2> QED BY <2>3, <2>4, <2>5, <2>6
<1> QED BY <1>1, <1>2

LEMMA EarnedMeansBounded ==
    ASSUME TypeOK, CookiesEarned PROVE StaleAccessBounded
<1> SUFFICES ASSUME NEW b \in Browsers, SignedIn(b), ~VerifyAdmin(cookie[b].key)
             PROVE  clock <= seen[cookie[b].key] + SessionTTL
  BY DEF StaleAccessBounded
<1>1. cookie[b] \in Cookies /\ seen[cookie[b].key] \in Times /\ clock \in Times
  BY DEF TypeOK, Cookies
<1>2. cookie[b].secret >= 0 /\ clock - cookie[b].at <= SessionTTL
  BY DEF SignedIn, VerifySession, Secret, TypeOK
<1>3. cookie[b].at <= seen[cookie[b].key]
  BY <1>2 DEF CookiesEarned
<1> QED BY <1>1, <1>2, <1>3, KeysAssumption, BoundsAssumption DEF Cookies, Times

\* The cookie of a key that is revoked, taken out of the file or, for the
\* bootstrap key, shut out, opens pages for one SessionTTL at most.
THEOREM StaleAccessEnds == Spec => []StaleAccessBounded
  BY InitTypeOK, NextTypeOK, InitCookiesEarned, NextCookiesEarned, EarnedMeansBounded, PTL DEF Spec

-----------------------------------------------------------------------------
(* The bootstrap key.                                                      *)

LEMMA BootstrapOrAdmin == TypeOK => AlwaysAnAdmin
<1> SUFFICES ASSUME TypeOK, HasBootstrap PROVE \E t \in Tokens : VerifyAdmin(t)
  BY DEF AlwaysAnAdmin
<1>1. CASE ActiveAdmins = {}
  <2>1. FoundRole(bootstrap) = "admin"
    BY <1>1, KeysAssumption DEF FoundRole, ConfigRole, StoredRole, BootstrapValid
  <2> QED BY <2>1 DEF VerifyAdmin, Tokens
<1>2. CASE ActiveAdmins # {}
  <2>1. PICK k \in Ids \ revoked : role[k] = "admin"
    BY <1>2 DEF ActiveAdmins
  <2>2. FoundRole(k) = "admin"
    BY <2>1, KeysAssumption DEF FoundRole, ConfigRole, StoredRole
  <2> QED BY <2>1, <2>2 DEF VerifyAdmin, Tokens
<1> QED BY <1>1, <1>2

\* With a bootstrap key, no revocation and no edit of the file locks every
\* admin out.
THEOREM NeverLockedOut == Spec => []AlwaysAnAdmin
  BY KeysTypeCorrect, BootstrapOrAdmin, PTL

=============================================================================
