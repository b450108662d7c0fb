-------------------------------- MODULE Sessions --------------------------------
(***************************************************************************)
(* Browser sessions: SessionManager over SessionStore (sessions/manager.py,*)
(* sessions/store.py) and the operations of routes/sessions_admin.py.      *)
(*                                                                         *)
(* A session is an encrypted file, read and written synchronously: a whole *)
(* operation is one action.  Use counts, fingerprints and names of cookies *)
(* are left out.  Files survive a restart of the process.                  *)
(***************************************************************************)
EXTENDS Integers, Functions

CONSTANTS
  Profiles,       \* session ids
  Browsers,       \* providers a session can be bound to
  Domains,        \* domains a session can be bound to
  Hosts,          \* what requests ask for
  Covers,         \* domain -> the hosts that are the domain or below it
  Proxies, AnyProxy,   \* proxy bindings, and the absence of a strict one
  Jars,           \* contents a session's cookies may have
  MaxLife         \* a session's remaining life is at most this, or Forever

Forever == MaxLife + 1
Session == [browser: Browsers, domain: Domains, proxy: Proxies \cup {AnyProxy},
            jar: Jars, life: 0..Forever]

ASSUME SessionsAssumption ==
  /\ MaxLife \in Nat
  /\ Covers \in [Domains -> (SUBSET Hosts) \ {{}}]

VARIABLE sessions         \* profile -> session, for the files there are

SessionsInit == sessions = << >>

\* now > expiry_ts
Expired(p) == sessions[p].life = 0

Without(profiles) == Restrict(sessions, DOMAIN sessions \ profiles)

\* resolve hands the session out: it exists, has not expired, and is bound to the
\* provider, the domain and (if strict) the proxy of the request.
Resolves(p, provider, host, proxy) ==
  /\ p \in DOMAIN sessions
  /\ ~Expired(p)
  /\ sessions[p].browser = provider
  /\ host \in Covers[sessions[p].domain]
  /\ sessions[p].proxy \in {AnyProxy, proxy}

\* What resolve leaves: an expired session is deleted, before anything else of it
\* is looked at.
AfterResolve(p) ==
  IF p \in DOMAIN sessions /\ Expired(p) THEN Without({p}) ELSE sessions

\* /admin/sessions/create, over a session of the same id or not.
SessionCreate(p) ==
  \E session \in Session :
    sessions' = [q \in DOMAIN sessions \cup {p} |-> IF q = p THEN session ELSE sessions[q]]

\* /admin/sessions/{id}/refresh: the cookies are new, the expiry is not.
SessionRefresh(p) ==
  /\ p \in DOMAIN sessions
  /\ \E jar \in Jars : sessions' = [sessions EXCEPT ![p].jar = jar]

\* invalidate by id, or by host and browser, each of which may be missing.
SessionInvalidate(p) == sessions' = Without({p})

SessionInvalidateAll(hosts, browsers) ==
  sessions' = Without({p \in DOMAIN sessions :
                         /\ Covers[sessions[p].domain] \cap hosts # {}
                         /\ sessions[p].browser \in browsers})

SessionsAge ==
  sessions' = [p \in DOMAIN sessions |->
                 [sessions[p] EXCEPT !.life = IF @ \in 1..MaxLife THEN @ - 1 ELSE @]]
===============================================================================
