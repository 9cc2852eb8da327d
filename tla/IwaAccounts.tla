----------------------------- MODULE IwaAccounts -----------------------------
(***************************************************************************)
(* Iwa accounts: the login with Google or email, and its browser session.  *)
(* The routes of backend/src/app.ts under /api/auth (login, me, logout,    *)
(* logout-all), their tables in pgStore.ts (users, auth_identities,        *)
(* sessions), the cookies of iwaAccount.ts, and the page that calls them   *)
(* (iwa-web lib/iwaAccount.ts, app/IwaAuthProvider.tsx, the callback).     *)
(*                                                                         *)
(* A route awaits the database between any two of its steps.  A reply      *)
(* reaches the page later than it was made, in any order with others or    *)
(* never, and sets its cookies when it arrives; leaving a page drops the   *)
(* replies it waits for, not their effects.  The token of a session is     *)
(* random; here it is the number of its row.  A tick is a long time, days  *)
(* of a session's thirty: no request lasts through one.  A browser has one *)
(* tab.  No route changes the status of a user, so all of them are active. *)
(***************************************************************************)
EXTENDS Naturals, FiniteSets, Functions

CONSTANTS
  Identities,        \* (provider, subject) pairs the login provider vouches for
  EmailsOf,          \* the verified emails each of them may come with
  Browsers,
  Handlers,          \* bound: requests under way
  SameHost,          \* the page and the API are served by one host
  IWA_SESSION_TTL_MS,
  MAX_ACCOUNT_SESSIONS_PER_USER,
  MaxSessions,       \* bound: sessions ever created
  MaxTime            \* bound: the clock

ASSUME AccountsAssumption ==
  /\ IsFiniteSet(Identities) /\ DOMAIN EmailsOf = Identities
  /\ \A i \in Identities : IsFiniteSet(EmailsOf[i])
  /\ 0 \notin Browsers
  /\ IsFiniteSet(Handlers) /\ Handlers # {}
  /\ SameHost \in BOOLEAN
  /\ {IWA_SESSION_TTL_MS, MaxSessions, MaxTime} \subseteq Nat
  /\ MAX_ACCOUNT_SESSIONS_PER_USER \in Nat \ {0}

VARIABLES
  now,
  users,            \* table: the email of each user, by id
  auth_identities,  \* table: the user of each identity that has logged in
  sessions,         \* table: user, creation, expiry and revocation, by token
  jar,              \* the session cookie of each browser
  page,             \* what each browser shows, and whom as signed in
  requests,         \* what each handler is in the middle of
  lastLogin         \* who logged in at a browser last, as its page was told

tables == <<users, auth_identities, sessions>>
browser == <<jar, page, lastLogin>>
vars == <<now, tables, browser, requests>>

None == 0

\* What a handler remembers: the request, how far it is, the browser that
\* waits for it and the cookie it came with; for a login also the identity and
\* its email, the user found, and the rows counted.  The last two hold the
\* user and the new cookie of a reply.
Idle == [kind |-> "idle", at |-> "idle", browser |-> None, token |-> None,
         as |-> << >>, user |-> None, rows |-> {}, set |-> None]

Logouts == {"logout", "logout-all"}
UserIds == 1..Cardinality(Identities)
Tokens == 1..MaxSessions

Put(f, key, value) == [k \in DOMAIN f \cup {key} |-> IF k = key THEN value ELSE f[k]]

\* Variants named ..._bug_... are not part of the specification: each is what
\* the definition after it would be with a plausible mistake, kept to show that
\* the properties notice it.

Live(t) == t \in DOMAIN sessions /\ ~sessions[t].revoked /\ now <= sessions[t].expiresAt

Unrevoked(u) == {t \in DOMAIN sessions : sessions[t].user = u /\ ~sessions[t].revoked}

Revoke(ts) == [t \in DOMAIN sessions |->
                 IF t \in ts THEN [sessions[t] EXCEPT !.revoked = TRUE] ELSE sessions[t]]

-----------------------------------------------------------------------------
Init ==
  /\ now = 0
  /\ users = << >> /\ auth_identities = << >> /\ sessions = << >>
  /\ jar = [b \in Browsers |-> None]
  /\ page = [b \in Browsers |-> [at |-> "closed", user |-> None]]
  /\ requests = [h \in Handlers |-> Idle]
  /\ lastLogin = [b \in Browsers |-> None]

Tick ==
  /\ now < MaxTime
  /\ \A h \in Handlers : requests[h] = Idle
  /\ now' = now + 1
  /\ UNCHANGED <<tables, browser, requests>>

-----------------------------------------------------------------------------
(* The page *)

\* A request carries the cookie the jar holds when it is sent.
Request(b, kind, at) ==
  [kind |-> kind, at |-> at, browser |-> b, token |-> jar[b],
   as |-> << >>, user |-> None, rows |-> {}, set |-> None]

Send(h, request) ==
  /\ requests[h] = Idle
  /\ requests' = [requests EXCEPT ![h] = request]

\* A document is loaded: replies to the one before are dropped, and the
\* provider asks who is signed in.  It is an ordinary route, or the page the
\* login provider redirects to.
Open(h, b, at) ==
  /\ requests[h] = Idle
  /\ requests' = [g \in Handlers |->
       IF g = h THEN Request(b, "me", "load")
       ELSE IF requests[g].browser # b THEN requests[g]
       ELSE IF requests[g].at \in {"ok", "refused", "error"} THEN Idle
       ELSE [requests[g] EXCEPT !.browser = None]]
  /\ page' = [page EXCEPT ![b] = [at |-> at, user |-> None]]
  /\ UNCHANGED <<now, tables, jar, lastLogin>>

\* SupabaseJwtVerifier: the identity and the email in a token the service takes;
\* any other token fails the login, as Error does.
VerifiedIdentity == UNION {{i} \X EmailsOf[i] : i \in Identities}

\* The callback has exchanged its one-time code, once however often React
\* mounts it, and logs in with the identity it stands for.
Login(h, b, identity) ==
  /\ page[b].at = "callback"
  /\ Send(h, [Request(b, "login", "identity") EXCEPT !.as = identity])
  /\ page' = [page EXCEPT ![b].at = "login"]
  /\ UNCHANGED <<now, tables, jar, lastLogin>>

\* After the login reply: the new cookie has to come back through /me.
Recover(h, b) ==
  /\ page[b].at = "recover"
  /\ Send(h, Request(b, "recover", "load"))
  /\ page' = [page EXCEPT ![b].at = "recovering"]
  /\ UNCHANGED <<now, tables, jar, lastLogin>>

\* The header repeats the CSRF cookie, which the script of the page can read
\* only if the API is on its own host.
requireCsrf(b) == SameHost /\ jar[b] # None

\* logout and logout-all, from a page that shows somebody.  Without the header
\* they are refused before anything is read.
Logout(h, b, kind) ==
  /\ page[b].at = "app" /\ page[b].user # None
  /\ Send(h, Request(b, kind, IF requireCsrf(b) THEN "load" ELSE "refused"))
  /\ UNCHANGED <<now, tables, browser>>

-----------------------------------------------------------------------------
(* The routes *)

Goto(h, at) == requests' = [requests EXCEPT ![h].at = at]

\* A reply, the token its cookie sets, and the user it names; nobody may be
\* waiting for it any more.
Answer(r, status, token, user) ==
  [kind |-> r.kind, at |-> status, browser |-> r.browser,
   token |-> IF r.kind \in Logouts THEN r.token ELSE None,
   as |-> << >>, user |-> user, rows |-> {}, set |-> token]

Reply(h, status, token, user) ==
  LET r == requests[h]
  IN  requests' = [requests EXCEPT ![h] =
        IF r.browser = None THEN Idle ELSE Answer(r, status, token, user)]

\* To the page of a /me or a login a refusal is a failure like any other.
Fail(h) == Reply(h, "error", None, None)

\* The login has its user.
Identified(h, u) == requests' = [requests EXCEPT ![h].at = "load", ![h].user = u, ![h].as = << >>]

Replied(h) == requests[h].at \in {"ok", "refused", "error"}

\* upsertUserFromIdentity for an identity that logged in before: its user
\* takes over the email, unless another user has it by now (UNIQUE).
KnownIdentity(h) ==
  LET i == requests[h].as[1]
      e == requests[h].as[2]
      u == auth_identities[i]
  IN  /\ requests[h].at = "identity"
      /\ i \in DOMAIN auth_identities
      /\ IF \E v \in DOMAIN users \ {u} : users[v] = e
         THEN Fail(h) /\ UNCHANGED users
         ELSE Identified(h, u) /\ users' = [users EXCEPT ![u] = e]
      /\ UNCHANGED <<now, auth_identities, sessions, browser>>

NewIdentity(h) ==
  /\ requests[h].at = "identity"
  /\ requests[h].as[1] \notin DOMAIN auth_identities
  /\ Goto(h, "email")
  /\ UNCHANGED <<now, tables, browser>>

\* The email is not looked up: an identity is a user.
WithEmail_bug_none(e) == {}

WithEmail(e) == {u \in DOMAIN users : users[u] = e}

\* The same for a new one: it is linked to the user of its email, or to a new
\* user; the identity may have got its row since it was looked for (UNIQUE).
LinkOrInsert(h) ==
  LET i == requests[h].as[1]
      e == requests[h].as[2]
      u == IF WithEmail(e) # {} THEN CHOOSE v \in WithEmail(e) : TRUE
           ELSE Cardinality(DOMAIN users) + 1
  IN  /\ requests[h].at = "email"
      /\ IF i \in DOMAIN auth_identities
         THEN Fail(h) /\ UNCHANGED <<users, auth_identities>>
         ELSE /\ Identified(h, u)
              /\ users' = Put(users, u, e)
              /\ auth_identities' = Put(auth_identities, i, u)
      /\ UNCHANGED <<now, sessions, browser>>

\* loadAccountSession: the session of the cookie, if it is good.
LoadSession(h) ==
  LET r == requests[h]
  IN  /\ r.at = "load"
      /\ IF Live(r.token) THEN Goto(h, "loaded")
         ELSE CASE r.kind = "login" -> Goto(h, "sessions")
                [] r.kind \in {"me", "recover"} -> Fail(h)
                [] r.kind \in Logouts -> Reply(h, "ok", None, None)
      /\ UNCHANGED <<now, tables, browser>>

\* The session is left alone: the cookie will be replaced anyhow.
ReplaceExisting_bug_keep(h) ==
  /\ requests[h].kind = "login" /\ requests[h].at = "loaded"
  /\ Goto(h, "sessions")
  /\ UNCHANGED <<now, tables, browser>>

\* A login ends the session its browser had.
ReplaceExisting(h) ==
  /\ requests[h].kind = "login" /\ requests[h].at = "loaded"
  /\ sessions' = Revoke({requests[h].token})
  /\ Goto(h, "sessions")
  /\ UNCHANGED <<now, users, auth_identities, browser>>

\* createAccountSession reads the rows it will count, and waits for the locks
\* of others that do.
SelectSessions(h) ==
  /\ requests[h].at = "sessions"
  /\ requests' = [requests EXCEPT ![h].at = "insert", ![h].rows = Unrevoked(requests[h].user)]
  /\ UNCHANGED <<now, tables, browser>>

Excess_bug_none(rows) == {}

\* The oldest rows above the cap less one.
Excess(rows) ==
  {t \in rows : Cardinality({u \in rows : u > t}) >= MAX_ACCOUNT_SESSIONS_PER_USER - 1}

\* Under the locks, what was revoked meanwhile is no longer counted, and what
\* was inserted is not seen.
createAccountSession(h) ==
  LET r == requests[h]
      old == Excess({t \in r.rows : ~sessions[t].revoked})
      t == Cardinality(DOMAIN sessions) + 1
  IN  /\ r.at = "insert"
      /\ t \in Tokens
      /\ sessions' = Put(Revoke(old), t,
           [user |-> r.user, expiresAt |-> now + IWA_SESSION_TTL_MS,
            revoked |-> FALSE])
      /\ Reply(h, "ok", t, r.user)
      /\ UNCHANGED <<now, users, auth_identities, browser>>

\* The row is written whole, with no revocation.
touchAccountSession_bug_revive(t) ==
  sessions' = [sessions EXCEPT ![t].expiresAt = now + IWA_SESSION_TTL_MS, ![t].revoked = FALSE]

touchAccountSession(t) ==
  sessions' = [sessions EXCEPT ![t].expiresAt = now + IWA_SESSION_TTL_MS]

\* /me renews the session and sends its cookie again.
Me(h) ==
  LET t == requests[h].token
  IN  /\ requests[h].kind \in {"me", "recover"} /\ requests[h].at = "loaded"
      /\ touchAccountSession(t)
      /\ Reply(h, "ok", t, sessions[t].user)
      /\ UNCHANGED <<now, users, auth_identities, browser>>

\* /logout revokes the session, /logout-all every session of its user.
RevokeSessions(h) ==
  LET t == requests[h].token
  IN  /\ requests[h].kind \in Logouts /\ requests[h].at = "loaded"
      /\ sessions' = Revoke(IF requests[h].kind = "logout" THEN {t}
                            ELSE Unrevoked(sessions[t].user))
      /\ Reply(h, "ok", None, None)
      /\ UNCHANGED <<now, users, auth_identities, browser>>

\* The database fails a statement, or refuses a transaction that met another,
\* and nothing of the step is kept; or the reply is lost on its way.
Error(h) ==
  /\ requests[h] # Idle /\ requests[h].at # "error"
  /\ Fail(h)
  /\ UNCHANGED <<now, tables, browser>>

-----------------------------------------------------------------------------
(* Replies *)

\* A login opens the application only for the user it logged in.
requireRecoveredIwaSession(b, r) == IF r.user = lastLogin[b] THEN "app" ELSE "failed"

\* What the page does with the answer: a failed /me and any answer to a logout
\* show nobody; a login goes on to recover its session.
Shown(b, r) ==
  CASE r.kind = "login" /\ r.at = "ok" -> [page[b] EXCEPT !.at = "recover"]
    [] r.kind = "login" /\ r.at # "ok" -> [page[b] EXCEPT !.at = "failed"]
    [] r.kind = "recover" ->
         [at |-> requireRecoveredIwaSession(b, r), user |-> r.user]
    [] OTHER -> [page[b] EXCEPT !.user = r.user]

\* A reply arrives: a good one to /me or a login sets the cookie again, one to
\* a logout clears it.
Deliver(h) ==
  LET r == requests[h]
      b == r.browser
  IN  /\ Replied(h)
      /\ requests' = [requests EXCEPT ![h] = Idle]
      /\ jar' = IF r.at = "ok" THEN [jar EXCEPT ![b] = r.set] ELSE jar
      /\ page' = [page EXCEPT ![b] = Shown(b, r)]
      /\ lastLogin' = IF r.kind = "login" /\ r.at = "ok"
                      THEN [lastLogin EXCEPT ![b] = r.user] ELSE lastLogin
      /\ UNCHANGED <<now, tables>>

Page(h, b) ==
  \/ \E at \in {"app", "callback"} : Open(h, b, at)
  \/ \E identity \in VerifiedIdentity : Login(h, b, identity)
  \/ Recover(h, b)
  \/ \E kind \in Logouts : Logout(h, b, kind)

Routes(h) ==
  \/ KnownIdentity(h) \/ NewIdentity(h) \/ LinkOrInsert(h)
  \/ LoadSession(h) \/ ReplaceExisting(h) \/ SelectSessions(h) \/ createAccountSession(h)
  \/ Me(h) \/ RevokeSessions(h)
  \/ Error(h)

Next ==
  \/ Tick
  \/ \E h \in Handlers : Routes(h) \/ Deliver(h) \/ \E b \in Browsers : Page(h, b)

Spec == Init /\ [][Next]_vars

-----------------------------------------------------------------------------
(* Properties *)

Session == [user : UserIds, expiresAt : Nat, revoked : BOOLEAN]

\* The tables and the browsers hold what they should; an email has one user,
\* and every identity that has logged in has one that exists.
TypeOK ==
  /\ DOMAIN users \subseteq UserIds /\ Range(users) \subseteq UNION Range(EmailsOf)
  /\ IsInjective(users)
  /\ DOMAIN auth_identities \subseteq Identities /\ Range(auth_identities) \subseteq DOMAIN users
  /\ DOMAIN sessions \subseteq Tokens /\ Range(sessions) \subseteq Session
  /\ jar \in [Browsers -> {None} \cup DOMAIN sessions]
  /\ \A b \in Browsers : page[b].user \in {None} \cup DOMAIN users
  /\ \A h \in Handlers : requests[h].token \in {None} \cup DOMAIN sessions

\* A person who uses Google and email with one address has one account,
\* whatever first logins race, as long as the address of neither changes.
OneAccountPerAddress ==
  \A i, j \in DOMAIN auth_identities :
    /\ Cardinality(EmailsOf[i]) = 1 /\ EmailsOf[i] = EmailsOf[j]
    /\ \A k \in Identities : EmailsOf[i] \subseteq EmailsOf[k] => EmailsOf[k] = EmailsOf[i]
    => auth_identities[i] = auth_identities[j]

\* "Several devices are normal. Unbounded is not" (iwaAccount.ts:21): the cap
\* on the sessions of a user is exceeded by simultaneous logins only, and by
\* no more than there are of them.
SessionsBounded ==
  \A u \in UserIds :
    Cardinality(Unrevoked(u)) <= MAX_ACCOUNT_SESSIONS_PER_USER - 1 + Cardinality(Handlers)

\* "Current-device logout and logout-all operate on that backend session"
\* (ARCHITECTURE.md:579): the session of a logout that the service carried out is
\* over when its answer arrives, and so is that of one it refused, where page and
\* service share a host; and once a session is over, no request that was under way
\* brings it back.
LogoutEnds ==
  [][/\ \A h \in Handlers :
          /\ Deliver(h) /\ requests[h].kind \in Logouts
          /\ requests[h].at = "ok" \/ (requests[h].at = "refused" /\ SameHost)
          => ~Live(requests[h].token)
     /\ \A t \in DOMAIN sessions : sessions[t].revoked => sessions'[t].revoked]_vars

\* The same sentence, of the page: when it shows somebody out on an answer of the
\* service, carried out or refused, the session is over.  No run checks it, as it
\* does not hold where page and service have different hosts, as in
\* iwa-web/vercel.json: the service refuses, and the page shows nobody
\* (IwaAuthProvider.tsx:56).
ShownOutIsOut ==
  [][\A h \in Handlers :
       Deliver(h) /\ requests[h].kind \in Logouts /\ requests[h].at # "error"
         => ~Live(requests[h].token)]_vars

\* Somebody logs in on a browser another person used: however replies are
\* reordered, a cookie that still opens a session opens one of the last login.
JarHoldsLastLogin ==
  \A b \in Browsers : Live(jar[b]) => sessions[jar[b]].user = lastLogin[b]

=============================================================================
