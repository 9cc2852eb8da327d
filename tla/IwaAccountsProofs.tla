-------------------------- MODULE IwaAccountsProofs --------------------------
(***************************************************************************)
(* Accounts and their sessions, for any identities, emails, browsers and   *)
(* requests under way: one account per address (OneAccountPerAddress), a   *)
(* bounded number of sessions (SessionsBounded), logouts that last         *)
(* (LogoutEnds), and cookies of the last login only (JarHoldsLastLogin).   *)
(***************************************************************************)
EXTENDS IwaAccounts, SumTheorems

-----------------------------------------------------------------------------
(* The invariants *)

\* The rows of a table are numbered without a gap.
Numbered(f) == Cardinality(DOMAIN f) \in Nat /\ DOMAIN f = 1..Cardinality(DOMAIN f)

Emails == UNION Range(EmailsOf)

\* An email has one user, and a user the email of an identity linked to it.
UserTables ==
  /\ Numbered(users) /\ DOMAIN users \subseteq UserIds
  /\ \A u \in DOMAIN users : users[u] \in Emails
  /\ \A u, v \in DOMAIN users : users[u] = users[v] => u = v
  /\ DOMAIN auth_identities \subseteq Identities
  /\ \A i \in DOMAIN auth_identities : auth_identities[i] \in DOMAIN users
  /\ \A u \in DOMAIN users : \E i \in DOMAIN auth_identities :
       auth_identities[i] = u /\ users[u] \in EmailsOf[i]

\* An identity that only ever comes with one email, one that no other identity
\* shares with a different one.
Plain(i) ==
  /\ Cardinality(EmailsOf[i]) = 1
  /\ \A k \in Identities : EmailsOf[i] \subseteq EmailsOf[k] => EmailsOf[k] = EmailsOf[i]

\* The user of a plain identity has its email, and no identity with another.
PlainUsers ==
  \A i \in DOMAIN auth_identities : Plain(i) =>
    /\ users[auth_identities[i]] \in EmailsOf[i]
    /\ \A k \in DOMAIN auth_identities :
         auth_identities[k] = auth_identities[i] => EmailsOf[k] = EmailsOf[i]

SessionTable ==
  /\ Numbered(sessions) /\ DOMAIN sessions \subseteq Tokens
  /\ \A t \in DOMAIN sessions : sessions[t] \in Session /\ sessions[t].user \in DOMAIN users

Held == {None} \cup DOMAIN sessions
Known == {None} \cup DOMAIN users

PageAt == {"closed", "app", "callback", "login", "recover", "recovering", "failed"}

BrowserTypes ==
  /\ jar \in [Browsers -> Held]
  /\ page \in [Browsers -> [at : PageAt, user : Known]]
  /\ lastLogin \in [Browsers -> Known]

Answered == {"ok", "refused", "error"}

RequestType ==
  [kind : {"idle", "me", "recover", "login"} \cup Logouts,
   at : {"idle", "identity", "email", "load", "loaded", "sessions", "insert"} \cup Answered,
   browser : {None} \cup Browsers, token : Held, as : {<< >>} \cup VerifiedIdentity,
   user : Known, rows : SUBSET DOMAIN sessions, set : Held]

\* What a handler knows at each place.
HandlerAt(r) ==
  /\ (r.at = "idle" <=> r.kind = "idle") /\ (r.kind = "idle" => r = Idle)
  /\ r.at \in {"identity", "email"} => r.kind = "login" /\ r.as \in VerifiedIdentity
  /\ r.at \in {"sessions", "insert"} => r.kind = "login"
  /\ r.kind = "login" /\ r.at \in {"load", "loaded", "sessions", "insert"} => r.user # None
  /\ r.at = "insert" => \A t \in r.rows : sessions[t].user = r.user
  /\ r.at = "loaded" => r.token # None /\ now <= sessions[r.token].expiresAt

\* What a reply says.
ReplyAt(r) ==
  /\ r.at \in Answered => r.browser # None
  /\ r.at = "ok" /\ r.kind \notin Logouts => r.set # None /\ sessions[r.set].user = r.user
  /\ r.at = "ok" /\ r.kind \in Logouts => r.set = None /\ r.user = None /\ ~Live(r.token)
  /\ r.at = "refused" => r.kind \in Logouts /\ (SameHost => r.token = None)
  /\ r.at \in {"refused", "error"} => r.user = None

RequestsOK ==
  \A h \in Handlers : HandlerAt(requests[h]) /\ ReplyAt(requests[h])

TypeInv ==
  /\ now \in Nat
  /\ UserTables /\ SessionTable /\ BrowserTypes
  /\ requests \in [Handlers -> RequestType]
  /\ RequestsOK

\* The documents: a request belongs to the state of the page that waits for it;
\* until a login is answered, all of them carry the cookie of the jar; and a
\* login past its first look leaves nothing alive in the jar.
Waits(b, r) ==
  /\ r.kind = "login" => page[b].at = "login"
  /\ r.kind = "recover" => page[b].at = "recovering"
  /\ r.kind \in Logouts => page[b].at = "app"
  /\ page[b].at \in {"callback", "login"} =>
       /\ r.at \notin Answered => r.token = jar[b]
       /\ r.kind = "me" => {r.token, r.set} \subseteq {None, jar[b]}
  /\ r.kind = "login" /\ r.at \in {"sessions", "insert", "ok"} => ~Live(jar[b])

\* A good session within reach of a browser is one of its last login.
OfLast(b, t) == Live(t) => sessions[t].user = lastLogin[b]

Document(b, r) ==
  /\ Waits(b, r)
  /\ r.kind \in {"me", "recover"} => OfLast(b, r.token) /\ OfLast(b, r.set)

Documents ==
  /\ \A h \in Handlers :
       requests[h].browser # None => Document(requests[h].browser, requests[h])
  /\ \A g, h \in Handlers :
       /\ {requests[g].kind, requests[h].kind} \subseteq {"login", "recover"}
       /\ requests[g].browser = requests[h].browser /\ requests[h].browser # None
       => g = h
  /\ \A b \in Browsers : OfLast(b, jar[b])

\* Every open session can be put down to a handler: only the oldest ones, less
\* than the cap, are put down to one that made a later session, and a handler
\* about to insert has seen its own, and every one older than one it has seen.
PutDown(u, f) ==
  /\ \A s, t \in Unrevoked(u) : s < t /\ f[s] = f[t] =>
       Cardinality({x \in Unrevoked(u) : x <= s}) < MAX_ACCOUNT_SESSIONS_PER_USER
  /\ \A h \in Handlers : requests[h].at = "insert" /\ requests[h].user = u =>
       \A t \in Unrevoked(u) :
         /\ f[t] = h => t \in requests[h].rows
         /\ t \notin requests[h].rows => \A x \in requests[h].rows : x < t

Attributed == \A u \in UserIds : \E f \in [Tokens -> Handlers] : PutDown(u, f)

-----------------------------------------------------------------------------
(* Tables numbered without a gap *)

\* The next row of a table is numbered by how many there are.
LEMMA NextRow ==
  ASSUME NEW f, NEW value, Numbered(f), NEW n, n = Cardinality(DOMAIN f) + 1
  PROVE  /\ n \in Nat \ {0} /\ n \notin DOMAIN f /\ \A k \in DOMAIN f : k \in Nat /\ 1 <= k /\ k < n
         /\ DOMAIN Put(f, n, value) = DOMAIN f \cup {n}
         /\ Numbered(Put(f, n, value))
<1> DEFINE m == Cardinality(DOMAIN f)
<1>1. m \in Nat /\ DOMAIN f = 1..m
  BY DEF Numbered
<1>2. /\ n \in Nat \ {0} /\ n \notin DOMAIN f /\ \A k \in DOMAIN f : k \in Nat /\ 1 <= k /\ k < n
      /\ DOMAIN f \cup {n} = 1..n
  BY <1>1
<1>3. DOMAIN Put(f, n, value) = 1..n
  BY <1>2 DEF Put
<1>4. Cardinality(1..n) = n
  BY <1>2, FS_Interval, 1 \in Int, n \in Int, SMT
<1> QED
  BY <1>2, <1>3, <1>4 DEF Numbered

\* A table written over in place keeps its numbering.
LEMMA SameRows ==
  ASSUME NEW f, NEW g, Numbered(f), DOMAIN g = DOMAIN f
  PROVE  Numbered(g)
BY DEF Numbered

\* The fields of the session table's rows.
LEMMA Rows ==
  ASSUME SessionTable
  PROVE  /\ None \notin DOMAIN sessions
         /\ \A t \in DOMAIN sessions :
              /\ t \in Nat /\ t \in Tokens
              /\ sessions[t].user \in UserIds /\ sessions[t].user \in DOMAIN users
              /\ sessions[t].expiresAt \in Nat /\ sessions[t].revoked \in BOOLEAN
              /\ sessions[t] = [user |-> sessions[t].user, expiresAt |-> sessions[t].expiresAt,
                                revoked |-> sessions[t].revoked]
BY DEF SessionTable, Numbered, Session, None, Tokens

-----------------------------------------------------------------------------
(* Requests *)

\* A request with its fields.
LEMMA Fields ==
  ASSUME NEW r \in RequestType
  PROVE  /\ r.kind \in {"idle", "me", "recover", "login"} \cup Logouts
         /\ r.at \in {"idle", "identity", "email", "load", "loaded", "sessions", "insert"} \cup Answered
         /\ r.browser \in {None} \cup Browsers /\ r.token \in Held
         /\ r.as \in {<< >>} \cup VerifiedIdentity
         /\ r.user \in Known /\ r.rows \subseteq DOMAIN sessions /\ r.set \in Held
         /\ r = [kind |-> r.kind, at |-> r.at, browser |-> r.browser, token |-> r.token,
                 as |-> r.as, user |-> r.user, rows |-> r.rows, set |-> r.set]
BY DEF RequestType

\* An identity the login provider vouches for, and one of its emails.
LEMMA Verified ==
  ASSUME NEW as \in VerifiedIdentity
  PROVE  as[1] \in Identities /\ as[2] \in EmailsOf[as[1]] /\ as[2] \in Emails
<1>1. PICK i \in Identities : as \in {i} \X EmailsOf[i]
  BY DEF VerifiedIdentity
<1>2. as[1] = i /\ as[2] \in EmailsOf[i]
  BY <1>1
<1>3. EmailsOf[i] \in Range(EmailsOf)
  BY AccountsAssumption DEF Range
<1> QED
  BY <1>2, <1>3 DEF Emails

-----------------------------------------------------------------------------
(* The session table *)

\* What a step does to sessions: rows stay, of the same user; a revoked one
\* stays revoked, a good one good, and one that opens nothing never does again.
SessionsKeep ==
  /\ DOMAIN sessions \subseteq DOMAIN sessions'
  /\ \A t \in DOMAIN sessions :
       /\ sessions'[t].user = sessions[t].user
       /\ sessions[t].revoked => sessions'[t].revoked
       /\ now <= sessions[t].expiresAt => now <= sessions'[t].expiresAt
  /\ \A t \in Held : ~Live(t) => ~(Live(t)')

\* The table after Revoke.
LEMMA Revoked ==
  ASSUME SessionTable, NEW ts
  PROVE  /\ DOMAIN Revoke(ts) = DOMAIN sessions
         /\ \A t \in DOMAIN sessions :
              /\ Revoke(ts)[t] \in Session
              /\ Revoke(ts)[t].user = sessions[t].user
              /\ Revoke(ts)[t].expiresAt = sessions[t].expiresAt
              /\ Revoke(ts)[t].revoked <=> t \in ts \/ sessions[t].revoked
<1>1. DOMAIN Revoke(ts) = DOMAIN sessions
  BY DEF Revoke
<1>2. ASSUME NEW t \in DOMAIN sessions
      PROVE  /\ Revoke(ts)[t] \in Session
             /\ Revoke(ts)[t].user = sessions[t].user
             /\ Revoke(ts)[t].expiresAt = sessions[t].expiresAt
             /\ Revoke(ts)[t].revoked <=> t \in ts \/ sessions[t].revoked
  <2>1. CASE t \in ts
    <3>1. Revoke(ts)[t] = [sessions[t] EXCEPT !.revoked = TRUE]
      BY <2>1 DEF Revoke
    <3>2. sessions[t] \in Session
      BY DEF SessionTable
    <3> QED
      BY <2>1, <3>1, <3>2 DEF Session
  <2>2. CASE t \notin ts
    <3>1. Revoke(ts)[t] = sessions[t]
      BY <2>2 DEF Revoke
    <3> QED
      BY <2>2, <3>1 DEF SessionTable
  <2> QED
    BY <2>1, <2>2
<1> QED
  BY <1>1, <1>2

\* A step that revokes sessions, and does nothing else to them.
LEMMA RevokeKeeps ==
  ASSUME SessionTable, now \in Nat, now' = now, NEW ts, sessions' = Revoke(ts),
         DOMAIN users \subseteq DOMAIN users'
  PROVE  SessionTable' /\ SessionsKeep
<1>1. /\ DOMAIN sessions' = DOMAIN sessions
      /\ \A t \in DOMAIN sessions :
           /\ sessions'[t] \in Session
           /\ sessions'[t].user = sessions[t].user
           /\ sessions'[t].expiresAt = sessions[t].expiresAt
           /\ sessions'[t].revoked <=> t \in ts \/ sessions[t].revoked
  BY Revoked
<1>2. Numbered(sessions) /\ Numbered(sessions')
  BY <1>1, SameRows DEF SessionTable
<1>3. SessionTable'
  BY <1>1, <1>2 DEF SessionTable
<1>4. SessionsKeep
  BY <1>1 DEF SessionsKeep, Live
<1> QED
  BY <1>3, <1>4

\* Some sessions are revoked and one is added, of an existing user.
Inserted(ts, t, u) ==
  /\ t = Cardinality(DOMAIN sessions) + 1 /\ t \in Tokens /\ u \in DOMAIN users
  /\ sessions' = Put(Revoke(ts), t, [user |-> u, expiresAt |-> now + IWA_SESSION_TTL_MS,
                                     revoked |-> FALSE])

\* Such a step keeps the table.
LEMMA InsertKeeps ==
  ASSUME SessionTable, now \in Nat, now' = now, NEW ts, NEW t, NEW u, Inserted(ts, t, u),
         DOMAIN users \subseteq UserIds, DOMAIN users \subseteq DOMAIN users'
  PROVE  /\ SessionTable' /\ SessionsKeep
         /\ t \notin DOMAIN sessions /\ DOMAIN sessions' = DOMAIN sessions \cup {t}
         /\ sessions'[t].user = u /\ ~sessions'[t].revoked
         /\ \A s \in DOMAIN sessions :
              /\ s < t /\ sessions'[s].user = sessions[s].user
              /\ sessions'[s].revoked <=> s \in ts \/ sessions[s].revoked
<1> DEFINE row == [user |-> u, expiresAt |-> now + IWA_SESSION_TTL_MS, revoked |-> FALSE]
<1>0. /\ t = Cardinality(DOMAIN sessions) + 1 /\ t \in Tokens /\ u \in DOMAIN users
      /\ sessions' = Put(Revoke(ts), t, row)
  BY DEF Inserted
<1>1. /\ DOMAIN Revoke(ts) = DOMAIN sessions
      /\ \A s \in DOMAIN sessions :
           /\ Revoke(ts)[s] \in Session
           /\ Revoke(ts)[s].user = sessions[s].user
           /\ Revoke(ts)[s].expiresAt = sessions[s].expiresAt
           /\ Revoke(ts)[s].revoked <=> s \in ts \/ sessions[s].revoked
  BY Revoked
<1>2. Numbered(sessions) /\ Numbered(Revoke(ts)) /\ t = Cardinality(DOMAIN Revoke(ts)) + 1
  BY <1>0, <1>1, SameRows DEF SessionTable
<1>3. /\ t \in Nat \ {0} /\ t \notin DOMAIN sessions /\ \A k \in DOMAIN sessions : k \in Nat /\ 1 <= k /\ k < t
      /\ DOMAIN sessions' = DOMAIN sessions \cup {t}
      /\ Numbered(sessions')
  <2>1. /\ t \in Nat \ {0} /\ t \notin DOMAIN Revoke(ts)
        /\ \A k \in DOMAIN Revoke(ts) : k \in Nat /\ 1 <= k /\ k < t
        /\ DOMAIN Put(Revoke(ts), t, row) = DOMAIN Revoke(ts) \cup {t}
        /\ Numbered(Put(Revoke(ts), t, row))
    BY <1>2, NextRow
  <2> QED
    BY <1>0, <1>1, <2>1
<1>4. /\ sessions'[t] = row
      /\ \A s \in DOMAIN sessions : sessions'[s] = Revoke(ts)[s]
  BY <1>0, <1>1, <1>3 DEF Put
<1>5. row \in Session /\ row.user = u /\ ~row.revoked
  BY <1>0, AccountsAssumption DEF Session
<1>6. SessionTable'
  <2>1. DOMAIN sessions' \subseteq Tokens
    BY <1>0, <1>3 DEF SessionTable
  <2>2. ASSUME NEW s \in DOMAIN sessions'
        PROVE  sessions'[s] \in Session /\ sessions'[s].user \in DOMAIN users'
    <3>1. CASE s = t
      BY <1>0, <1>4, <1>5, <3>1
    <3>2. CASE s \in DOMAIN sessions
      BY <1>1, <1>4, <3>2 DEF SessionTable
    <3> QED
      BY <1>3, <3>1, <3>2
  <2> QED
    BY <1>3, <2>1, <2>2 DEF SessionTable
<1>7. SessionsKeep
  <2> HIDE DEF row
  <2>1. None # t
    BY <1>3 DEF None
  <2> QED
    BY <1>1, <1>3, <1>4, <2>1 DEF SessionsKeep, Live, Held
<1> QED
  BY <1>1, <1>3, <1>4, <1>5, <1>6, <1>7

\* A step that renews a good session.
LEMMA TouchKeeps ==
  ASSUME SessionTable, now \in Nat, now' = now, NEW t \in DOMAIN sessions,
         now <= sessions[t].expiresAt, touchAccountSession(t),
         DOMAIN users \subseteq DOMAIN users'
  PROVE  /\ SessionTable' /\ SessionsKeep
         /\ DOMAIN sessions' = DOMAIN sessions
         /\ \A s \in DOMAIN sessions :
              /\ sessions'[s].user = sessions[s].user
              /\ sessions'[s].revoked = sessions[s].revoked
<1>1. DOMAIN sessions' = DOMAIN sessions
  BY DEF touchAccountSession
<1>2. sessions[t] \in Session
  BY DEF SessionTable
<1>3. now + IWA_SESSION_TTL_MS \in Nat /\ now <= now + IWA_SESSION_TTL_MS
  BY AccountsAssumption
<1>4. sessions'[t] = [sessions[t] EXCEPT !.expiresAt = now + IWA_SESSION_TTL_MS]
  BY DEF touchAccountSession
<1>5. /\ sessions'[t] \in Session /\ sessions'[t].user = sessions[t].user
      /\ sessions'[t].revoked = sessions[t].revoked /\ sessions'[t].expiresAt = now + IWA_SESSION_TTL_MS
  BY <1>2, <1>3, <1>4 DEF Session
<1>6. \A s \in DOMAIN sessions \ {t} : sessions'[s] = sessions[s]
  BY DEF touchAccountSession
<1>7. Numbered(sessions) /\ Numbered(sessions')
  BY <1>1, SameRows DEF SessionTable
<1>8. \A s \in DOMAIN sessions : sessions'[s] \in Session /\ sessions'[s].user \in DOMAIN users'
  BY <1>5, <1>6 DEF SessionTable
<1>9. SessionTable'
  BY <1>1, <1>7, <1>8 DEF SessionTable
<1>10. SessionsKeep
  BY <1>1, <1>3, <1>5, <1>6 DEF SessionsKeep, Live
<1> QED
  BY <1>1, <1>5, <1>6, <1>9, <1>10

-----------------------------------------------------------------------------
(* Users and identities *)

\* A plain identity has a single email.
LEMMA SingleEmail ==
  ASSUME NEW i \in Identities, Plain(i), NEW e \in EmailsOf[i]
  PROVE  EmailsOf[i] = {e}
<1>1. PICK x : EmailsOf[i] = {x}
  BY AccountsAssumption, FS_Singleton DEF Plain
<1> QED
  BY <1>1

\* There is room for a user as long as an identity has not logged in.
LEMMA RoomForUser ==
  ASSUME UserTables, NEW i \in Identities \ DOMAIN auth_identities
  PROVE  Cardinality(DOMAIN users) + 1 \in UserIds
<1> DEFINE A == DOMAIN auth_identities
           n == Cardinality(DOMAIN users)
<1>1. n \in Nat /\ DOMAIN users = 1..n
  BY DEF UserTables, Numbered
<1>2. IsFiniteSet(A) /\ Cardinality(A) \in Nat
  BY AccountsAssumption, FS_Subset, FS_CardinalityType DEF UserTables
<1>3. [k \in A |-> auth_identities[k]] \in Surjection(A, DOMAIN users)
  BY DEF Surjection, UserTables
<1>5. n <= Cardinality(A)
  BY <1>2, <1>3, FS_Surjection
<1>6. Cardinality(A \cup {i}) = Cardinality(A) + 1
  BY <1>2, FS_AddElement
<1>7. Cardinality(A \cup {i}) <= Cardinality(Identities) /\ Cardinality(Identities) \in Nat
  BY AccountsAssumption, FS_Subset, FS_CardinalityType DEF UserTables
<1> QED
  BY <1>1, <1>2, <1>5, <1>6, <1>7 DEF UserIds

\* What a step does to users: nobody is removed.
UsersKeep ==
  /\ UserTables' /\ PlainUsers'
  /\ DOMAIN users \subseteq DOMAIN users' /\ DOMAIN auth_identities \subseteq DOMAIN auth_identities'

\* The user of a known identity takes over its email.
LEMMA KnownUsers ==
  ASSUME TypeInv, PlainUsers, NEW h \in Handlers, KnownIdentity(h)
  PROVE  UsersKeep
<1> DEFINE i == requests[h].as[1]
           e == requests[h].as[2]
           u == auth_identities[i]
<1>1. i \in Identities /\ e \in EmailsOf[i] /\ e \in Emails
  BY Verified DEF KnownIdentity, TypeInv, RequestsOK, HandlerAt
<1>2. i \in DOMAIN auth_identities /\ u \in DOMAIN users
  BY DEF KnownIdentity, TypeInv, UserTables
<1>3. auth_identities' = auth_identities
  BY DEF KnownIdentity
<1> HIDE DEF i, e, u
<1>4. CASE users' = users
  BY <1>3, <1>4 DEF UsersKeep, TypeInv, UserTables, Numbered, PlainUsers
<1>5. CASE /\ users' = [users EXCEPT ![u] = e]
           /\ \A v \in DOMAIN users \ {u} : users[v] # e
  <2>1. DOMAIN users' = DOMAIN users /\ users'[u] = e /\ \A v \in DOMAIN users \ {u} : users'[v] = users[v]
    BY <1>2, <1>5
  <2>2. Numbered(users')
    BY <2>1, SameRows DEF TypeInv, UserTables
  <2>3. \A v \in DOMAIN users : users'[v] \in Emails
    BY <1>1, <2>1 DEF TypeInv, UserTables
  <2>4. \A v, w \in DOMAIN users : users'[v] = users'[w] => v = w
    BY <1>5, <2>1 DEF TypeInv, UserTables
  <2>5. ASSUME NEW v \in DOMAIN users
        PROVE  \E k \in DOMAIN auth_identities : auth_identities[k] = v /\ users'[v] \in EmailsOf[k]
    <3>1. CASE v = u
      BY <1>1, <1>2, <2>1, <3>1 DEF u
    <3>2. CASE v # u
      BY <2>1, <3>2 DEF TypeInv, UserTables
    <3> QED
      BY <3>1, <3>2
  <2>6. UserTables'
    BY <1>3, <2>1, <2>2, <2>3, <2>4, <2>5 DEF UserTables, TypeInv
  <2>7. ASSUME NEW k \in DOMAIN auth_identities, Plain(k)
        PROVE  users'[auth_identities[k]] \in EmailsOf[k]
    <3>1. CASE auth_identities[k] = u
      <4>1. EmailsOf[i] = EmailsOf[k]
        BY <1>2, <2>7, <3>1 DEF PlainUsers, u
      <4> QED
        BY <1>1, <2>1, <3>1, <4>1
    <3>2. CASE auth_identities[k] # u
      BY <2>1, <2>7, <3>2 DEF PlainUsers, TypeInv, UserTables
    <3> QED
      BY <3>1, <3>2
  <2>8. PlainUsers'
    BY <1>3, <2>7 DEF PlainUsers, Plain
  <2> QED
    BY <1>3, <2>1, <2>6, <2>8 DEF UsersKeep
<1> QED
  BY <1>4, <1>5 DEF KnownIdentity, i, e, u

\* A new identity is linked to the user of its email, or to a new one.
LEMMA LinkedUsers ==
  ASSUME TypeInv, PlainUsers, NEW h \in Handlers, LinkOrInsert(h)
  PROVE  UsersKeep
<1> DEFINE i == requests[h].as[1]
           e == requests[h].as[2]
           n == Cardinality(DOMAIN users) + 1
<1>1. i \in Identities /\ e \in EmailsOf[i] /\ e \in Emails
  BY Verified DEF LinkOrInsert, TypeInv, RequestsOK, HandlerAt
<1>2. CASE i \in DOMAIN auth_identities
  <2>1. users' = users /\ auth_identities' = auth_identities
    BY <1>2 DEF LinkOrInsert
  <2> QED
    BY <2>1 DEF UsersKeep, TypeInv, UserTables, Numbered, PlainUsers
<1>3. CASE i \notin DOMAIN auth_identities
  <2>1. PICK u : /\ u = IF WithEmail(e) # {} THEN CHOOSE v \in WithEmail(e) : TRUE ELSE n
                 /\ users' = Put(users, u, e) /\ auth_identities' = Put(auth_identities, i, u)
    BY <1>3 DEF LinkOrInsert
  <2>2. /\ DOMAIN users' = DOMAIN users \cup {u} /\ users'[u] = e
        /\ \A v \in DOMAIN users \ {u} : users'[v] = users[v]
    BY <2>1 DEF Put
  <2>3. /\ DOMAIN auth_identities' = DOMAIN auth_identities \cup {i} /\ auth_identities'[i] = u
        /\ \A k \in DOMAIN auth_identities : auth_identities'[k] = auth_identities[k]
    BY <1>3, <2>1 DEF Put
  <2> HIDE DEF i, e, n
  <2>4. CASE WithEmail(e) # {}
    <3>1. u \in DOMAIN users /\ users[u] = e
      BY <2>1, <2>4 DEF WithEmail
    <3>2. DOMAIN users' = DOMAIN users /\ \A v \in DOMAIN users : users'[v] = users[v]
      BY <2>2, <3>1
    <3>3. Numbered(users')
      BY <3>2, SameRows DEF TypeInv, UserTables
    <3>4. ASSUME NEW v \in DOMAIN users
          PROVE  \E k \in DOMAIN auth_identities' : auth_identities'[k] = v /\ users'[v] \in EmailsOf[k]
      BY <2>3, <3>2 DEF TypeInv, UserTables
    <3>5. UserTables'
      BY <1>1, <2>3, <3>1, <3>2, <3>3, <3>4 DEF UserTables, TypeInv
    <3>6. ASSUME NEW k \in DOMAIN auth_identities, Plain(k)
          PROVE  /\ users[auth_identities[k]] \in EmailsOf[k]
                 /\ \A j \in DOMAIN auth_identities' :
                      auth_identities'[j] = auth_identities[k] => EmailsOf[j] = EmailsOf[k]
      <4>1. k \in Identities
        BY DEF TypeInv, UserTables
      <4>2. auth_identities[k] = u => EmailsOf[i] = EmailsOf[k]
        <5>1. SUFFICES ASSUME auth_identities[k] = u PROVE EmailsOf[i] = EmailsOf[k]
          OBVIOUS
        <5>2. e \in EmailsOf[k]
          BY <3>1, <3>6, <5>1 DEF PlainUsers
        <5>3. EmailsOf[k] = {e}
          BY <3>6, <4>1, <5>2, SingleEmail
        <5> QED
          BY <1>1, <3>6, <5>3 DEF Plain
      <4> QED
        BY <2>3, <3>6, <4>2 DEF PlainUsers
    <3>7. ASSUME Plain(i), NEW j \in DOMAIN auth_identities, auth_identities[j] = u
          PROVE  EmailsOf[j] = EmailsOf[i]
      <4>1. PICK k \in DOMAIN auth_identities : auth_identities[k] = u /\ e \in EmailsOf[k]
        BY <3>1 DEF TypeInv, UserTables
      <4>2. k \in Identities
        BY DEF TypeInv, UserTables
      <4>3. EmailsOf[i] = {e}
        BY <1>1, <3>7, SingleEmail
      <4>4. EmailsOf[k] = EmailsOf[i]
        BY <3>7, <4>1, <4>2, <4>3 DEF Plain
      <4>5. Plain(k)
        BY <3>7, <4>4 DEF Plain
      <4> QED
        BY <3>7, <4>1, <4>4, <4>5 DEF PlainUsers
    <3>8. PlainUsers'
      <4>1. ASSUME NEW k \in DOMAIN auth_identities', Plain(k)
            PROVE  /\ users'[auth_identities'[k]] \in EmailsOf[k]
                   /\ \A j \in DOMAIN auth_identities' :
                        auth_identities'[j] = auth_identities'[k] => EmailsOf[j] = EmailsOf[k]
        <5>1. CASE k = i
          BY <1>1, <2>3, <3>1, <3>2, <3>7, <4>1, <5>1
        <5>2. CASE k \in DOMAIN auth_identities
          <6>1. auth_identities[k] \in DOMAIN users
            BY <5>2 DEF TypeInv, UserTables
          <6> QED
            BY <2>3, <3>2, <3>6, <4>1, <5>2, <6>1
        <5> QED
          BY <2>3, <5>1, <5>2
      <4> QED
        BY <4>1 DEF PlainUsers, Plain
    <3> QED
      BY <2>3, <3>2, <3>5, <3>8 DEF UsersKeep
  <2>5. CASE WithEmail(e) = {}
    <3>1. u = n
      BY <2>1, <2>5
    <3>2. \A v \in DOMAIN users : users[v] # e
      BY <2>5 DEF WithEmail
    <3>3. /\ n \notin DOMAIN users /\ Numbered(users')
      BY <2>1, <3>1, NextRow DEF TypeInv, UserTables, n
    <3>4. n \in UserIds
      BY <1>1, <1>3, RoomForUser DEF TypeInv, n
    <3>5. \A v \in DOMAIN users : users'[v] = users[v]
      BY <2>2, <3>1, <3>3
    <3>6. ASSUME NEW v \in DOMAIN users'
          PROVE  \E k \in DOMAIN auth_identities' : auth_identities'[k] = v /\ users'[v] \in EmailsOf[k]
      <4>1. CASE v = u
        BY <1>1, <2>2, <2>3, <4>1
      <4>2. CASE v \in DOMAIN users
        BY <2>3, <3>5, <4>2 DEF TypeInv, UserTables
      <4> QED
        BY <2>2, <4>1, <4>2
    <3>7. \A v, w \in DOMAIN users' : users'[v] = users'[w] => v = w
      BY <2>2, <3>2, <3>5 DEF TypeInv, UserTables
    <3>8. \A v \in DOMAIN users' : users'[v] \in Emails
      BY <1>1, <2>2, <3>5 DEF TypeInv, UserTables
    <3>9. UserTables'
      BY <1>1, <2>2, <2>3, <3>1, <3>3, <3>4, <3>6, <3>7, <3>8 DEF UserTables, TypeInv
    <3>10. \A k \in DOMAIN auth_identities : auth_identities[k] \in DOMAIN users /\ auth_identities[k] # u
      BY <3>1, <3>3 DEF TypeInv, UserTables
    <3>11. PlainUsers'
      <4>1. ASSUME NEW k \in DOMAIN auth_identities', Plain(k)
            PROVE  /\ users'[auth_identities'[k]] \in EmailsOf[k]
                   /\ \A j \in DOMAIN auth_identities' :
                        auth_identities'[j] = auth_identities'[k] => EmailsOf[j] = EmailsOf[k]
        <5>1. CASE k = i
          BY <1>1, <2>2, <2>3, <3>10, <5>1
        <5>2. CASE k \in DOMAIN auth_identities
          BY <2>3, <3>5, <3>10, <4>1, <5>2 DEF PlainUsers
        <5> QED
          BY <2>3, <5>1, <5>2
      <4> QED
        BY <4>1 DEF PlainUsers, Plain
    <3> QED
      BY <2>2, <2>3, <3>9, <3>11 DEF UsersKeep
  <2> QED
    BY <2>4, <2>5
<1> QED
  BY <1>2, <1>3

\* Every step keeps the tables of users and identities.
LEMMA UsersStep ==
  ASSUME TypeInv, PlainUsers, [Next]_vars
  PROVE  UsersKeep
<1>1. ASSUME UNCHANGED <<users, auth_identities>>
      PROVE  UsersKeep
  BY <1>1 DEF UsersKeep, TypeInv, UserTables, Numbered, PlainUsers
<1>2. CASE UNCHANGED vars
  BY <1>1, <1>2 DEF vars, tables
<1>3. CASE Tick
  BY <1>1, <1>3 DEF Tick, tables
<1>4. ASSUME NEW h \in Handlers, Routes(h)
      PROVE  UsersKeep
  <2>1. CASE KnownIdentity(h)
    BY <2>1, KnownUsers
  <2>2. CASE LinkOrInsert(h)
    BY <2>2, LinkedUsers
  <2>3. CASE NewIdentity(h) \/ LoadSession(h) \/ SelectSessions(h) \/ Error(h)
    BY <1>1, <2>3 DEF NewIdentity, LoadSession, SelectSessions, Error, tables
  <2>4. CASE ReplaceExisting(h) \/ createAccountSession(h) \/ Me(h) \/ RevokeSessions(h)
    BY <1>1, <2>4 DEF ReplaceExisting, createAccountSession, Me, RevokeSessions
  <2> QED
    BY <1>4, <2>1, <2>2, <2>3, <2>4 DEF Routes
<1>5. ASSUME NEW h \in Handlers, Deliver(h)
      PROVE  UsersKeep
  BY <1>1, <1>5 DEF Deliver, tables
<1>6. ASSUME NEW h \in Handlers, NEW b \in Browsers, Page(h, b)
      PROVE  UsersKeep
  BY <1>1, <1>6 DEF Page, Open, Login, Recover, Logout, tables
<1> QED
  BY <1>2, <1>3, <1>4, <1>5, <1>6 DEF Next

\* Every step keeps the session table.
LEMMA SessionsStep ==
  ASSUME TypeInv, PlainUsers, [Next]_vars
  PROVE  SessionTable' /\ SessionsKeep
<1>1. DOMAIN users \subseteq DOMAIN users'
  BY UsersStep DEF UsersKeep
<1>2. SessionTable /\ now \in Nat /\ DOMAIN users \subseteq UserIds
  BY DEF TypeInv, UserTables
<1>3. ASSUME UNCHANGED sessions, now <= now', now' \in Nat
      PROVE  SessionTable' /\ SessionsKeep
  <2>1. SessionTable'
    BY <1>1, <1>2, <1>3 DEF SessionTable, Numbered
  <2>2. SessionsKeep
    BY <1>2, <1>3, Rows DEF SessionsKeep, Live
  <2> QED
    BY <2>1, <2>2
<1>4. CASE UNCHANGED vars
  BY <1>2, <1>3, <1>4 DEF vars, tables
<1>5. CASE Tick
  BY <1>2, <1>3, <1>5 DEF Tick, tables
<1>6. ASSUME NEW h \in Handlers, Routes(h)
      PROVE  SessionTable' /\ SessionsKeep
  <2>1. CASE KnownIdentity(h) \/ LinkOrInsert(h)
    BY <1>2, <1>3, <2>1 DEF KnownIdentity, LinkOrInsert
  <2>2. CASE NewIdentity(h) \/ LoadSession(h) \/ SelectSessions(h) \/ Error(h)
    <3>1. sessions' = sessions /\ now' = now
      BY <2>2 DEF NewIdentity, LoadSession, SelectSessions, Error, tables
    <3> QED
      BY <1>2, <1>3, <3>1
  <2>3. CASE ReplaceExisting(h)
    BY <1>1, <1>2, <2>3, RevokeKeeps DEF ReplaceExisting
  <2>4. CASE createAccountSession(h)
    <3> DEFINE r == requests[h]
               old == Excess({s \in r.rows : ~sessions[s].revoked})
               t == Cardinality(DOMAIN sessions) + 1
    <3>1. /\ t \in Tokens /\ now' = now
          /\ sessions' = Put(Revoke(old), t, [user |-> r.user, expiresAt |-> now + IWA_SESSION_TTL_MS,
                                              revoked |-> FALSE])
      BY <2>4 DEF createAccountSession
    <3>2. r.user \in DOMAIN users
      BY <2>4 DEF createAccountSession, TypeInv, RequestsOK, HandlerAt, RequestType, Known
    <3>3. Inserted(old, t, r.user)
      BY <3>1, <3>2 DEF Inserted
    <3> HIDE DEF r, old, t
    <3> QED
      BY <1>1, <1>2, <3>1, <3>3, InsertKeeps
  <2>5. CASE Me(h)
    <3>1. /\ requests[h].token \in DOMAIN sessions /\ now <= sessions[requests[h].token].expiresAt
          /\ touchAccountSession(requests[h].token) /\ now' = now
      BY <2>5 DEF Me, TypeInv, RequestsOK, HandlerAt, RequestType, Held
    <3> QED
      BY <1>1, <1>2, <3>1, TouchKeeps
  <2>6. CASE RevokeSessions(h)
    BY <1>1, <1>2, <2>6, RevokeKeeps DEF RevokeSessions
  <2> QED
    BY <1>6, <2>1, <2>2, <2>3, <2>4, <2>5, <2>6 DEF Routes
<1>7. ASSUME NEW h \in Handlers, Deliver(h)
      PROVE  SessionTable' /\ SessionsKeep
  BY <1>2, <1>3, <1>7 DEF Deliver, tables
<1>8. ASSUME NEW h \in Handlers, NEW b \in Browsers, Page(h, b)
      PROVE  SessionTable' /\ SessionsKeep
  <2>1. sessions' = sessions /\ now' = now
    BY <1>8 DEF Page, Open, Login, Recover, Logout, tables, browser
  <2> QED
    BY <1>2, <1>3, <2>1
<1> QED
  BY <1>4, <1>5, <1>6, <1>7, <1>8 DEF Next

-----------------------------------------------------------------------------
(* The requests *)

\* Nothing is forgotten, so that what was typed stays typed.
Keeps ==
  /\ SessionTable' /\ SessionsKeep /\ UserTables'
  /\ Held \subseteq Held' /\ Known \subseteq Known'

LEMMA KeepsStep ==
  ASSUME TypeInv, PlainUsers, [Next]_vars
  PROVE  Keeps
BY UsersStep, SessionsStep DEF Keeps, UsersKeep, SessionsKeep, Held, Known

\* A request left alone stays as good as it was.
LEMMA RequestKept ==
  ASSUME TypeInv, Keeps, NEW r, r \in RequestType, HandlerAt(r), ReplyAt(r),
         now' = now \/ r = Idle
  PROVE  (r \in RequestType)' /\ HandlerAt(r)' /\ ReplyAt(r)'
<1>1. /\ r.rows \subseteq DOMAIN sessions /\ r.token \in Held /\ r.set \in Held
      /\ r.user \in Known
  BY DEF RequestType
<1>2. DOMAIN sessions \subseteq DOMAIN sessions'
  BY DEF Keeps, SessionsKeep
<1>3. (r \in RequestType)'
  BY <1>1, <1>2 DEF RequestType, Keeps
<1>4. HandlerAt(r)'
  <2>1. r.at = "insert" => \A t \in r.rows : sessions'[t].user = r.user
    BY <1>1 DEF HandlerAt, Keeps, SessionsKeep
  <2>2. r.at = "loaded" => r.token # None /\ now' <= sessions'[r.token].expiresAt
    BY <1>1 DEF HandlerAt, Keeps, SessionsKeep, Held, Idle
  <2> QED
    BY <2>1, <2>2 DEF HandlerAt
<1>5. ReplyAt(r)'
  <2>1. r.at = "ok" /\ r.kind \notin Logouts => r.set # None /\ sessions'[r.set].user = r.user
    BY <1>1 DEF ReplyAt, Keeps, SessionsKeep, Held
  <2>2. r.at = "ok" /\ r.kind \in Logouts => r.set = None /\ r.user = None /\ ~(Live(r.token)')
    BY <1>1 DEF ReplyAt, Keeps, SessionsKeep
  <2> QED
    BY <2>1, <2>2 DEF ReplyAt
<1> QED
  BY <1>3, <1>4, <1>5

\* A step of one handler.
LEMMA PutRequest ==
  ASSUME TypeInv, Keeps, now' = now, NEW h \in Handlers, NEW r,
         (r \in RequestType)', HandlerAt(r)', ReplyAt(r)',
         requests' = [requests EXCEPT ![h] = r]
  PROVE  (requests \in [Handlers -> RequestType])' /\ RequestsOK'
<1>1. requests \in [Handlers -> RequestType]
  BY DEF TypeInv
<1>2. ASSUME NEW g \in Handlers
      PROVE  (requests[g] \in RequestType)' /\ HandlerAt(requests[g])' /\ ReplyAt(requests[g])'
  <2>1. PICK q : q = IF g = h THEN r ELSE requests[g]
    OBVIOUS
  <2>2. requests'[g] = q
    BY <1>1, <2>1
  <2>3. (q \in RequestType)' /\ HandlerAt(q)' /\ ReplyAt(q)'
    <3>1. CASE g = h
      BY <2>1, <3>1
    <3>2. CASE g # h
      <4>1. q \in RequestType /\ HandlerAt(q) /\ ReplyAt(q)
        BY <1>1, <2>1, <3>2 DEF TypeInv, RequestsOK
      <4> QED
        BY <4>1, RequestKept
    <3> QED
      BY <3>1, <3>2
  <2>4. (requests[g] \in RequestType)'
    BY <2>2, <2>3
  <2>5. HandlerAt(requests[g])'
    BY <2>2, <2>3 DEF HandlerAt
  <2>6. ReplyAt(requests[g])'
    BY <2>2, <2>3 DEF ReplyAt, Live
  <2> QED
    BY <2>4, <2>5, <2>6
<1>3. (requests \in [Handlers -> RequestType])'
  BY <1>1, <1>2
<1> QED
  BY <1>2, <1>3 DEF RequestsOK

\* Nothing under way.
LEMMA IdleOK ==
  (Idle \in RequestType)' /\ HandlerAt(Idle)' /\ ReplyAt(Idle)'
<1>1. (Idle \in RequestType)'
  BY DEF Idle, RequestType, Held, Known, None
<1>2. HandlerAt(Idle)'
  BY DEF HandlerAt, Idle
<1>3. ReplyAt(Idle)'
  BY DEF ReplyAt, Idle, Answered
<1> QED
  BY <1>1, <1>2, <1>3

\* A reply that names its user and a good session, or none.
LEMMA ReplyOK ==
  ASSUME TypeInv, Keeps, now' = now, NEW h \in Handlers, NEW q, q = requests[h],
         NEW status \in {"ok", "error"}, NEW token, NEW user,
         q.kind # "idle", token \in Held', user \in Known',
         status = "ok" /\ q.kind \notin Logouts =>
           token # None /\ sessions'[token].user = user,
         status = "ok" /\ q.kind \in Logouts =>
           token = None /\ user = None /\ ~(Live(q.token)'),
         status = "error" => user = None,
         requests' = [requests EXCEPT ![h] =
           IF q.browser = None THEN Idle ELSE Answer(q, status, token, user)]
  PROVE  (requests \in [Handlers -> RequestType])' /\ RequestsOK'
<1>2. q \in RequestType
  BY DEF TypeInv
<1>3. CASE q.browser = None
  BY <1>3, IdleOK, PutRequest
<1>4. CASE q.browser # None
  <2>1. PICK r : r = Answer(q, status, token, user)
    OBVIOUS
  <2>2. requests' = [requests EXCEPT ![h] = r]
    BY <1>4, <2>1
  <2>3. /\ r.kind = q.kind /\ r.at = status /\ r.browser = q.browser /\ r.set = token /\ r.user = user
        /\ r.token = IF q.kind \in Logouts THEN q.token ELSE None
    BY <2>1 DEF Answer
  <2>4. (r \in RequestType)'
    <3>1. q.token \in Held' /\ None \in Held'
      BY <1>2 DEF RequestType, Keeps, Held
    <3>2. q.kind \in {"idle", "me", "recover", "login"} \cup Logouts /\ q.browser \in {None} \cup Browsers
      BY <1>2 DEF RequestType
    <3> QED
      BY <2>1, <3>1, <3>2 DEF Answer, RequestType, Answered
  <2>5. HandlerAt(r)'
    BY <2>3 DEF HandlerAt
  <2>6. ReplyAt(r)'
    BY <1>4, <2>3 DEF ReplyAt, Live
  <2> QED
    BY <2>2, <2>4, <2>5, <2>6, PutRequest
<1> QED
  BY <1>3, <1>4

\* A failure.
LEMMA FailOK ==
  ASSUME TypeInv, Keeps, now' = now, NEW h \in Handlers, requests[h].kind # "idle", Fail(h)
  PROVE  (requests \in [Handlers -> RequestType])' /\ RequestsOK'
<1>1. requests' = [requests EXCEPT ![h] =
        IF requests[h].browser = None THEN Idle
        ELSE Answer(requests[h], "error", None, None)]
  BY DEF Fail, Reply
<1>2. None \in Held' /\ None \in Known'
  BY DEF Held, Known
<1>3. PICK q : q = requests[h]
  OBVIOUS
<1> QED
  BY <1>1, <1>2, <1>3, ReplyOK

\* A request that moves to another place.
LEMMA Moved ==
  ASSUME NEW q \in RequestType, NEW at, NEW r, r = [q EXCEPT !.at = at]
  PROVE  /\ r.kind = q.kind /\ r.at = at /\ r.browser = q.browser /\ r.token = q.token
         /\ r.as = q.as /\ r.user = q.user /\ r.rows = q.rows /\ r.set = q.set
BY DEF RequestType

LEMMA GotoOK ==
  ASSUME TypeInv, Keeps, now' = now, NEW h \in Handlers, NEW at,
         at \in {"email", "loaded", "sessions"}, requests[h].kind # "idle",
         at = "email" => requests[h].kind = "login" /\ requests[h].as \in VerifiedIdentity,
         at = "sessions" => requests[h].kind = "login",
         requests[h].kind = "login" /\ at # "email" => requests[h].user # None,
         at = "loaded" => Live(requests[h].token),
         requests[h].at \notin Answered, Goto(h, at)
  PROVE  (requests \in [Handlers -> RequestType])' /\ RequestsOK'
<1>1. PICK q : q = requests[h]
  OBVIOUS
<1>2. q \in RequestType
  BY <1>1 DEF TypeInv
<1>3. PICK r : r = [q EXCEPT !.at = at]
  OBVIOUS
<1>4. /\ r.kind = q.kind /\ r.at = at /\ r.browser = q.browser /\ r.token = q.token
      /\ r.as = q.as /\ r.user = q.user /\ r.rows = q.rows /\ r.set = q.set
  BY <1>2, <1>3, Moved
<1>5. requests' = [requests EXCEPT ![h] = r]
  BY <1>1, <1>3 DEF Goto
<1>6. (r \in RequestType)'
  <2>1. (q \in RequestType)'
    BY <1>2 DEF RequestType, Keeps, SessionsKeep
  <2> QED
    BY <1>3, <2>1 DEF RequestType
<1>7. HandlerAt(r)'
  <2>1. at = "loaded" => r.token # None /\ now <= sessions'[r.token].expiresAt
    <3>1. SUFFICES ASSUME at = "loaded" PROVE r.token # None /\ now <= sessions'[r.token].expiresAt
      OBVIOUS
    <3>2. q.token \in DOMAIN sessions /\ now <= sessions[q.token].expiresAt
      BY <1>1, <3>1 DEF Live
    <3> QED
      BY <1>4, <3>2, Rows DEF Keeps, SessionsKeep, TypeInv
  <2> QED
    BY <1>1, <1>4, <2>1 DEF HandlerAt
<1>8. ReplyAt(r)'
  BY <1>4 DEF ReplyAt, Answered
<1> QED
  BY <1>5, <1>6, <1>7, <1>8, PutRequest

\* A login whose user has been found.
LEMMA IdentifiedOK ==
  ASSUME TypeInv, Keeps, now' = now, NEW h \in Handlers, NEW u, u \in DOMAIN users',
         u # None, requests[h].at \in {"identity", "email"}, Identified(h, u)
  PROVE  (requests \in [Handlers -> RequestType])' /\ RequestsOK'
<1>1. PICK q : q = requests[h]
  OBVIOUS
<1>2. q \in RequestType /\ q.kind = "login"
  BY <1>1 DEF TypeInv, RequestsOK, HandlerAt
<1>3. PICK r : r = [q EXCEPT !.at = "load", !.user = u, !.as = << >>]
  OBVIOUS
<1>4. requests' = [requests EXCEPT ![h] = r]
  BY <1>1, <1>3 DEF Identified
<1>5. (q \in RequestType)'
  BY <1>2 DEF RequestType, Keeps, SessionsKeep
<1>6. (r \in RequestType)'
  BY <1>3, <1>5 DEF RequestType, Known
<1>7. r.kind = "login" /\ r.at = "load" /\ r.user = u
  BY <1>2, <1>3 DEF RequestType
<1>8. HandlerAt(r)' /\ ReplyAt(r)'
  BY <1>7 DEF HandlerAt, ReplyAt, Answered
<1> QED
  BY <1>4, <1>6, <1>8, PutRequest

\* What the routes do to the requests.
LEMMA RoutesOK ==
  ASSUME TypeInv, Keeps, NEW h \in Handlers, Routes(h)
  PROVE  (requests \in [Handlers -> RequestType])' /\ RequestsOK'
<1>1. PICK q : q = requests[h]
  OBVIOUS
<1>2. q \in RequestType /\ HandlerAt(q) /\ ReplyAt(q)
  BY <1>1 DEF TypeInv, RequestsOK
<1>3. None \notin DOMAIN users /\ None \notin DOMAIN users'
  BY DEF Keeps, TypeInv, UserTables, UserIds, None
<1>4. CASE KnownIdentity(h)
  <2>1. /\ q.kind = "login" /\ q.at = "identity" /\ now' = now
        /\ auth_identities[q.as[1]] \in DOMAIN users
    BY <1>1, <1>2, <1>4 DEF KnownIdentity, HandlerAt, TypeInv, UserTables
  <2>2. PICK u : u = auth_identities[q.as[1]]
    OBVIOUS
  <2>3. CASE Fail(h)
    BY <1>1, <2>1, <2>3, FailOK
  <2>4. CASE Identified(h, u) /\ users' = [users EXCEPT ![u] = q.as[2]]
    BY <1>1, <1>3, <2>1, <2>2, <2>4, IdentifiedOK
  <2> QED
    BY <1>1, <1>4, <2>2, <2>3, <2>4 DEF KnownIdentity
<1>5. CASE NewIdentity(h)
  <2>1. Goto(h, "email") /\ now' = now /\ q.at = "identity"
    BY <1>1, <1>5 DEF NewIdentity
  <2> QED
    BY <1>1, <1>2, <2>1, GotoOK DEF HandlerAt, Answered
<1>6. CASE LinkOrInsert(h)
  <2>1. q.at = "email" /\ q.kind = "login" /\ now' = now
    BY <1>1, <1>2, <1>6 DEF LinkOrInsert, HandlerAt
  <2>2. CASE Fail(h)
    BY <1>1, <2>1, <2>2, FailOK
  <2>3. PICK u : u = IF WithEmail(q.as[2]) # {} THEN CHOOSE v \in WithEmail(q.as[2]) : TRUE
                     ELSE Cardinality(DOMAIN users) + 1
    OBVIOUS
  <2>4. CASE Identified(h, u) /\ users' = Put(users, u, q.as[2])
    <3>1. u \in DOMAIN users'
      BY <2>4 DEF Put
    <3> QED
      BY <1>1, <1>3, <2>1, <2>4, <3>1, IdentifiedOK
  <2> QED
    BY <1>1, <1>6, <2>2, <2>3, <2>4 DEF LinkOrInsert
<1>7. CASE LoadSession(h)
  <2>1. q.at = "load" /\ now' = now /\ q.kind # "idle"
    BY <1>1, <1>2, <1>7 DEF LoadSession, HandlerAt
  <2>2. CASE Live(q.token)
    <3>1. Goto(h, "loaded")
      BY <1>1, <1>7, <2>2 DEF LoadSession
    <3> QED
      BY <1>1, <1>2, <2>1, <2>2, <3>1, GotoOK DEF HandlerAt, Answered
  <2>3. CASE ~Live(q.token) /\ q.kind = "login"
    <3>1. Goto(h, "sessions")
      BY <1>1, <1>7, <2>3 DEF LoadSession, Logouts
    <3> QED
      BY <1>1, <1>2, <2>1, <2>3, <3>1, GotoOK DEF HandlerAt, Answered
  <2>4. CASE ~Live(q.token) /\ q.kind \in {"me", "recover"}
    <3>1. Fail(h)
      BY <1>1, <1>7, <2>4 DEF LoadSession, Logouts
    <3> QED
      BY <1>1, <2>1, <3>1, FailOK
  <2>5. CASE ~Live(q.token) /\ q.kind \in Logouts
    <3>1. Reply(h, "ok", None, None)
      BY <1>1, <1>7, <2>5 DEF LoadSession, Logouts
    <3>2. requests' = [requests EXCEPT ![h] =
            IF q.browser = None THEN Idle ELSE Answer(q, "ok", None, None)]
      BY <1>1, <3>1 DEF Reply
    <3>3. ~(Live(q.token)')
      BY <1>2, <2>5 DEF Keeps, SessionsKeep, RequestType
    <3>4. None \in Held' /\ None \in Known'
      BY DEF Held, Known
    <3> QED
      BY <1>1, <2>1, <2>5, <3>2, <3>3, <3>4, ReplyOK
  <2> QED
    BY <1>2, <2>1, <2>2, <2>3, <2>4, <2>5 DEF RequestType
<1>8. CASE ReplaceExisting(h)
  <2>1. q.kind = "login" /\ q.at = "loaded" /\ Goto(h, "sessions") /\ now' = now
    BY <1>1, <1>8 DEF ReplaceExisting
  <2> QED
    BY <1>1, <1>2, <2>1, GotoOK DEF HandlerAt, Answered
<1>9. CASE SelectSessions(h)
  <2>1. q.at = "sessions" /\ q.kind = "login" /\ q.user # None /\ now' = now
    BY <1>1, <1>2, <1>9 DEF SelectSessions, HandlerAt
  <2>2. PICK rows : rows = Unrevoked(q.user)
    OBVIOUS
  <2>3. PICK r : r = [q EXCEPT !.at = "insert", !.rows = rows]
    OBVIOUS
  <2>4. requests' = [requests EXCEPT ![h] = r] /\ sessions' = sessions
    BY <1>1, <1>9, <2>2, <2>3 DEF SelectSessions, tables
  <2>5. rows \subseteq DOMAIN sessions /\ \A t \in rows : sessions[t].user = q.user
    BY <2>2 DEF Unrevoked
  <2>6. r.kind = "login" /\ r.at = "insert" /\ r.user = q.user /\ r.rows = rows
    BY <1>2, <2>1, <2>3 DEF RequestType
  <2>7. (q \in RequestType)'
    BY <1>2 DEF RequestType, Keeps, SessionsKeep
  <2>8. (r \in RequestType)'
    BY <2>3, <2>4, <2>5, <2>7 DEF RequestType
  <2>9. HandlerAt(r)' /\ ReplyAt(r)'
    BY <2>1, <2>4, <2>5, <2>6 DEF HandlerAt, ReplyAt, Answered
  <2> QED
    BY <2>1, <2>4, <2>8, <2>9, PutRequest
<1>10. CASE createAccountSession(h)
  <2>1. PICK t : t = Cardinality(DOMAIN sessions) + 1
    OBVIOUS
  <2>2. PICK old : old = Excess({s \in q.rows : ~sessions[s].revoked})
    OBVIOUS
  <2>3. /\ q.at = "insert" /\ q.kind = "login" /\ now' = now /\ q.user # None
        /\ t \in Tokens
        /\ sessions' = Put(Revoke(old), t, [user |-> q.user, expiresAt |-> now + IWA_SESSION_TTL_MS,
                                            revoked |-> FALSE])
        /\ Reply(h, "ok", t, q.user)
    BY <1>1, <1>2, <1>10, <2>1, <2>2 DEF createAccountSession, HandlerAt
  <2>4. t \in DOMAIN sessions' /\ sessions'[t].user = q.user /\ t # None /\ t \in Held'
    BY <2>3 DEF Put, Tokens, None, Held
  <2>5. q.user \in Known'
    BY <1>2 DEF RequestType, Keeps
  <2>6. requests' = [requests EXCEPT ![h] =
          IF q.browser = None THEN Idle ELSE Answer(q, "ok", t, q.user)]
    BY <1>1, <2>3 DEF Reply
  <2>7. PICK u : u = q.user
    OBVIOUS
  <2> QED
    BY <1>1, <2>3, <2>4, <2>5, <2>6, <2>7, ReplyOK DEF Logouts
<1>11. CASE Me(h)
  <2>1. PICK t : t = q.token
    OBVIOUS
  <2>2. PICK u : u = sessions[t].user
    OBVIOUS
  <2>3. /\ q.at = "loaded" /\ q.kind \in {"me", "recover"} /\ now' = now
        /\ Reply(h, "ok", t, u)
    BY <1>1, <1>11, <2>1, <2>2 DEF Me
  <2>4. t \in DOMAIN sessions /\ t # None
    BY <1>2, <2>1, <2>3 DEF HandlerAt, RequestType, Held
  <2>5. t \in Held' /\ sessions'[t].user = u /\ u \in Known'
    BY <2>2, <2>4, Rows DEF Keeps, SessionsKeep, Held, Known, TypeInv
  <2>6. requests' = [requests EXCEPT ![h] =
          IF q.browser = None THEN Idle ELSE Answer(q, "ok", t, u)]
    BY <1>1, <2>3 DEF Reply
  <2> QED
    BY <1>1, <2>3, <2>4, <2>5, <2>6, ReplyOK DEF Logouts
<1>12. CASE RevokeSessions(h)
  <2>1. PICK ts : ts = IF q.kind = "logout" THEN {q.token} ELSE Unrevoked(sessions[q.token].user)
    OBVIOUS
  <2>2. /\ q.at = "loaded" /\ q.kind \in Logouts /\ now' = now /\ Reply(h, "ok", None, None)
        /\ sessions' = Revoke(ts)
    BY <1>1, <1>12, <2>1 DEF RevokeSessions
  <2>3. q.token \in DOMAIN sessions
    BY <1>2, <2>2 DEF HandlerAt, RequestType, Held
  <2>4. sessions[q.token].revoked \/ q.token \in ts
    BY <2>1, <2>3 DEF Unrevoked
  <2>5. sessions'[q.token].revoked
    BY <2>2, <2>3, <2>4, Revoked DEF TypeInv
  <2>6. ~(Live(q.token)')
    BY <2>5 DEF Live
  <2>7. requests' = [requests EXCEPT ![h] =
          IF q.browser = None THEN Idle ELSE Answer(q, "ok", None, None)]
    BY <1>1, <2>2 DEF Reply
  <2>8. None \in Held' /\ None \in Known'
    BY DEF Held, Known
  <2> QED
    BY <1>1, <2>2, <2>6, <2>7, <2>8, ReplyOK DEF Logouts
<1>13. CASE Error(h)
  <2>1. q.kind # "idle"
    BY <1>1, <1>2, <1>13 DEF Error, HandlerAt
  <2>2. Fail(h) /\ now' = now
    BY <1>13 DEF Error
  <2> QED
    BY <1>1, <2>1, <2>2, FailOK
<1> QED
  BY <1>4, <1>5, <1>6, <1>7, <1>8, <1>9, <1>10, <1>11, <1>12, <1>13 DEF Routes

\* A reply that arrives, and whom it shows.
LEMMA DeliverOK ==
  ASSUME TypeInv, Keeps, NEW h \in Handlers, Deliver(h)
  PROVE  /\ (requests \in [Handlers -> RequestType])' /\ RequestsOK'
         /\ BrowserTypes'
<1>1. PICK r : r = requests[h]
  OBVIOUS
<1>2. r \in RequestType /\ HandlerAt(r) /\ ReplyAt(r) /\ r.at \in Answered
  BY <1>1 DEF TypeInv, RequestsOK, Deliver, Replied, Answered
<1>3. r.browser \in Browsers /\ r.user \in Known' /\ r.set \in Held'
  BY <1>2 DEF ReplyAt, RequestType, Keeps
<1>4. requests' = [requests EXCEPT ![h] = Idle] /\ now' = now
  BY DEF Deliver
<1>5. (requests \in [Handlers -> RequestType])' /\ RequestsOK'
  <2>1. PICK idle : idle = Idle
    OBVIOUS
  <2> QED
    BY <1>4, IdleOK, PutRequest
<1>6. (jar \in [Browsers -> Held])'
  BY <1>1, <1>3 DEF Deliver, TypeInv, BrowserTypes, Keeps
<1>7. (lastLogin \in [Browsers -> Known])'
  BY <1>1, <1>3 DEF Deliver, TypeInv, BrowserTypes, Keeps
<1>8. (page \in [Browsers -> [at : PageAt, user : Known]])'
  <2>1. page[r.browser].at \in PageAt /\ page[r.browser].user \in Known'
    BY <1>3 DEF TypeInv, BrowserTypes, Keeps
  <2>2. page[r.browser] = [at |-> page[r.browser].at, user |-> page[r.browser].user]
    BY <1>3 DEF TypeInv, BrowserTypes
  <2>3. PICK p : p = Shown(r.browser, r)
    OBVIOUS
  <2>4. p \in [at : PageAt, user : Known']
    BY <1>3, <2>1, <2>2, <2>3 DEF Shown, requireRecoveredIwaSession, PageAt
  <2>5. page' = [page EXCEPT ![r.browser] = p]
    BY <1>1, <2>3 DEF Deliver
  <2> QED
    BY <1>3, <2>4, <2>5 DEF TypeInv, BrowserTypes, Keeps
<1> QED
  BY <1>5, <1>6, <1>7, <1>8 DEF BrowserTypes

\* The fields of a new request.
LEMMA RequestFields ==
  ASSUME TypeInv, NEW b \in Browsers, NEW kind \in {"me", "recover", "login"} \cup Logouts,
         NEW at \in {"load", "identity", "refused"},
         at = "refused" => kind \in Logouts /\ ~requireCsrf(b),
         at = "identity" => kind = "login", kind = "login" => at = "identity"
  PROVE  /\ Request(b, kind, at) \in RequestType
         /\ at # "identity" => HandlerAt(Request(b, kind, at)) /\ ReplyAt(Request(b, kind, at))
<1>1. b # None
  BY AccountsAssumption DEF None
<1>2. jar[b] \in Held
  BY DEF TypeInv, BrowserTypes
<1>3. Request(b, kind, at) \in RequestType
  BY <1>2 DEF Request, RequestType, Answered, Known, Held
<1>4. SUFFICES ASSUME at # "identity"
               PROVE  HandlerAt(Request(b, kind, at)) /\ ReplyAt(Request(b, kind, at))
  BY <1>3
<1>5. HandlerAt(Request(b, kind, at))
  BY <1>4 DEF Request, HandlerAt, Idle, Logouts
<1>6. ReplyAt(Request(b, kind, at))
  BY <1>1, <1>4 DEF Request, ReplyAt, Logouts, Answered, requireCsrf
<1> QED
  BY <1>5, <1>6

\* A page that sends a request.
LEMMA SendOK ==
  ASSUME TypeInv, Keeps, now' = now, NEW h \in Handlers, NEW r,
         r \in RequestType, HandlerAt(r), ReplyAt(r), Send(h, r)
  PROVE  (requests \in [Handlers -> RequestType])' /\ RequestsOK'
<1>1. (r \in RequestType)' /\ HandlerAt(r)' /\ ReplyAt(r)'
  BY RequestKept
<1> QED
  BY <1>1, PutRequest DEF Send

\* What the pages do to the requests.
LEMMA PagesOK ==
  ASSUME TypeInv, Keeps, NEW h \in Handlers, NEW b \in Browsers, Page(h, b)
  PROVE  /\ (requests \in [Handlers -> RequestType])' /\ RequestsOK'
         /\ BrowserTypes'
<1>1. /\ jar \in [Browsers -> Held] /\ lastLogin \in [Browsers -> Known]
      /\ page \in [Browsers -> [at : PageAt, user : Known]]
  BY DEF TypeInv, BrowserTypes
<1>2. None \in Known'
  BY DEF Known
<1>3. ASSUME NEW at \in {"app", "callback"}, Open(h, b, at)
      PROVE  /\ (requests \in [Handlers -> RequestType])' /\ RequestsOK'
             /\ BrowserTypes'
  <2>1. now' = now /\ jar' = jar /\ lastLogin' = lastLogin
    BY <1>3 DEF Open
  <2>2. BrowserTypes'
    BY <1>1, <1>2, <1>3, <2>1 DEF BrowserTypes, Open, PageAt, Keeps
  <2>3. ASSUME NEW g \in Handlers
        PROVE  (requests[g] \in RequestType)' /\ HandlerAt(requests[g])' /\ ReplyAt(requests[g])'
    <3>1. PICK q : q = requests'[g]
      OBVIOUS
    <3>2. q \in RequestType /\ HandlerAt(q) /\ ReplyAt(q)
      <4>1. CASE g = h
        <5>1. q = Request(b, "me", "load")
          BY <1>3, <3>1, <4>1 DEF Open
        <5> QED
          BY <5>1, RequestFields DEF Logouts
      <4>2. CASE g # h /\ requests[g].browser # b
        <5>1. q = requests[g]
          BY <1>3, <3>1, <4>2 DEF Open
        <5> QED
          BY <5>1 DEF TypeInv, RequestsOK
      <4>3. CASE g # h /\ requests[g].browser = b /\ requests[g].at \in Answered
        <5>1. q = Idle
          BY <1>3, <3>1, <4>3 DEF Open, Answered
        <5>2. Idle \in RequestType
          BY DEF Idle, RequestType, Held, Known, None
        <5> QED
          BY <5>1, <5>2 DEF Idle, HandlerAt, ReplyAt, Answered
      <4>4. CASE g # h /\ requests[g].browser = b /\ requests[g].at \notin Answered
        <5>1. q = [requests[g] EXCEPT !.browser = None]
          BY <1>3, <3>1, <4>4 DEF Open, Answered
        <5>2. requests[g] \in RequestType /\ HandlerAt(requests[g])
          BY DEF TypeInv, RequestsOK
        <5>3. /\ q \in RequestType
              /\ q.kind = requests[g].kind /\ q.at = requests[g].at /\ q.as = requests[g].as
              /\ q.user = requests[g].user /\ q.rows = requests[g].rows /\ q.token = requests[g].token
          BY <5>1, <5>2 DEF RequestType
        <5>4. requests[g].kind # "idle"
          BY <4>4, <5>2, AccountsAssumption DEF HandlerAt, Idle, None
        <5> QED
          BY <4>4, <5>2, <5>3, <5>4 DEF HandlerAt, ReplyAt, Answered
      <4> QED
        BY <4>1, <4>2, <4>3, <4>4
    <3>3. (q \in RequestType)' /\ HandlerAt(q)' /\ ReplyAt(q)'
      BY <2>1, <3>2, RequestKept
    <3> QED
      BY <3>1, <3>3 DEF HandlerAt, ReplyAt, Live
  <2>4. DOMAIN requests' = Handlers /\ requests' = [g \in Handlers |-> requests'[g]]
    BY <1>3 DEF Open
  <2> QED
    BY <2>2, <2>3, <2>4 DEF RequestsOK
<1>4. ASSUME NEW identity \in VerifiedIdentity, Login(h, b, identity)
      PROVE  /\ (requests \in [Handlers -> RequestType])' /\ RequestsOK'
             /\ BrowserTypes'
  <2>1. PICK r : r = [Request(b, "login", "identity") EXCEPT !.as = identity]
    OBVIOUS
  <2>2. Request(b, "login", "identity") \in RequestType
    BY RequestFields
  <2>3. r \in RequestType
    BY <2>1, <2>2 DEF RequestType
  <2>4. r.kind = "login" /\ r.at = "identity" /\ r.as = identity
    BY <2>1 DEF Request
  <2>5. HandlerAt(r) /\ ReplyAt(r)
    BY <2>4 DEF HandlerAt, ReplyAt, Answered
  <2>6. Send(h, r) /\ now' = now
    BY <1>4, <2>1 DEF Login
  <2>7. BrowserTypes'
    BY <1>1, <1>4 DEF BrowserTypes, Login, PageAt, Keeps
  <2> QED
    BY <2>3, <2>5, <2>6, <2>7, SendOK
<1>5. CASE Recover(h, b)
  <2>1. PICK r : r = Request(b, "recover", "load")
    OBVIOUS
  <2>2. r \in RequestType /\ HandlerAt(r) /\ ReplyAt(r)
    BY <2>1, RequestFields DEF Logouts
  <2>3. Send(h, r) /\ now' = now
    BY <1>5, <2>1 DEF Recover
  <2>4. BrowserTypes'
    BY <1>1, <1>5 DEF BrowserTypes, Recover, PageAt, Keeps
  <2> QED
    BY <2>2, <2>3, <2>4, SendOK
<1>6. ASSUME NEW kind \in Logouts, Logout(h, b, kind)
      PROVE  /\ (requests \in [Handlers -> RequestType])' /\ RequestsOK'
             /\ BrowserTypes'
  <2>1. PICK r : r = Request(b, kind, IF requireCsrf(b) THEN "load" ELSE "refused")
    OBVIOUS
  <2>2. r \in RequestType /\ HandlerAt(r) /\ ReplyAt(r)
    <3>1. CASE requireCsrf(b)
      BY <2>1, <3>1, RequestFields DEF Logouts
    <3>2. CASE ~requireCsrf(b)
      BY <2>1, <3>2, RequestFields DEF Logouts
    <3> QED
      BY <3>1, <3>2
  <2>3. Send(h, r) /\ now' = now
    BY <1>6, <2>1 DEF Logout
  <2>4. BrowserTypes'
    BY <1>1, <1>6 DEF BrowserTypes, Logout, browser, Keeps
  <2> QED
    BY <2>2, <2>3, <2>4, SendOK
<1> QED
  BY <1>3, <1>4, <1>5, <1>6 DEF Page

\* Every step keeps the types.
LEMMA TypesStep ==
  ASSUME TypeInv, PlainUsers, [Next]_vars
  PROVE  TypeInv'
<1>1. Keeps /\ UserTables' /\ SessionTable'
  BY KeepsStep, UsersStep, SessionsStep DEF UsersKeep
<1>2. SUFFICES /\ (requests \in [Handlers -> RequestType])' /\ RequestsOK'
               /\ BrowserTypes' /\ now' \in Nat
  BY <1>1 DEF TypeInv
<1>3. ASSUME jar' = jar, page' = page, lastLogin' = lastLogin
      PROVE  BrowserTypes'
  BY <1>1, <1>3 DEF BrowserTypes, TypeInv, Keeps
<1>4. ASSUME requests' = requests, now' = now \/ \A h \in Handlers : requests[h] = Idle
      PROVE  (requests \in [Handlers -> RequestType])' /\ RequestsOK'
  <2>1. ASSUME NEW h \in Handlers
        PROVE  (requests[h] \in RequestType)' /\ HandlerAt(requests[h])' /\ ReplyAt(requests[h])'
    <3>1. PICK r : r = requests[h]
      OBVIOUS
    <3>2. r \in RequestType /\ HandlerAt(r) /\ ReplyAt(r)
      BY <3>1 DEF TypeInv, RequestsOK
    <3>3. now' = now \/ r = Idle
      BY <1>4, <3>1
    <3>4. (r \in RequestType)' /\ HandlerAt(r)' /\ ReplyAt(r)'
      BY <1>1, <3>2, <3>3, RequestKept
    <3> QED
      BY <1>4, <3>1, <3>4 DEF HandlerAt, ReplyAt, Live
  <2> QED
    BY <1>4, <2>1 DEF TypeInv, RequestsOK
<1>5. CASE UNCHANGED vars
  BY <1>3, <1>4, <1>5 DEF vars, browser, TypeInv
<1>6. CASE Tick
  BY <1>3, <1>4, <1>6 DEF Tick, browser, TypeInv
<1>7. ASSUME NEW h \in Handlers, Routes(h)
      PROVE  /\ (requests \in [Handlers -> RequestType])' /\ RequestsOK'
             /\ BrowserTypes' /\ now' \in Nat
  <2>1. now' = now /\ jar' = jar /\ page' = page /\ lastLogin' = lastLogin
    BY <1>7 DEF Routes, KnownIdentity, NewIdentity, LinkOrInsert, LoadSession, ReplaceExisting,
                SelectSessions, createAccountSession, Me, RevokeSessions, Error, browser
  <2> QED
    BY <1>1, <1>3, <1>7, <2>1, RoutesOK DEF TypeInv
<1>8. ASSUME NEW h \in Handlers, Deliver(h)
      PROVE  /\ (requests \in [Handlers -> RequestType])' /\ RequestsOK'
             /\ BrowserTypes' /\ now' \in Nat
  BY <1>1, <1>8, DeliverOK DEF Deliver, TypeInv
<1>9. ASSUME NEW h \in Handlers, NEW b \in Browsers, Page(h, b)
      PROVE  /\ (requests \in [Handlers -> RequestType])' /\ RequestsOK'
             /\ BrowserTypes' /\ now' \in Nat
  <2>1. now' = now
    BY <1>9 DEF Page, Open, Login, Recover, Logout
  <2> QED
    BY <1>1, <1>9, <2>1, PagesOK DEF TypeInv
<1> QED
  BY <1>5, <1>6, <1>7, <1>8, <1>9 DEF Next

LEMMA TypesInit == Init => TypeInv /\ PlainUsers
<1> SUFFICES ASSUME Init PROVE TypeInv /\ PlainUsers
  OBVIOUS
<1>1. DOMAIN users = {} /\ DOMAIN auth_identities = {} /\ DOMAIN sessions = {}
  BY DEF Init
<1>2. Cardinality({}) = 0 /\ {} = 1..0
  BY FS_EmptySet
<1>3. Numbered(users) /\ Numbered(sessions)
  BY <1>1, <1>2 DEF Numbered
<1>4. UserTables /\ SessionTable /\ PlainUsers
  BY <1>1, <1>3 DEF UserTables, SessionTable, PlainUsers
<1>5. BrowserTypes
  BY DEF Init, BrowserTypes, Held, Known, PageAt
<1>6. Idle \in RequestType /\ HandlerAt(Idle) /\ ReplyAt(Idle)
  <2>1. Idle \in RequestType
    BY DEF Idle, RequestType, Held, Known, None
  <2> QED
    BY <2>1 DEF Idle, HandlerAt, ReplyAt, Answered
<1>7. requests \in [Handlers -> RequestType] /\ RequestsOK
  BY <1>6 DEF Init, RequestsOK
<1> QED
  BY <1>4, <1>5, <1>7 DEF TypeInv, Init

\* The tables, the browsers and the requests hold what they should.
THEOREM TypesHold == Spec => [](TypeInv /\ PlainUsers)
<1>1. TypeInv /\ PlainUsers /\ [Next]_vars => TypeInv' /\ PlainUsers'
  BY TypesStep, UsersStep DEF UsersKeep
<1> QED
  BY <1>1, TypesInit, PTL DEF Spec

\* In particular an email has one user, and every identity that has logged in
\* one that exists.
THEOREM TypeOKHolds == Spec => []TypeOK
<1>1. TypeInv => TypeOK
  <2> SUFFICES ASSUME TypeInv PROVE TypeOK
    OBVIOUS
  <2>1. /\ DOMAIN users \subseteq UserIds /\ Range(users) \subseteq UNION Range(EmailsOf)
        /\ IsInjective(users)
    BY DEF TypeInv, UserTables, Emails, Range, IsInjective
  <2>2. DOMAIN auth_identities \subseteq Identities /\ Range(auth_identities) \subseteq DOMAIN users
    BY DEF TypeInv, UserTables, Range
  <2>3. DOMAIN sessions \subseteq Tokens /\ Range(sessions) \subseteq Session
    BY DEF TypeInv, SessionTable, Range
  <2>4. /\ jar \in [Browsers -> {None} \cup DOMAIN sessions]
        /\ \A b \in Browsers : page[b].user \in {None} \cup DOMAIN users
    BY DEF TypeInv, BrowserTypes, Held, Known
  <2>5. \A h \in Handlers : requests[h].token \in {None} \cup DOMAIN sessions
    BY DEF TypeInv, RequestType, Held
  <2> QED
    BY <2>1, <2>2, <2>3, <2>4, <2>5 DEF TypeOK
<1> QED
  BY <1>1, TypesHold, PTL

\* A person who uses Google and email with one address has one account,
\* whatever first logins race, as long as the address of neither changes.
THEOREM OneAccountPerAddressHolds == Spec => []OneAccountPerAddress
<1>1. TypeInv /\ PlainUsers => OneAccountPerAddress
  <2> SUFFICES ASSUME TypeInv, PlainUsers,
                      NEW i \in DOMAIN auth_identities, NEW j \in DOMAIN auth_identities,
                      Cardinality(EmailsOf[i]) = 1, EmailsOf[i] = EmailsOf[j],
                      \A k \in Identities : EmailsOf[i] \subseteq EmailsOf[k] => EmailsOf[k] = EmailsOf[i]
               PROVE  auth_identities[i] = auth_identities[j]
    BY DEF OneAccountPerAddress
  <2>1. Plain(i) /\ Plain(j) /\ i \in Identities
    BY DEF Plain, TypeInv, UserTables
  <2>2. users[auth_identities[i]] \in EmailsOf[i] /\ users[auth_identities[j]] \in EmailsOf[i]
    BY <2>1 DEF PlainUsers
  <2>3. EmailsOf[i] = {users[auth_identities[i]]}
    BY <2>1, <2>2, SingleEmail
  <2> QED
    BY <2>2, <2>3 DEF TypeInv, UserTables
<1> QED
  BY <1>1, TypesHold, PTL

\* Whatever replies are lost, late or out of order: a logout that the service
\* carried out leaves no session behind, nor does one that it refused where the
\* page can read the cookie it has to repeat, and what is over stays over.
THEOREM LogoutEndsHolds == Spec => LogoutEnds
<1>1. ASSUME TypeInv, PlainUsers, [Next]_vars
      PROVE  [/\ \A h \in Handlers :
                   /\ Deliver(h) /\ requests[h].kind \in Logouts
                   /\ requests[h].at = "ok" \/ (requests[h].at = "refused" /\ SameHost)
                   => ~Live(requests[h].token)
              /\ \A t \in DOMAIN sessions : sessions[t].revoked => sessions'[t].revoked]_vars
  <2>1. \A t \in DOMAIN sessions : sessions[t].revoked => sessions'[t].revoked
    BY <1>1, SessionsStep DEF SessionsKeep
  <2>2. ASSUME NEW h \in Handlers, requests[h].kind \in Logouts,
               requests[h].at = "ok" \/ (requests[h].at = "refused" /\ SameHost)
        PROVE  ~Live(requests[h].token)
    <3>1. ReplyAt(requests[h])
      BY <1>1 DEF TypeInv, RequestsOK
    <3>2. CASE requests[h].at = "ok"
      BY <2>2, <3>1, <3>2 DEF ReplyAt
    <3>3. CASE requests[h].at = "refused" /\ SameHost
      <4>1. requests[h].token = None
        BY <3>1, <3>3 DEF ReplyAt
      <4>2. None \notin DOMAIN sessions
        BY <1>1, Rows DEF TypeInv
      <4> QED
        BY <4>1, <4>2 DEF Live
    <3> QED
      BY <2>2, <3>2, <3>3
  <2> QED
    BY <2>1, <2>2
<1> QED
  BY <1>1, TypesHold, PTL DEF Spec, LogoutEnds

-----------------------------------------------------------------------------
(* The documents *)

\* A session within reach stays one of the last login, or opens nothing.
LEMMA OfLastKept ==
  ASSUME Keeps, NEW b \in Browsers, NEW t \in Held, OfLast(b, t), lastLogin'[b] = lastLogin[b]
  PROVE  OfLast(b, t)'
<1>1. SUFFICES ASSUME Live(t)' PROVE sessions'[t].user = lastLogin'[b]
  BY DEF OfLast
<1>2. Live(t)
  BY <1>1 DEF Keeps, SessionsKeep
<1>3. t \in DOMAIN sessions /\ sessions[t].user = lastLogin[b]
  BY <1>2 DEF OfLast, Live
<1> QED
  BY <1>3 DEF Keeps, SessionsKeep

\* A request goes from one place to another, or nowhere, while its page stays.
LEMMA MovedDocument ==
  ASSUME TypeInv, Keeps, NEW q \in RequestType, NEW r, q.browser \in Browsers,
         jar'[q.browser] = jar[q.browser], lastLogin'[q.browser] = lastLogin[q.browser],
         page'[q.browser].at = page[q.browser].at, Document(q.browser, q),
         r.browser = q.browser, r.kind = q.kind, r.token = q.token, r.set = q.set,
         r.at = q.at \/ (q.at \notin Answered /\ r.at \notin Answered),
         r.at # q.at /\ r.kind = "login" /\ r.at \in {"sessions", "insert"} =>
           ~Live(jar[q.browser]) \/ ~(Live(jar[q.browser])')
  PROVE  Document(r.browser, r)'
<1>1. PICK b : b = q.browser
  OBVIOUS
<1>2. /\ jar'[b] = jar[b] /\ page'[b].at = page[b].at /\ lastLogin'[b] = lastLogin[b]
  BY <1>1
<1>3. PICK t : t = jar[b]
  OBVIOUS
<1>4. t \in Held /\ q.token \in Held /\ q.set \in Held
  BY <1>1, <1>3 DEF TypeInv, BrowserTypes, RequestType
<1>5. ~Live(t) => ~(Live(t)')
  BY <1>4 DEF Keeps, SessionsKeep
<1>6. ~Live(jar[b])' <=> ~(Live(t)')
  BY <1>2, <1>3 DEF Live
<1>7. Waits(b, r)'
  <2>1. Waits(b, q)
    BY <1>1 DEF Document
  <2>2. r.kind = "login" /\ r.at \in {"sessions", "insert", "ok"} => ~(Live(t)')
    <3>1. SUFFICES ASSUME r.kind = "login", r.at \in {"sessions", "insert", "ok"}
                   PROVE  ~(Live(t)')
      OBVIOUS
    <3>2. CASE r.at = q.at
      BY <1>3, <1>5, <2>1, <3>1, <3>2 DEF Waits
    <3>3. CASE r.at # q.at
      <4>1. r.at \in {"sessions", "insert"}
        BY <3>1, <3>3 DEF Answered
      <4>2. ~Live(t) \/ ~(Live(jar[q.browser])')
        BY <1>1, <1>3, <3>1, <3>3, <4>1
      <4>3. (Live(jar[q.browser])') <=> (Live(t)')
        BY <1>1, <1>2, <1>3 DEF Live
      <4> QED
        BY <1>5, <4>2, <4>3
    <3> QED
      BY <3>2, <3>3
  <2> QED
    BY <1>2, <1>3, <1>6, <2>1, <2>2 DEF Waits
<1>8. r.kind \in {"me", "recover"} => OfLast(b, r.token)' /\ OfLast(b, r.set)'
  <2>1. SUFFICES ASSUME r.kind \in {"me", "recover"}
                 PROVE  OfLast(b, q.token)' /\ OfLast(b, q.set)'
    BY DEF OfLast
  <2>2. OfLast(b, q.token) /\ OfLast(b, q.set)
    BY <1>1, <2>1 DEF Document
  <2> QED
    BY <1>1, <1>2, <1>4, <2>2, OfLastKept
<1> QED
  BY <1>1, <1>7, <1>8 DEF Document

\* A handler takes a step and no page changes.
LEMMA PutDocument ==
  ASSUME TypeInv, Documents, Keeps, UNCHANGED browser, NEW h \in Handlers, NEW r,
         requests' = [requests EXCEPT ![h] = r],
         \/ r.browser = None
         \/ /\ r.browser = requests[h].browser /\ r.kind = requests[h].kind
            /\ Document(r.browser, r)'
  PROVE  Documents'
<1>1. requests \in [Handlers -> RequestType]
  BY DEF TypeInv
<1>2. ASSUME NEW g \in Handlers, requests'[g].browser # None
      PROVE  Document(requests[g].browser, requests[g])'
  <2>1. CASE g = h
    <3>1. requests'[g] = r
      BY <1>1, <2>1
    <3>2. Document(r.browser, r)'
      BY <1>2, <3>1
    <3> QED
      BY <3>1, <3>2 DEF Document, Waits, OfLast, Live
  <2>2. CASE g # h
    <3>1. PICK q : q = requests[g]
      OBVIOUS
    <3>2. requests'[g] = q /\ q \in RequestType /\ q.browser # None /\ q.browser \in Browsers
      BY <1>1, <1>2, <2>2, <3>1 DEF RequestType
    <3>3. Document(q.browser, q)
      BY <3>1, <3>2 DEF Documents
    <3>4. Document(q.browser, q)'
      BY <3>2, <3>3, MovedDocument DEF browser
    <3> QED
      BY <3>2, <3>4 DEF Document, Waits, OfLast, Live
  <2> QED
    BY <2>1, <2>2
<1>3. ASSUME NEW f \in Handlers, NEW g \in Handlers,
             {requests'[f].kind, requests'[g].kind} \subseteq {"login", "recover"},
             requests'[f].browser = requests'[g].browser, requests'[g].browser # None
      PROVE  f = g
  <2>1. ASSUME NEW g1 \in Handlers, requests'[g1].browser # None
        PROVE  /\ requests'[g1].browser = requests[g1].browser
               /\ requests'[g1].kind = requests[g1].kind
    BY <1>1, <2>1
  <2> QED
    BY <1>3, <2>1 DEF Documents
<1>4. ASSUME NEW b \in Browsers
      PROVE  OfLast(b, jar[b])'
  <2>1. PICK t : t = jar[b]
    OBVIOUS
  <2>2. t \in Held /\ jar'[b] = t /\ lastLogin'[b] = lastLogin[b] /\ OfLast(b, t)
    BY <2>1 DEF TypeInv, BrowserTypes, browser, Documents
  <2>3. OfLast(b, t)'
    BY <2>2, OfLastKept
  <2> QED
    BY <2>2, <2>3 DEF OfLast, Live
<1> QED
  BY <1>2, <1>3, <1>4 DEF Documents

\* A handler answers: with the cookie it was sent, a new one, or none.
LEMMA AnswerDocument ==
  ASSUME TypeInv, Documents, Keeps, UNCHANGED browser, NEW h \in Handlers,
         NEW q, q = requests[h], NEW status \in Answered, NEW token, NEW user,
         requests' = [requests EXCEPT ![h] =
           IF q.browser = None THEN Idle ELSE Answer(q, status, token, user)],
         q.kind \in {"me", "recover"} => token \in {None, q.token},
         q.kind = "login" /\ status = "ok" => q.at = "insert"
  PROVE  Documents'
<1>1. q \in RequestType
  BY DEF TypeInv
<1>2. CASE q.browser = None
  <2>1. PICK r : r = Idle
    OBVIOUS
  <2> QED
    BY <1>2, <2>1, PutDocument DEF Idle
<1>3. CASE q.browser # None
  <2>1. PICK r : r = Answer(q, status, token, user)
    OBVIOUS
  <2>2. PICK b : b = q.browser
    OBVIOUS
  <2>3. PICK t : t = jar[b]
    OBVIOUS
  <2>4. b \in Browsers /\ Document(b, q) /\ t \in Held /\ q.token \in Held
    BY <1>1, <1>3, <2>2, <2>3 DEF RequestType, Documents, TypeInv, BrowserTypes
  <2>5. /\ r.browser = b /\ r.kind = q.kind /\ r.at = status /\ r.set = token
        /\ r.token = IF q.kind \in Logouts THEN q.token ELSE None
    BY <2>1, <2>2 DEF Answer
  <2>6. jar'[b] = t /\ page'[b] = page[b] /\ lastLogin'[b] = lastLogin[b]
    BY <2>3 DEF browser
  <2>7. Waits(b, q)
    BY <2>4 DEF Document
  <2>8. q.kind = "me" => q.kind \notin Logouts
    BY DEF Logouts
  <2>9. page[b].at \in {"callback", "login"} /\ q.kind = "me" => {r.token, r.set} \subseteq {None, t}
    BY <2>3, <2>5, <2>7, <2>8 DEF Waits
  <2>10. r.kind = "login" /\ r.at = "ok" => ~(Live(t)')
    <3>1. SUFFICES ASSUME r.kind = "login", r.at = "ok" PROVE ~(Live(t)')
      OBVIOUS
    <3>2. ~Live(t)
      BY <2>3, <2>5, <2>7, <3>1 DEF Waits
    <3> QED
      BY <2>4, <3>2 DEF Keeps, SessionsKeep
  <2>11. r.at \in {"sessions", "insert", "ok"} => r.at = "ok"
    BY <2>5 DEF Answered
  <2>12. Waits(b, r)'
    <3>1. (~Live(jar[b]))' <=> ~(Live(t)')
      BY <2>6 DEF Live
    <3> QED
      BY <2>5, <2>6, <2>7, <2>9, <2>10, <2>11, <3>1 DEF Waits
  <2>13. r.kind \in {"me", "recover"} => OfLast(b, r.token)' /\ OfLast(b, r.set)'
    <3>1. SUFFICES ASSUME r.kind \in {"me", "recover"}
                   PROVE  OfLast(b, r.token)' /\ OfLast(b, r.set)'
      OBVIOUS
    <3>2. PICK none : none = None
      OBVIOUS
    <3>3. none \in Held /\ OfLast(b, none)
      <4>1. None \notin DOMAIN sessions
        BY Rows DEF TypeInv
      <4> QED
        BY <3>2, <4>1 DEF Held, OfLast, Live
    <3>4. OfLast(b, none)'
      BY <2>4, <2>6, <3>3, OfLastKept
    <3>5. PICK x : x = q.token
      OBVIOUS
    <3>6. OfLast(b, x)
      BY <2>4, <2>5, <3>1, <3>5 DEF Document
    <3>7. OfLast(b, x)'
      BY <2>4, <2>6, <3>5, <3>6, OfLastKept
    <3>8. r.token \in {none, x} /\ r.set \in {none, x}
      BY <2>5, <3>1, <3>2, <3>5 DEF Logouts
    <3> QED
      BY <3>4, <3>7, <3>8
  <2>14. Document(b, r)'
    BY <2>12, <2>13 DEF Document
  <2>15. requests' = [requests EXCEPT ![h] = r]
    BY <1>3, <2>1
  <2>16. Document(r.browser, r)'
    BY <2>5, <2>14
  <2>17. r.browser = requests[h].browser /\ r.kind = requests[h].kind
    BY <2>2, <2>5
  <2> QED
    BY <2>15, <2>16, <2>17, PutDocument
<1> QED
  BY <1>2, <1>3

\* A handler fails.
LEMMA FailDocument ==
  ASSUME TypeInv, Documents, Keeps, UNCHANGED browser, NEW h \in Handlers, Fail(h)
  PROVE  Documents'
<1>1. PICK q : q = requests[h]
  OBVIOUS
<1>2. PICK none : none = None
  OBVIOUS
<1>3. requests' = [requests EXCEPT ![h] =
        IF q.browser = None THEN Idle ELSE Answer(q, "error", none, none)]
  BY <1>1, <1>2 DEF Fail, Reply
<1> QED
  BY <1>1, <1>2, <1>3, AnswerDocument DEF Answered

\* What the routes do to the documents.
LEMMA RoutesDocuments ==
  ASSUME TypeInv, Documents, Keeps, NEW h \in Handlers, Routes(h)
  PROVE  Documents'
<1>1. PICK q : q = requests[h]
  OBVIOUS
<1>2. q \in RequestType /\ HandlerAt(q) /\ q.browser \in {None} \cup Browsers
  BY <1>1 DEF TypeInv, RequestsOK, RequestType
<1>3. UNCHANGED browser
  BY DEF Routes, KnownIdentity, NewIdentity, LinkOrInsert, LoadSession, ReplaceExisting,
         SelectSessions, createAccountSession, Me, RevokeSessions, Error
<1>4. ASSUME NEW r, requests' = [requests EXCEPT ![h] = r],
             r.browser = q.browser, r.kind = q.kind, r.token = q.token, r.set = q.set,
             q.at \notin Answered /\ r.at \notin Answered,
             q.browser # None /\ r.kind = "login" /\ r.at \in {"sessions", "insert"} =>
               ~Live(jar[q.browser]) \/ ~(Live(jar[q.browser])')
      PROVE  Documents'
  <2>1. CASE q.browser = None
    BY <1>1, <1>3, <1>4, <2>1, PutDocument
  <2>2. CASE q.browser # None
    <3>1. q.browser \in Browsers /\ Document(q.browser, q)
      BY <1>1, <1>2, <2>2 DEF Documents
    <3>2. Document(r.browser, r)'
      BY <1>2, <1>3, <1>4, <2>2, <3>1, MovedDocument DEF browser
    <3> QED
      BY <1>1, <1>3, <1>4, <3>2, PutDocument
  <2> QED
    BY <2>1, <2>2
<1>5. ASSUME NEW at, Goto(h, at), at \in {"email", "loaded", "sessions"}, q.at \notin Answered,
             q.browser # None /\ q.kind = "login" /\ at = "sessions" =>
               ~Live(jar[q.browser]) \/ ~(Live(jar[q.browser])')
      PROVE  Documents'
  <2>1. PICK r : r = [q EXCEPT !.at = at]
    OBVIOUS
  <2>2. /\ r.kind = q.kind /\ r.at = at /\ r.browser = q.browser /\ r.token = q.token
        /\ r.set = q.set
    BY <1>2, <2>1, Moved
  <2>3. requests' = [requests EXCEPT ![h] = r]
    BY <1>1, <1>5, <2>1 DEF Goto
  <2> QED
    BY <1>4, <1>5, <2>2, <2>3 DEF Answered
<1>6. q.browser # None /\ q.kind = "login" /\ q.at \in {"load", "loaded"} => q.token = jar[q.browser]
  BY <1>1 DEF Documents, Document, Waits, Answered
<1>7. ASSUME NEW u, Identified(h, u), q.at \in {"identity", "email"}
      PROVE  Documents'
  <2>1. PICK r : r = [q EXCEPT !.at = "load", !.user = u, !.as = << >>]
    OBVIOUS
  <2>2. /\ r.kind = q.kind /\ r.at = "load" /\ r.browser = q.browser /\ r.token = q.token
        /\ r.set = q.set
    BY <1>2, <2>1 DEF RequestType
  <2>3. requests' = [requests EXCEPT ![h] = r]
    BY <1>1, <1>7, <2>1 DEF Identified
  <2> QED
    BY <1>4, <1>7, <2>2, <2>3 DEF Answered
<1>8. CASE KnownIdentity(h)
  <2>1. PICK u : u = auth_identities[q.as[1]]
    OBVIOUS
  <2>2. q.at = "identity" /\ (Fail(h) \/ Identified(h, u))
    BY <1>1, <1>8, <2>1 DEF KnownIdentity
  <2> QED
    BY <1>3, <1>7, <2>2, FailDocument
<1>9. CASE NewIdentity(h)
  <2>1. q.at = "identity" /\ Goto(h, "email")
    BY <1>1, <1>9 DEF NewIdentity
  <2> QED
    BY <1>5, <2>1 DEF Answered
<1>10. CASE LinkOrInsert(h)
  <2>1. PICK u : u = IF WithEmail(q.as[2]) # {} THEN CHOOSE v \in WithEmail(q.as[2]) : TRUE
                     ELSE Cardinality(DOMAIN users) + 1
    OBVIOUS
  <2>2. q.at = "email" /\ (Fail(h) \/ Identified(h, u))
    BY <1>1, <1>10, <2>1 DEF LinkOrInsert
  <2> QED
    BY <1>3, <1>7, <2>2, FailDocument
<1>11. CASE LoadSession(h)
  <2>1. q.at = "load" /\ q.kind # "idle"
    BY <1>1, <1>2, <1>11 DEF LoadSession, HandlerAt
  <2>2. CASE Live(q.token)
    <3>1. Goto(h, "loaded")
      BY <1>1, <1>11, <2>2 DEF LoadSession
    <3> QED
      BY <1>5, <2>1, <3>1 DEF Answered
  <2>3. CASE ~Live(q.token) /\ q.kind = "login"
    <3>1. Goto(h, "sessions")
      BY <1>1, <1>11, <2>3 DEF LoadSession, Logouts
    <3>2. q.browser # None => ~Live(jar[q.browser])
      BY <1>6, <2>1, <2>3
    <3> QED
      BY <1>5, <2>1, <3>1, <3>2 DEF Answered
  <2>4. CASE ~Live(q.token) /\ q.kind \in {"me", "recover"}
    <3>1. Fail(h)
      BY <1>1, <1>11, <2>4 DEF LoadSession, Logouts
    <3> QED
      BY <1>3, <3>1, FailDocument
  <2>5. CASE ~Live(q.token) /\ q.kind \in Logouts
    <3>1. Reply(h, "ok", None, None)
      BY <1>1, <1>11, <2>5 DEF LoadSession, Logouts
    <3>2. PICK none : none = None
      OBVIOUS
    <3>3. requests' = [requests EXCEPT ![h] =
            IF q.browser = None THEN Idle ELSE Answer(q, "ok", none, none)]
      BY <1>1, <3>1, <3>2 DEF Reply
    <3> QED
      BY <1>1, <1>3, <2>5, <3>3, AnswerDocument DEF Answered, Logouts
  <2> QED
    BY <1>2, <2>1, <2>2, <2>3, <2>4, <2>5 DEF RequestType
<1>12. CASE ReplaceExisting(h)
  <2>1. /\ q.kind = "login" /\ q.at = "loaded" /\ Goto(h, "sessions")
        /\ sessions' = Revoke({q.token})
    BY <1>1, <1>12 DEF ReplaceExisting
  <2>2. q.token \in DOMAIN sessions
    BY <1>2, <2>1 DEF HandlerAt, RequestType, Held
  <2>3. sessions'[q.token].revoked
    BY <2>1, <2>2, Revoked DEF TypeInv
  <2>4. q.browser # None => q.token = jar'[q.browser]
    BY <1>3, <1>6, <2>1 DEF browser
  <2>5. q.browser # None => ~(Live(jar[q.browser])')
    <3>1. PICK b : b = q.browser
      OBVIOUS
    <3>2. b # None => ~(Live(jar[b])')
      BY <2>3, <2>4, <3>1 DEF Live
    <3>3. requests'[h].browser = q.browser
      BY <1>1, <1>2, <2>1 DEF Goto, TypeInv, RequestType
    <3> QED
      BY <3>1, <3>2, <3>3
  <2> QED
    BY <1>5, <2>1, <2>5 DEF Answered
<1>13. CASE SelectSessions(h)
  <2>1. q.at = "sessions" /\ q.kind = "login"
    BY <1>1, <1>2, <1>13 DEF SelectSessions, HandlerAt
  <2>2. PICK rows : rows = Unrevoked(q.user)
    OBVIOUS
  <2>3. PICK r : r = [q EXCEPT !.at = "insert", !.rows = rows]
    OBVIOUS
  <2>4. requests' = [requests EXCEPT ![h] = r]
    BY <1>1, <1>13, <2>2, <2>3 DEF SelectSessions
  <2>5. /\ r.kind = q.kind /\ r.at = "insert" /\ r.browser = q.browser /\ r.token = q.token
        /\ r.set = q.set
    BY <1>2, <2>3 DEF RequestType
  <2>6. q.browser # None => ~Live(jar[q.browser])
    BY <1>1, <2>1 DEF Documents, Document, Waits
  <2> QED
    BY <1>4, <2>1, <2>4, <2>5, <2>6 DEF Answered
<1>14. CASE createAccountSession(h)
  <2>1. PICK t : t = Cardinality(DOMAIN sessions) + 1
    OBVIOUS
  <2>2. PICK u : u = q.user
    OBVIOUS
  <2>3. q.at = "insert" /\ q.kind = "login" /\ Reply(h, "ok", t, u)
    BY <1>1, <1>2, <1>14, <2>1, <2>2 DEF createAccountSession, HandlerAt
  <2>4. requests' = [requests EXCEPT ![h] =
          IF q.browser = None THEN Idle ELSE Answer(q, "ok", t, u)]
    BY <1>1, <2>3 DEF Reply
  <2> QED
    BY <1>1, <1>3, <2>3, <2>4, AnswerDocument DEF Answered
<1>15. CASE Me(h)
  <2>1. PICK t : t = q.token
    OBVIOUS
  <2>2. PICK u : u = sessions[t].user
    OBVIOUS
  <2>3. q.kind \in {"me", "recover"} /\ Reply(h, "ok", t, u)
    BY <1>1, <1>15, <2>1, <2>2 DEF Me
  <2>4. requests' = [requests EXCEPT ![h] =
          IF q.browser = None THEN Idle ELSE Answer(q, "ok", t, u)]
    BY <1>1, <2>3 DEF Reply
  <2> QED
    BY <1>1, <1>3, <2>1, <2>3, <2>4, AnswerDocument DEF Answered
<1>16. CASE RevokeSessions(h)
  <2>1. PICK none : none = None
    OBVIOUS
  <2>2. q.kind \in Logouts /\ Reply(h, "ok", none, none)
    BY <1>1, <1>16, <2>1 DEF RevokeSessions
  <2>3. requests' = [requests EXCEPT ![h] =
          IF q.browser = None THEN Idle ELSE Answer(q, "ok", none, none)]
    BY <1>1, <2>2 DEF Reply
  <2> QED
    BY <1>1, <1>3, <2>1, <2>2, <2>3, AnswerDocument DEF Answered, Logouts
<1>17. CASE Error(h)
  BY <1>3, <1>17, FailDocument DEF Error
<1> QED
  BY <1>8, <1>9, <1>10, <1>11, <1>12, <1>13, <1>14, <1>15, <1>16, <1>17 DEF Routes

\* Once a page has left the login, only the sessions within reach matter.
LEMMA AwayDocument ==
  ASSUME NEW b \in Browsers, NEW q, page'[b].at \notin {"callback", "login"},
         q.kind \notin {"login", "recover"}, q.kind \in Logouts => page'[b].at = "app",
         q.kind = "me" => OfLast(b, q.token)' /\ OfLast(b, q.set)'
  PROVE  Document(b, q)'
<1>1. Waits(b, q)'
  BY DEF Waits
<1>2. q.kind \in {"me", "recover"} => OfLast(b, q.token)' /\ OfLast(b, q.set)'
  OBVIOUS
<1> QED
  BY <1>1, <1>2 DEF Document

\* The good sessions within reach of a page that keeps its last login.
LEMMA ReachKept ==
  ASSUME Keeps, NEW b \in Browsers, NEW q \in RequestType, Document(b, q), q.kind = "me",
         lastLogin'[b] = lastLogin[b]
  PROVE  OfLast(b, q.token)' /\ OfLast(b, q.set)'
<1>1. q.token \in Held /\ q.set \in Held
  BY DEF RequestType
<1>2. OfLast(b, q.token) /\ OfLast(b, q.set)
  BY DEF Document
<1> QED
  BY <1>1, <1>2, OfLastKept

\* A reply arrives at its page.
LEMMA DeliverDocuments ==
  ASSUME TypeInv, Documents, Keeps, NEW h \in Handlers, Deliver(h)
  PROVE  Documents'
<1>1. PICK r : r = requests[h]
  OBVIOUS
<1>2. PICK b : b = r.browser
  OBVIOUS
<1>3. /\ r \in RequestType /\ ReplyAt(r) /\ r.at \in Answered /\ b \in Browsers /\ b # None
      /\ r.kind # "idle"
  BY <1>1, <1>2 DEF TypeInv, RequestsOK, Deliver, Replied, Answered, ReplyAt, RequestType, HandlerAt
<1>4. /\ requests' = [requests EXCEPT ![h] = Idle] /\ sessions' = sessions /\ now' = now
      /\ jar' = IF r.at = "ok" THEN [jar EXCEPT ![b] = r.set] ELSE jar
      /\ page' = [page EXCEPT ![b] = Shown(b, r)]
      /\ lastLogin' = IF r.kind = "login" /\ r.at = "ok" THEN [lastLogin EXCEPT ![b] = r.user]
                      ELSE lastLogin
  BY <1>1, <1>2 DEF Deliver, tables
<1>5. /\ jar \in [Browsers -> Held] /\ page \in [Browsers -> [at : PageAt, user : Known]]
      /\ lastLogin \in [Browsers -> Known] /\ requests \in [Handlers -> RequestType]
  BY DEF TypeInv, BrowserTypes
<1>6. Document(b, r) /\ Waits(b, r)
  BY <1>1, <1>2, <1>3 DEF Documents, Document
<1>7. /\ jar'[b] = IF r.at = "ok" THEN r.set ELSE jar[b]
      /\ page'[b] = Shown(b, r)
      /\ lastLogin'[b] = IF r.kind = "login" /\ r.at = "ok" THEN r.user ELSE lastLogin[b]
      /\ \A c \in Browsers \ {b} : jar'[c] = jar[c] /\ page'[c] = page[c] /\ lastLogin'[c] = lastLogin[c]
  BY <1>3, <1>4, <1>5
<1>8. page'[b].at = IF r.kind = "login" THEN IF r.at = "ok" THEN "recover" ELSE "failed"
                    ELSE IF r.kind = "recover" THEN requireRecoveredIwaSession(b, r)
                    ELSE page[b].at
  <2>1. page[b] = [at |-> page[b].at, user |-> page[b].user]
    BY <1>3, <1>5
  <2>2. CASE r.kind = "login"
    BY <1>7, <2>1, <2>2 DEF Shown
  <2>3. CASE r.kind = "recover"
    BY <1>7, <2>3 DEF Shown
  <2>4. CASE r.kind \notin {"login", "recover"}
    BY <1>7, <2>1, <2>4 DEF Shown
  <2> QED
    BY <2>2, <2>3, <2>4
<1>9. ASSUME NEW g \in Handlers, requests'[g].browser # None
      PROVE  g # h /\ requests'[g] = requests[g]
  BY <1>4, <1>5, <1>9 DEF Idle
<1>10. ASSUME NEW g \in Handlers, NEW q, q = requests[g], g # h, q.browser = b
       PROVE  Document(b, q)'
  <2>1. q \in RequestType /\ Document(b, q) /\ Waits(b, q)
    BY <1>3, <1>5, <1>10 DEF Documents, Document
  <2>2. {r.kind, q.kind} \subseteq {"login", "recover"} => FALSE
    BY <1>1, <1>2, <1>3, <1>10 DEF Documents
  <2>3. lastLogin'[b] = lastLogin[b] /\ q.kind = "me" => OfLast(b, q.token)' /\ OfLast(b, q.set)'
    BY <1>3, <2>1, ReachKept
  <2>4. CASE r.kind = "me" /\ page[b].at \in {"callback", "login"}
    <3>1. r.at = "ok" => r.set # None
      BY <1>3, <2>4 DEF ReplyAt, Logouts
    <3>2. jar'[b] = jar[b]
      BY <1>6, <1>7, <2>4, <3>1 DEF Waits
    <3>3. page'[b].at = page[b].at /\ lastLogin'[b] = lastLogin[b]
      BY <1>7, <1>8, <2>4
    <3> QED
      BY <1>3, <1>10, <2>1, <3>2, <3>3, MovedDocument
  <2>5. CASE r.kind \in {"me"} \cup Logouts /\ page[b].at \notin {"callback", "login"}
    <3>1. page'[b].at = page[b].at /\ lastLogin'[b] = lastLogin[b]
      BY <1>7, <1>8, <2>5 DEF Logouts
    <3>2. CASE q.kind = "recover"
      <4>1. Waits(b, q)'
        BY <2>1, <2>5, <3>1, <3>2 DEF Waits, Logouts
      <4>2. q.token \in Held /\ q.set \in Held /\ OfLast(b, q.token) /\ OfLast(b, q.set)
        BY <2>1, <3>2 DEF RequestType, Document
      <4>3. OfLast(b, q.token)' /\ OfLast(b, q.set)'
        BY <1>3, <3>1, <4>2, OfLastKept
      <4> QED
        BY <4>1, <4>3 DEF Document
    <3>3. CASE q.kind # "recover"
      <4>1. q.kind \notin {"login", "recover"} /\ (q.kind \in Logouts => page'[b].at = "app")
        BY <2>1, <2>5, <3>1, <3>3 DEF Waits
      <4> QED
        BY <1>3, <2>3, <2>5, <3>1, <4>1, AwayDocument
    <3> QED
      BY <3>2, <3>3
  <2>6. CASE r.kind \in Logouts /\ page[b].at \in {"callback", "login"}
    BY <1>6, <2>6 DEF Waits
  <2>7. CASE r.kind = "recover"
    <3>1. page[b].at = "recovering" /\ page'[b].at \in {"app", "failed"} /\ lastLogin'[b] = lastLogin[b]
      BY <1>6, <1>7, <1>8, <2>7 DEF Waits, requireRecoveredIwaSession
    <3>2. q.kind \notin {"login", "recover"} \cup Logouts
      BY <2>1, <2>2, <2>7, <3>1 DEF Waits
    <3> QED
      BY <1>3, <2>3, <3>1, <3>2, AwayDocument
  <2>8. CASE r.kind = "login"
    <3>1. page[b].at = "login" /\ page'[b].at \in {"recover", "failed"}
      BY <1>6, <1>8, <2>8 DEF Waits
    <3>2. q.kind \notin {"login", "recover"} \cup Logouts
      BY <2>1, <2>2, <2>8, <3>1 DEF Waits
    <3>3. CASE r.at # "ok"
      BY <1>3, <1>7, <2>3, <3>1, <3>2, <3>3, AwayDocument
    <3>4. CASE r.at = "ok"
      <4>1. ~Live(jar[b])
        BY <1>6, <2>8, <3>4 DEF Waits
      <4>2. ~Live(None)
        BY Rows DEF TypeInv, Live
      <4>3. q.kind = "me" => ~Live(q.token) /\ ~Live(q.set) /\ q.token \in Held /\ q.set \in Held
        BY <2>1, <3>1, <4>1, <4>2 DEF Waits, RequestType
      <4>4. q.kind = "me" => ~(Live(q.token)') /\ ~(Live(q.set)')
        BY <4>3 DEF Keeps, SessionsKeep
      <4>5. q.kind = "me" => OfLast(b, q.token)' /\ OfLast(b, q.set)'
        BY <4>4 DEF OfLast
      <4> QED
        BY <1>3, <3>1, <3>2, <4>5, AwayDocument
    <3> QED
      BY <3>3, <3>4
  <2> QED
    BY <1>3, <2>4, <2>5, <2>6, <2>7, <2>8 DEF RequestType
<1>11. ASSUME NEW g \in Handlers, requests'[g].browser # None
       PROVE  Document(requests[g].browser, requests[g])'
  <2>1. PICK q : q = requests[g]
    OBVIOUS
  <2>2. g # h /\ requests'[g] = q /\ q \in RequestType /\ q.browser \in Browsers /\ q.browser # None
    BY <1>5, <1>9, <1>11, <2>1 DEF RequestType
  <2>3. Document(q.browser, q)'
    <3>1. CASE q.browser = b
      <4>1. Document(b, q)'
        BY <1>10, <2>1, <2>2, <3>1
      <4> QED
        BY <3>1, <4>1
    <3>2. CASE q.browser # b
      <4>1. Document(q.browser, q)
        BY <2>1, <2>2 DEF Documents
      <4> QED
        BY <1>7, <2>2, <3>2, <4>1, MovedDocument
    <3> QED
      BY <3>1, <3>2
  <2> QED
    BY <2>2, <2>3 DEF Document, Waits, OfLast, Live
<1>12. ASSUME NEW f \in Handlers, NEW g \in Handlers,
              {requests'[f].kind, requests'[g].kind} \subseteq {"login", "recover"},
              requests'[f].browser = requests'[g].browser, requests'[g].browser # None
       PROVE  f = g
  BY <1>9, <1>12 DEF Documents
<1>13. ASSUME NEW c \in Browsers
       PROVE  OfLast(c, jar[c])'
  <2>1. PICK t : t = jar'[c]
    OBVIOUS
  <2>2. OfLast(c, t)'
    <3>1. CASE c # b \/ r.at # "ok"
      <4>1. t = jar[c] /\ lastLogin'[c] = lastLogin[c]
        BY <1>7, <2>1, <3>1
      <4>2. t \in Held /\ OfLast(c, t)
        BY <1>5, <4>1 DEF Documents
      <4> QED
        BY <4>1, <4>2, OfLastKept
    <3>2. CASE c = b /\ r.at = "ok" /\ r.kind \in {"me", "recover"}
      <4>1. t = r.set /\ lastLogin'[c] = lastLogin[c] /\ OfLast(c, t) /\ t \in Held
        BY <1>3, <1>6, <1>7, <2>1, <3>2 DEF Document, RequestType
      <4> QED
        BY <4>1, OfLastKept
    <3>3. CASE c = b /\ r.at = "ok" /\ r.kind = "login"
      <4>1. t = r.set /\ lastLogin'[c] = r.user
        BY <1>7, <2>1, <3>3
      <4>2. sessions[r.set].user = r.user
        BY <1>3, <3>3 DEF ReplyAt, Logouts
      <4> QED
        BY <1>4, <4>1, <4>2 DEF OfLast
    <3>4. CASE c = b /\ r.at = "ok" /\ r.kind \in Logouts
      <4>1. t = None
        BY <1>3, <1>7, <2>1, <3>4 DEF ReplyAt
      <4>2. None \notin DOMAIN sessions
        BY Rows DEF TypeInv
      <4> QED
        BY <1>4, <4>1, <4>2 DEF OfLast, Live
    <3> QED
      BY <1>3, <3>1, <3>2, <3>3, <3>4 DEF RequestType
  <2> QED
    BY <2>1, <2>2 DEF OfLast, Live
<1> QED
  BY <1>11, <1>12, <1>13 DEF Documents

\* A page sends a request: the others of its document stay with it.
LEMMA SendDocument ==
  ASSUME TypeInv, Documents, Keeps, NEW h \in Handlers, NEW b \in Browsers, NEW r,
         Send(h, r), r.browser = b, Document(b, r)',
         r.kind \in {"login", "recover"} => page[b].at \notin {"login", "recovering"},
         \A q \in RequestType : q.browser = b /\ Document(b, q) => Document(b, q)',
         jar' = jar, lastLogin' = lastLogin, \A c \in Browsers \ {b} : page'[c] = page[c]
  PROVE  Documents'
<1>1. requests \in [Handlers -> RequestType]
  BY DEF TypeInv
<1>2. requests' = [requests EXCEPT ![h] = r] /\ requests[h].browser = None /\ b # None
  BY AccountsAssumption DEF Send, Idle, None
<1>3. ASSUME NEW g \in Handlers, requests'[g].browser # None
      PROVE  Document(requests[g].browser, requests[g])'
  <2>1. PICK q : q = requests'[g]
    OBVIOUS
  <2>2. Document(q.browser, q)'
    <3>1. CASE g = h
      <4>1. q = r
        BY <1>1, <1>2, <2>1, <3>1
      <4> QED
        BY <4>1
    <3>2. CASE g # h
      <4>1. q = requests[g] /\ q \in RequestType /\ q.browser \in Browsers
        BY <1>1, <1>2, <1>3, <2>1, <3>2 DEF RequestType
      <4>2. Document(q.browser, q)
        BY <1>3, <2>1, <4>1 DEF Documents
      <4>3. CASE q.browser = b
        <5>1. Document(b, q)'
          BY <4>1, <4>2, <4>3
        <5> QED
          BY <4>3, <5>1
      <4>4. CASE q.browser # b
        BY <4>1, <4>2, <4>4, MovedDocument
      <4> QED
        BY <4>3, <4>4
    <3> QED
      BY <3>1, <3>2
  <2> QED
    BY <2>1, <2>2 DEF Document, Waits, OfLast, Live
<1>4. ASSUME NEW f \in Handlers, NEW g \in Handlers,
             {requests'[f].kind, requests'[g].kind} \subseteq {"login", "recover"},
             requests'[f].browser = requests'[g].browser, requests'[g].browser # None
      PROVE  f = g
  <2>1. ASSUME NEW i \in Handlers, i # h, requests[i].browser = b,
               {requests[i].kind, r.kind} \subseteq {"login", "recover"}
        PROVE  FALSE
    <3>1. Waits(b, requests[i])
      BY <1>2, <2>1 DEF Documents, Document
    <3> QED
      BY <2>1, <3>1 DEF Waits
  <2>2. requests'[h] = r /\ \A i \in Handlers \ {h} : requests'[i] = requests[i]
    BY <1>1, <1>2
  <2> QED
    BY <1>4, <2>1, <2>2 DEF Documents
<1>5. ASSUME NEW c \in Browsers
      PROVE  OfLast(c, jar[c])'
  <2>1. PICK t : t = jar[c]
    OBVIOUS
  <2>2. t \in Held /\ OfLast(c, t)
    BY <2>1 DEF TypeInv, BrowserTypes, Documents
  <2>3. OfLast(c, t)'
    BY <2>2, OfLastKept
  <2> QED
    BY <2>1, <2>3 DEF OfLast, Live
<1> QED
  BY <1>3, <1>4, <1>5 DEF Documents

\* A request as it is sent, with the cookie of the jar.
LEMMA FreshDocument ==
  ASSUME TypeInv, Documents, Keeps, NEW b \in Browsers, jar' = jar, lastLogin' = lastLogin,
         NEW r, r.browser = b, r.token = jar[b], r.set = None,
         r.at \notin {"sessions", "insert", "ok"},
         r.kind = "login" => page'[b].at = "login",
         r.kind = "recover" => page'[b].at = "recovering",
         r.kind \in Logouts => page'[b].at = "app"
  PROVE  Document(b, r)'
<1>1. PICK none : none = None
  OBVIOUS
<1>2. PICK t : t = jar[b]
  OBVIOUS
<1>3. t \in Held /\ OfLast(b, t)
  BY <1>2 DEF TypeInv, BrowserTypes, Documents
<1>4. none \in Held /\ OfLast(b, none)
  BY <1>1, Rows DEF TypeInv, Held, OfLast, Live
<1>5. OfLast(b, t)' /\ OfLast(b, none)'
  BY <1>3, <1>4, OfLastKept
<1>6. Waits(b, r)'
  BY DEF Waits
<1>7. OfLast(b, r.token)' /\ OfLast(b, r.set)'
  BY <1>1, <1>2, <1>5
<1> QED
  BY <1>6, <1>7 DEF Document

\* What the pages do to the documents.
LEMMA PagesDocuments ==
  ASSUME TypeInv, Documents, Keeps, NEW h \in Handlers, NEW b \in Browsers, Page(h, b)
  PROVE  Documents'
<1>1. /\ jar \in [Browsers -> Held] /\ lastLogin \in [Browsers -> Known]
      /\ page \in [Browsers -> [at : PageAt, user : Known]]
      /\ requests \in [Handlers -> RequestType]
  BY DEF TypeInv, BrowserTypes
<1>2. b # None
  BY AccountsAssumption DEF None
<1>3. ASSUME NEW at \in {"app", "callback"}, Open(h, b, at)
      PROVE  Documents'
  <2>1. /\ jar' = jar /\ lastLogin' = lastLogin /\ page'[b].at = at
        /\ \A c \in Browsers \ {b} : page'[c] = page[c]
    BY <1>1, <1>3 DEF Open
  <2>2. PICK r : r = Request(b, "me", "load")
    OBVIOUS
  <2>3. requests'[h] = r
    BY <1>3, <2>2 DEF Open
  <2>4. ASSUME NEW g \in Handlers, g # h, requests'[g].browser # None
        PROVE  requests'[g] = requests[g] /\ requests[g].browser # b
    <3>1. CASE requests[g].browser # b
      BY <1>3, <2>4, <3>1 DEF Open
    <3>2. CASE requests[g].browser = b /\ requests[g].at \in Answered
      BY <1>3, <2>4, <3>2 DEF Open, Answered, Idle
    <3>3. CASE requests[g].browser = b /\ requests[g].at \notin Answered
      <4>1. requests'[g] = [requests[g] EXCEPT !.browser = None]
        BY <1>3, <2>4, <3>3 DEF Open, Answered
      <4> QED
        BY <1>1, <2>4, <4>1 DEF RequestType
    <3> QED
      BY <3>1, <3>2, <3>3
  <2>5. ASSUME NEW g \in Handlers, requests'[g].browser # None
        PROVE  Document(requests[g].browser, requests[g])'
    <3>1. PICK q : q = requests'[g]
      OBVIOUS
    <3>2. Document(q.browser, q)'
      <4>1. CASE g = h
        <5>1. q = r /\ q.browser = b /\ q.kind = "me" /\ q.at = "load" /\ q.token = jar[b] /\ q.set = None
          BY <2>2, <2>3, <3>1, <4>1 DEF Request
        <5>2. Document(b, q)'
          BY <2>1, <5>1, FreshDocument DEF Logouts
        <5> QED
          BY <5>1, <5>2
      <4>2. CASE g # h
        <5>1. q = requests[g] /\ q \in RequestType /\ q.browser \in Browsers /\ q.browser # b
          BY <1>1, <2>4, <2>5, <3>1, <4>2 DEF RequestType
        <5>2. Document(q.browser, q)
          BY <2>5, <3>1, <5>1 DEF Documents
        <5> QED
          BY <2>1, <5>1, <5>2, MovedDocument
      <4> QED
        BY <4>1, <4>2
    <3> QED
      BY <3>1, <3>2 DEF Document, Waits, OfLast, Live
  <2>6. ASSUME NEW f \in Handlers, NEW g \in Handlers,
               {requests'[f].kind, requests'[g].kind} \subseteq {"login", "recover"},
               requests'[f].browser = requests'[g].browser, requests'[g].browser # None
        PROVE  f = g
    <3>1. f # h /\ g # h
      BY <2>2, <2>3, <2>6 DEF Request
    <3> QED
      BY <2>4, <2>6, <3>1 DEF Documents
  <2>7. ASSUME NEW c \in Browsers
        PROVE  OfLast(c, jar[c])'
    <3>1. PICK t : t = jar[c]
      OBVIOUS
    <3>2. t \in Held /\ OfLast(c, t)
      BY <1>1, <3>1 DEF Documents
    <3>3. OfLast(c, t)'
      BY <2>1, <3>2, OfLastKept
    <3> QED
      BY <2>1, <3>1, <3>3 DEF OfLast, Live
  <2> QED
    BY <2>5, <2>6, <2>7 DEF Documents
<1>4. ASSUME NEW identity \in VerifiedIdentity, Login(h, b, identity)
      PROVE  Documents'
  <2>1. /\ jar' = jar /\ lastLogin' = lastLogin /\ page[b].at = "callback" /\ page'[b].at = "login"
        /\ \A c \in Browsers \ {b} : page'[c] = page[c]
        /\ now' = now /\ sessions' = sessions
    BY <1>1, <1>4 DEF Login, tables
  <2>2. PICK r : r = [Request(b, "login", "identity") EXCEPT !.as = identity]
    OBVIOUS
  <2>3. /\ r.browser = b /\ r.kind = "login" /\ r.at = "identity" /\ r.token = jar[b]
        /\ r.set = None /\ Send(h, r)
    BY <1>4, <2>2 DEF Request, Login
  <2>4. Document(b, r)'
    BY <2>1, <2>3, FreshDocument DEF Logouts
  <2>5. ASSUME NEW q \in RequestType, q.browser = b, Document(b, q)
        PROVE  Document(b, q)'
    <3>1. Waits(b, q)'
      BY <2>1, <2>5 DEF Document, Waits
    <3>2. q.kind = "me" => OfLast(b, q.token)' /\ OfLast(b, q.set)'
      BY <2>1, <2>5, ReachKept
    <3>3. q.kind # "recover"
      BY <2>1, <2>5 DEF Document, Waits
    <3> QED
      BY <3>1, <3>2, <3>3 DEF Document
  <2> QED
    BY <2>1, <2>3, <2>4, <2>5, SendDocument
<1>5. CASE Recover(h, b)
  <2>1. /\ jar' = jar /\ lastLogin' = lastLogin /\ page[b].at = "recover" /\ page'[b].at = "recovering"
        /\ \A c \in Browsers \ {b} : page'[c] = page[c]
    BY <1>1, <1>5 DEF Recover
  <2>2. PICK r : r = Request(b, "recover", "load")
    OBVIOUS
  <2>3. /\ r.browser = b /\ r.kind = "recover" /\ r.at = "load" /\ r.token = jar[b]
        /\ r.set = None /\ Send(h, r)
    BY <1>5, <2>2 DEF Request, Recover
  <2>4. Document(b, r)'
    BY <2>1, <2>3, FreshDocument DEF Logouts
  <2>5. ASSUME NEW q \in RequestType, q.browser = b, Document(b, q)
        PROVE  Document(b, q)'
    <3>1. q.kind \notin {"login", "recover"} \cup Logouts
      BY <2>1, <2>5 DEF Document, Waits
    <3>2. q.kind = "me" => OfLast(b, q.token)' /\ OfLast(b, q.set)'
      BY <2>1, <2>5, ReachKept
    <3> QED
      BY <2>1, <3>1, <3>2, AwayDocument
  <2> QED
    BY <2>1, <2>3, <2>4, <2>5, SendDocument
<1>6. ASSUME NEW kind \in Logouts, Logout(h, b, kind)
      PROVE  Documents'
  <2>1. jar' = jar /\ lastLogin' = lastLogin /\ page' = page /\ page[b].at = "app"
    BY <1>6 DEF Logout, browser
  <2>2. PICK r : r = Request(b, kind, IF requireCsrf(b) THEN "load" ELSE "refused")
    OBVIOUS
  <2>3. /\ r.browser = b /\ r.kind = kind /\ r.at \in {"load", "refused"} /\ r.token = jar[b]
        /\ r.set = None /\ Send(h, r)
    BY <1>6, <2>2 DEF Request, Logout
  <2>4. r.kind \notin {"login", "recover"}
    BY <2>3 DEF Logouts
  <2>5. Document(b, r)'
    BY <2>1, <2>3, <2>4, FreshDocument
  <2>6. ASSUME NEW q \in RequestType, q.browser = b, Document(b, q)
        PROVE  Document(b, q)'
    BY <2>1, <2>6, MovedDocument
  <2> QED
    BY <2>1, <2>3, <2>4, <2>5, <2>6, SendDocument
<1> QED
  BY <1>3, <1>4, <1>5, <1>6 DEF Page

\* Every step keeps the documents.
LEMMA DocumentsStep ==
  ASSUME TypeInv, PlainUsers, Documents, [Next]_vars
  PROVE  Documents'
<1>1. Keeps
  BY KeepsStep
<1>2. CASE UNCHANGED vars
  BY <1>2 DEF vars, tables, browser, Documents, Document, Waits, OfLast, Live
<1>3. CASE Tick
  <2>1. /\ jar' = jar /\ lastLogin' = lastLogin /\ requests' = requests
        /\ \A h \in Handlers : requests[h] = Idle
    BY <1>3 DEF Tick, browser
  <2>2. ASSUME NEW b \in Browsers
        PROVE  OfLast(b, jar[b])'
    <3>1. PICK t : t = jar[b]
      OBVIOUS
    <3>2. t \in Held /\ OfLast(b, t)
      BY <3>1 DEF Documents, TypeInv, BrowserTypes
    <3>3. OfLast(b, t)'
      BY <1>1, <2>1, <3>2, OfLastKept
    <3> QED
      BY <2>1, <3>1, <3>3 DEF OfLast, Live
  <2> QED
    BY <2>1, <2>2 DEF Documents, Idle
<1>4. ASSUME NEW h \in Handlers, Routes(h)
      PROVE  Documents'
  BY <1>1, <1>4, RoutesDocuments
<1>5. ASSUME NEW h \in Handlers, Deliver(h)
      PROVE  Documents'
  BY <1>1, <1>5, DeliverDocuments
<1>6. ASSUME NEW h \in Handlers, NEW b \in Browsers, Page(h, b)
      PROVE  Documents'
  BY <1>1, <1>6, PagesDocuments
<1> QED
  BY <1>2, <1>3, <1>4, <1>5, <1>6 DEF Next

\* Somebody logs in on a browser another person used: however replies are
\* reordered, a cookie that still opens a session opens one of the last login.
THEOREM JarHoldsLastLoginHolds == Spec => []JarHoldsLastLogin
<1>1. Init => Documents
  BY DEF Init, Documents, Idle, OfLast, Live
<1>2. TypeInv /\ PlainUsers /\ Documents /\ [Next]_vars => Documents'
  BY DocumentsStep
<1>3. Documents => JarHoldsLastLogin
  BY DEF Documents, OfLast, JarHoldsLastLogin
<1> QED
  BY <1>1, <1>2, <1>3, TypesHold, PTL DEF Spec

-----------------------------------------------------------------------------
(* How many sessions *)

LEMMA SomeOfFinite ==
  ASSUME NEW S, IsFiniteSet(S), NEW T, T \subseteq S
  PROVE  /\ IsFiniteSet(T) /\ Cardinality(T) \in Nat /\ Cardinality(S) \in Nat
         /\ Cardinality(T) <= Cardinality(S)
BY FS_Subset, FS_CardinalityType

LEMMA GreatestNatural ==
  ASSUME NEW n \in Nat, NEW T, T \subseteq 1..n, T # {}
  PROVE  \E g \in T : \A m \in T : m <= g
<1> DEFINE D == {n - m : m \in T}
<1>0. \A m \in T : m \in Nat /\ n - m \in Nat
  OBVIOUS
<1>1. D \subseteq Nat /\ D # {}
  BY <1>0
<1>2. PICK d \in D : \A e \in D : d <= e
  <2> HIDE DEF D
  <2> QED  BY <1>1, LeastNatural
<1>3. PICK g \in T : d = n - g
  OBVIOUS
<1>4. \A m \in T : n - g <= n - m
  BY <1>2, <1>3
<1> QED
  BY <1>3, <1>4

\* Those of a set that have fewer than n greater ones in it are n at most.
LEMMA FewOnTop ==
  ASSUME NEW S, IsFiniteSet(S), S \subseteq Nat, NEW n \in Nat,
         NEW K, K = {t \in S : Cardinality({x \in S : x > t}) < n}
  PROVE  IsFiniteSet(K) /\ Cardinality(K) \in Nat /\ Cardinality(K) <= n
<1>1. IsFiniteSet(K) /\ Cardinality(K) \in Nat
  BY SomeOfFinite
<1>2. CASE K = {}
  <2>1. Cardinality(K) = 0
    BY <1>2, FS_EmptySet, Zenon
  <2> QED
    BY <1>1, <2>1
<1>3. CASE K # {}
  <2>1. PICK m \in K : \A k \in K : m <= k
    BY <1>3, LeastNatural
  <2>2. PICK above : above = {x \in S : x > m}
    OBVIOUS
  <2>3. Cardinality(above) < n
    BY <2>1, <2>2
  <2>4. K \ {m} \subseteq above
    <3>1. \A k \in K : k \in S /\ k \in Nat
      OBVIOUS
    <3>2. \A k \in K \ {m} : k > m
      BY <2>1, <3>1
    <3> QED
      BY <2>2, <3>1, <3>2
  <2>5. IsFiniteSet(above) /\ Cardinality(above) \in Nat
    BY <2>2, SomeOfFinite
  <2>6. Cardinality(K \ {m}) <= Cardinality(above) /\ Cardinality(K \ {m}) \in Nat
    BY <2>4, <2>5, SomeOfFinite
  <2>7. Cardinality(K \ {m}) = Cardinality(K) - 1
    BY <1>1, <2>1, FS_RemoveElement
  <2> QED
    BY <1>1, <2>3, <2>5, <2>6, <2>7
<1> QED
  BY <1>1, <1>2, <1>3

\* Those that have fewer than n smaller ones, with themselves, are fewer than n.
LEMMA FewBelow ==
  ASSUME NEW m \in Nat, NEW S, S \subseteq 1..m, NEW n \in Nat \ {0},
         NEW K, K = {t \in S : Cardinality({x \in S : x <= t}) < n}
  PROVE  IsFiniteSet(K) /\ Cardinality(K) \in Nat /\ Cardinality(K) <= n - 1
<1>1. IsFiniteSet(1..m)
  BY FS_Interval, 1 \in Int, m \in Int
<1>2. IsFiniteSet(S)
  BY <1>1, SomeOfFinite
<1>3. IsFiniteSet(K) /\ Cardinality(K) \in Nat
  BY <1>2, SomeOfFinite
<1>4. CASE K = {}
  <2>1. Cardinality(K) = 0
    BY <1>4, FS_EmptySet, Zenon
  <2> QED
    BY <1>3, <2>1
<1>5. CASE K # {}
  <2>1. PICK g \in K : \A k \in K : k <= g
    BY <1>5, GreatestNatural
  <2>2. PICK below : below = {x \in S : x <= g}
    OBVIOUS
  <2>3. Cardinality(below) < n
    BY <2>1, <2>2
  <2>4. K \subseteq below
    BY <2>1, <2>2
  <2>5. IsFiniteSet(below) /\ Cardinality(below) \in Nat
    BY <1>2, <2>2, SomeOfFinite
  <2>6. Cardinality(K) <= Cardinality(below)
    BY <2>4, <2>5, SomeOfFinite
  <2> QED
    BY <1>3, <2>3, <2>5, <2>6
<1> QED
  BY <1>3, <1>4, <1>5

\* The unrevoked sessions of a user are finitely many.
LEMMA Countable ==
  ASSUME SessionTable, NEW u
  PROVE  Unrevoked(u) \subseteq Tokens /\ IsFiniteSet(Unrevoked(u)) /\ Unrevoked(u) \subseteq Nat
<1>1. Unrevoked(u) \subseteq Tokens /\ Unrevoked(u) \subseteq Nat
  BY Rows DEF Unrevoked
<1>2. IsFiniteSet(Tokens)
  BY AccountsAssumption, FS_Interval DEF Tokens
<1> QED
  BY <1>1, <1>2, SomeOfFinite

\* Where every session can be put down to a handler, there are few.
LEMMA PutDownIsFew ==
  ASSUME SessionTable, NEW u, NEW f \in [Tokens -> Handlers], PutDown(u, f)
  PROVE  Cardinality(Unrevoked(u)) <= MAX_ACCOUNT_SESSIONS_PER_USER - 1 + Cardinality(Handlers)
<1> DEFINE U == Unrevoked(u)
           cap == MAX_ACCOUNT_SESSIONS_PER_USER
           Low == {t \in U : Cardinality({x \in U : x <= t}) < cap}
<1>1. U \subseteq Tokens /\ IsFiniteSet(U) /\ Cardinality(U) \in Nat
  BY Countable, SomeOfFinite
<1>2. cap \in Nat \ {0} /\ MaxSessions \in Nat /\ IsFiniteSet(Handlers)
  BY AccountsAssumption
<1>3. \A s, t \in U : s < t /\ f[s] = f[t] => s \in Low
  BY DEF PutDown
<1>4. IsFiniteSet(Low) /\ Cardinality(Low) \in Nat /\ Cardinality(Low) <= cap - 1
  <2> HIDE DEF U, cap
  <2> QED  BY <1>1, <1>2, FewBelow DEF Tokens
<1>5. Low \subseteq U
  OBVIOUS
<1> HIDE DEF U, cap, Low
<1>6. [t \in U \ Low |-> f[t]] \in Injection(U \ Low, Handlers)
  <2>1. ASSUME NEW s \in U \ Low, NEW t \in U \ Low, f[s] = f[t]
        PROVE  s = t
    <3>1. s \in Nat /\ t \in Nat
      BY <1>1 DEF Tokens
    <3>2. ~(s < t) /\ ~(t < s)
      BY <1>3, <2>1
    <3> QED
      BY <3>1, <3>2
  <2>2. \A t \in U \ Low : f[t] \in Handlers
    BY <1>1
  <2> QED
    BY <2>1, <2>2 DEF Injection, IsInjective
<1>7. Cardinality(U \ Low) <= Cardinality(Handlers)
  BY <1>2, <1>6, FS_Injection
<1>8. U \cap Low = Low
  BY <1>5
<1>9. Cardinality(U \ Low) = Cardinality(U) - Cardinality(Low)
  <2>1. Cardinality(U \ Low) = Cardinality(U) - Cardinality(U \cap Low)
    BY <1>1, FS_Difference
  <2> QED
    BY <1>8, <2>1
<1>10. Cardinality(Handlers) \in Nat
  BY <1>2, FS_CardinalityType
<1>11. Cardinality(U) <= cap - 1 + Cardinality(Handlers)
  BY <1>1, <1>2, <1>4, <1>7, <1>9, <1>10
<1> QED
  BY <1>11 DEF U, cap

\* A handler about to insert was so before, with the rows it had read.
StillInserting(h) ==
  requests'[h].at = "insert" =>
    requests[h].at = "insert" /\ requests'[h].user = requests[h].user
    /\ requests'[h].rows = requests[h].rows

\* With no new session, and nobody new about to insert one, what was put down
\* to a handler still is.
LEMMA PutDownKept ==
  ASSUME SessionTable, NEW u, NEW f, PutDown(u, f),
         Unrevoked(u)' \subseteq Unrevoked(u),
         \A h \in Handlers : StillInserting(h)
  PROVE  PutDown(u, f)'
<1>1. PICK U : U = Unrevoked(u)
  OBVIOUS
<1>2. PICK V : V = Unrevoked(u)'
  OBVIOUS
<1>3. V \subseteq U /\ IsFiniteSet(U)
  BY <1>1, <1>2, Countable
<1>4. ASSUME NEW s \in V, NEW t \in V, s < t, f[s] = f[t]
      PROVE  Cardinality({x \in V : x <= s}) < MAX_ACCOUNT_SESSIONS_PER_USER
  <2>1. PICK few : few = {x \in U : x <= s}
    OBVIOUS
  <2>2. PICK fewer : fewer = {x \in V : x <= s}
    OBVIOUS
  <2>3. Cardinality(few) < MAX_ACCOUNT_SESSIONS_PER_USER
    BY <1>1, <1>3, <1>4, <2>1 DEF PutDown
  <2>4. IsFiniteSet(few) /\ Cardinality(few) \in Nat
    BY <1>3, <2>1, SomeOfFinite
  <2>5. Cardinality(fewer) <= Cardinality(few) /\ Cardinality(fewer) \in Nat
    BY <1>3, <2>1, <2>2, <2>4, SomeOfFinite
  <2>6. Cardinality(fewer) < MAX_ACCOUNT_SESSIONS_PER_USER
    BY <2>3, <2>4, <2>5, AccountsAssumption
  <2> QED
    BY <2>2, <2>6
<1>5. ASSUME NEW h \in Handlers, requests'[h].at = "insert", requests'[h].user = u, NEW t \in V
      PROVE  /\ f[t] = h => t \in requests'[h].rows
             /\ t \notin requests'[h].rows => \A x \in requests'[h].rows : x < t
  <2>1. /\ requests[h].at = "insert" /\ requests[h].user = u /\ requests'[h].rows = requests[h].rows
        /\ t \in U
    BY <1>3, <1>5 DEF StillInserting
  <2> QED
    BY <1>1, <2>1 DEF PutDown
<1> QED
  BY <1>2, <1>4, <1>5 DEF PutDown

\* Without a new row, no more sessions are open than were.
LEMMA CountSame ==
  ASSUME SessionsKeep, DOMAIN sessions' = DOMAIN sessions, NEW u
  PROVE  Unrevoked(u)' \subseteq Unrevoked(u)
BY DEF SessionsKeep, Unrevoked

\* A handler about to insert has seen the sessions there were.
LEMMA SelectPutDown ==
  ASSUME TypeInv, NEW h \in Handlers, SelectSessions(h), NEW u, NEW f, PutDown(u, f)
  PROVE  PutDown(u, f)'
<1>1. PICK U : U = Unrevoked(u)
  OBVIOUS
<1>2. Unrevoked(u)' = U
  BY <1>1 DEF SelectSessions, tables, Unrevoked
<1>3. requests \in [Handlers -> RequestType]
  BY DEF TypeInv
<1>4. requests[h].user = u => requests'[h].rows = U
  BY <1>1, <1>3 DEF SelectSessions, RequestType
<1>5. \A g \in Handlers \ {h} : requests'[g] = requests[g]
  BY <1>3 DEF SelectSessions
<1>6. requests'[h].user = requests[h].user
  BY <1>3 DEF SelectSessions, RequestType
<1>7. ASSUME NEW g \in Handlers, requests'[g].at = "insert", requests'[g].user = u, NEW t \in U
      PROVE  /\ f[t] = g => t \in requests'[g].rows
             /\ t \notin requests'[g].rows => \A x \in requests'[g].rows : x < t
  BY <1>1, <1>4, <1>5, <1>6, <1>7 DEF PutDown
<1>8. \A s, t \in U : s < t /\ f[s] = f[t] =>
        Cardinality({x \in U : x <= s}) < MAX_ACCOUNT_SESSIONS_PER_USER
  BY <1>1 DEF PutDown
<1> QED
  BY <1>2, <1>7, <1>8 DEF PutDown

\* A new session is put down to the handler that made it: of those put down to
\* it before, the ones it left are among the fewer than the cap it had seen.
LEMMA InsertPutDown ==
  ASSUME TypeInv, Keeps, NEW h \in Handlers, createAccountSession(h),
         NEW u, u = requests[h].user, NEW f \in [Tokens -> Handlers], PutDown(u, f)
  PROVE  \E g \in [Tokens -> Handlers] : PutDown(u, g)'
<1> DEFINE cap == MAX_ACCOUNT_SESSIONS_PER_USER
<1>1. PICK r : r = requests[h]
  OBVIOUS
<1>2. PICK U : U = Unrevoked(u)
  OBVIOUS
<1>3. PICK seen : seen = {s \in r.rows : ~sessions[s].revoked}
  OBVIOUS
<1>4. PICK old : old = Excess(seen)
  OBVIOUS
<1>5. PICK t0 : t0 = Cardinality(DOMAIN sessions) + 1
  OBVIOUS
<1>6. /\ r \in RequestType /\ HandlerAt(r) /\ r.at = "insert" /\ t0 \in Tokens /\ now' = now
      /\ sessions' = Put(Revoke(old), t0, [user |-> r.user, expiresAt |-> now + IWA_SESSION_TTL_MS,
                                           revoked |-> FALSE])
      /\ Reply(h, "ok", t0, r.user) /\ requests \in [Handlers -> RequestType]
  BY <1>1, <1>3, <1>4, <1>5 DEF createAccountSession, TypeInv, RequestsOK
<1>7. r.user \in DOMAIN users
  BY <1>6 DEF HandlerAt, RequestType, Known
<1>8. /\ t0 \notin DOMAIN sessions /\ DOMAIN sessions' = DOMAIN sessions \cup {t0}
      /\ sessions'[t0].user = r.user /\ ~sessions'[t0].revoked
      /\ \A s \in DOMAIN sessions :
           /\ s < t0 /\ sessions'[s].user = sessions[s].user
           /\ sessions'[s].revoked <=> s \in old \/ sessions[s].revoked
  <2>1. /\ SessionTable /\ now \in Nat /\ DOMAIN users \subseteq UserIds
        /\ DOMAIN users \subseteq DOMAIN users'
    BY DEF TypeInv, UserTables, createAccountSession
  <2>2. PICK v : v = r.user
    OBVIOUS
  <2> QED
    <3>1. Inserted(old, t0, v)
      BY <1>5, <1>6, <1>7, <2>2 DEF Inserted
    <3>2. /\ t0 \notin DOMAIN sessions /\ DOMAIN sessions' = DOMAIN sessions \cup {t0}
          /\ sessions'[t0].user = v /\ ~sessions'[t0].revoked
          /\ \A s \in DOMAIN sessions :
               /\ s < t0 /\ sessions'[s].user = sessions[s].user
               /\ sessions'[s].revoked <=> s \in old \/ sessions[s].revoked
      <4>1. t0 \notin DOMAIN sessions /\ DOMAIN sessions' = DOMAIN sessions \cup {t0}
        BY <1>6, <2>1, <3>1, InsertKeeps
      <4>2. sessions'[t0].user = v
        BY <1>6, <2>1, <3>1, InsertKeeps
      <4>3. ~sessions'[t0].revoked
        BY <1>6, <2>1, <3>1, InsertKeeps
      <4>4. ASSUME NEW s \in DOMAIN sessions
            PROVE  s < t0 /\ sessions'[s].user = sessions[s].user
        BY <1>6, <2>1, <3>1, InsertKeeps
      <4>5. ASSUME NEW s \in DOMAIN sessions
            PROVE  sessions'[s].revoked <=> s \in old \/ sessions[s].revoked
        BY <1>6, <2>1, <3>1, InsertKeeps
      <4> QED
        BY <4>1, <4>2, <4>3, <4>4, <4>5
    <3> QED
      BY <2>2, <3>2
<1>9. U \subseteq Tokens /\ IsFiniteSet(U) /\ U \subseteq Nat /\ U \subseteq DOMAIN sessions
  BY <1>2, Countable DEF TypeInv, Unrevoked
<1>10. seen = r.rows \cap U
  <2>1. \A s \in r.rows : s \in DOMAIN sessions /\ sessions[s].user = u
    BY <1>1, <1>6 DEF HandlerAt, RequestType
  <2> QED
    BY <1>2, <1>3, <2>1 DEF Unrevoked
<1>11. old \subseteq seen
  BY <1>4 DEF Excess
<1>12. PICK V : V = (U \ old) \cup {t0}
  OBVIOUS
<1>13. Unrevoked(u)' = V
  BY <1>1, <1>2, <1>8, <1>12 DEF Unrevoked
<1>14. PICK g : g = [f EXCEPT ![t0] = h]
  OBVIOUS
<1>15. /\ g \in [Tokens -> Handlers] /\ g[t0] = h /\ \A s \in U : g[s] = f[s] /\ s # t0 /\ s < t0
  BY <1>6, <1>8, <1>9, <1>14
<1>16. PICK kept : kept = {t \in seen : Cardinality({x \in seen : x > t}) < cap - 1}
  OBVIOUS
<1>17. cap \in Nat \ {0} /\ cap - 1 \in Nat
  BY AccountsAssumption
<1>18. IsFiniteSet(seen) /\ seen \subseteq Nat
  BY <1>9, <1>10, SomeOfFinite
<1>19. IsFiniteSet(kept) /\ Cardinality(kept) \in Nat /\ Cardinality(kept) <= cap - 1
  <2>1. PICK n : n = cap - 1
    OBVIOUS
  <2>2. n \in Nat /\ kept = {t \in seen : Cardinality({x \in seen : x > t}) < n}
    BY <1>16, <1>17, <2>1
  <2>3. IsFiniteSet(kept) /\ Cardinality(kept) \in Nat /\ Cardinality(kept) <= n
    BY <1>18, <2>2, FewOnTop
  <2> QED
    BY <2>1, <2>3
<1>20. seen \ old \subseteq kept
  <2>1. ASSUME NEW t \in seen, t \notin old
        PROVE  Cardinality({x \in seen : x > t}) < cap - 1
    <3>1. PICK above : above = {x \in seen : x > t}
      OBVIOUS
    <3>2. ~(Cardinality(above) >= cap - 1)
      BY <1>4, <2>1, <3>1 DEF Excess
    <3>3. Cardinality(above) \in Nat
      BY <1>18, <3>1, SomeOfFinite
    <3>4. Cardinality(above) < cap - 1
      BY <1>17, <3>2, <3>3
    <3> QED
      BY <3>1, <3>4
  <2> QED
    BY <1>16, <2>1
<1>21. ASSUME NEW s \in V, NEW t \in V, s < t, g[s] = g[t]
       PROVE  Cardinality({x \in V : x <= s}) < cap
  <2>1. s \in U \ old /\ s \in Nat
    BY <1>9, <1>12, <1>15, <1>21
  <2>2. PICK fewer : fewer = {x \in V : x <= s}
    OBVIOUS
  <2>3. t0 \notin fewer
    <3>1. s < t0 /\ t0 \in Nat
      BY <1>6, <1>15, <2>1 DEF Tokens
    <3> QED
      BY <2>1, <2>2, <3>1
  <2>4. fewer \subseteq U \ old /\ \A x \in fewer : x <= s
    BY <1>12, <2>2, <2>3
  <2>5. CASE t # t0
    <3>1. t \in U /\ f[s] = f[t]
      BY <1>12, <1>15, <1>21, <2>1, <2>5
    <3>2. PICK few : few = {x \in U : x <= s}
      OBVIOUS
    <3>3. Cardinality(few) < cap
      BY <1>2, <1>21, <2>1, <3>1, <3>2 DEF PutDown
    <3>4. IsFiniteSet(few) /\ Cardinality(few) \in Nat
      BY <1>9, <3>2, SomeOfFinite
    <3>5. fewer \subseteq few
      BY <2>4, <3>2
    <3>6. Cardinality(fewer) <= Cardinality(few) /\ Cardinality(fewer) \in Nat
      BY <3>4, <3>5, SomeOfFinite
    <3>7. Cardinality(fewer) < cap
      BY <1>17, <3>3, <3>4, <3>6
    <3> QED
      BY <2>2, <3>7
  <2>6. CASE t = t0
    <3>1. f[s] = h
      BY <1>15, <1>21, <2>1, <2>6
    <3>2. s \in r.rows
      BY <1>1, <1>2, <1>6, <2>1, <3>1 DEF PutDown
    <3>3. ASSUME NEW x \in fewer
          PROVE  x \in seen \ old
      <4>1. x \in U /\ x \notin old /\ x <= s /\ x \in Nat
        BY <1>9, <2>4
      <4>2. x \notin r.rows => s < x
        BY <1>1, <1>2, <1>6, <3>2, <4>1 DEF PutDown
      <4> QED
        BY <1>10, <2>1, <4>1, <4>2
    <3>4. fewer \subseteq kept
      BY <1>20, <3>3
    <3>5. Cardinality(fewer) <= Cardinality(kept) /\ Cardinality(fewer) \in Nat
      BY <1>19, <3>4, SomeOfFinite
    <3>6. Cardinality(fewer) < cap
      BY <1>17, <1>19, <3>5
    <3> QED
      BY <2>2, <3>6
  <2> QED
    BY <2>5, <2>6
<1>22. requests'[h].at # "insert" /\ \A i \in Handlers \ {h} : requests'[i] = requests[i]
  BY <1>6 DEF Reply, Answer, Idle
<1>23. ASSUME NEW i \in Handlers, requests'[i].at = "insert", requests'[i].user = u, NEW t \in V
       PROVE  /\ g[t] = i => t \in requests'[i].rows
              /\ t \notin requests'[i].rows => \A x \in requests'[i].rows : x < t
  <2>1. i # h /\ requests'[i] = requests[i] /\ requests[i] \in RequestType
    BY <1>6, <1>22, <1>23
  <2>2. CASE t = t0
    BY <1>8, <1>15, <2>1, <2>2 DEF RequestType
  <2>3. CASE t # t0
    BY <1>2, <1>12, <1>15, <1>23, <2>1, <2>3 DEF PutDown
  <2> QED
    BY <2>2, <2>3
<1>24. PutDown(u, g)'
  <2>1. \A s, t \in V : s < t /\ g[s] = g[t] =>
          Cardinality({x \in V : x <= s}) < MAX_ACCOUNT_SESSIONS_PER_USER
    BY <1>21
  <2> QED
    BY <1>13, <1>23, <2>1 DEF PutDown
<1> QED
  BY <1>15, <1>24

\* The other users' sessions are not touched by it.
LEMMA OthersPutDown ==
  ASSUME TypeInv, Keeps, NEW h \in Handlers, createAccountSession(h),
         NEW u, u # requests[h].user
  PROVE  Unrevoked(u)' \subseteq Unrevoked(u)
<1>1. PICK r : r = requests[h]
  OBVIOUS
<1>2. PICK old : old = Excess({s \in r.rows : ~sessions[s].revoked})
  OBVIOUS
<1>3. PICK t0 : t0 = Cardinality(DOMAIN sessions) + 1
  OBVIOUS
<1>4. /\ r \in RequestType /\ HandlerAt(r) /\ r.at = "insert" /\ t0 \in Tokens /\ now' = now
      /\ sessions' = Put(Revoke(old), t0, [user |-> r.user, expiresAt |-> now + IWA_SESSION_TTL_MS,
                                           revoked |-> FALSE])
  BY <1>1, <1>2, <1>3 DEF createAccountSession, TypeInv, RequestsOK
<1>5. r.user \in DOMAIN users
  BY <1>4 DEF HandlerAt, RequestType, Known
<1>6. /\ DOMAIN sessions' = DOMAIN sessions \cup {t0} /\ sessions'[t0].user = r.user
      /\ \A s \in DOMAIN sessions :
           /\ sessions'[s].user = sessions[s].user
           /\ sessions[s].revoked => sessions'[s].revoked
  <2>1. /\ SessionTable /\ now \in Nat /\ DOMAIN users \subseteq UserIds
        /\ DOMAIN users \subseteq DOMAIN users'
    BY DEF TypeInv, UserTables, createAccountSession
  <2>2. PICK v : v = r.user
    OBVIOUS
  <2> QED
    <3>1. Inserted(old, t0, v)
      BY <1>3, <1>4, <1>5, <2>2 DEF Inserted
    <3>2. /\ t0 \notin DOMAIN sessions /\ DOMAIN sessions' = DOMAIN sessions \cup {t0}
          /\ sessions'[t0].user = v /\ ~sessions'[t0].revoked
          /\ \A s \in DOMAIN sessions :
               /\ s < t0 /\ sessions'[s].user = sessions[s].user
               /\ sessions'[s].revoked <=> s \in old \/ sessions[s].revoked
      <4>1. t0 \notin DOMAIN sessions /\ DOMAIN sessions' = DOMAIN sessions \cup {t0}
        BY <1>4, <2>1, <3>1, InsertKeeps
      <4>2. sessions'[t0].user = v
        BY <1>4, <2>1, <3>1, InsertKeeps
      <4>3. ~sessions'[t0].revoked
        BY <1>4, <2>1, <3>1, InsertKeeps
      <4>4. ASSUME NEW s \in DOMAIN sessions
            PROVE  s < t0 /\ sessions'[s].user = sessions[s].user
        BY <1>4, <2>1, <3>1, InsertKeeps
      <4>5. ASSUME NEW s \in DOMAIN sessions
            PROVE  sessions'[s].revoked <=> s \in old \/ sessions[s].revoked
        BY <1>4, <2>1, <3>1, InsertKeeps
      <4> QED
        BY <4>1, <4>2, <4>3, <4>4, <4>5
    <3> QED
      BY <2>2, <3>2
<1> QED
  BY <1>1, <1>6 DEF Unrevoked

\* Every step that does not insert: the sessions get no more, and nobody is
\* new at the insert but one that has just read them.
LEMMA NoInsert ==
  ASSUME TypeInv, Keeps, [Next]_vars, ~(\E h \in Handlers : createAccountSession(h)),
         ~(\E h \in Handlers : SelectSessions(h)), NEW u, NEW f, PutDown(u, f)
  PROVE  PutDown(u, f)'
<1>1. requests \in [Handlers -> RequestType] /\ SessionTable
  BY DEF TypeInv
<1>2. SUFFICES /\ DOMAIN sessions' = DOMAIN sessions
               /\ \A g \in Handlers : StillInserting(g)
  BY <1>1, CountSame, PutDownKept DEF Keeps
<1>3. ASSUME NEW h \in Handlers, NEW r, requests' = [requests EXCEPT ![h] = r], r.at # "insert"
      PROVE  \A g \in Handlers : StillInserting(g)
  BY <1>1, <1>3 DEF StillInserting
<1>4. ASSUME NEW h \in Handlers, NEW status, NEW token, NEW user, Reply(h, status, token, user),
             status # "insert"
      PROVE  \A g \in Handlers : StillInserting(g)
  BY <1>1, <1>4 DEF Reply, Answer, Idle, StillInserting
<1>5. ASSUME NEW h \in Handlers, Fail(h)
      PROVE  \A g \in Handlers : StillInserting(g)
  BY <1>4, <1>5 DEF Fail
<1>6. ASSUME NEW h \in Handlers, NEW at, Goto(h, at), at # "insert"
      PROVE  \A g \in Handlers : StillInserting(g)
  BY <1>1, <1>6 DEF Goto, RequestType, StillInserting
<1>7. ASSUME NEW h \in Handlers, NEW u1, Identified(h, u1)
      PROVE  \A g \in Handlers : StillInserting(g)
  BY <1>1, <1>7 DEF Identified, RequestType, StillInserting
<1>8. CASE UNCHANGED vars
  BY <1>8 DEF vars, tables, StillInserting
<1>9. CASE Tick
  BY <1>9 DEF Tick, tables, StillInserting
<1>10. ASSUME NEW h \in Handlers, Routes(h)
       PROVE  /\ DOMAIN sessions' = DOMAIN sessions
              /\ \A g \in Handlers : StillInserting(g)
  <2>1. CASE KnownIdentity(h) \/ LinkOrInsert(h)
    BY <1>5, <1>7, <2>1 DEF KnownIdentity, LinkOrInsert
  <2>2. CASE NewIdentity(h)
    BY <1>6, <2>2 DEF NewIdentity, tables
  <2>3. CASE LoadSession(h)
    <3>1. PICK kind : kind = requests[h].kind
      OBVIOUS
    <3>2. kind \in {"idle", "me", "recover", "login"} \cup Logouts /\ kind # "idle"
      BY <1>1, <2>3, <3>1 DEF RequestType, LoadSession, TypeInv, RequestsOK, HandlerAt
    <3>3. Goto(h, "loaded") \/ Goto(h, "sessions") \/ Fail(h) \/ Reply(h, "ok", None, None)
      BY <2>3, <3>1, <3>2 DEF LoadSession, Logouts
    <3>4. sessions' = sessions
      BY <2>3 DEF LoadSession, tables
    <3> QED
      BY <1>4, <1>5, <1>6, <3>3, <3>4
  <2>4. CASE ReplaceExisting(h)
    BY <1>6, <2>4 DEF ReplaceExisting, Revoke
  <2>5. CASE Me(h)
    BY <1>4, <2>5 DEF Me, touchAccountSession
  <2>6. CASE RevokeSessions(h)
    BY <1>4, <2>6 DEF RevokeSessions, Revoke
  <2>7. CASE Error(h)
    BY <1>5, <2>7 DEF Error, tables
  <2> QED
    BY <1>10, <2>1, <2>2, <2>3, <2>4, <2>5, <2>6, <2>7 DEF Routes
<1>11. ASSUME NEW h \in Handlers, Deliver(h)
       PROVE  /\ DOMAIN sessions' = DOMAIN sessions
              /\ \A g \in Handlers : StillInserting(g)
  <2>1. PICK r : r = Idle
    OBVIOUS
  <2>2. requests' = [requests EXCEPT ![h] = r] /\ r.at # "insert" /\ sessions' = sessions
    BY <1>11, <2>1 DEF Deliver, Idle, tables
  <2> QED
    BY <1>3, <2>2
<1>12. ASSUME NEW h \in Handlers, NEW b \in Browsers, Page(h, b)
       PROVE  /\ DOMAIN sessions' = DOMAIN sessions
              /\ \A g \in Handlers : StillInserting(g)
  <2>1. ASSUME NEW at \in {"app", "callback"}, Open(h, b, at)
        PROVE  /\ DOMAIN sessions' = DOMAIN sessions
               /\ \A g \in Handlers : StillInserting(g)
    <3>1. ASSUME NEW g \in Handlers, requests'[g].at = "insert"
          PROVE  StillInserting(g)
      <4>1. \/ requests'[g] = requests[g]
            \/ requests'[g] = [requests[g] EXCEPT !.browser = None]
        BY <2>1, <3>1 DEF Open, Request, Idle
      <4> QED
        BY <1>1, <3>1, <4>1 DEF StillInserting, RequestType
    <3> QED
      BY <2>1, <3>1 DEF Open, StillInserting, tables
  <2>2. ASSUME NEW identity \in VerifiedIdentity, Login(h, b, identity)
        PROVE  /\ DOMAIN sessions' = DOMAIN sessions
               /\ \A g \in Handlers : StillInserting(g)
    <3>1. PICK r : r = [Request(b, "login", "identity") EXCEPT !.as = identity]
      OBVIOUS
    <3>2. requests' = [requests EXCEPT ![h] = r] /\ r.at # "insert" /\ sessions' = sessions
      BY <2>2, <3>1 DEF Login, Send, Request, tables
    <3> QED
      BY <1>3, <3>2
  <2>3. CASE Recover(h, b)
    <3>1. PICK r : r = Request(b, "recover", "load")
      OBVIOUS
    <3>2. requests' = [requests EXCEPT ![h] = r] /\ r.at # "insert" /\ sessions' = sessions
      BY <2>3, <3>1 DEF Recover, Send, Request, tables
    <3> QED
      BY <1>3, <3>2
  <2>4. ASSUME NEW kind \in Logouts, Logout(h, b, kind)
        PROVE  /\ DOMAIN sessions' = DOMAIN sessions
               /\ \A g \in Handlers : StillInserting(g)
    <3>1. PICK r : r = Request(b, kind, IF requireCsrf(b) THEN "load" ELSE "refused")
      OBVIOUS
    <3>2. requests' = [requests EXCEPT ![h] = r] /\ r.at # "insert" /\ sessions' = sessions
      BY <2>4, <3>1 DEF Logout, Send, Request, tables
    <3> QED
      BY <1>3, <3>2
  <2> QED
    BY <1>12, <2>1, <2>2, <2>3, <2>4 DEF Page
<1> QED
  BY <1>8, <1>9, <1>10, <1>11, <1>12 DEF Next

\* Every step keeps the sessions put down to handlers.
LEMMA AttributedStep ==
  ASSUME TypeInv, PlainUsers, Attributed, [Next]_vars
  PROVE  Attributed'
<1>1. Keeps /\ SessionTable
  BY KeepsStep DEF TypeInv
<1>2. ASSUME NEW u \in UserIds
      PROVE  \E g \in [Tokens -> Handlers] : PutDown(u, g)'
  <2>1. PICK f \in [Tokens -> Handlers] : PutDown(u, f)
    BY DEF Attributed
  <2>2. CASE \E h \in Handlers : SelectSessions(h)
    <3>1. PutDown(u, f)'
      BY <2>1, <2>2, SelectPutDown
    <3> QED
      BY <3>1
  <2>3. ASSUME NEW h \in Handlers, createAccountSession(h)
        PROVE  \E g \in [Tokens -> Handlers] : PutDown(u, g)'
    <3>1. CASE u = requests[h].user
      BY <1>1, <2>1, <2>3, <3>1, InsertPutDown
    <3>2. CASE u # requests[h].user
      <4>1. Unrevoked(u)' \subseteq Unrevoked(u)
        BY <1>1, <2>3, <3>2, OthersPutDown
      <4>2. \A g \in Handlers : StillInserting(g)
        BY <2>3 DEF createAccountSession, Reply, Answer, Idle, StillInserting, TypeInv
      <4>3. PutDown(u, f)'
        BY <1>1, <2>1, <4>1, <4>2, PutDownKept
      <4> QED
        BY <4>3
    <3> QED
      BY <3>1, <3>2
  <2>4. CASE /\ ~(\E h \in Handlers : createAccountSession(h))
             /\ ~(\E h \in Handlers : SelectSessions(h))
    <3>1. PutDown(u, f)'
      BY <1>1, <2>1, <2>4, NoInsert
    <3> QED
      BY <3>1
  <2> QED
    BY <2>2, <2>3, <2>4
<1> QED
  BY <1>2 DEF Attributed

\* "Several devices are normal. Unbounded is not" (iwaAccount.ts:21): the cap
\* on the sessions of a user is exceeded by simultaneous logins only, and by
\* no more than there are of them.
THEOREM SessionsBoundedHolds == Spec => []SessionsBounded
<1>1. Init => Attributed
  <2> SUFFICES ASSUME Init, NEW u \in UserIds PROVE \E f \in [Tokens -> Handlers] : PutDown(u, f)
    BY DEF Attributed
  <2>1. PICK h \in Handlers : TRUE
    BY AccountsAssumption
  <2>2. Unrevoked(u) = {}
    BY DEF Init, Unrevoked
  <2>3. PutDown(u, [t \in Tokens |-> h])
    BY <2>2 DEF PutDown
  <2> QED
    BY <2>3
<1>2. TypeInv /\ PlainUsers /\ Attributed /\ [Next]_vars => Attributed'
  BY AttributedStep
<1>3. TypeInv /\ Attributed => SessionsBounded
  BY PutDownIsFew DEF TypeInv, Attributed, SessionsBounded
<1> QED
  BY <1>1, <1>2, <1>3, TypesHold, PTL DEF Spec

=============================================================================
