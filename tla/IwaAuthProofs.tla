---------------------------- MODULE IwaAuthProofs ----------------------------
(***************************************************************************)
(* Challenges, signatures and sessions, for any wallets, calls, clocks,    *)
(* caps and numbers of requests at a time: a signature is used once, for   *)
(* what it signed; a session goes back to one, and is evicted only by its  *)
(* own wallet; and whoever may have a session gets it.                     *)
(***************************************************************************)
EXTENDS IwaAuth, SumTheorems

-----------------------------------------------------------------------------
(* Sequences of at most one operation, and stores *)

LEMMA RecordIsNotEmpty ==
  ASSUME NEW a, NEW b
  PROVE  [address |-> a, action |-> b] # << >>
<1>1. DOMAIN [address |-> a, action |-> b] = {"address", "action"}
  OBVIOUS
<1>2. DOMAIN << >> = {}
  OBVIOUS
<1>3. QED
  BY <1>1, <1>2

LEMMA FirstGrant ==
  ASSUME NEW x
  PROVE  /\ Append(<< >>, x) = <<x>> /\ <<x>> # << >>
         /\ Len(<<x>>) = 1 /\ DOMAIN <<x>> = {1} /\ <<x>>[1] = x
OBVIOUS

\* Making a session keeps, of the others, at most the live ones, as they are.
LEMMA CreateKeeps ==
  ASSUME NEW token, NEW address, NEW t \in DOMAIN create(token, address)
  PROVE  \/ t = token /\ create(token, address)[t].address = address
         \/ t \in DOMAIN items /\ create(token, address)[t] = items[t]
<1> DEFINE kept == trimFor(sweep, address)
<1>1. DOMAIN kept \subseteq DOMAIN items /\ \A u \in DOMAIN kept : kept[u] = items[u]
  BY DEF trimFor, sweep, Without, Restrict
<1> HIDE DEF kept
<1> DEFINE made == Put(kept, token, [address |-> address, createdAt |-> now, lastUsedAt |-> now,
                                     expiresAt |-> now + SESSION_ABSOLUTE_MS])
<1>2. create(token, address) = kept \/ create(token, address) = made
  BY DEF create, kept
<1>3. DOMAIN made = DOMAIN kept \cup {token}
  BY DEF Put
<1>4. \A u \in DOMAIN made : IF u = token THEN made[u].address = address ELSE made[u] = kept[u]
  BY DEF Put
<1> HIDE DEF made
<1>5. CASE create(token, address) = kept
  BY <1>5, <1>1
<1>6. CASE create(token, address) = made
  BY <1>6, <1>1, <1>3, <1>4
<1>7. QED
  BY <1>2, <1>5, <1>6

-----------------------------------------------------------------------------
(* The invariant *)

\* What the model's functions are functions of.
Domains ==
  /\ DOMAIN challenges \subseteq Nonces
  /\ DOMAIN signed = Nonces /\ DOMAIN granted = Nonces
  /\ DOMAIN requests = Handlers /\ signed = [n \in Nonces |-> signed[n]]
  /\ requests = [h \in Handlers |-> requests[h]] /\ granted = [n \in Nonces |-> granted[n]]

\* A challenge that is outstanding has been signed for and not used.
ChallengesFresh ==
  \A n \in DOMAIN challenges : signed[n] # NotSigned /\ granted[n] = << >>

\* Nor has one that a request has consumed, and no other request has it.
RequestFresh(h) ==
  requests[h] # Idle =>
    /\ requests[h].nonce \in Nonces \ DOMAIN challenges
    /\ signed[requests[h].nonce] # NotSigned /\ granted[requests[h].nonce] = << >>

RequestsApart ==
  \A g, h \in Handlers :
    requests[g] # Idle /\ requests[h] # Idle /\ requests[g].nonce = requests[h].nonce => g = h

\* What was done on the strength of a nonce is what its wallet signed.
Granted(n) ==
  granted[n] # << >> =>
    /\ signed[n] # NotSigned /\ granted[n] = <<signed[n]>>
    /\ signed[n].action = "admin:read" => signed[n].address \in Operators
    /\ signed[n].action = "draft:reorder" => signed[n].address = DraftOrganizer

SessionGranted(t) ==
  t \in Nonces /\ granted[t] = <<[address |-> items[t].address, action |-> "session:create"]>>

AuthInv ==
  /\ Domains
  /\ ChallengesFresh
  /\ \A h \in Handlers : RequestFresh(h)
  /\ RequestsApart
  /\ \A n \in Nonces : Granted(n)
  /\ \A t \in DOMAIN items : SessionGranted(t)

LEMMA AuthInit == Init => AuthInv
BY DEF Init, AuthInv, Domains, ChallengesFresh, RequestFresh, RequestsApart, Granted, Idle, Nonces

-----------------------------------------------------------------------------
(* Steps *)

\* A wallet signs a nonce nobody has signed.
LEMMA SignedKeeps ==
  ASSUME AuthInv, NEW address, NEW call, signedHeaders(address, call)
  PROVE  AuthInv'
<1>1. PICK n \in Nonces : /\ issue(n, address)
                          /\ signed' = [signed EXCEPT ![n] = authorizationTypedData(address, call)]
                          /\ UNCHANGED <<now, items, requests, granted>>
  BY DEF signedHeaders
<1>2. signed[n] = NotSigned /\ n \notin DOMAIN challenges /\ granted[n] = << >>
  BY <1>1 DEF issue, AuthInv, ChallengesFresh, Granted
<1>3. signed'[n] # NotSigned /\ \A m \in Nonces \ {n} : signed'[m] = signed[m]
  BY <1>1, RecordIsNotEmpty DEF authorizationTypedData, NotSigned, AuthInv, Domains
<1>4. DOMAIN challenges' \subseteq DOMAIN challenges \cup {n}
  BY <1>1 DEF issue, Put, sweepChallenges, Restrict
<1>5. Domains'
  BY <1>1, <1>4 DEF AuthInv, Domains
<1>6. ChallengesFresh'
  BY <1>1, <1>2, <1>3, <1>4 DEF AuthInv, ChallengesFresh, Domains
<1>7. ASSUME NEW h \in Handlers PROVE RequestFresh(h)'
  BY <1>1, <1>2, <1>3, <1>4 DEF AuthInv, RequestFresh
<1>8. RequestsApart'
  BY <1>1 DEF AuthInv, RequestsApart
<1>9. ASSUME NEW m \in Nonces PROVE Granted(m)'
  BY <1>1, <1>2, <1>3 DEF AuthInv, Granted
<1>10. ASSUME NEW t \in DOMAIN items' PROVE SessionGranted(t)'
  BY <1>1 DEF AuthInv, SessionGranted
<1>11. QED
  BY <1>5, <1>6, <1>7, <1>8, <1>9, <1>10 DEF AuthInv

\* A request takes a challenge out, good or not; no other request has it.
LEMMA AuthenticateKeeps ==
  ASSUME AuthInv, NEW h \in Handlers, NEW n \in Nonces, NEW address, NEW action,
         authenticate(h, n, address, action)
  PROVE  AuthInv'
<1>1. /\ n \in DOMAIN challenges /\ requests[h] = Idle
      /\ UNCHANGED <<now, signed, items, granted>>
  BY DEF authenticate
<1>2. DOMAIN challenges' = DOMAIN challenges \ {n}
  BY DEF authenticate, consume, Without, Restrict
<1>3. signed[n] # NotSigned /\ granted[n] = << >>
  BY <1>1 DEF AuthInv, ChallengesFresh
<1>4. \A g \in Handlers : requests[g] # Idle => requests[g].nonce # n
  BY <1>1 DEF AuthInv, RequestFresh
<1>5. \/ requests' = requests
      \/ requests' = [requests EXCEPT ![h] = [nonce |-> n, address |-> address, action |-> action]]
  BY DEF authenticate
<1>6. /\ \A g \in Handlers \ {h} : requests'[g] = requests[g]
      /\ requests'[h] # Idle => requests'[h].nonce = n
  BY <1>1, <1>5 DEF AuthInv, Domains
<1>7. Domains'
  BY <1>1, <1>2, <1>5 DEF AuthInv, Domains
<1>8. ChallengesFresh'
  BY <1>1, <1>2 DEF AuthInv, ChallengesFresh
<1>9. ASSUME NEW g \in Handlers PROVE RequestFresh(g)'
  <2>1. CASE g = h
    BY <1>1, <1>2, <1>3, <1>6, <2>1 DEF RequestFresh
  <2>2. CASE g # h
    BY <1>1, <1>2, <1>6, <2>2 DEF AuthInv, RequestFresh
  <2>3. QED
    BY <2>1, <2>2
<1>10. RequestsApart'
  BY <1>4, <1>6 DEF AuthInv, RequestsApart
<1>11. QED
  BY <1>1, <1>7, <1>8, <1>9, <1>10 DEF AuthInv, Granted, SessionGranted

\* A request ends without effect.
LEMMA RefusedKeeps ==
  ASSUME AuthInv, NEW h \in Handlers, Refused(h)
  PROVE  AuthInv'
<1>1. /\ requests' = [requests EXCEPT ![h] = Idle]
      /\ UNCHANGED <<now, challenges, signed, items, granted>>
  BY DEF Refused
<1>2. requests'[h] = Idle /\ \A g \in Handlers \ {h} : requests'[g] = requests[g]
  BY <1>1 DEF AuthInv, Domains
<1>3. \A g \in Handlers : RequestFresh(g)'
  BY <1>1, <1>2 DEF AuthInv, RequestFresh
<1>4. RequestsApart'
  BY <1>2 DEF AuthInv, RequestsApart
<1>5. QED
  BY <1>1, <1>3, <1>4 DEF AuthInv, Domains, ChallengesFresh, Granted, SessionGranted

\* The account confirms, and the route does what was signed, for the first time.
LEMMA AuthenticatedKeeps ==
  ASSUME AuthInv, NEW h \in Handlers, Authenticated(h)
  PROVE  AuthInv'
<1> DEFINE r == requests[h]
           n == requests[h].nonce
           op == [address |-> requests[h].address, action |-> requests[h].action]
<1>1. /\ r # Idle /\ signed[n] = op /\ allows(r)
      /\ granted' = [granted EXCEPT ![n] = Append(granted[n], op)]
      /\ requests' = [requests EXCEPT ![h] = Idle]
      /\ UNCHANGED <<now, challenges, signed>>
  BY DEF Authenticated, Valid, authorizationHash
<1>2. items' = IF r.action = "session:create" THEN create(n, r.address) ELSE items
  BY DEF Authenticated
<1>3. n \in Nonces \ DOMAIN challenges /\ signed[n] # NotSigned /\ granted[n] = << >>
  BY <1>1 DEF AuthInv, RequestFresh
<1>4. granted'[n] = <<op>> /\ \A m \in Nonces \ {n} : granted'[m] = granted[m]
  BY <1>1, <1>3, FirstGrant DEF AuthInv, Domains
<1>5. requests'[h] = Idle /\ \A g \in Handlers \ {h} : requests'[g] = requests[g]
  BY <1>1 DEF AuthInv, Domains
<1>6. \A g \in Handlers \ {h} : requests[g] # Idle => requests[g].nonce # n
  BY <1>1 DEF AuthInv, RequestsApart
<1>7. Domains'
  BY <1>1 DEF AuthInv, Domains
<1>8. ChallengesFresh'
  BY <1>1, <1>3, <1>4 DEF AuthInv, ChallengesFresh, Domains
<1>9. ASSUME NEW g \in Handlers PROVE RequestFresh(g)'
  <2>1. CASE g = h
    BY <1>5, <2>1 DEF RequestFresh
  <2>2. CASE g # h
    BY <1>1, <1>4, <1>5, <1>6, <2>2 DEF AuthInv, RequestFresh
  <2>3. QED
    BY <2>1, <2>2
<1>10. RequestsApart'
  BY <1>5 DEF AuthInv, RequestsApart
<1>11. ASSUME NEW m \in Nonces PROVE Granted(m)'
  <2>1. CASE m = n
    <3>1. /\ op.action = "admin:read" => op.address \in Operators
          /\ op.action = "draft:reorder" => op.address = DraftOrganizer
      BY <1>1 DEF allows, OrganizerRoutes
    <3>2. QED
      BY <1>1, <1>3, <1>4, <2>1, <3>1 DEF Granted
  <2>2. CASE m # n
    BY <1>1, <1>4, <2>2 DEF AuthInv, Granted
  <2>3. QED
    BY <2>1, <2>2
<1>12. ASSUME NEW t \in DOMAIN items' PROVE SessionGranted(t)'
  <2>1. CASE t \in DOMAIN items /\ items'[t] = items[t]
    <3>1. SessionGranted(t)
      BY <2>1 DEF AuthInv
    <3>2. t # n
      BY <1>3, <3>1, FirstGrant DEF SessionGranted
    <3>3. QED
      BY <1>4, <2>1, <3>1, <3>2 DEF SessionGranted
  <2>2. CASE t = n /\ items'[t].address = r.address /\ r.action = "session:create"
    BY <1>3, <1>4, <2>2 DEF SessionGranted
  <2>3. QED
    BY <1>2, <2>1, <2>2, CreateKeeps
<1>13. QED
  BY <1>7, <1>8, <1>9, <1>10, <1>11, <1>12 DEF AuthInv

\* Nothing happens to challenges, signatures and grants; sessions end or are used.
LEMMA SessionsKeep ==
  ASSUME AuthInv, UNCHANGED <<challenges, signed, requests, granted>>,
         DOMAIN items' \subseteq DOMAIN items,
         \A t \in DOMAIN items' : items'[t].address = items[t].address
  PROVE  AuthInv'
<1>1. Domains'
  BY DEF AuthInv, Domains
<1>2. ChallengesFresh'
  BY DEF AuthInv, ChallengesFresh
<1>3. \A h \in Handlers : RequestFresh(h)'
  BY DEF AuthInv, RequestFresh
<1>4. RequestsApart'
  BY DEF AuthInv, RequestsApart
<1>5. \A n \in Nonces : Granted(n)'
  BY DEF AuthInv, Granted
<1>6. \A t \in DOMAIN items' : SessionGranted(t)'
  BY DEF AuthInv, SessionGranted
<1>7. QED
  BY <1>1, <1>2, <1>3, <1>4, <1>5, <1>6 DEF AuthInv

LEMMA ReadKeeps ==
  ASSUME AuthInv, NEW t, NEW action, authenticateRead(t, action)
  PROVE  AuthInv'
<1>1. t \in DOMAIN items /\ UNCHANGED <<challenges, signed, requests, granted>>
  BY DEF authenticateRead
<1>2. items' = Restrict(items, DOMAIN items \ {t}) \/ items' = [items EXCEPT ![t].lastUsedAt = now]
  BY DEF authenticateRead, validate, Without
<1>3. CASE items' = Restrict(items, DOMAIN items \ {t})
  BY <1>1, <1>3, SessionsKeep DEF Restrict
<1>4. CASE items' = [items EXCEPT ![t].lastUsedAt = now]
  <2>1. DOMAIN items' = DOMAIN items
    BY <1>4
  <2>2. \A u \in DOMAIN items : items'[u].address = items[u].address
    BY <1>4
  <2>3. QED
    BY <1>1, <2>1, <2>2, SessionsKeep
<1>5. QED
  BY <1>2, <1>3, <1>4

LEMMA RevokeKeeps ==
  ASSUME AuthInv, NEW t, revoke(t)
  PROVE  AuthInv'
BY SessionsKeep DEF revoke, Without, Restrict

\* A restart forgets; what was granted was granted, and what was signed cannot
\* be used any more.
LEMMA RestartKeeps ==
  ASSUME AuthInv, Restart
  PROVE  AuthInv'
<1>1. /\ DOMAIN challenges' = {} /\ DOMAIN items' = {}
      /\ \A h \in Handlers : requests'[h] = Idle
      /\ UNCHANGED <<signed, granted>>
  BY DEF Restart
<1>2. Domains'
  BY <1>1 DEF Restart, AuthInv, Domains
<1>3. QED
  BY <1>1, <1>2 DEF AuthInv, ChallengesFresh, RequestFresh, RequestsApart, Granted

LEMMA AuthNext == AuthInv /\ [Next]_vars => AuthInv'
<1> SUFFICES ASSUME AuthInv, [Next]_vars PROVE AuthInv'
  OBVIOUS
<1>1. CASE Tick
  BY <1>1, SessionsKeep DEF Tick
<1>2. CASE Restart
  BY <1>2, RestartKeeps
<1>3. CASE \E a \in Wallets, call \in CallsMade : signedHeaders(a, call)
  BY <1>3, SignedKeeps
<1>4. CASE \E h \in Handlers, n \in Nonces, a \in Wallets, call \in CallsMade :
              authenticate(h, n, a, backend[call])
  BY <1>4, AuthenticateKeeps
<1>5. CASE \E h \in Handlers : Authenticated(h)
  BY <1>5, AuthenticatedKeeps
<1>6. CASE \E h \in Handlers : Refused(h)
  BY <1>6, RefusedKeeps
<1>7. CASE \E t \in Nonces, call \in CallsMade : authenticateRead(t, backend[call])
  BY <1>7, ReadKeeps
<1>8. CASE \E t \in Nonces : revoke(t)
  BY <1>8, RevokeKeeps
<1>9. CASE UNCHANGED vars
  BY <1>9, SessionsKeep DEF vars
<1>10. QED
  BY <1>1, <1>2, <1>3, <1>4, <1>5, <1>6, <1>7, <1>8, <1>9 DEF Next

LEMMA GrantsFollow == AuthInv => OneGrantPerSignature
<1> SUFFICES ASSUME AuthInv PROVE OneGrantPerSignature
  OBVIOUS
<1>1. ASSUME NEW n \in Nonces
      PROVE  /\ Len(granted[n]) <= 1
             /\ \A i \in DOMAIN granted[n] :
                  /\ granted[n][i] = signed[n]
                  /\ signed[n].action = "admin:read" => signed[n].address \in Operators
                  /\ signed[n].action = "draft:reorder" => signed[n].address = DraftOrganizer
  <2>1. CASE granted[n] = << >>
    BY <2>1
  <2>2. CASE granted[n] # << >>
    <3>1. /\ granted[n] = <<signed[n]>>
          /\ signed[n].action = "admin:read" => signed[n].address \in Operators
          /\ signed[n].action = "draft:reorder" => signed[n].address = DraftOrganizer
      BY <2>2 DEF AuthInv, Granted
    <3>2. Len(granted[n]) = 1 /\ DOMAIN granted[n] = {1} /\ granted[n][1] = signed[n]
      BY <3>1, FirstGrant
    <3>3. QED
      BY <3>1, <3>2
  <2>3. QED
    BY <2>1, <2>2
<1>2. QED
  BY <1>1 DEF AuthInv, SessionGranted, OneGrantPerSignature

\* With any number of requests that carry any signatures, at once, late or
\* twice, and through restarts of the service: a signature has one effect at
\* most, the one its wallet signed, operators' and organizers' answers go to
\* them only, and every live session goes back to a sign-in.
THEOREM OneGrantPerSignatureHolds == Spec => []OneGrantPerSignature
<1>1. Init => AuthInv
  BY AuthInit
<1>2. AuthInv /\ [Next]_vars => AuthInv'
  BY AuthNext
<1>3. AuthInv => OneGrantPerSignature
  BY GrantsFollow
<1>4. QED
  BY <1>1, <1>2, <1>3, PTL DEF Spec

-----------------------------------------------------------------------------
(* Room for a session *)

Mine(live, address) == {t \in DOMAIN live : live[t].address = address}

\* What trimFor counts as made after t.
After(live, t, u) ==
  \/ live[u].createdAt > live[t].createdAt
  \/ live[u].createdAt = live[t].createdAt /\ u > t

Newer(live, address, t) == {u \in Mine(live, address) : After(live, t, u)}

\* Sessions that have a number and a time.
Stored(live) == DOMAIN live \subseteq Nonces /\ \A t \in DOMAIN live : live[t].createdAt \in Nat

LEMMA NoncesFinite == IsFiniteSet(Nonces) /\ Nonces \subseteq Nat
<1>1. MaxNonces \in Nat
  BY AuthAssumption
<1>2. IsFiniteSet(1..MaxNonces)
  BY <1>1, FS_Interval
<1> QED
  BY <1>1, <1>2 DEF Nonces

LEMMA SetOfNonces ==
  ASSUME NEW S, S \subseteq Nonces
  PROVE  IsFiniteSet(S) /\ Cardinality(S) \in Nat
BY NoncesFinite, FS_Subset, FS_CardinalityType

\* Among any sessions one was made before all others.
LEMMA OldestExists ==
  ASSUME NEW live, Stored(live), NEW S, S \subseteq DOMAIN live, S # {}
  PROVE  \E t \in S : \A u \in S \ {t} : After(live, t, u)
<1> DEFINE times == {live[t].createdAt : t \in S}
<1>1. times \subseteq Nat /\ times # {}
  BY DEF Stored
<1>2. PICK c \in times : \A d \in times : c <= d
  <2> HIDE DEF times
  <2> QED BY <1>1, LeastNatural
<1> DEFINE first == {t \in S : live[t].createdAt = c}
<1>3. first \subseteq Nat /\ first # {}
  BY NoncesFinite DEF Stored
<1>4. PICK t \in first : \A u \in first : t <= u
  <2> HIDE DEF first
  <2> QED BY <1>3, LeastNatural
<1>5. ASSUME NEW u \in S \ {t} PROVE After(live, t, u)
  <2>1. live[u].createdAt \in times /\ live[u].createdAt \in Nat /\ live[t].createdAt = c /\ c \in Nat
    BY <1>1 DEF Stored
  <2>2. c <= live[u].createdAt
    BY <1>2, <2>1
  <2>3. CASE live[u].createdAt = c
    <3>1. u \in first /\ u \in Nat /\ t \in Nat
      BY <2>3, <1>3
    <3> QED BY <3>1, <1>4, <2>1, <2>3 DEF After
  <2>4. CASE live[u].createdAt # c
    BY <2>1, <2>2, <2>4 DEF After
  <2> QED BY <2>3, <2>4
<1> QED
  BY <1>5

LEMMA NotAfterItself ==
  ASSUME NEW live, Stored(live), NEW t \in DOMAIN live
  PROVE  ~After(live, t, t)
<1>1. t \in Nat /\ live[t].createdAt \in Nat
  BY NoncesFinite DEF Stored
<1> QED
  BY <1>1 DEF After

\* The newer sessions are all but one at most.
LEMMA NewerFewer ==
  ASSUME NEW live, Stored(live), NEW address, NEW t \in Mine(live, address)
  PROVE  /\ Newer(live, address, t) \subseteq Mine(live, address) \ {t}
         /\ Cardinality(Mine(live, address)) \in Nat /\ Cardinality(Newer(live, address, t)) \in Nat
         /\ Cardinality(Mine(live, address) \ {t}) = Cardinality(Mine(live, address)) - 1
         /\ Cardinality(Newer(live, address, t)) <= Cardinality(Mine(live, address)) - 1
         /\ Cardinality(Newer(live, address, t)) = Cardinality(Mine(live, address)) - 1
              => Newer(live, address, t) = Mine(live, address) \ {t}
<1> DEFINE mine == Mine(live, address)
           newer == Newer(live, address, t)
<1>1. newer \subseteq mine \ {t}
  BY NotAfterItself DEF Newer, Mine
<1>2. mine \subseteq Nonces /\ t \in mine
  BY DEF Mine, Stored
<1> HIDE DEF mine, newer
<1>3. /\ IsFiniteSet(mine) /\ IsFiniteSet(newer) /\ IsFiniteSet(mine \ {t})
      /\ Cardinality(mine) \in Nat /\ Cardinality(newer) \in Nat
  BY <1>1, <1>2, SetOfNonces
<1>4. Cardinality(mine \ {t}) = Cardinality(mine) - 1
  BY <1>2, <1>3, FS_RemoveElement
<1>5. Cardinality(newer) <= Cardinality(mine \ {t})
  BY <1>1, <1>3, FS_Subset
<1>6. Cardinality(newer) = Cardinality(mine \ {t}) => newer = mine \ {t}
  BY <1>1, <1>3, FS_Subset
<1> QED
  BY <1>1, <1>3, <1>4, <1>5, <1>6 DEF mine, newer

\* What trimFor leaves: the sessions of others, and fewer of the wallet than
\* the cap; it drops some exactly if the wallet is at its cap.
LEMMA Trimmed ==
  ASSUME NEW live, Stored(live), NEW address, NEW kept, kept = trimFor(live, address)
  PROVE  /\ DOMAIN kept \subseteq DOMAIN live /\ \A t \in DOMAIN kept : kept[t] = live[t]
         /\ \A t \in DOMAIN live \ DOMAIN kept :
              /\ t \in Mine(live, address)
              /\ Cardinality(Newer(live, address, t)) >= MAX_SESSIONS_PER_ADDRESS - 1
         /\ Cardinality(Mine(kept, address)) < MAX_SESSIONS_PER_ADDRESS
         /\ DOMAIN kept = DOMAIN live <=> Cardinality(Mine(live, address)) < MAX_SESSIONS_PER_ADDRESS
<1> DEFINE mine == Mine(live, address)
           old == {t \in mine : Cardinality(Newer(live, address, t)) >= MAX_SESSIONS_PER_ADDRESS - 1}
<1>0. MAX_SESSIONS_PER_ADDRESS \in Nat \ {0}
  BY AuthAssumption
<1>1. kept = Without(live, old)
  BY DEF trimFor, Mine, Newer, After
<1>2. DOMAIN kept = DOMAIN live \ old /\ \A t \in DOMAIN kept : kept[t] = live[t]
  BY <1>1 DEF Without, Restrict
<1>3. Mine(kept, address) = mine \ old
  BY <1>2 DEF Mine
<1>4. mine \subseteq DOMAIN live /\ mine \subseteq Nonces
  BY DEF Mine, Stored
<1>5. Cardinality(mine \ old) < MAX_SESSIONS_PER_ADDRESS
  <2> DEFINE rest == mine \ old
  <2>1. IsFiniteSet(rest) /\ Cardinality(rest) \in Nat
    BY <1>4, SetOfNonces
  <2>2. CASE rest = {}
    <3>1. Cardinality({}) = 0
      BY FS_EmptySet, Zenon
    <3> QED BY <3>1, <2>2, <1>0
  <2>3. CASE rest # {}
    <3> HIDE DEF rest
    <3>0. rest \subseteq DOMAIN live
      BY <1>4 DEF rest
    <3>1. PICK t \in rest : \A u \in rest \ {t} : After(live, t, u)
      BY <3>0, <2>3, OldestExists
    <3>2. t \in mine /\ t \notin old
      BY DEF rest
    <3>3. rest \ {t} \subseteq Newer(live, address, t)
      BY <3>1 DEF rest, Newer
    <3>4. /\ Cardinality(Newer(live, address, t)) \in Nat
          /\ Newer(live, address, t) \subseteq Nonces
      BY <3>2, <1>4, NewerFewer
    <3>5. ~(Cardinality(Newer(live, address, t)) >= MAX_SESSIONS_PER_ADDRESS - 1)
      BY <3>2
    <3>6. Cardinality(rest \ {t}) <= Cardinality(Newer(live, address, t))
      <4>1. IsFiniteSet(Newer(live, address, t))
        BY <3>4, SetOfNonces
      <4> QED BY <4>1, <3>3, FS_Subset
    <3>7. Cardinality(rest \ {t}) = Cardinality(rest) - 1
      BY <2>1, FS_RemoveElement
    <3> QED BY <3>4, <3>5, <3>6, <3>7, <2>1, <1>0 DEF rest
  <2> QED BY <2>2, <2>3
<1>6. ASSUME Cardinality(mine) < MAX_SESSIONS_PER_ADDRESS PROVE old = {}
  <2> SUFFICES ASSUME NEW t \in old PROVE FALSE
    OBVIOUS
  <2>1. t \in mine /\ Cardinality(Newer(live, address, t)) >= MAX_SESSIONS_PER_ADDRESS - 1
    OBVIOUS
  <2>2. /\ Cardinality(mine) \in Nat /\ Cardinality(Newer(live, address, t)) \in Nat
        /\ Cardinality(Newer(live, address, t)) <= Cardinality(mine) - 1
    BY <2>1, NewerFewer
  <2> QED BY <2>1, <2>2, <1>0, <1>6
<1>7. ASSUME ~(Cardinality(mine) < MAX_SESSIONS_PER_ADDRESS) PROVE old # {}
  <2> HIDE DEF mine, old
  <2>1. CASE old = {}
    <3>1. mine \ old = mine
      BY <2>1
    <3> QED BY <3>1, <1>5, <1>7
  <2> QED BY <2>1
<1>8. DOMAIN kept = DOMAIN live <=> Cardinality(mine) < MAX_SESSIONS_PER_ADDRESS
  <2> HIDE DEF mine
  <2>1. old \subseteq DOMAIN live
    BY <1>4
  <2> HIDE DEF old
  <2> QED BY <1>2, <1>6, <1>7, <2>1
<1>9. \A t \in DOMAIN live \ DOMAIN kept :
        /\ t \in Mine(live, address)
        /\ Cardinality(Newer(live, address, t)) >= MAX_SESSIONS_PER_ADDRESS - 1
  BY <1>2
<1> QED
  BY <1>2, <1>3, <1>5, <1>8, <1>9

-----------------------------------------------------------------------------
(* Types and caps *)

CapsHold ==
  /\ Cardinality(DOMAIN items) <= MAX_SESSIONS
  /\ \A a \in Wallets : Cardinality(Mine(items, a)) <= MAX_SESSIONS_PER_ADDRESS

SessionsInv == AuthInv /\ Types /\ CapsHold

Made(token, address) ==
  Put(trimFor(sweep, address), token,
      [address |-> address, createdAt |-> now, lastUsedAt |-> now,
       expiresAt |-> now + SESSION_ABSOLUTE_MS])

LEMMA BackendActions == \A call \in CallsMade : backend[call] \in AUTH_ACTIONS
BY CallsAssumption DEF backend, AUTH_ACTIONS

LEMMA StoredSessions ==
  ASSUME Types
  PROVE  /\ Stored(items) /\ Stored(sweep)
         /\ DOMAIN sweep = {t \in DOMAIN items : ~Ended(t)}
         /\ \A t \in DOMAIN sweep : sweep[t] = items[t]
<1>1. Stored(items)
  BY DEF Types, Stored, Session
<1>2. /\ DOMAIN sweep = {t \in DOMAIN items : ~Ended(t)}
      /\ \A t \in DOMAIN sweep : sweep[t] = items[t]
  BY DEF sweep, Restrict
<1> QED
  BY <1>1, <1>2 DEF Stored

\* A sign-in: the session is new, and is made if there is room.
LEMMA SignIn ==
  ASSUME SessionsInv, NEW h \in Handlers, Authenticated(h),
         requests[h].action = "session:create",
         NEW n, n = requests[h].nonce, NEW a, a = requests[h].address,
         NEW kept, kept = trimFor(sweep, a)
  PROVE  /\ n \in Nonces /\ n \notin DOMAIN items /\ granted[n] = << >>
         /\ a \in Wallets
         /\ DOMAIN kept \subseteq DOMAIN sweep /\ \A t \in DOMAIN kept : kept[t] = items[t]
         /\ Cardinality(DOMAIN kept) \in Nat
         /\ \/ items' = kept /\ Cardinality(DOMAIN kept) >= MAX_SESSIONS
            \/ items' = Made(n, a) /\ Cardinality(DOMAIN kept) < MAX_SESSIONS
<1>1. /\ requests[h] # Idle
      /\ items' = create(n, a)
  BY DEF Authenticated
<1>2. n \in Nonces /\ granted[n] = << >>
  BY <1>1 DEF SessionsInv, AuthInv, RequestFresh
<1>3. n \notin DOMAIN items
  <2> SUFFICES ASSUME n \in DOMAIN items PROVE FALSE
    OBVIOUS
  <2>1. granted[n] = <<[address |-> items[n].address, action |-> "session:create"]>>
    BY DEF SessionsInv, AuthInv, SessionGranted
  <2> QED BY <2>1, <1>2, FirstGrant
<1>4. a \in Wallets
  <2>1. requests[h] \in [nonce : Nonces, address : Wallets, action : AUTH_ACTIONS]
    BY <1>1 DEF SessionsInv, Types
  <2> QED BY <2>1
<1>5. Types
  BY DEF SessionsInv
<1>6. /\ DOMAIN kept \subseteq DOMAIN sweep /\ \A t \in DOMAIN kept : kept[t] = sweep[t]
      /\ \A t \in DOMAIN sweep : sweep[t] = items[t]
      /\ DOMAIN sweep \subseteq Nonces
  BY <1>5, StoredSessions, Trimmed DEF Stored
<1>7. Cardinality(DOMAIN kept) \in Nat /\ MAX_SESSIONS \in Nat
  BY <1>6, SetOfNonces, AuthAssumption
<1>8. items' = IF Cardinality(DOMAIN kept) >= MAX_SESSIONS THEN kept ELSE Made(n, a)
  BY <1>1 DEF create, Made
<1> QED
  BY <1>2, <1>3, <1>4, <1>6, <1>7, <1>8

LEMMA TypesInit == Init => SessionsInv
<1> SUFFICES ASSUME Init PROVE SessionsInv
  OBVIOUS
<1>1. AuthInv
  BY AuthInit
<1>2. Types
  <2>1. << >> \in Seq(Operation)
    OBVIOUS
  <2>2. DOMAIN challenges = {} /\ DOMAIN items = {}
    BY DEF Init
  <2> QED BY <2>1, <2>2 DEF Init, Types
<1>3. CapsHold
  <2>1. Cardinality({}) = 0
    BY FS_EmptySet, Zenon
  <2>2. DOMAIN items = {} /\ \A a \in Wallets : Mine(items, a) = {}
    BY DEF Init, Mine
  <2>3. 0 <= MAX_SESSIONS /\ 0 <= MAX_SESSIONS_PER_ADDRESS
    BY AuthAssumption
  <2>4. Cardinality(DOMAIN items) = 0 /\ \A a \in Wallets : Cardinality(Mine(items, a)) = 0
    BY <2>1, <2>2
  <2> QED BY <2>3, <2>4 DEF CapsHold
<1> QED
  BY <1>1, <1>2, <1>3 DEF SessionsInv

\* With no new session the caps hold as before.
LEMMA FewerSessions ==
  ASSUME Types, CapsHold, DOMAIN items' \subseteq DOMAIN items,
         \A t \in DOMAIN items' : items'[t].address = items[t].address
  PROVE  CapsHold'
<1>1. IsFiniteSet(DOMAIN items)
  BY SetOfNonces DEF Types
<1>2. Cardinality(DOMAIN items') <= Cardinality(DOMAIN items) /\ IsFiniteSet(DOMAIN items')
  BY <1>1, FS_Subset
<1>3. ASSUME NEW a \in Wallets
      PROVE  Cardinality(Mine(items, a)') <= Cardinality(Mine(items, a))
  <2>1. Mine(items, a)' \subseteq Mine(items, a)
    BY DEF Mine
  <2>2. IsFiniteSet(Mine(items, a))
    BY <1>1, FS_Subset DEF Mine
  <2> QED BY <2>1, <2>2, FS_Subset
<1>4. /\ Cardinality(DOMAIN items) \in Nat /\ Cardinality(DOMAIN items') \in Nat
      /\ {MAX_SESSIONS, MAX_SESSIONS_PER_ADDRESS} \subseteq Nat
  BY <1>1, <1>2, FS_CardinalityType, AuthAssumption
<1>5. ASSUME NEW a \in Wallets
      PROVE  Cardinality(Mine(items, a)') <= MAX_SESSIONS_PER_ADDRESS
  <2>1. Mine(items, a)' \subseteq Nonces /\ Mine(items, a) \subseteq Nonces
    BY DEF Types, Mine
  <2>2. Cardinality(Mine(items, a)') \in Nat /\ Cardinality(Mine(items, a)) \in Nat
    BY <2>1, SetOfNonces
  <2>3. Cardinality(Mine(items, a)) <= MAX_SESSIONS_PER_ADDRESS
    BY DEF CapsHold
  <2> QED BY <2>2, <2>3, <1>3, <1>4
<1> QED
  BY <1>2, <1>4, <1>5 DEF CapsHold

LEMMA SignedTypes ==
  ASSUME SessionsInv, NEW a \in Wallets, NEW call \in CallsMade, signedHeaders(a, call)
  PROVE  Types' /\ CapsHold'
<1>1. PICK n \in Nonces : /\ issue(n, a)
                          /\ signed' = [signed EXCEPT ![n] = authorizationTypedData(a, call)]
                          /\ UNCHANGED <<now, items, requests, granted>>
  BY DEF signedHeaders
<1>2. Types /\ CapsHold
  BY DEF SessionsInv
<1>3. /\ DOMAIN challenges' \subseteq DOMAIN challenges \cup {n}
      /\ \A m \in DOMAIN challenges' :
           challenges'[m] = IF m = n THEN [address |-> a, expiresAt |-> now + CHALLENGE_TTL_MS]
                                     ELSE challenges[m]
      /\ \A m \in DOMAIN challenges' \ {n} : m \in DOMAIN challenges
  BY <1>1 DEF issue, Put, sweepChallenges, Restrict
<1>4. now + CHALLENGE_TTL_MS \in Nat
  BY <1>2, AuthAssumption DEF Types
<1>5. \A m \in DOMAIN challenges' : challenges'[m] \in [address : Wallets, expiresAt : Nat]
  BY <1>2, <1>3, <1>4 DEF Types
<1>6. DOMAIN challenges' \subseteq Nonces
  BY <1>2, <1>3 DEF Types
<1>7. authorizationTypedData(a, call) \in Operation
  BY BackendActions DEF authorizationTypedData, Operation
<1>8. signed' \in [Nonces -> Operation \cup {NotSigned}]
  BY <1>1, <1>2, <1>7 DEF Types
<1>9. Types'
  BY <1>1, <1>2, <1>5, <1>6, <1>8 DEF Types
<1>10. CapsHold'
  BY <1>1, <1>2 DEF CapsHold, Mine
<1> QED
  BY <1>9, <1>10

LEMMA AuthenticateTypes ==
  ASSUME SessionsInv, NEW h \in Handlers, NEW n \in Nonces, NEW a \in Wallets,
         NEW call \in CallsMade, authenticate(h, n, a, backend[call])
  PROVE  Types' /\ CapsHold'
<1>1. /\ challenges' = Without(challenges, {n})
      /\ UNCHANGED <<now, signed, items, granted>>
  BY DEF authenticate, consume
<1>2. Types /\ CapsHold
  BY DEF SessionsInv
<1>3. DOMAIN challenges' \subseteq DOMAIN challenges /\ \A m \in DOMAIN challenges' : challenges'[m] = challenges[m]
  BY <1>1 DEF Without, Restrict
<1>4. [nonce |-> n, address |-> a, action |-> backend[call]]
        \in [nonce : Nonces, address : Wallets, action : AUTH_ACTIONS]
  BY BackendActions
<1>5. \/ requests' = requests
      \/ requests' = [requests EXCEPT ![h] = [nonce |-> n, address |-> a, action |-> backend[call]]]
  BY DEF authenticate
<1>6. requests' \in [Handlers -> [nonce : Nonces, address : Wallets, action : AUTH_ACTIONS] \cup {Idle}]
  BY <1>2, <1>4, <1>5 DEF Types
<1>7. Types'
  BY <1>1, <1>2, <1>3, <1>6 DEF Types
<1>8. CapsHold'
  BY <1>1, <1>2 DEF CapsHold, Mine
<1> QED
  BY <1>7, <1>8

\* Room is made before a session is: neither cap is passed.
LEMMA SignInCaps ==
  ASSUME SessionsInv, NEW h \in Handlers, Authenticated(h),
         requests[h].action = "session:create"
  PROVE  CapsHold'
<1>1. PICK n, a, kept : n = requests[h].nonce /\ a = requests[h].address /\ kept = trimFor(sweep, a)
  OBVIOUS
<1>2. /\ n \in Nonces /\ n \notin DOMAIN items
      /\ DOMAIN kept \subseteq DOMAIN sweep /\ \A t \in DOMAIN kept : kept[t] = items[t]
      /\ Cardinality(DOMAIN kept) \in Nat
      /\ \/ items' = kept /\ Cardinality(DOMAIN kept) >= MAX_SESSIONS
         \/ items' = Made(n, a) /\ Cardinality(DOMAIN kept) < MAX_SESSIONS
  BY <1>1, SignIn
<1>3. Types /\ CapsHold
  BY DEF SessionsInv
<1>4. DOMAIN kept \subseteq DOMAIN items /\ DOMAIN items \subseteq Nonces
  BY <1>2, <1>3, StoredSessions DEF Types
<1>5. Cardinality(Mine(kept, a)) < MAX_SESSIONS_PER_ADDRESS
  BY <1>1, <1>3, StoredSessions, Trimmed
<1>6. CASE items' = kept
  BY <1>2, <1>3, <1>4, <1>6, FewerSessions
<1>7. CASE items' = Made(n, a) /\ Cardinality(DOMAIN kept) < MAX_SESSIONS
  <2>1. /\ DOMAIN items' = DOMAIN kept \cup {n}
        /\ \A t \in DOMAIN kept : items'[t] = kept[t]
        /\ items'[n].address = a
    <3>1. /\ DOMAIN Made(n, a) = DOMAIN kept \cup {n}
          /\ \A t \in DOMAIN kept \ {n} : Made(n, a)[t] = kept[t]
          /\ Made(n, a)[n] = [address |-> a, createdAt |-> now, lastUsedAt |-> now,
                              expiresAt |-> now + SESSION_ABSOLUTE_MS]
      BY <1>1 DEF Made, Put
    <3> QED BY <3>1, <1>2, <1>4, <1>7
  <2>2. n \notin DOMAIN kept /\ IsFiniteSet(DOMAIN kept)
    BY <1>2, <1>4, SetOfNonces
  <2>3. Cardinality(DOMAIN items') = Cardinality(DOMAIN kept) + 1
    BY <2>1, <2>2, FS_AddElement
  <2>4. MAX_SESSIONS \in Nat /\ MAX_SESSIONS_PER_ADDRESS \in Nat
    BY AuthAssumption
  <2>5. Cardinality(DOMAIN items') <= MAX_SESSIONS
    BY <1>2, <1>7, <2>3, <2>4
  <2>6. ASSUME NEW b \in Wallets PROVE Cardinality(Mine(items, b)') <= MAX_SESSIONS_PER_ADDRESS
    <3>1. CASE b = a
      <4>1. Mine(items, b)' = Mine(kept, a) \cup {n} /\ n \notin Mine(kept, a)
        BY <2>1, <2>2, <3>1 DEF Mine
      <4>2. IsFiniteSet(Mine(kept, a)) /\ Cardinality(Mine(kept, a)) \in Nat
        <5>1. Mine(kept, a) \subseteq Nonces
          BY <1>4 DEF Mine
        <5> QED BY <5>1, SetOfNonces
      <4>3. Cardinality(Mine(items, b)') = Cardinality(Mine(kept, a)) + 1
        BY <4>1, <4>2, FS_AddElement
      <4> QED BY <4>2, <4>3, <1>5, <2>4
    <3>2. CASE b # a
      <4>1. Mine(items, b)' \subseteq Mine(items, b)
        BY <1>2, <1>4, <2>1, <3>2 DEF Mine
      <4>2. IsFiniteSet(Mine(items, b)) /\ Cardinality(Mine(items, b)) \in Nat
        <5>1. Mine(items, b) \subseteq Nonces
          BY <1>4 DEF Mine
        <5> QED BY <5>1, SetOfNonces
      <4>3. Cardinality(Mine(items, b)') <= Cardinality(Mine(items, b)) /\ Cardinality(Mine(items, b)') \in Nat
        BY <4>1, <4>2, FS_Subset, FS_CardinalityType
      <4>4. Cardinality(Mine(items, b)) <= MAX_SESSIONS_PER_ADDRESS
        BY <1>3 DEF CapsHold
      <4> QED BY <4>2, <4>3, <4>4, <2>4
    <3> QED BY <3>1, <3>2
  <2> QED BY <2>5, <2>6 DEF CapsHold
<1> QED
  BY <1>2, <1>6, <1>7

LEMMA AuthenticatedTypes ==
  ASSUME SessionsInv, NEW h \in Handlers, Authenticated(h)
  PROVE  Types' /\ CapsHold'
<1> DEFINE n == requests[h].nonce
           op == [address |-> requests[h].address, action |-> requests[h].action]
<1>1. /\ requests[h] # Idle
      /\ granted' = [granted EXCEPT ![n] = Append(granted[n], op)]
      /\ requests' = [requests EXCEPT ![h] = Idle]
      /\ UNCHANGED <<now, challenges, signed>>
  BY DEF Authenticated
<1>2. Types /\ CapsHold
  BY DEF SessionsInv
<1>3. requests[h] \in [nonce : Nonces, address : Wallets, action : AUTH_ACTIONS]
  BY <1>1, <1>2 DEF Types
<1>4. n \in Nonces /\ op \in Operation
  BY <1>3 DEF Operation
<1>5. granted' \in [Nonces -> Seq(Operation)]
  <2>1. granted[n] \in Seq(Operation)
    BY <1>2, <1>4 DEF Types
  <2>2. Append(granted[n], op) \in Seq(Operation)
    BY <2>1, <1>4
  <2> QED BY <1>1, <1>2, <2>2 DEF Types
<1>6. requests' \in [Handlers -> [nonce : Nonces, address : Wallets, action : AUTH_ACTIONS] \cup {Idle}]
  BY <1>1, <1>2 DEF Types
<1>7. CASE requests[h].action = "session:create"
  <2>1. PICK a, kept : a = requests[h].address /\ kept = trimFor(sweep, a)
    OBVIOUS
  <2>2. /\ a \in Wallets
        /\ DOMAIN kept \subseteq DOMAIN sweep /\ \A t \in DOMAIN kept : kept[t] = items[t]
        /\ items' = kept \/ items' = Made(n, a)
    BY <2>1, <1>7, SignIn
  <2>3. DOMAIN kept \subseteq DOMAIN items /\ DOMAIN items \subseteq Nonces
        /\ \A t \in DOMAIN kept : kept[t] \in Session
    BY <1>2, <2>2, StoredSessions DEF Types
  <2>4. [address |-> a, createdAt |-> now, lastUsedAt |-> now,
         expiresAt |-> now + SESSION_ABSOLUTE_MS] \in Session
    <3>1. now \in Nat /\ now + SESSION_ABSOLUTE_MS \in Nat
      BY <1>2, AuthAssumption DEF Types
    <3> QED BY <3>1, <2>2 DEF Session
  <2>5. /\ DOMAIN Made(n, a) = DOMAIN kept \cup {n}
        /\ \A t \in DOMAIN kept \ {n} : Made(n, a)[t] = kept[t]
        /\ Made(n, a)[n] = [address |-> a, createdAt |-> now, lastUsedAt |-> now,
                            expiresAt |-> now + SESSION_ABSOLUTE_MS]
    BY <2>1 DEF Made, Put
  <2>6. DOMAIN items' \subseteq Nonces /\ \A t \in DOMAIN items' : items'[t] \in Session
    <3>1. CASE items' = kept
      BY <3>1, <2>3
    <3>2. CASE items' = Made(n, a)
      <4>1. DOMAIN items' = DOMAIN kept \cup {n}
        BY <3>2, <2>5
      <4>2. ASSUME NEW t \in DOMAIN items' PROVE items'[t] \in Session
        <5>1. CASE t = n
          BY <5>1, <3>2, <2>4, <2>5
        <5>2. CASE t # n
          BY <5>2, <4>1, <3>2, <2>3, <2>5
        <5> QED BY <5>1, <5>2
      <4> QED BY <4>1, <4>2, <1>4, <2>3
    <3> QED BY <2>2, <3>1, <3>2
  <2>7. Types'
    BY <1>1, <1>2, <1>5, <1>6, <2>6 DEF Types
  <2> QED BY <2>7, <1>7, SignInCaps
<1>8. CASE requests[h].action # "session:create"
  <2>1. items' = items
    BY <1>8 DEF Authenticated
  <2>2. Types'
    BY <1>1, <1>2, <1>5, <1>6, <2>1 DEF Types
  <2>3. CapsHold'
    BY <1>2, <2>1 DEF CapsHold, Mine
  <2> QED BY <2>2, <2>3
<1> QED
  BY <1>7, <1>8

\* What is left of the sessions keeps its type.
LEMMA SessionsLeft ==
  ASSUME SessionsInv, UNCHANGED <<now, challenges, signed, granted>>,
         requests' \in [Handlers -> [nonce : Nonces, address : Wallets, action : AUTH_ACTIONS] \cup {Idle}],
         DOMAIN items' \subseteq DOMAIN items, \A t \in DOMAIN items' : items'[t] = items[t]
  PROVE  Types' /\ CapsHold'
<1>1. Types /\ CapsHold
  BY DEF SessionsInv
<1>2. Types'
  BY <1>1 DEF Types
<1>3. CapsHold'
  BY <1>1, FewerSessions
<1> QED
  BY <1>2, <1>3

LEMMA ReadTypes ==
  ASSUME SessionsInv, NEW t, NEW action, authenticateRead(t, action)
  PROVE  Types' /\ CapsHold'
<1>1. t \in DOMAIN items /\ UNCHANGED <<now, challenges, signed, requests, granted>>
  BY DEF authenticateRead
<1>2. \/ items' = Without(items, {t})
      \/ items' = [items EXCEPT ![t].lastUsedAt = now]
  BY DEF authenticateRead, validate
<1>3. Types /\ CapsHold
  BY DEF SessionsInv
<1>4. CASE items' = Without(items, {t})
  <2>1. DOMAIN items' \subseteq DOMAIN items /\ \A u \in DOMAIN items' : items'[u] = items[u]
    BY <1>4 DEF Without, Restrict
  <2>2. requests' \in [Handlers -> [nonce : Nonces, address : Wallets, action : AUTH_ACTIONS] \cup {Idle}]
    BY <1>1, <1>3 DEF Types
  <2> QED BY <1>1, <2>1, <2>2, SessionsLeft
<1>5. CASE items' = [items EXCEPT ![t].lastUsedAt = now]
  <2>1. DOMAIN items' = DOMAIN items
    BY <1>5
  <2>2. ASSUME NEW u \in DOMAIN items PROVE items'[u] \in Session /\ items'[u].address = items[u].address
    <3>1. items[u] \in Session /\ now \in Nat
      BY <1>3 DEF Types
    <3>2. items'[u] = IF u = t THEN [items[u] EXCEPT !.lastUsedAt = now] ELSE items[u]
      BY <1>5
    <3> QED BY <3>1, <3>2 DEF Session
  <2>3. Types'
    BY <1>1, <1>3, <2>1, <2>2 DEF Types
  <2>4. CapsHold'
    BY <1>3, <2>1, <2>2, FewerSessions
  <2> QED BY <2>3, <2>4
<1> QED
  BY <1>2, <1>4, <1>5

LEMMA SessionsNext == SessionsInv /\ [Next]_vars => SessionsInv'
<1> SUFFICES ASSUME SessionsInv, [Next]_vars PROVE SessionsInv'
  OBVIOUS
<1>0. AuthInv' /\ Types /\ CapsHold
  BY AuthNext DEF SessionsInv
<1>1. CASE Tick
  <2>1. now' \in Nat /\ UNCHANGED <<challenges, signed, items, requests, granted>>
    BY <1>0, <1>1 DEF Tick, Types
  <2> QED BY <1>0, <2>1 DEF SessionsInv, Types, CapsHold, Mine
<1>2. CASE Restart
  <2>1. /\ DOMAIN challenges' = {} /\ DOMAIN items' = {}
        /\ UNCHANGED <<now, signed, granted>>
        /\ requests' = [h \in Handlers |-> Idle]
    BY <1>0, <1>2 DEF Restart, Types
  <2>2. now' = now
    BY <1>2, <1>0 DEF Restart
  <2>3. Types'
    BY <1>0, <2>1, <2>2 DEF Types
  <2>4. CapsHold'
    BY <1>0, <2>1, FewerSessions
  <2> QED BY <1>0, <2>3, <2>4 DEF SessionsInv
<1>3. CASE \E a \in Wallets, call \in CallsMade : signedHeaders(a, call)
  BY <1>0, <1>3, SignedTypes DEF SessionsInv
<1>4. CASE \E h \in Handlers, n \in Nonces, a \in Wallets, call \in CallsMade :
              authenticate(h, n, a, backend[call])
  BY <1>0, <1>4, AuthenticateTypes DEF SessionsInv
<1>5. CASE \E h \in Handlers : Authenticated(h)
  BY <1>0, <1>5, AuthenticatedTypes DEF SessionsInv
<1>6. CASE \E h \in Handlers : Refused(h)
  <2>1. PICK h \in Handlers : Refused(h)
    BY <1>6
  <2>2. /\ requests' = [requests EXCEPT ![h] = Idle]
        /\ UNCHANGED <<now, challenges, signed, items, granted>>
    BY <2>1 DEF Refused
  <2>3. requests' \in [Handlers -> [nonce : Nonces, address : Wallets, action : AUTH_ACTIONS] \cup {Idle}]
    BY <1>0, <2>2 DEF Types
  <2> QED BY <1>0, <2>2, <2>3, SessionsLeft DEF SessionsInv
<1>7. CASE \E t \in Nonces, call \in CallsMade : authenticateRead(t, backend[call])
  BY <1>0, <1>7, ReadTypes DEF SessionsInv
<1>8. CASE \E t \in Nonces : revoke(t)
  <2>1. PICK t \in Nonces : revoke(t)
    BY <1>8
  <2>2. UNCHANGED <<now, challenges, signed, requests, granted>> /\ items' = Without(items, {t})
    BY <2>1 DEF revoke
  <2>3. DOMAIN items' \subseteq DOMAIN items /\ \A u \in DOMAIN items' : items'[u] = items[u]
    BY <2>2 DEF Without, Restrict
  <2>4. requests' \in [Handlers -> [nonce : Nonces, address : Wallets, action : AUTH_ACTIONS] \cup {Idle}]
    BY <1>0, <2>2 DEF Types
  <2> QED BY <1>0, <2>2, <2>3, <2>4, SessionsLeft DEF SessionsInv
<1>9. CASE UNCHANGED vars
  BY <1>0, <1>9 DEF vars, SessionsInv, Types, CapsHold, Mine
<1> QED
  BY <1>1, <1>2, <1>3, <1>4, <1>5, <1>6, <1>7, <1>8, <1>9 DEF Next

LEMMA SessionsHold == Spec => []SessionsInv
BY TypesInit, SessionsNext, PTL DEF Spec

\* Through any sign-ins, uses, revocations and restarts the stores hold what
\* they should, never more sessions than the process will hold, and never more
\* of one wallet than it may have.
THEOREM SessionTypesHold == Spec => []TypeOK
<1>1. SessionsInv => TypeOK
  BY DEF SessionsInv, TypeOK, CapsHold, Mine
<1> QED
  BY <1>1, SessionsHold, PTL

-----------------------------------------------------------------------------
(* Evictions *)

\* What a sign-in drops of live sessions is the oldest of a wallet at its cap,
\* and it is then made.
LEMMA SignInEvicts ==
  ASSUME SessionsInv, NEW h \in Handlers, Authenticated(h),
         NEW t \in DOMAIN items \ DOMAIN items', ~Ended(t)
  PROVE  LET own == {u \in DOMAIN items : items[u].address = items[t].address /\ ~Ended(u)}
         IN  /\ \E u \in DOMAIN items' \ DOMAIN items : items'[u].address = items[t].address
             /\ Cardinality(own) >= MAX_SESSIONS_PER_ADDRESS
             /\ \A u \in own : items[t].createdAt <= items[u].createdAt
<1>1. requests[h].action = "session:create"
  BY DEF Authenticated
<1>2. PICK n, a, kept : n = requests[h].nonce /\ a = requests[h].address /\ kept = trimFor(sweep, a)
  OBVIOUS
<1>3. /\ n \in Nonces /\ n \notin DOMAIN items /\ a \in Wallets
      /\ DOMAIN kept \subseteq DOMAIN sweep /\ \A u \in DOMAIN kept : kept[u] = items[u]
      /\ Cardinality(DOMAIN kept) \in Nat
      /\ \/ items' = kept /\ Cardinality(DOMAIN kept) >= MAX_SESSIONS
         \/ items' = Made(n, a) /\ Cardinality(DOMAIN kept) < MAX_SESSIONS
  BY <1>1, <1>2, SignIn
<1>4. Types /\ CapsHold /\ {MAX_SESSIONS, MAX_SESSIONS_PER_ADDRESS} \subseteq Nat \ {0}
  BY AuthAssumption DEF SessionsInv
<1>5. /\ Stored(items) /\ Stored(sweep)
      /\ DOMAIN sweep = {u \in DOMAIN items : ~Ended(u)}
      /\ \A u \in DOMAIN sweep : sweep[u] = items[u]
  BY <1>4, StoredSessions
<1>6. DOMAIN Made(n, a) = DOMAIN kept \cup {n} /\ Made(n, a)[n].address = a
  BY <1>2 DEF Made, Put
<1>7. t \in DOMAIN sweep \ DOMAIN kept
  BY <1>3, <1>5, <1>6
<1>8. /\ t \in Mine(sweep, a)
      /\ Cardinality(Newer(sweep, a, t)) >= MAX_SESSIONS_PER_ADDRESS - 1
  BY <1>2, <1>5, <1>7, Trimmed
<1>9. items[t].address = a
  BY <1>5, <1>8 DEF Mine
<1> DEFINE own == {u \in DOMAIN items : items[u].address = items[t].address /\ ~Ended(u)}
<1>10. own = Mine(sweep, a)
  BY <1>5, <1>9 DEF Mine
<1>11. /\ Cardinality(Mine(sweep, a)) \in Nat /\ Cardinality(Newer(sweep, a, t)) \in Nat
       /\ Cardinality(Newer(sweep, a, t)) <= Cardinality(Mine(sweep, a)) - 1
       /\ Cardinality(Newer(sweep, a, t)) = Cardinality(Mine(sweep, a)) - 1
            => Newer(sweep, a, t) = Mine(sweep, a) \ {t}
  BY <1>5, <1>8, NewerFewer
<1>12. Cardinality(Mine(sweep, a)) <= MAX_SESSIONS_PER_ADDRESS
  <2>1. Mine(sweep, a) \subseteq Mine(items, a) /\ Mine(items, a) \subseteq Nonces
    BY <1>5 DEF Mine, Stored
  <2>2. IsFiniteSet(Mine(items, a)) /\ Cardinality(Mine(items, a)) \in Nat
    BY <2>1, SetOfNonces
  <2>3. Cardinality(Mine(sweep, a)) <= Cardinality(Mine(items, a))
    BY <2>1, <2>2, FS_Subset
  <2>4. Cardinality(Mine(items, a)) <= MAX_SESSIONS_PER_ADDRESS
    BY <1>3, <1>4 DEF CapsHold
  <2> QED BY <2>2, <2>3, <2>4, <1>4, <1>11
<1>13. /\ Cardinality(Mine(sweep, a)) = MAX_SESSIONS_PER_ADDRESS
       /\ Newer(sweep, a, t) = Mine(sweep, a) \ {t}
  BY <1>4, <1>8, <1>11, <1>12
<1>14. \A u \in own : items[t].createdAt <= items[u].createdAt
  <2> SUFFICES ASSUME NEW u \in Mine(sweep, a) PROVE items[t].createdAt <= items[u].createdAt
    BY <1>10
  <2>1. /\ u \in DOMAIN sweep /\ t \in DOMAIN sweep
        /\ sweep[u] = items[u] /\ sweep[t] = items[t]
        /\ sweep[u].createdAt \in Nat /\ sweep[t].createdAt \in Nat
    BY <1>5, <1>8 DEF Mine, Stored
  <2>2. CASE u = t
    BY <2>1, <2>2
  <2>3. CASE u # t
    <3>1. After(sweep, t, u)
      BY <1>13, <2>3 DEF Newer
    <3> QED BY <3>1, <2>1 DEF After
  <2> QED BY <2>2, <2>3
<1>15. items' # kept
  <2> SUFFICES ASSUME items' = kept, Cardinality(DOMAIN kept) >= MAX_SESSIONS PROVE FALSE
    <3>1. DOMAIN kept \subseteq DOMAIN items /\ n \notin DOMAIN kept
      BY <1>3, <1>5
    <3> QED BY <3>1, <1>3, <1>6
  <2>1. DOMAIN items \subseteq Nonces
    BY <1>5 DEF Stored
  <2>2. IsFiniteSet(DOMAIN items) /\ Cardinality(DOMAIN items) \in Nat
    BY <2>1, SetOfNonces
  <2>3. DOMAIN kept \subseteq DOMAIN items /\ t \notin DOMAIN kept
    BY <1>3, <1>5, <1>7
  <2>4. Cardinality(DOMAIN kept) <= Cardinality(DOMAIN items \ {t})
    <3>1. DOMAIN kept \subseteq DOMAIN items \ {t} /\ IsFiniteSet(DOMAIN items \ {t})
      BY <2>2, <2>3, FS_Subset
    <3> QED BY <3>1, FS_Subset
  <2>5. Cardinality(DOMAIN items \ {t}) = Cardinality(DOMAIN items) - 1
    BY <2>2, FS_RemoveElement
  <2>6. Cardinality(DOMAIN items) <= MAX_SESSIONS
    BY <1>4 DEF CapsHold
  <2> QED BY <2>2, <2>4, <2>5, <2>6, <1>3, <1>4
<1>16. n \in DOMAIN items' \ DOMAIN items /\ items'[n].address = items[t].address
  BY <1>3, <1>6, <1>9, <1>15
<1>17. Cardinality(own) >= MAX_SESSIONS_PER_ADDRESS
  <2> HIDE DEF own
  <2>1. Cardinality(own) = MAX_SESSIONS_PER_ADDRESS
    BY <1>10, <1>13
  <2> QED BY <2>1, <1>4
<1> HIDE DEF own
<1>18. /\ \E u \in DOMAIN items' \ DOMAIN items : items'[u].address = items[t].address
       /\ Cardinality(own) >= MAX_SESSIONS_PER_ADDRESS
       /\ \A u \in own : items[t].createdAt <= items[u].createdAt
  BY <1>14, <1>16, <1>17
<1> QED
  BY <1>18 DEF own

LEMMA StepEvicts == SessionsInv /\ [Next]_vars => EndsForAReason
<1> SUFFICES ASSUME SessionsInv, [Next]_vars, NEW t \in DOMAIN items \ DOMAIN items', ~Ended(t),
                    ~revoke(t), ~Restart
             PROVE  LET own == {u \in DOMAIN items : items[u].address = items[t].address /\ ~Ended(u)}
                    IN  /\ \E u \in DOMAIN items' \ DOMAIN items : items'[u].address = items[t].address
                        /\ Cardinality(own) >= MAX_SESSIONS_PER_ADDRESS
                        /\ \A u \in own : items[t].createdAt <= items[u].createdAt
  BY DEF EndsForAReason
<1>1. ASSUME items' = items PROVE FALSE
  BY <1>1
<1>2. CASE Tick
  BY <1>1, <1>2 DEF Tick
<1>3. CASE \E a \in Wallets, call \in CallsMade : signedHeaders(a, call)
  BY <1>1, <1>3 DEF signedHeaders
<1>4. CASE \E h \in Handlers, n \in Nonces, a \in Wallets, call \in CallsMade :
              authenticate(h, n, a, backend[call])
  BY <1>1, <1>4 DEF authenticate
<1>5. CASE \E h \in Handlers : Authenticated(h)
  BY <1>5, SignInEvicts
<1>6. CASE \E h \in Handlers : Refused(h)
  BY <1>1, <1>6 DEF Refused
<1>7. CASE \E u \in Nonces, call \in CallsMade : authenticateRead(u, backend[call])
  <2>1. PICK u \in Nonces : u \in DOMAIN items /\ validate(u)
    BY <1>7 DEF authenticateRead
  <2>2. CASE Ended(u)
    <3>1. DOMAIN items' = DOMAIN items \ {u}
      BY <2>1, <2>2 DEF validate, Without, Restrict
    <3> QED BY <3>1, <2>2
  <2>3. CASE ~Ended(u)
    <3>1. DOMAIN items' = DOMAIN items
      BY <2>1, <2>3 DEF validate
    <3> QED BY <3>1
  <2> QED BY <2>2, <2>3
<1>8. CASE \E u \in Nonces : revoke(u)
  <2>1. PICK u \in Nonces : revoke(u)
    BY <1>8
  <2>2. DOMAIN items' = DOMAIN items \ {u}
    BY <2>1 DEF revoke, Without, Restrict
  <2> QED BY <2>1, <2>2
<1>9. CASE UNCHANGED vars
  BY <1>1, <1>9 DEF vars
<1> QED
  BY <1>2, <1>3, <1>4, <1>5, <1>6, <1>7, <1>8, <1>9 DEF Next

\* Whoever signs in, nobody else loses a session: one that ends has ended by
\* its clocks, was revoked by its token, went with the process, or was the
\* oldest of a wallet that has just signed in at its cap.
THEOREM NobodyElseEvictedHolds == Spec => NobodyElseEvicted
<1>1. SessionsInv /\ [Next]_vars => [EndsForAReason]_vars
  BY StepEvicts
<1> QED
  BY <1>1, SessionsHold, PTL DEF Spec, NobodyElseEvicted

-----------------------------------------------------------------------------
(* Signing in *)

\* A wallet at its cap always makes room for itself.
LEMMA SignInMade ==
  ASSUME SessionsInv, NEW h \in Handlers, Authenticated(h),
         requests[h].action = "session:create",
         NEW n, n = requests[h].nonce, NEW a, a = requests[h].address
  PROVE  n \in DOMAIN items' <=> \/ Cardinality(DOMAIN sweep) < MAX_SESSIONS
                                 \/ Cardinality(Mine(sweep, a)) >= MAX_SESSIONS_PER_ADDRESS
<1>1. PICK kept : kept = trimFor(sweep, a)
  OBVIOUS
<1>2. /\ n \notin DOMAIN items
      /\ DOMAIN kept \subseteq DOMAIN sweep
      /\ Cardinality(DOMAIN kept) \in Nat
      /\ \/ items' = kept /\ Cardinality(DOMAIN kept) >= MAX_SESSIONS
         \/ items' = Made(n, a) /\ Cardinality(DOMAIN kept) < MAX_SESSIONS
  BY <1>1, SignIn
<1>3. Types /\ CapsHold /\ {MAX_SESSIONS, MAX_SESSIONS_PER_ADDRESS} \subseteq Nat \ {0}
  BY AuthAssumption DEF SessionsInv
<1>4. Stored(sweep) /\ DOMAIN sweep \subseteq DOMAIN items /\ DOMAIN items \subseteq Nonces
  BY <1>3, StoredSessions DEF Types
<1>5. DOMAIN Made(n, a) = DOMAIN kept \cup {n}
  BY <1>1 DEF Made, Put
<1>6. n \in DOMAIN items' <=> Cardinality(DOMAIN kept) < MAX_SESSIONS
  <2>1. n \notin DOMAIN kept
    BY <1>2, <1>4
  <2> QED BY <2>1, <1>2, <1>3, <1>5
<1>7. DOMAIN kept = DOMAIN sweep <=> Cardinality(Mine(sweep, a)) < MAX_SESSIONS_PER_ADDRESS
  BY <1>1, <1>4, Trimmed
<1>8. /\ IsFiniteSet(DOMAIN items) /\ IsFiniteSet(DOMAIN sweep)
      /\ Cardinality(DOMAIN items) \in Nat /\ Cardinality(DOMAIN sweep) \in Nat
      /\ Cardinality(DOMAIN sweep) <= Cardinality(DOMAIN items)
      /\ Cardinality(Mine(sweep, a)) \in Nat
  <2>1. IsFiniteSet(DOMAIN items)
    BY <1>4, SetOfNonces
  <2>2. Mine(sweep, a) \subseteq Nonces
    BY <1>4 DEF Mine
  <2>3. Cardinality(Mine(sweep, a)) \in Nat
    BY <2>2, SetOfNonces
  <2>4. IsFiniteSet(DOMAIN sweep) /\ Cardinality(DOMAIN sweep) <= Cardinality(DOMAIN items)
    BY <2>1, <1>4, FS_Subset
  <2> QED BY <2>1, <2>3, <2>4, FS_CardinalityType
<1>9. CASE Cardinality(Mine(sweep, a)) < MAX_SESSIONS_PER_ADDRESS
  BY <1>3, <1>6, <1>7, <1>8, <1>9
<1>10. CASE Cardinality(Mine(sweep, a)) >= MAX_SESSIONS_PER_ADDRESS
  <2>1. DOMAIN kept # DOMAIN sweep
    BY <1>3, <1>7, <1>8, <1>10
  <2>2. Cardinality(DOMAIN kept) <= Cardinality(DOMAIN sweep) /\ Cardinality(DOMAIN kept) # Cardinality(DOMAIN sweep)
    BY <2>1, <1>2, <1>8, FS_Subset
  <2>3. Cardinality(DOMAIN items) <= MAX_SESSIONS
    BY <1>3 DEF CapsHold
  <2>4. Cardinality(DOMAIN kept) < MAX_SESSIONS
    BY <2>2, <2>3, <1>2, <1>3, <1>8
  <2> QED BY <2>4, <1>6, <1>10
<1> QED
  BY <1>3, <1>8, <1>9, <1>10

LEMMA StepAnswers == SessionsInv /\ [Next]_vars => \A n \in Nonces : SignInAnswered(n)
<1> SUFFICES ASSUME SessionsInv, [Next]_vars, NEW n \in Nonces,
                    granted[n] = << >>, granted'[n] # << >>, granted'[n][1].action = "session:create"
             PROVE  SignInAnswered(n)
  BY DEF SignInAnswered
<1>1. granted' # granted
  OBVIOUS
<1>2. PICK h \in Handlers : Authenticated(h)
  BY <1>1 DEF Next, vars, Tick, Restart, signedHeaders, authenticate, Refused, authenticateRead, revoke
<1> DEFINE op == [address |-> requests[h].address, action |-> requests[h].action]
<1>3. granted' = [granted EXCEPT ![requests[h].nonce] = Append(granted[requests[h].nonce], op)]
  BY <1>2 DEF Authenticated
<1>4. Types
  BY DEF SessionsInv
<1>5. requests[h].nonce = n
  BY <1>3, <1>4 DEF Types
<1>6. granted'[n] = <<op>> /\ granted'[n][1] = op
  BY <1>3, <1>4, <1>5, FirstGrant DEF Types
<1>7. requests[h].action = "session:create" /\ granted'[n][1].address = requests[h].address
  BY <1>6
<1>8. PICK a : a = requests[h].address
  OBVIOUS
<1>9. n \in DOMAIN items' <=> \/ Cardinality(DOMAIN sweep) < MAX_SESSIONS
                              \/ Cardinality(Mine(sweep, a)) >= MAX_SESSIONS_PER_ADDRESS
  BY <1>2, <1>5, <1>7, <1>8, SignInMade
<1>10. /\ DOMAIN sweep = {t \in DOMAIN items : ~Ended(t)}
       /\ \A t \in DOMAIN sweep : sweep[t] = items[t]
  BY <1>4, StoredSessions
<1> DEFINE alive == {t \in DOMAIN items : ~Ended(t)}
           own == {t \in alive : items[t].address = granted'[n][1].address}
<1>11. alive = DOMAIN sweep /\ own = Mine(sweep, a)
  BY <1>7, <1>8, <1>10 DEF Mine
<1> HIDE DEF alive, own
<1>12. n \in DOMAIN items' <=> \/ Cardinality(alive) < MAX_SESSIONS
                               \/ Cardinality(own) >= MAX_SESSIONS_PER_ADDRESS
  BY <1>9, <1>11
<1> QED
  BY <1>12 DEF SignInAnswered, alive, own

\* However many abandoned sessions are remembered: a sign-in that was granted
\* makes its session exactly if fewer are alive than the process will hold, or
\* the wallet is at its own cap and gives one up.
THEOREM SignInWorksHolds == Spec => SignInWorks
<1>1. SessionsInv /\ [Next]_vars => [\A n \in Nonces : SignInAnswered(n)]_vars
  BY StepAnswers
<1> QED
  BY <1>1, SessionsHold, PTL DEF Spec, SignInWorks
=============================================================================
