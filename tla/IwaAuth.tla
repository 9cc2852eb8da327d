------------------------------ MODULE IwaAuth ------------------------------
(***************************************************************************)
(* Who may do what through the service: single-use challenges (auth.ts),   *)
(* read-only sessions (session.ts), the operation a signature is bound to  *)
(* (authBinding.ts), and the routes of app.ts that ask for one of them;    *)
(* with the client that makes the calls (lib/backend.ts and its own        *)
(* authBinding.ts).  The limiter in front of every route is left out: it   *)
(* only refuses.                                                           *)
(*                                                                         *)
(* All of it lives in one process and is lost when the process restarts.   *)
(* A route that checks a signature consumes the challenge, then awaits the *)
(* account contract, then acts: other requests are served in between.      *)
(*                                                                         *)
(* Wallets sign what their own clients ask for.  A request may come late,  *)
(* twice, or with a signature that was made for another operation.  Nonces *)
(* and tokens are random and never repeat: both are numbered, and a token  *)
(* has the number of the nonce whose signature minted it.  There is one    *)
(* chain, so a wrong chain is a credential that is refused like any other. *)
(***************************************************************************)
EXTENDS Naturals, Sequences, FiniteSets, Functions

CONSTANTS
  Wallets,                   \* account addresses
  Operators,                 \* the allowlist of the operator dashboard
  DraftOrganizer,            \* the organizer of the draft the calls are about
  CallsMade,                 \* bound: the calls clients make, one of each kind
  CHALLENGE_TTL_MS, SESSION_IDLE_MS, SESSION_ABSOLUTE_MS,
  MAX_SESSIONS_PER_ADDRESS, MAX_SESSIONS,
  Handlers,                  \* bound: requests that await an account at a time
  MaxNonces,                 \* bound: challenges ever issued
  MaxTime                    \* bound: the clock

ASSUME AuthAssumption ==
  /\ Operators \cup {DraftOrganizer} \subseteq Wallets
  /\ {CHALLENGE_TTL_MS, SESSION_IDLE_MS, SESSION_ABSOLUTE_MS, MaxNonces, MaxTime} \subseteq Nat
  /\ {MAX_SESSIONS_PER_ADDRESS, MAX_SESSIONS} \subseteq Nat \ {0}

VARIABLES
  now,
  challenges,  \* by nonce, the address and the expiry of each outstanding one
  signed,      \* by nonce, the wallet that signed it and for which operation
  items,       \* the live sessions, by token
  requests,    \* what each handler awaits the account for
  granted      \* history: by nonce, what was done on the strength of it

vars == <<now, challenges, signed, items, requests, granted>>

\* What a signature may be for; the routes that also accept a session; those
\* that answer the organizer of the draft only.
AUTH_ACTIONS ==
  {"session:create", "draft:create", "draft:read-organizer", "draft:reorder",
   "draft:mark-created", "draft:reconcile", "drafts:list", "associations:list",
   "invitations:list", "admin:read"}

ReadRoutes == {"draft:read-organizer", "drafts:list", "associations:list", "invitations:list"}

OrganizerRoutes ==
  {"draft:read-organizer", "draft:reorder", "draft:mark-created", "draft:reconcile"}

\* The authenticated calls of the client, and the action each of them signs for.
backend ==
  [createSession |-> "session:create", adminOverview |-> "admin:read",
   createDraft |-> "draft:create", getDraftAsOrganizer |-> "draft:read-organizer",
   listDrafts |-> "drafts:list", myCircles |-> "associations:list",
   myInvitations |-> "invitations:list", reorder |-> "draft:reorder",
   reconcile |-> "draft:reconcile", markCreated |-> "draft:mark-created"]

ASSUME CallsAssumption == CallsMade \subseteq DOMAIN backend

Nonces == 1..MaxNonces
NotSigned == << >>
Idle == << >>

\* The server's: what a signature commits to, beside the nonce: the wallet,
\* and the operation by its action, which stands for the method, the path and
\* the canonical body as well.
authorizationHash(address, action) == [address |-> address, action |-> action]

\* The client's: what the wallet shows and signs for a call.
authorizationTypedData(address, call) == [address |-> address, action |-> backend[call]]

Put(f, key, value) == [k \in DOMAIN f \cup {key} |-> IF k = key THEN value ELSE f[k]]
Without(f, keys) == Restrict(f, DOMAIN f \ keys)

-----------------------------------------------------------------------------
(* The stores *)

\* Both sweeps drop what has ended, when something new is made.
sweepChallenges == Restrict(challenges, {n \in DOMAIN challenges : now <= challenges[n].expiresAt})

Ended(t) == now > items[t].expiresAt \/ now - items[t].lastUsedAt > SESSION_IDLE_MS

sweep == Restrict(items, {t \in DOMAIN items : ~Ended(t)})

\* The oldest of all make room, whoever they belong to.
trimFor_bug_anyones(live, address) ==
  IF Cardinality(DOMAIN live) < MAX_SESSIONS THEN live
  ELSE Without(live, {CHOOSE t \in DOMAIN live :
                        \A u \in DOMAIN live : live[t].createdAt <= live[u].createdAt})

\* The number of an address's sessions is brought below its cap, the oldest
\* first; of those created at the same time, the one of the lower number.
trimFor(live, address) ==
  LET mine == {t \in DOMAIN live : live[t].address = address}
      newer(t) == {u \in mine : live[u].createdAt > live[t].createdAt
                               \/ (live[u].createdAt = live[t].createdAt /\ u > t)}
  IN  Without(live, {t \in mine : Cardinality(newer(t)) >= MAX_SESSIONS_PER_ADDRESS - 1})

\* The cap is looked at before room is made.
create_bug_order(token, address) ==
  LET kept == trimFor(sweep, address)
  IN  IF Cardinality(DOMAIN sweep) >= MAX_SESSIONS THEN sweep
      ELSE Put(kept, token, [address |-> address, createdAt |-> now, lastUsedAt |-> now,
                             expiresAt |-> now + SESSION_ABSOLUTE_MS])

\* SessionStore.create; refused when the process holds all it will.
create(token, address) ==
  LET kept == trimFor(sweep, address)
  IN  IF Cardinality(DOMAIN kept) >= MAX_SESSIONS THEN kept
      ELSE Put(kept, token, [address |-> address, createdAt |-> now, lastUsedAt |-> now,
                             expiresAt |-> now + SESSION_ABSOLUTE_MS])

-----------------------------------------------------------------------------
(* Routes *)

Init ==
  /\ now = 0
  /\ challenges = << >>
  /\ signed = [n \in Nonces |-> NotSigned]
  /\ items = << >>
  /\ requests = [h \in Handlers |-> Idle]
  /\ granted = [n \in Nonces |-> << >>]

Tick ==
  /\ now < MaxTime
  /\ now' = now + 1
  /\ UNCHANGED <<challenges, signed, items, requests, granted>>

\* POST /api/auth/challenge.
issue(n, address) ==
  /\ signed[n] = NotSigned /\ \A m \in 1..(n - 1) : signed[m] # NotSigned
  /\ challenges' = Put(sweepChallenges, n,
                       [address |-> address, expiresAt |-> now + CHALLENGE_TTL_MS])

\* The client asks for a challenge, and its wallet to sign it for the one call.
\* The call itself is sent whenever it is sent.
signedHeaders(address, call) ==
  \E n \in Nonces :
    /\ issue(n, address)
    /\ signed' = [signed EXCEPT ![n] = authorizationTypedData(address, call)]
    /\ UNCHANGED <<now, items, requests, granted>>

\* The challenge is removed only when it is good.
consume_bug_keep(n, address) ==
  challenges' = IF challenges[n].address = address /\ now <= challenges[n].expiresAt
                THEN challenges ELSE Without(challenges, {n})

\* ChallengeStore.consume removes the challenge on every outcome.
consume(n, address) == challenges' = Without(challenges, {n})

\* authenticate up to its await: what is asked of the account is whether it
\* signed this nonce for the operation the server itself is handling.
authenticate(h, n, address, action) ==
  /\ requests[h] = Idle
  /\ n \in DOMAIN challenges
  /\ consume(n, address)
  /\ requests' = IF now <= challenges[n].expiresAt /\ challenges[n].address = address
                 THEN [requests EXCEPT ![h] = [nonce |-> n, address |-> address, action |-> action]]
                 ELSE requests
  /\ UNCHANGED <<now, signed, items, granted>>

\* is_valid_signature over the hash of the nonce and the operation.
Valid(r) == signed[r.nonce] = authorizationHash(r.address, r.action)

\* The operator dashboard has an allowlist behind the signature, and a draft its
\* organizer.
allows(r) ==
  /\ r.action = "admin:read" => r.address \in Operators
  /\ r.action \in OrganizerRoutes => r.address = DraftOrganizer

\* The account has answered, and the route does what was asked.
Authenticated(h) ==
  LET r == requests[h]
  IN  /\ r # Idle
      /\ Valid(r) /\ allows(r)
      /\ items' = IF r.action = "session:create" THEN create(r.nonce, r.address) ELSE items
      /\ granted' = [granted EXCEPT ![r.nonce] =
                       Append(@, [address |-> r.address, action |-> r.action])]
      /\ requests' = [requests EXCEPT ![h] = Idle]
      /\ UNCHANGED <<now, challenges, signed>>

\* 401 or 403: the account said no, or could not be reached, or the wallet is
\* no operator.
Refused(h) ==
  /\ requests[h] # Idle
  /\ requests' = [requests EXCEPT ![h] = Idle]
  /\ UNCHANGED <<now, challenges, signed, items, granted>>

\* A session that has ended is removed, a live one is used.
validate(t) ==
  items' = IF Ended(t) THEN Without(items, {t})
           ELSE [items EXCEPT ![t].lastUsedAt = now]

\* A read with a bearer token: the session is the whole answer.
authenticateRead(t, action) ==
  /\ action \in ReadRoutes
  /\ t \in DOMAIN items
  /\ validate(t)
  /\ UNCHANGED <<now, challenges, signed, requests, granted>>

\* POST /api/auth/session/revoke: whoever holds the token ends the session.
revoke(t) ==
  /\ t \in DOMAIN items
  /\ items' = Without(items, {t})
  /\ UNCHANGED <<now, challenges, signed, requests, granted>>

\* The process restarts and has forgotten everything.
Restart ==
  /\ challenges' = << >> /\ items' = << >>
  /\ requests' = [h \in Handlers |-> Idle]
  /\ UNCHANGED <<now, signed, granted>>

Next ==
  \/ Tick
  \/ Restart
  \/ \E a \in Wallets, call \in CallsMade : signedHeaders(a, call)
  \/ \E h \in Handlers :
       \/ \E n \in Nonces, a \in Wallets, call \in CallsMade :
            authenticate(h, n, a, backend[call])
       \/ Authenticated(h)
       \/ Refused(h)
  \/ \E t \in Nonces :
       \/ \E call \in CallsMade : authenticateRead(t, backend[call])
       \/ revoke(t)

Spec == Init /\ [][Next]_vars

-----------------------------------------------------------------------------
(* Properties *)

Operation == [address : Wallets, action : AUTH_ACTIONS]

Session == [address : Wallets, createdAt : Nat, lastUsedAt : Nat, expiresAt : Nat]

\* The stores hold records of their types.
Types ==
  /\ now \in Nat
  /\ DOMAIN challenges \subseteq Nonces
  /\ \A n \in DOMAIN challenges : challenges[n] \in [address : Wallets, expiresAt : Nat]
  /\ signed \in [Nonces -> Operation \cup {NotSigned}]
  /\ DOMAIN items \subseteq Nonces
  /\ \A t \in DOMAIN items : items[t] \in Session
  /\ requests \in [Handlers -> [nonce : Nonces, address : Wallets, action : AUTH_ACTIONS] \cup {Idle}]
  /\ granted \in [Nonces -> Seq(Operation)]

\* The caps hold through every sign-in as well: never more sessions than the
\* process will hold, nor than one wallet may have.
TypeOK ==
  /\ Types
  /\ Cardinality(DOMAIN items) <= MAX_SESSIONS
  /\ \A a \in Wallets :
       Cardinality({t \in DOMAIN items : items[t].address = a}) <= MAX_SESSIONS_PER_ADDRESS

\* "A failed attempt cannot be retried and a valid one cannot be replayed"
\* (auth.ts:104) and "a signature now commits to the exact operation"
\* (authBinding.ts:10): with any number of requests carrying one signature at
\* once, at most one of them has an effect, and it is the one that was signed;
\* the operator dashboard answers operators only, a draft is reordered by its
\* organizer only, and every live session goes back to a sign-in its wallet
\* signed.
OneGrantPerSignature ==
  /\ \A n \in Nonces :
       /\ Len(granted[n]) <= 1
       /\ \A i \in DOMAIN granted[n] :
            /\ granted[n][i] = signed[n]
            /\ signed[n].action = "admin:read" => signed[n].address \in Operators
            /\ signed[n].action = "draft:reorder" => signed[n].address = DraftOrganizer
  /\ \A t \in DOMAIN items :
       granted[t] = <<[address |-> items[t].address, action |-> "session:create"]>>

\* "Refusing ... takes nothing from anyone already signed in" (session.ts:86):
\* a session ends by its own clocks, by the use of its token, as the oldest of
\* its own wallet when that signs in at its cap, or with the process.
EndsForAReason ==
  \A t \in DOMAIN items \ DOMAIN items' :
    LET own == {u \in DOMAIN items : items[u].address = items[t].address /\ ~Ended(u)}
    IN  \/ Ended(t)
        \/ revoke(t)
        \/ Restart
        \/ /\ \E u \in DOMAIN items' \ DOMAIN items : items'[u].address = items[t].address
           /\ Cardinality(own) >= MAX_SESSIONS_PER_ADDRESS
           /\ \A u \in own : items[t].createdAt <= items[u].createdAt

NobodyElseEvicted == [][EndsForAReason]_vars

\* "Signing in again always works" (session.ts:78) for a wallet at its cap, and
\* for any other whenever fewer sessions are alive than the process will hold,
\* however many abandoned ones it still remembers.
SignInAnswered(n) ==
  (granted[n] = << >> /\ granted'[n] # << >> /\ granted'[n][1].action = "session:create") =>
    LET alive == {t \in DOMAIN items : ~Ended(t)}
        own   == {t \in alive : items[t].address = granted'[n][1].address}
    IN  n \in DOMAIN items' <=> \/ Cardinality(alive) < MAX_SESSIONS
                                \/ Cardinality(own) >= MAX_SESSIONS_PER_ADDRESS

SignInWorks == [][\A n \in Nonces : SignInAnswered(n)]_vars

=============================================================================
