# Iwa: TLA+ models, checks and proofs

Iwa is a rotating savings product. Members of a *circle* each pay one
contribution per round, and the pot of each round belongs to one member, in an
order fixed when the circle is created. Payments go through a privacy pool, so
the contracts know members as commitments (`member_ref`) and never as
addresses. A service keeps the drafts of circles until they exist, and a web
client reads the chain and tells people what to do. Beside it, on another
chain, a prize-savings pool keeps deposits encrypted and draws a winner.

This directory holds the specifications of the contracts, of the service and of
the parts of the client that hold state or decide what to offer; the TLC
configurations that check them; and TLAPS proofs of the safety properties that
those runs check, for any values of the constants. Paths below are relative to
the repository root.
`PROJECT.json` lists the source lines behind every definition.

## 1. Inventory

### Circle contract - `contracts/starknet/src/iwa_circle.cairo`

*State.* Circles by id (asset, contribution amount, cadence, grace period,
member limit, payout order, current round, status); who joined; one obligation
per (circle, round, member) with its two deadlines; the sets of cured deficits
and closed cure windows; one payout state per round; the recovery amount of a
round after final settlement; five sets of consumed nonces; three liability
maps per round (inflows, outflows, outstanding) and one total per token; the
one-time wiring of the settlement helper.

*Operations.* `create_circle`, `join_circle` (the last join opens round 1),
`initialize_settlement_helper`; by the helper only:
`settle_contribution_from_helper`, `settle_cure_from_helper`,
`settle_payout_from_helper`, `settle_recovery_from_helper`; by anyone:
`finalize_contribution_default` after the grace period,
`finalize_round_payout_accounting` when all obligations of the round are
decided (it records the claim and opens the next round),
`prepare_final_settlement` (closes the cure windows and turns the deficient
claims into recoveries); with a member's signature:
`authorize_payout_settlement`.

*Hard.* Anyone can call most of it at any time, in any order within and across
blocks. Deadlines decide between three outcomes of one obligation. A cure may
arrive while its round's claim is being authorized or closed. The final
settlement treats several rounds at once. Assertions that compare two ledgers
can strand money if they ever fail.

*Correct when* history is never rewritten; what a round took in is what the
history says; every claim that can be settled is backed by its own round;
nothing arrives behind a closed claim; each member gets one turn, in order; no
member can stop a circle by not paying.

### Settlement helper - `contracts/starknet/src/iwa_strk20_helper.cairo`

*State.* The tokens of all circles in one account; liabilities per token and
per (circle, round, token). *Operations.* `privacy_invoke` with four branches
(contribution, cure, payout, recovery), callable only by the privacy pool, and
the permissionless `normalize_surplus`. *Interaction.* Each branch calls the
circle contract in the middle of its own work: reads, balance check, call, own
books. The pool transfers tokens to the helper before the invoke and pulls the
deposits it returns afterwards, all in one transaction. *Hard.* Two sets of
books of one quantity; one account for many circles; anyone can send it tokens.
*Correct when* the books agree, the tokens cover them, and no rightful payout is
refused.

### Prize savings pool - `zama-prize-savings/contracts/IwaPrizeSavings.sol`

*State.* Round state, participants, encrypted credits, their encrypted total,
an encrypted prize reserve, ticket and winner. *Operations.* `deposit`,
`withdraw`, `withdrawAll`, `fundPrize`, `lockRound`, `draw`, `claim`, ownership
transfer and renunciation. *Hard.* A condition on a ciphertext cannot revert,
so arithmetic fails closed to zero and goes on; withdrawals stay open between
lock, draw and claims; the owner may disappear. *Correct when* the pool is
solvent, the draw is proportional to the deposits still there, the prize goes
whole to the winner, and every saver can leave.

### Prize page - `iwa-web/src/screens/PrizeSavingsView.tsx`, `lib/prizeSavings`, `lib/evmWallet.ts`

Reads the public state of the pool and, on request, decrypts the saver's own
balance; decides from the first what to offer. *State.* What it read last, of
whom, and whether that failed; the refreshes under way; its own wallet slot, on
another chain than the rest of the client. *Operations.* Refreshing (when the
account changes, after each transaction, on demand), the transactions of saver
and host, connecting, switching the network; the extension changes account and
network by itself. *Hard.* A refresh reads the contract in pieces and is not
ended when the account changes; what it showed stays until the next one, while
everybody's transactions go on. *Correct when* it offers what the contract
accepts, an old copy keeps nobody from their money, and the way out is never
missing.

### Drafts and invitations - `backend/src/app.ts`, `store.ts`, `pgStore.ts`, `chainVerify.ts`

An organizer's draft has places with invite tokens; people accept places; the
organizer orders them, creates the circle on chain and reports it; the service
verifies the report, or finds the circle itself (`/reconcile`). *State.* A row
per draft (status, terms, circle id), a row per place (position, holder), and
what each request under way has read. *Hard.* Routes read a draft, await
authentication, the chain or a row lock, then write; two of them lock rows,
none shares a transaction with the chain. *Correct when* a place is taken once,
and a draft is bound to a circle that matches it, whatever is lost.

### Sessions and challenges - `auth.ts`, `authBinding.ts`, `session.ts`, the routes of `app.ts`, `lib/backend.ts`

A challenge is a one-time nonce; the wallet signs it for one operation; the
route consumes it, awaits the account contract, and acts. Reads may use a
session instead, with an idle clock, an absolute clock and two caps. *State.*
The challenges outstanding, the sessions, and the requests between consuming
and acting; all of it in memory. *Correct when* one signature has one effect,
the one that was signed; nobody's session is given up for somebody else's; and
signing in again works.

### Iwa accounts - `iwaAccount.ts`, `pgStore.ts`, `app/IwaAuthProvider.tsx`, `screens/AuthCallbackView.tsx`

Login with Google or an email code, browser sessions in cookies, logout here
and everywhere. *State.* Users, identities and sessions in the database;
cookies and the page's belief about who is signed in. *Hard.* Each route is
several statements without a transaction around all of them; replies set
cookies when they arrive. *Correct when* a person has one account, sessions are
bounded, an ended session stays ended, and no browser ends up in a session of
somebody who did not log in there last.

### Event indexer - `indexer/events.ts`, `index.ts`, `pgStore.ts`

A timer starts passes; a pass copies the views of all circles, then reads the
events of the blocks behind a cursor page by page, records them and moves the
cursor. *Hard.* Passes may overlap; every call may fail between two writes.
*Correct when* every event has one row, and cache and table catch up.

### Operator dashboard - `admin.ts`, `pgStore.ts`, `lib/adminView.ts`, `screens/AdminView.tsx`

Counts drafts, places and circles by concurrent queries, probes the services,
and makes a report of it. *Correct when* a report is shown for an operator's
signature only, and the races between its queries are not reported as faults.

### Circle page and derived views - `lib/iwaStarknet.ts`, `lib/roundState.ts`, `lifecycle.ts`, `standing.ts`, `actionCenter.ts`, `organizerView.ts`, `screens/CircleView.tsx`, `chains/strk20`

Reads a circle from the contract, derives what a member, a visitor or the
organizer is told and offered, and builds the transactions (join, contribute).
Holds no state beyond what it read. *Correct when* what it says is what the
contracts will do, and nobody with a right is turned away by the screen.

### Organizer's page - `screens/OrganizerCircleView.tsx`, `lib/draftOrder.ts`

*State.* A copy of the draft, an order not saved yet, the id of a circle it
created and could not report. *Interaction.* Polls and calls the drafts
service; creates the circle on chain. *Hard.* Late polls, lost answers,
reloads; it stores nothing. *Correct when* a place is never shown as somebody
else's, and the circle it creates is of the people in the draft.

### Wallet, session and screens - `app/WalletProvider.tsx`, `sessionHolder.ts`, `SessionProvider.tsx`, `lib/starknetWallet.ts`, `homeActions.ts`, `screens/HomeView.tsx`, `CircleListView.tsx`

*State.* The wallet module, what was last rendered, the identity derived from a
signature, the session token with its era, and the loads under way. *Hard.*
Everything awaits, and the wallet changes meanwhile. *Correct when* no read is
authorized by the session of another wallet, and who asks is answered.

### STRK20 console - `screens/Strk20ConsoleView.tsx`, `chains/strk20/contributionGate.ts`, `funding.ts`, `publicReads.ts`

An operator shields tokens and sends the contributions of the members, one
private transaction each. *State.* Old copies of the chain, a record per
transaction, the phase of the plan. *Hard.* Wallet calls that fail after the
network took the transaction; other tabs; hashes typed in. *Correct when* a
contribution shown as confirmed is the one that settled, and nothing is sent
for one that had.

### Demo scripts - `scripts/demo`

`00_prepare`, `04_deposit`, `05_contribute`, `06_payout`, `07_verify`,
`08_strk20_json`: one process each, `run-state.json` between them. *Hard.* A
process dies between sending and recording; a proof is built over a base block
a fixed number of blocks back, which must show all earlier transactions of the
account. *Correct when* no proof misses one, and the run completes.

### Others

A Soroban savings contract of an earlier product (`iwa-savings`), a
zero-knowledge reputation proof (`iwa-circuit`, `iwa-prover`, `iwa-verifier`),
deployment scripts, the FHE spike, rate limits, configuration and migrations,
landing pages and styles. See section 10.

*How they interact.* The helper calls the circle contract inside the privacy
pool's transaction (one atomic step). The service and the client only read the
chain; nothing they do moves money except through the contracts, which check
everything again. The organizer's page and the dashboard call the service over
HTTP, and their models are composed with the drafts' model; the client's views
and its circle page are composed with the contracts.

## 2. Modules

| module | what it is |
| --- | --- |
| `IwaCircle` | the circle contract, one action per entry point |
| `RoundPots` | the abstract promise: one pot per circle and round |
| `IwaCirclePots` | extends `IwaCircle`; the refinement mapping to `RoundPots` |
| `IwaCircleViews` | extends `IwaCirclePots`; what the client derives from its reads of a circle |
| `IwaStrk20Helper` | extends `IwaCircle`; the helper and the tokens |
| `IwaCirclePage` | extends `IwaStrk20Helper` and `IwaCircleViews`; the screen of a circle and the transactions it sends |
| `IwaPrizeSavings` | the prize pool |
| `IwaPrizeViews` | extends `IwaPrizeSavings`; what its page offers of a state it read, against what the contract accepts, and the wallet slot |
| `IwaPrizePage` | extends `IwaPrizeViews`; the page: readings in pieces, old copies, the extension |
| `IwaDrafts` | drafts, places and creation records of the service |
| `MemoryDrafts` | the abstract specification of it: the in-memory store, one operation a step |
| `IwaOrganizer` | extends `IwaDrafts`; the organizer's page |
| `IwaDashboard` | extends `IwaOrganizer`; the operator's overview and its screen |
| `IwaAuth` | challenges, signatures, read sessions and the routes behind them |
| `IwaAccounts` | Iwa accounts: logins, cookies, sessions |
| `IwaIndexer` | the event indexer |
| `IwaWeb` | one tab: wallet, session, identity, loads |
| `IwaConsole` | the STRK20 console |
| `IwaDemo` | the demo scripts |
| `MCIwaCircle`, `MCIwaStrk20Helper`, `MCIwaPrizeSavings`, `MCIwaPrizePage`, `MCIwaDrafts`, `MCIwaDashboard`, `MCIwaAccounts`, `MCIwaDemo` | instances for TLC |
| `SumTheorems` | facts about sums over finite sets (TLAPS) |
| `IwaCircleProofs` | the circle contract: types and configurations, history, claims and cure windows; the ledger and its totals, the order of rounds, finalization, that no circle is stuck, the refinement to `RoundPots`; the helper above it: books, tokens, records; what the client tells, and a member's record; the circle's screen, and that nobody is refused (TLAPS) |
| `IwaPrizeSavingsProofs` | types, solvency, draw and prize of the pool, and what its page offers on a fresh reading and on an old one (TLAPS) |
| `IwaDraftsProofs` | places, creation records, the refinement to `MemoryDrafts`, the organizer's page and the operator's dashboard above them (TLAPS) |
| `IwaAuthProofs` | what a signature grants, and sessions and their caps (TLAPS) |
| `IwaAccountsProofs` | accounts, their sessions and cookies (TLAPS) |
| `IwaRecordsProofs` | what is recorded of the chain outside it: the rows of the indexer, the transactions of the console (TLAPS) |
| `IwaClientProofs` | what a tab and the demo scripts know of what they began: the session a read goes out with, the run a proof is built on (TLAPS) |

Definitions named `..._bug_...` are not part of any specification: each is the
definition after it with a plausible mistake (a window left open, a total not
debited, a guard dropped), kept beside it so that a reader can put it in its
place and see which property notices.

## 3. How the circle model corresponds to the code

A Starknet transaction is atomic and an assertion that fails reverts all of it.
An entry point is therefore one action, every assertion on its path a conjunct,
and its interleaving with others is the interleaving of actions. The entry point
of the helper and the calls it makes to the circle contract are one transaction
as well, so `IwaStrk20Helper` conjoins the action of `IwaCircle` with its own
assertions and writes.

* *Storage maps* are functions, or sets where the map holds booleans. A key that
  was never written reads as the `No...` records; the code's `_exists` flags are
  the status `Absent`.
* *Signatures.* A signature parameter is left out. Whoever owns a key either
  signs the exact tuple, and the action may happen, or does not, and it cannot.
  The nonce they sign is a parameter, and any nonce may come again.
* *Callers* are parameters where the code looks at them. In `IwaCircle` the
  settle entry points may be called by any address; `IwaStrk20Helper` calls them
  as the helper. That the address wired by the setup authority is this helper is
  assumed there: it is the deployer's step, checked by the deployment scripts.
* *Amounts.* An obligation copies the contribution amount of its circle, so sums
  over members are that amount times a cardinality. The two u128/u64 bounds are
  constants: a u128 or u64 operation that would overflow is a guard, as Cairo
  reverts it.
* *Time* is the block timestamp; `Tick` is a later block.
* *Open note ids* (checked to be zero or not), events, views and the getters'
  existence assertions are left out.
* `CircleStatus::Completed` exists in the types and no entry point reaches it;
  it is left out of `CircleStatus` for that reason.

Helper: `withdrawn` is what the same pool transaction sent to the helper before
the invoke, any amount; the exact-balance assertion decides. The approval of a
payout is consumed by the pool in the same transaction, so the allowance is zero
between transactions and `approve_pool` never finds a stale one. `donate` is a
plain transfer, or a pool withdrawal to the helper with no invoke.

`RoundPots` says what members are promised without saying how: a pot takes one
share per member, gets one owner who owns no other pot of the circle, is emptied
by its owner once and as a whole, and money never moves between pots.
`ImplementsPots` maps the funded members to the shares, the outstanding
liability to what is held, the outflows to what was taken and the settled claims
to the closed pots.

## 4. How the prize model corresponds to the code

Every amount is the plaintext of a ciphertext, and what the contract cannot
branch on does not guard anything: `FHESafeMath.tryAdd`/`trySub` return 0 when
the result does not fit, `FHE.select` is IF, and a confidential transfer moves
all or nothing and returns what it moved (how the contract is written to use
it). An uninitialized handle reads 0; the early return of `withdraw` for a
wallet that never deposited is the step in which nothing changes. Participants
are numbered from 1 and `NO_WINNER` is 0, where the code counts from 0 and uses
65535. A ticket is any number below `MAX_POOL_TOTAL`, as
`FHE.randEuint64(MAX_POOL_TOTAL)` draws it. `U64_MAX` equals the token's supply
in the runs, so that every sum is at its limit. Access lists of handles are not
modelled.

## 5. How the drafts model corresponds to the code

A route is one action up to its first await after reading the draft, and one
action for what it writes; the two of `/created` and `/reconcile` have
`ReadPlaces` between them, since `loadDraft` reads a draft and its places by two
queries. `requests[h]` is what a request in the middle has read. Everything
else may happen between its steps: other routes, new circles on chain, and
`EndWithoutEffect`, which is a refusal, an answer that never comes, or a restart
of the service with the rollback of the open transaction.

* *Transactions and locks.* `acceptInvite` locks its place (`BeginAccept`), then
  the draft, and does the rest under both, in one action. `reorderSlots` locks
  all places, hence its guard on `Locked`, but not the draft. Its two passes
  over the positions are one transaction, modelled by the permutation it leaves.
* *Places* are named by the position they were created with; `slot_order` says
  where each is now, so that a holder moves with the place.
* *Chain reads* belong to the last step of their route. Circles are appended and
  never change their order or terms, so an earlier read that matched still does.
  `create_circle` is anyone's, with any order: the members of a draft may have
  several circles with one order.
* *Callers.* A request whose signature is wrong does nothing; what is modelled
  are requests of the organizer and of invited people. Invite tokens, receipts,
  transaction hashes, validation and wording are left out. `abandonDraft` is
  called by no route and is left out, and with it the status it would set.

`MemoryDrafts` is class `MemoryStore` of `store.ts`, on which the tests of the
service run: the same operations, each one step over a map of drafts. The
refinement mapping of `IwaDrafts` gives it the rows, each place under the
position it was created with; a request that has only read is a stutter.

## 6. How the models of the service and the client correspond to the code

*The general rule.* What runs between two awaits of JavaScript is one action;
what a function has read before an await is kept in a record of the request and
used after it as it was. Every call may fail, and every answer may be lost,
where the code awaits it. Screens are functions of what they hold; a control is
an action only while the screen offers it.

**`IwaCircleViews`, `IwaCirclePage`.** Operators, no variables: the reads, and
what the client makes of them, applied to the state of the contracts. They are
*fresh* reads: the property compares what is said with what the contract does
at the same block (an offer a block old may be refused, and is by the contract,
not by the client). Stale copies and reads under way are the subject of
`IwaWeb`, `IwaConsole` and `IwaPrizePage`. A hash stands for its preimage, and a signature for
its signer and the hash, so that the tuple the client signs is compared with
the one the contract checks, field by field.

**`IwaPrizeViews`, `IwaPrizePage`.** The first has the reads of the pool, what the
prize page makes of them, what the contract asks of each call, and the Ethereum
slot of the wallet manager as a function of its events. Its `FreshOffers` is a
screen and the contract at one block. The contract takes a deposit only with the
token's permission and while the saver has a place or one is left; the page
shows the button to anyone while the round is open, asks for the permission
beside it and shows the count, and the property says exactly that: all three
together are what the contract asks. `OffersAge` is the same screen one step
later; each of its four lines says that something, once so, stays so, and
therefore holds over any number of steps. In the second module the page runs
over the pool. A refresh is a record with
its account, how it was begun and what was answered so far; what one `await`
asks for is answered in any order, each field from the block of its own moment,
and `before` says what must have been answered first. `Show` puts it in place
of what the page had, whoever is connected by then; `Fail` keeps what it had.
Pressing a button is not itself the transaction: the extension signs for the
account it is on by then, so the transaction is one of everybody's
(`Transactions`), and the press is what the page does about it: it waits, and
reads again for the account of the press. The permission to pull tokens is the
token's (external): without it a deposit and a funding revert, and it may expire
at any time.

**`IwaAuth`.** `signedHeaders` is the client asking for a challenge and signing
the operation it is about to call (`backend` is the table of its calls: method,
route, action, the fields that are bound). `authenticate` is a route up to its
await: it may be given any signature with any call, late, twice, or for another
operation, and consumes the challenge in any case. `Authenticated` is the rest
of the route. Sessions carry both clocks; `issue` sweeps, makes room for the
wallet, and then for the process. `Restart` forgets everything. Nonces and
tokens are random and never repeat, and are numbers here. Rate limits are left
out: they refuse and do nothing else.

**`IwaAccounts`.** A login is the statements of `createLogin` in their order
(the identity, the user by email, the insert, the count of rows it locks, the
deletions), each an action, on rows that other logins write meanwhile. A reply
is in a set until it is delivered, in any order with others, or dropped when
the page is left; its cookies are set on delivery. `/me` touches the session in
a step after the one that read it. A tick is days. `SameHost` says that page and
service are on one host. If they are not, the page cannot read the cookie it has
to repeat in a header: its logout is refused before anything is read, and
`IwaAuthProvider` shows nobody all the same, while the session lives. `LogoutEnds`
is about the logouts that were carried out, and on one host about the refused
ones too; the run `accounts` is of one host, which the theorem does not assume.

**`IwaIndexer`.** A pass is a program counter with what it has read: the
sweep over the circles, the head, the page of events, its continuation, and the
block its cursor will move to. The rows a page adds are a set, since an ON
CONFLICT key makes their order of no account. `CallFails` ends a pass at any await, `Restart`
all of them; `tick` starts one whether or not the last has ended. The chain
grows at any time. `overlapped` records whether two passes ever ran at once.

**`IwaOrganizer`.** `page` is what the screen holds; `poll` the answer to a
poll that is under way, which was made at some earlier moment. `Buttons` is
what the sections of the page offer, and `Press` is each handler up to its
first await; `OrderSaved`, `CreationRecorded` and `RequestFails` are the
answers. `create_circle` and the report are the drafts model's own actions, so
that members accept and the service searches meanwhile.

**`IwaDashboard`.** `load` is the screen asking, `Authenticate` the route, three
`coordinationCounts` its queries in their order with writes between them,
`ShowOverview` the answer, at any later time. `WalletChanges` happens anywhere.
Health probes answer anything.

**`IwaWeb`.** `seam` is what the wallet module says, `shown` what React last
rendered; `Render` brings the second to the first and runs the effects. The
session holder has a token, the account it is for, and an era that a change of
wallet moves; a sign-in remembers the era it began in. A load is a record with
the route it serves, the wallet it was begun for and how far it is. The wallet
is subscribed to once, when nothing is connected, so changes made in the
extension do not reach the tab (section 9). `Render` changes the session before
the screens load; React runs the effect of a screen before that of the provider
around it, so that a load may find the old session for a moment, as it does in
the model when the wallet changes while it signs in.

**`IwaConsole`.** `sent` is the list of transactions that exist, whoever sent
them, and each may be accepted or not, when the pool pleases. What the screen
holds is the state of the last reading, one variable per reading. A wallet call
that throws may have sent its transaction. The operator may give the hash of any
transaction as the shield. The pool, allowances and balances
are read as any value that a gate of the console tells apart.

**`IwaDemo`.** `script` is the process that runs and its place in its program;
`state` is `run-state.json`. `Crash` ends it at any await. `Block` makes the
transactions older, and `PROVING_BLOCK_BACKOFF` is how old the last one must be
for a proof that shows it. Only one script runs at a time, as their README
asks.

## 7. Runs

Times are on two cores. Every property of a passing run is violated when the
definition `PROJECT.json` names under "mutants" is replaced by its `_bug_` form.

| run | instance | properties | states, time |
| --- | --- | --- | --- |
| `circle_one` | 1 circle, 2 members, 2 free nonces, callers right and wrong, 5 configurations of which 4 must be refused, fairness | `RoundConservation`, `ClaimsBacked`, `NoCureBehindClaim`, `NeverStuck`, `ClientTold`, `HistoryImmutable`, `StandingOnlyGrows`, `EveryClaimEnds` | 157 thousand, 1-2 min |
| `helper` | helper, circle contract and circle page, 2 circles of one token, amounts 1 and 2, in one account, withdrawals up to 2, 4 units in the pool, 1 unit of donations | `LedgersAgree`, `Solvent`, `NobodyRefused`, `AssertsAreAll`, `RecordsMatchTokens`, `ImplementsPots` | 85 thousand, 1 min |
| `prize_pool` | 2 savers and the owner, 2 places, 5 tokens, pool bound 3, fairness | `Solvent`, `FairDraw`, `NobodyPays`, `OffersStand`, `RoundEnds` | 186 thousand, 2 min |
| `drafts_one` | 1 draft, 2 places, 2 people, 2 amounts, 2 requests at a time, 2 circles on chain, fairness | `OnePlaceEach`, `CreatedHoldsItsMembers`, `ImplementsMemoryStore`, `CreationIsRecovered` | 268 thousand, 1-2 min |
| `drafts_repoint` | the same with one amount; a violation (section 9) | `CircleKept` | seconds |
| `indexer_passes` | 2 passes that may overlap, pages of 2 events, batches of 2 blocks, 2 circles, 1 failure, fairness | `ExactlyOnceAlone`, `IndexerCatchesUp` | 15 s |
| `auth` | 2 wallets, 1 operator, 4 of the client's calls, one of each kind (signature for a session, read, operator, draft), 2 requests at a time, 3 challenges, caps of 2 and 2, clock up to 3 | `OneGrantPerSignature`, `NobodyElseEvicted`, `SignInWorks` | 2.7 million, 1 min |
| `accounts` | 3 identities of 2 people, 1 browser, 2 requests, cap of 1 session, 3 sessions in all, 1 tick | `OneAccountPerAddress`, `SessionsBounded`, `JarHoldsLastLogin`, `LogoutEnds` | 3.8 million, 2 min |
| `web` | 2 wallets, 2 connections, 2 loads at a time, fairness | `SessionIsOurs`, `AskedIsAnswered` | 873 thousand, 1 min |
| `organizer` | 1 draft of 2 places, organizer's page, 1 acceptance at a time, 2 circles, 2 wallets, 1 overview at a time | `PlacesStayTheirs`, `ReportIsEarned` | 637 thousand, 30 s |
| `console` | 2 members, 3 transactions, the screen with any readings | `ConfirmedIsSettled`, `NothingSentAgain` | 5.1 million, 1 min |
| `demo` | 2 members, 2 circles, 10 transactions, 2 crashes, 1 donation, window of 1 block, fairness | `ProofsSeeTheRun`, `RunCompletes` | 1.2 million, 1-2 min |

*Why these bounds are enough to be interesting.* Two members and two rounds
already give a round that is paid while another is deficient, cures before and
after finalization, both orders of every race, a first round that opens another
and a last that does not. Two circles with different amounts make a liability
credited to the wrong place visible in every sum. Both cadence and grace are
one block, so the timestamps before, at and after each deadline are all
reached; deadlines of different rounds never interact. For drafts two requests
at a time give every pair of routes in every order, two places the race for the
last one and both payout orders, the second amount circles that are not the
draft's, and two circles on chain a search that has to pass one. Two passes, a
page of two and three events give a pass with a second page that another
overtakes, and one failure is what it takes between two writes. Two wallets
give every confusion of one for another; caps of two with three nonces fill the
session table and exceed it. Two identities of one address and one of another
are the merge, the race of two first logins, and somebody else on the same
browser; the cap of one session is exceeded by two logins at a time. Three
transactions of the pool are both contributions and one repeated; the demo's
ten are its whole plan with one of them sent again. With three accounts and two
places the prize pool is full while somebody is still outside, which is where a
deposit is offered and refused.

*Beside the runs.* `IwaPrizePage` is proved about, and its state space was searched
with two further configurations. `IwaPrizePage_stale.cfg`: one saver, the owner,
one place, one refresh at a time; `StaleOffers` holds in 1.6 million states
(2 min). One refresh still lets every transaction, and every change of the slot
but a new account, fall between two of its answers. Nobody has tokens, since the
page shows no amount and a deposit of nothing takes a place all the same; of the
slots that show nothing but a gate one of each kind is followed further, a
missing extension and the owner's account not at all, and rounds are locked
before the tick (`Followed`). `IwaPrizePage_accounts.cfg`: both accounts in the
extension and two refreshes, where `OwnerOnly` is refuted in ten seconds
(section 9).

*Reductions, all in the MC modules.* Blocks in which no deadline runs are left
out (`DeadlineRuns`): time is only compared with deadlines of pending
obligations. In `helper` contributions are signed with the nonce this client
takes (`ClientNonces`) and everything else with nonces in order
(`NoncesInOrder`; nonces are only compared for equality, and `circle_one` lets
them come in any order and again), circles are set up in one order (`SetupInOrder`; `circle_one`
interleaves it freely), only one member ever misses a deadline (`OnlyTardy`),
and only the token of the circles is donated (`OneTokenDonated`). In `organizer`
a poll is not under way while an overview is put together or shown
(`PollsApart`): each is only read, by another screen. Symmetry is declared where
nothing names an element and no liveness is checked: the requests and the two
logins of one person in `accounts`, the members in `console`. Deadlock checking is off where the system
really stops: a circle whose claims are all closed, a draft that has its circle
at the bound on circles, and everywhere else a bound (blocks, transactions,
sessions, connections) that has been used up. The prize pool never stops and is
checked for deadlock.

*Fairness.* `circle_one`: blocks come; `finalize_contribution_default`,
`finalize_round_payout_accounting` and `prepare_final_settlement` take no
signature, so whoever waits for them may call them, and a claimant signs and
submits their own claim. Nobody is assumed to join, contribute or cure, nor the
deployer to wire the helper. With a claimant who never signs `EveryClaimEnds`
fails, and with it the recoveries of the whole circle: that is limitation H-2 of
`SECURITY.md`, and the reason this fairness is an assumption about people and
not about code. `prize_pool`: blocks come, somebody who is not the owner calls
`draw` when it may be called, and participants call `withdrawAll` and `claim`.
Nothing is assumed of the owner, who may renounce at any moment. `drafts_one`:
the organizer asks for reconciliation again and again while there is no record,
each request ends, and a reconciliation that could be answered infinitely often
is answered once; the reports of `/created` may all be lost. The property asks
for a payout order that settles on that of a circle within `MAX_CIRCLE_SCAN`.
`indexer_passes`: the timer goes on and every call is answered or fails.
`web`: prompts and requests end, one way or the other, and React renders; nobody
has to press anything. `demo`: blocks come, what was sent is included, a process
goes on, somebody normalizes the helper's surplus, and the operator runs the
scripts that are left, as their README lists them.

## 8. Proofs

TLC checks the instances above; these theorems hold for any members, tokens,
addresses, savers, amounts, nonces, configurations, numbers of circles and
rounds, and any clock.
The assumptions are those named in `IwaCircle`: the deployer is an address, the
zero address and the zero member are neither, the bounds are natural numbers,
and the arguments of `create_circle` have the types of the code. For the prize
pool they are those of `PoolAssumption`: the types of the constants, that the
savers are finitely many, and that neither the pool nor the zero address is one.
For drafts they are those of
`DraftsAssumption`: 2 to 32 places, as the schema asks, finitely many people
(a payout order is a list of them), and a NULL that is no commitment. The helper has `HelperAssumption`: it is an address and the funds
are natural numbers; the circle's screen has `PageAssumption`: the token the client
pays with is a token, and the nonces reach as far as the rounds; the sessions have `CallsAssumption`: the calls a client
makes are among those the client has. The accounts have
`AccountsAssumption`: finitely many identities, each with finitely many emails,
at least one and finitely many requests at a time, no browser that is the NULL
of the tables, and a limit of at least one session. The indexer has
`IndexerAssumption`: batch and scan are at least one block and one circle, and a
page holds more than one event (100 in the code), without which two events of
one transaction could share a key. The tab, the console and the dashboard have
`WebAssumption`, `ConsoleAssumption` and `DashboardAssumption`: null is none of
the accounts, members or wallets. The demo has `DemoAssumption`: the proving
window is a number of blocks.

| theorem | statement |
| --- | --- |
| `TypeCorrect` | `Spec => [](TypeOK /\ ConfigsKept)` |
| `NoCureBehindClaimHolds` | `Spec => []NoCureBehindClaim` |
| `OneTurnEachHolds` | `Spec => []OneTurnEach` |
| `HistoryIsImmutable` | `Spec => HistoryImmutable` |
| `ClaimLifecycleHolds` | `Spec => ClaimLifecycle` |
| `RoundConservationHolds` | `Spec => []RoundConservation` |
| `ClaimsBackedHolds` | `Spec => []ClaimsBacked` |
| `OneRoundPerStepHolds` | `Spec => OneRoundPerStep` |
| `RoundsInOrderHolds` | `Spec => []RoundsInOrder` |
| `FinalizeNeverRefusedHolds` | `Spec => []FinalizeNeverRefused` |
| `ImplementsPotsHolds` | `Spec => ImplementsPots` |
| `TokenTotalsHolds` | `Spec => []TokenTotals` |
| `HelperImplementsCircle` (helper) | `HSpec => Spec` |
| `BooksAgreeHolds` (helper) | `HSpec => []BooksAgree` |
| `SolventHolds` (helper) | `HSpec => []Solvent` |
| `RecordsMatchTokensHolds` (helper) | `HSpec => RecordsMatchTokens` |
| `LedgersAgreeHolds` (helper) | `HSpec => []LedgersAgree` |
| `ClientToldHolds` (views of the client) | `Spec => []ClientTold` |
| `StandingOnlyGrowsHolds` (views of the client) | `Spec => StandingOnlyGrows` |
| `NeverStuckHolds` | `Spec => []NeverStuck` |
| `JoinTakenHolds` (circle page) | `Spec => []JoinTaken` |
| `ClaimTakenHolds` (circle page) | `HSpec => []ClaimTaken` |
| `NobodyRefusedHolds` (circle page) | `HSpec /\ [][ClientNonces]_allvars => []NobodyRefused` |
| `SeatsToldHolds` (circle page) | `Spec => []SeatsTold` |
| `SummaryToldHolds` (circle page) | `Spec => []SummaryTold` |
| `PoolTypeCorrect` (prize pool) | `Spec => []TypeOK` |
| `DrawIsFinalHolds` (prize pool) | `Spec => DrawIsFinal` |
| `PrizeForWinnerHolds` (prize pool) | `Spec => []PrizeForWinner` |
| `SolventHolds` (prize pool) | `Spec => []Solvent` |
| `NobodyPaysHolds` (prize pool) | `Spec => NobodyPays` |
| `FairDrawHolds` (prize pool) | `Spec => []FairDraw` |
| `OffersStandHolds` (views of the page) | `Spec => OffersStand` |
| `StaleOffersHold` (prize page) | `PageSpec => []StaleOffers` |
| `DraftsTypeCorrect` (drafts) | `Spec => []TypeOK` |
| `OnePlaceEachHolds` (drafts) | `Spec => []OnePlaceEach` |
| `ReadyWhenFullHolds` (drafts) | `Spec => []ReadyWhenFull` |
| `CreatedHoldsItsMembersHolds` (drafts) | `Spec => []CreatedHoldsItsMembers` |
| `PlaceKeptHolds` (drafts) | `Spec => PlaceKept` |
| `ImplementsMemoryStoreHolds` (drafts) | `Spec => ImplementsMemoryStore` |
| `OrgImplementsService` (organizer's page) | `OrgSpec => Spec` |
| `PlacesStayTheirsHolds` (organizer's page) | `OrgSpec => []PlacesStayTheirs` |
| `DashImplementsOrg` (dashboard) | `DashSpec => OrgSpec` |
| `ReportIsEarnedHolds` (dashboard) | `DashSpec => []ReportIsEarned` |
| `OneGrantPerSignatureHolds` (sessions) | `Spec => []OneGrantPerSignature` |
| `SessionTypesHold` (sessions) | `Spec => []TypeOK` |
| `NobodyElseEvictedHolds` (sessions) | `Spec => NobodyElseEvicted` |
| `SignInWorksHolds` (sessions) | `Spec => SignInWorks` |
| `TypesHold`, `TypeOKHolds` (accounts) | `Spec => [](TypeInv /\ PlainUsers)`, `Spec => []TypeOK` |
| `OneAccountPerAddressHolds` (accounts) | `Spec => []OneAccountPerAddress` |
| `SessionsBoundedHolds` (accounts) | `Spec => []SessionsBounded` |
| `JarHoldsLastLoginHolds` (accounts) | `Spec => []JarHoldsLastLogin` |
| `LogoutEndsHolds` (accounts) | `Spec => LogoutEnds` |
| `ExactlyOnceHolds` (indexer) | `Spec => []ExactlyOnceAlone` |
| `ConfirmedIsSettledHolds` (console) | `ConsoleSpec => []ConfirmedIsSettled` |
| `NothingSentAgainHolds` (console) | `ConsoleSpec => NothingSentAgain` |
| `SessionIsOursHolds` (tab) | `WebSpec => []SessionIsOurs` |
| `ProofsSeeTheRunHolds` (demo) | `Spec => []ProofsSeeTheRun` |

*The argument.* For the circle, inductive invariants, each on top of the one
before.

1. `TypeInv` = `TypeOK` and `ConfigsKept`: what `create_circle` accepted stays
   true of a circle for ever (a valid payout order, a supported token, a pot
   within u128). One lemma per entry point.
2. `ClaimsInv` adds `Counted`, `ClaimRecords` (a claim belongs to a decided
   round of an existing circle, to the member of its slot, for the whole pot)
   and `NoCureBehindClaim`. Its steps go through `StepFacts`, what any single
   step may do: circles keep their configuration, an obligation only goes from
   absent to pending to decided, the sets of cures and closed windows grow, a
   claim moves along one edge of its lifecycle under that edge's guard. Every
   entry point is shown to make only such steps, and the invariant and the two
   action theorems follow from them without looking at entry points again.
3. `MoneyInv` adds that obligations belong to members, cures to defaults, whole
   claims to rounds without a deficit (`WholeClaims`), the fixed recovery
   amounts, and conservation round by round. `LedgerSteps` says what a step may
   do to one round's ledger: nothing, the credit of one member who was not
   funded before, or the debit of all it holds with the close of its claim.
   That a cure can only arrive while the claim is open is `NoCureBehindClaim`;
   that a payout debits *all* of the ledger is conservation itself together
   with `WholeClaims`: a claim that is Scheduled or authorized has no deficit,
   so every member is funded and the ledger holds the pot. Neither conservation
   nor backing is inductive alone, which is why they are proved together.
4. `RoundsInv` says of every circle that it is `Ordered`: nothing is recorded of
   one that is filling up (`Waiting`), a current round lies between 1 and the
   limit (`Counting`), claims exist for the rounds before it and obligations for
   the rounds up to it (`InOrder`), and none is undecided in final settlement
   (`AllSettling`). `RoundStep` names what a step may do to it: create, activate,
   advance, complete, prepare, or nothing. `RoundsInOrder` follows with
   `ClaimRecords`. `FinalizeNeverRefused` needs all four: in a decided round the
   members divide into funded and unresolved (`PotSplit`), so conservation says
   that the ledger is the pot less the deficit, and `InOrder` says that the next
   round is fresh and its members have joined. `NeverStuck` contains it and adds `PreparedOnce`,
   that the final settlement was prepared of a circle which has left Active for
   it. As long as one is Active, its current round has somebody pending, or is
   undecided with nobody pending and may be finalized, or is the last one with
   its claim made (`OpenRoundHolds`); then, if no claim may be authorized, the
   final settlement may be prepared, and its consistency asserts are conservation
   again. After it every round has a claim (`AllClaimed`), each of them
   authorized, waiting for its recovery, paid, or closed with an empty ledger
   (`RecoveryFixed`).
5. For `ImplementsPots` two facts are added, that a circle and a claim which are
   not there read as empty (`Unfounded`, `Unowned`). Creation is `Found`, a
   contribution or a cure `PutIn`, finalization `Assign` (slots differ, so nobody
   owns two pots), payout and recovery `Take`, the final settlement `GiveUp` (a
   claim it closes has an empty ledger, by `RecoveryFixed`); all else stutters.

The helper's proof first shows that each step of `HSpec` is one of the circle or
leaves it alone: the amounts it passes are those of the circle (`Priced`), and
its caller is the helper. `BooksAgree` is inductive with the circle's ledger: the
two books are changed by the same amount in the same step, also when the circle
reads its own. An inbound settlement is accepted only if the balance is exactly
what the books say plus the amount, and an outbound one debits what it sends;
`Solvent` and the matching of records follow. `LedgersAgree` adds to it that the
total of a token is the sum of its rounds.

`ClientTold` compares what the client derives from its reads with what the
contract does. It needs `SeatsInv` beside `MoneyInv` and `RoundsInv`: as many
members have joined as the count says, of whom an open circle lacks one at least
and a circle that has begun none (`Seated`); a claim is locked only if a member
of its round defaulted, and past its recovery only in final settlement
(`Locked`); and the two deadlines of an obligation are in order (`InWindows`). For `StandingOnlyGrows` a
step decides one obligation at most, a decided one belongs to a round that has
begun, and the round advances by one at most; so no count of a member's record
falls, and the rounds it is taken over are never fewer.

What the pool, the helper and the circle contract assert of a call is listed once
for each call (`JoinAsserts`, `ContributionAsserts` and so on, `Passes` for a whole
pool transaction), and `NobodyRefused` says of five situations that nothing in
the list fails. That the lists are complete is `AssertsAreAll`, which TLC checks.

* `JoinTaken`: the screen offers to join exactly to those whose call passes. The
  members that joined are counted (`Seated`), so that the last free place is the
  one of the only member who is missing (`LastPlace`), and nothing is recorded of
  the first round of a circle that fills up (`Waiting`).
* `PaymentTaken`: who may still pay finds the control, and the transaction sent
  then passes, once the helper is wired, if the pool holds the amount and there
  is no surplus in the token (`Funds`; a donation does block settlements until it
  is normalized). What arrived is then exactly what was withdrawn (`Solvent`). The nonce is
  the number of the round. That it is fresh needs `NoncesSpent`, which is
  inductive if contributions are signed with this client: a nonce spent on
  contributions is the number of a round that member has paid.
* `ClaimTaken`: a claim that may be settled, or a recovery, is the whole ledger of
  its round (`ClaimsBacked`), the helper's book of the round is that ledger
  (`BooksAgree`), the book of a token holds each of its rounds (`TokenTotals`, as
  a sum), and the tokens cover it (`Solvent`). The helper accepts its caller
  because money is behind a round only once the helper is wired (`Wired`).
* `SeatsTold`: a payout order has no repetition, and the seat the screen counts
  modulo the size is the current round because that is at most the size
  (`RoundsInOrder`).
* `SummaryTold`: an obligation that was never recorded reads as empty (`Blank`),
  so the screen finds one exactly when the round has begun; and what is in a
  state that calls for attention has been recorded.

Only `PaymentTaken` needs the hypothesis `ClientNonces`, that whoever signs a
contribution takes the nonce this client takes. The contract accepts any nonce
a member did not use: one who signed by other means for round 1 with the number
of round 2 would find the client refuse round 2. The parts about the circle
alone hold behind the helper by `HelperImplementsCircle`.

*Sums.* The totals of the contracts are sums over sets, which the models write
with `MapThenSumSet`. `SumTheorems` proves from the definition of the fold what
such a sum is when one term changes, when a set grows, when terms are zero or
when it is taken over a part. It cannot cite an induction theorem, whose
parameter is an operator; it takes a minimal counterexample instead, which
exists because strict inclusion of finite sets is well founded. On top of it,
`TokenTotals` says that each token's liability is the sum over the rounds of the
circles that use it (a step changes one term, by as much: `OneRoundPerStep`), and
`LedgersAgree` follows.

For the prize pool `TypeOK` is inductive, by one lemma per function: the safe
additions and subtractions stay in 64 bits whatever they are given, and a
transfer moves no more than there is. With it `PrizeForWinner` is inductive:
its second part says that nothing is claimed before the round is claimable, so
after a claim no deposit, funding or draw is possible and only claims touch the
reserve; the winner's takes all of it, everybody else's nothing. `Solvent` is
inductive with `Conserved`: all balances together are what they were in the
beginning, which is less than 2^64. So no addition of a credit or of the total
ever overflows, and the amounts that move are those that are written down;
without this a deposit could arrive and not be credited. `NobodyPays` then looks
at one step, in which no transfer out falls short. For `FairDraw` the running
sums of the weights (`lower`) cut the tickets into intervals, one per
participant, whose lengths are the credits; whoever has a credit is a
participant (`Registered`), once, so the lengths add up to the total, which the
limit of the pool keeps among the tickets (`WithinCap`).

The first part of `OffersStand`, on a fresh reading, follows from the types, once
the buttons are written out (`ButtonsOf`). The second rests on how the contract
ages (`PoolAges`): rounds go one way, savers and claims are only added, and
nobody joins a full pool or a round that was locked. For `StaleOffers` the pieces
are of different moments: what was read of each still says something in every
later state (`Stands`, `StandsOn`), and in what order they were read matters: that somebody is no participant must have been read
after the round, or a saver who joined in between would be told of a drawn round
that they have no claim in it. This is `before`, and all the proof uses of it
(`ReadStands`). What the slot may become by the events of the extension is
`SlotStaysSound`; connecting may leave it otherwise (section 9).

For drafts the invariant `DraftsInv` adds to the four that are stated what the
requests under way know: `PlacesHeld`, that an acceptance has a free place to
itself (the row lock), `ListsOfAll`, that the list a report or a search expects
is one of exactly the people in the draft, all of its places being taken, and
`Unheld`, that a draft that is not there has no holders. `ListsOfAll` is why
`CreatedHoldsItsMembers` survives a stale read: places are never given up, so of
a list that was complete only the order can be out of date.

That the drafts implement `MemoryDrafts` is shown action by action: reading,
beginning and giving up a request are stutters, and every action that writes is
the operation of the store with the same name, for the draft and place it was
begun for. What the mapping needs beside `DraftsInv` is `StoreInv`: a draft
that is not there yet has its places in the order of the schema, and a request
to reorder is about a draft that is there.

The organizer's page adds steps of its own, and its requests are the service's
(`OrgImplementsService`). `OrgInv` adds to `DraftsInv` what the page may hold: a
view of the draft in which every place is free or its holder's (`PageOK`, and
`PollOK` for an answer under way), which stays true because a place that was
taken is never given up; that the circles it created are of the people in the
draft (`CirclesOfDraft`); and what it last asked for (`AskedOK`). The operator's
dashboard is above it (`DashImplementsOrg`). `DashInv` compares what its three
queries have answered with the tables: each counts what never becomes less, in
an order that is fixed (drafts, places, circles), so that an answer is at most
what is there now; and the circle of a draft that was counted as created is not
among those counted later as circles no draft belongs to.

For signatures the invariant follows a challenge through its life: one that is
outstanding has been signed for and not used (`ChallengesFresh`); one that a
request has consumed is no longer outstanding and no other request has it
(`RequestFresh`); what was granted is what was signed, and every session that is
kept goes back to a grant. Two requests with one signature both look the
challenge up, and only one deletes it.

`NobodyElseEvicted` and `SignInWorks` rest on the two caps (`CapsHold`) and on
what `trimFor` leaves of a wallet's sessions (`Trimmed`): fewer than its cap,
because all but the oldest of what is kept are newer than that one; and all of
them unless the wallet was at its cap. A wallet at its cap has exactly as many,
so what is dropped is the oldest, and as it is dropped the process has room: the
sign-in that dropped it cannot be refused.

For accounts `TypeInv` and `PlainUsers` are inductive together: the rows of the
two tables are numbered without a gap, an email has one user, and the user of an
identity that comes with one unambiguous address (`Plain`) has this address and
no identity with another. `OneAccountPerAddress` follows.
`JarHoldsLastLogin` needs `Documents`, about the requests under way: each
belongs to the state of the page that waits for it, at most one login or
recovery of a browser is under way, and a login past its first look leaves
nothing alive in the jar. `SessionsBounded` needs `Attributed`: the open sessions
of a user can be put down to handlers such that only the oldest, fewer than
the limit, are put down to one that made a later session. Each insert revokes
what its handler saw above the limit, and handlers that did not see each other
are different ones: so there is at most one session for each handler over the
limit less one. `LogoutEnds` is in what a reply says (`ReplyAt`): a logout that
was carried out found its session dead or revoked it, one that was refused on
one host had no cookie, and no step takes a revocation back (`SessionsKeep`).

For the indexer, `IndexerInv` says what is in the table as long as no two passes
have overlapped. A key is a transaction and a place on a page, so that it is not
unique in itself: it is the key of one event only because a transaction emits
two consecutive events at most, which have different places on a page of more
than one (`NextPlaceDiffers`). Rows past the cursor were left by a pass that
failed, and are numbered as the next one numbers them, since it starts from the
same block; so what they hold is inserted again to no effect. No row is of a
block after the one the pass reads to, and every event of its range has its row
or is still to be recorded.

For a tab, `WebInv` follows the awaits of `sessionHolder.ts`: a sign-in under way
is of the wallet that reads go out for, or of an era that is over (`SignInOK`);
so is the session held (`TokenOK`); and of each load, what it waits for is the
sign-in of its own signer or one whose era is over, what it signs has no session
yet, and what it reads with is its signer's (`LoadOK`). A change of wallet moves the era and
drops the session in one step, which is why no await in between can join the
session of one wallet to the read of another.

For the console, `ConsoleInv` has three parts. The circle settles a member once
and by one transaction (`ChainOK`); a record is kept under a hash, and if it
names a member the transaction was sent for this member, whether it was sent
here or recovered from the chain, while the label of the shield says nothing
of what it was sent for (`RecordsOK`); and an operation that has read a pending
obligation again is not about one that had settled when the button was pressed
(`OpOK`), since nothing unsettles an obligation. The second part is what makes a
verdict worth something: verifying asks about the hash and not about the label.

For the demo, `DemoInv` holds while no script has died. All that the account
sent before the transaction a script waits for is done, every pool transaction
among it is in `run-state.json` and in the snapshot `00_prepare` will write back,
and the base of a proof is a block that has all of them: the wait is for the
latest recorded one, which is the youngest (`BasesOK`). Once a script has died
between sending and recording this is false, as section 9 says.

*Only model-checked.* Liveness: `EveryClaimEnds`, `RoundEnds`,
`CreationIsRecovered`, `IndexerCatchesUp`, `AskedIsAnswered` and `RunCompletes`. That
steps are enabled at all: ENABLED is out of the prover's reach. Where it matters
it is stated as safety, and proved: `NeverStuck` says
that the guards hold, `NobodyRefused` that the listed asserts do. That
these asserts are all there are, so that a call which passes them executes to its
end, is `AssertsAreAll`, which uses ENABLED and is checked in `helper`. Every
other property of a run is a theorem above.

Some theorems are about properties that no run lists any more, having been
checked and then proved: `TypeCorrect`, `OneTurnEachHolds`,
`ClaimLifecycleHolds`, `OneRoundPerStepHolds`, `RoundsInOrderHolds`, `PoolTypeCorrect`,
`DrawIsFinalHolds`, `PrizeForWinnerHolds`, `DraftsTypeCorrect`,
`ReadyWhenFullHolds`, `PlaceKeptHolds`, `SessionTypesHold` and `TypeOKHolds`. The runs are kept for
what the proofs do not say. `HelperImplementsCircle`, `BooksAgreeHolds`,
`TokenTotalsHolds` and `TypesHold` were proved directly, as the lemmas that carry
properties which the runs do check. `JoinTakenHolds`, `ClaimTakenHolds`,
`SeatsToldHolds` and `SummaryToldHolds` are parts of `NobodyRefused`,
and `FinalizeNeverRefusedHolds` is one of `NeverStuck`.

## 9. Where the code and its documents disagree

The second circle of a draft has a run. For the others the statement of the
document is kept as a definition in the module named in parentheses, and TLC
refutes it when it is added to the configuration named with it.

*Contracts.*

* **A recipient who owes is paid** (`RecipientWithDeficitLocked`, `MCIwaCircle`,
  `circle_one`). ARCHITECTURE.md:435 and PROJECT.md:188 lock the payout of a
  recipient with an unresolved deficit. The code locks a claim by the deficit
  of its own round, whoever owes it (`iwa_circle.cairo:683-700`); a member who
  defaulted in round 1 gets the full pot of round 2.
* **A donation funds a contribution** (`DonationNeverFunds`, `IwaStrk20Helper`,
  `helper`). SECURITY.md:1284 says it never can. The helper compares balances,
  so a donation of the right size stands in for the withdrawal (and otherwise
  blocks settlements until it is normalized). Nobody loses: the books stay
  covered.
* `create_circle` refuses circles that could not pay out (`iwa_circle.cairo:289`)
  by bounding the pot, but not cadence and grace, so that the deadlines of a
  later round may not fit u64.
* **A prize nobody won has no next round** (`PrizeRollsOver`,
  `MCIwaPrizeSavings`, `prize_pool`). README and decision.md of the prize pool,
  and the page (PrizeSavingsView.tsx:484-487), say it rolls over. Claimable is
  terminal, and no function moves the reserve except a winner's claim.

*Drafts.*

* **A created draft can be pointed at another circle** (`CircleKept`, the run
  `drafts_repoint`). app.ts:1013 and a test refuse it; the refusal looks at a
  draft read before the chain was asked, and the write is unconditional. It
  takes two circles of the same people in the same order.
* **Two drafts may be recorded with one circle** (`OneDraftPerCircle`,
  `IwaDrafts`, `drafts_one` with two drafts). chainVerify.ts:11 takes a matching
  order for proof that the circle is this draft's. A wallet has one commitment
  for all circles, so a second draft of the same people in the same order
  matches the circle of the first.
* `/order` looks at a draft read before its caller was authenticated, so that a
  reordering may be carried out after the circle is recorded (app.ts:985-988),
  and the draft then shows another order than its circle.
* **The organizer's page can create a second circle** (`NoSecondCircle`,
  `IwaOrganizer`, `organizer`): "neither needed nor possible"
  (OrganizerCircleView.tsx:563). The id of the first is only in the page; after
  a reload, or a report that failed, "Create circle" is offered again, and
  "Finish setting up" cannot be reached, since the page turns to the circle in
  the same step in which it would remember it. The search for a circle that
  exists runs only when the wallet connects.
* **A draft that is filled may not be startable from the page**
  (`FilledCanBeCreated`; draftOrder.ts:33), when the page has an acceptance
  from a poll and not its holder; and **the order that was saved need not be
  the circle's** (`SavedOrderIsCreated`), when a save that was reported as
  failed had happened.

*Service.*

* **An event can be lost** (`NothingLost`, `IwaIndexer`, `indexer_passes`).
  index.ts:84-85 relies on the cursor not having advanced; with two overlapping
  passes the other one advances it. Also `listEventsForCircle` orders by block
  and `event_index`, which begins again with each page of 100 (events.ts:258,
  pgStore.ts:413).
* **A logout may end nothing** (`ShownOutIsOut`, `IwaAccounts`,
  `accounts` with `SameHost = FALSE`). When page and API have different hosts, as in
  iwa-web/vercel.json, the CSRF cookie cannot be read, and a logout shows
  somebody out while the session lives on (ARCHITECTURE.md:579, STATUS.md:34);
  the `finally` of `logout` hides other failures alike
  (IwaAuthProvider.tsx:53-69). An email that changes at the provider can lock an
  identity out (pgStore.ts:553). A touch that races with expiry prolongs a
  session that had ended by the clock.
* **A report is shown to a wallet that did not sign for it** (`ReportIsOurs`,
  `IwaDashboard`, `organizer`): AdminView.tsx:109-110 against 82-122; a late
  refusal for one wallet is shown to an operator as well. **The acceptance rate
  may exceed one hundred percent** (`RateIsOfTheWhole`): its two figures come
  from two queries. "Each one is finished by its own organizer" is said of
  circles that no draft belongs to.

*Client.*

* *Views.* "Overdue" says "Contribute now" (roundState.ts:209-211) for an
  obligation past its grace period, which the contract refuses. The timeline
  says "Everyone has collected" for a circle in final settlement with unpaid
  claims. A payout is shown as held, and a missed contribution as a shortfall to
  pay, after the cure. The organizer's attention list looks at the previous
  round only. The circle page offers Contribute to anybody who has not paid,
  ignores whether the answer was a failure (CircleView.tsx:531-534), always says
  "on time", and pays in USDC whatever the circle's asset.
* *Tab.* **An identity may be the previous wallet's** (`IdentityIsOurs`,
  `IwaWeb`, `web`; WalletProvider.tsx:227) and **what was loaded may show under
  another wallet** (`NothingStaleShows`; HomeView.tsx:165): the answers of reads
  begun before a change are not checked when they come. The first read after
  connecting discards a fresh token. `watchWallet` is subscribed when nothing is
  connected, and never again. The home screen loads, and may prompt, without
  being asked (homeActions.ts:3-4).
* *Console.* **"3 / 3 confirmed" for a run that is not done** (`DoneIsDone`,
  `IwaConsole`, `console`; Strk20ConsoleView.tsx:1318-1320). After one
  contribution settled the gate still asks for the fees and the pot of the whole
  plan, so that exact funding closes it (contributionGate.ts:94-96). **A
  contribution passes for the shield** (`ShieldIsShield`,
  `console`): publicReads.ts:521-538 asks for a USDC event that names the
  pool, and a contribution has one, of the USDC that leaves it; it is recorded
  under the label of the shield, and Recover, which drops a hash it knows, then
  adds nothing for its member. The hash of
  a reverted retry hides Recover. A wrong shield block makes a settled
  contribution read as not settled. A rejected import replaces an accepted one.
  Disconnecting does not stop what is under way.
* *Prize page.* **Somebody else may see the owner's controls** (`OwnerOnly`,
  `IwaPrizePage`, `IwaPrizePage_accounts.cfg`; flow.ts:160): a refresh shows what
  it read for an account that is no longer connected (PrizeSavingsView.tsx:74-94),
  and hides that the reading of the new one failed. The contract refuses what
  they send. **Drawing is offered to the owner only** (`DrawIsOffered`,
  `IwaPrizeViews`, `prize_pool`; flow.ts:105), though anybody may draw after the
  timeout. A deposit is offered when the pool is full, beside a count of the
  places that may be old, or without the operator's permission, beside the
  button that asks for it, and a permission that has expired shows as given until the next
  reading. Connecting may leave the slot connected with no account, or on a
  network it left after the check (WalletProvider.tsx:157-164). A balance
  revealed for one account stays after the account changes.

*Demo scripts.* `00_prepare` writes back the state it read at its start and
loses the hash recorded in between (`EverySubmittedRecorded`, `IwaDemo`,
`demo`; 00_prepare.mjs:105-106), and refuses to go on after being cut off while
members join. `06_payout`, cut off after finalization, looks at the wrong round
(`InterruptedRunCompletes`; 06_payout.mjs:69-78). `07_verify` asks for a pool
event in transactions that have none and never passes (`GoodRunVerifies`;
07_verify.mjs:61,96). After a crash between sending and recording, the next
proof is refused until enough blocks have passed (run.mjs:276-287). Run again,
`04_deposit` deposits twice if the account has the money.

## 10. Not modelled

* *Privacy*: proofs, notes, viewing keys, ciphertext access lists, and everything
  else about who can see what. The models are about what happens.
* *The privacy pool, the tokens, the FHE library, the wallets and the login
  provider*, except as their callers use them.
* *Rate limits, configuration, migrations and the start of the service*: they
  refuse or run once.
* *Of the drafts service* validation, invite tokens and receipts; *of the
  accounts* the sending of email codes; *of the client* wallet discovery,
  sessions of WalletConnect, landing pages, styles, the page on which an invite
  is accepted (its request is the drafts model's), and the balances the prize
  page reveals. Cures and recoveries have no control in the client.
* *The Soroban contract* is separate from the product. *The proof system* is
  arithmetic without state. *Deployment scripts* run once, in one order, and
  what they leave is the initial state.

## 11. Plan

Done: what section 2 lists. Left, in this order:

1. The page that accepts an invite.
2. The Soroban savings contract.
