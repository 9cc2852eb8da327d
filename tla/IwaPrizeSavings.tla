--------------------------- MODULE IwaPrizeSavings ---------------------------
(***************************************************************************)
(* The confidential prize-savings pool,                                    *)
(* zama-prize-savings/contracts/IwaPrizeSavings.sol.                       *)
(*                                                                         *)
(* Savers deposit a confidential token (an external ERC-7984) into one     *)
(* pool and may take it out at any time; the owner funds a prize and locks *)
(* the round; a draw selects one participant with a chance proportional to *)
(* what is left of their deposit; the winner's claim credits the prize.    *)
(*                                                                         *)
(* Every amount below is the plaintext of a ciphertext.  The contract can  *)
(* not branch on it: a condition on an amount never reverts, it selects    *)
(* one of two values.  A storage handle that was never written reads 0.    *)
(***************************************************************************)
EXTENDS Naturals, Sequences, FiniteSets, FiniteSetsExt, Functions

CONSTANTS
  Accounts,          \* wallets
  Pool,              \* the account of the contract itself
  Nobody,            \* the zero address, owner after renounceOwnership
  Deployer,
  InitialBalance,    \* confidential tokens each wallet starts with
  Requests,          \* encrypted amounts a caller may submit
  MAX_PARTICIPANTS,
  MAX_POOL_TOTAL,
  DRAW_TIMEOUT,
  U64_MAX,
  MaxTime            \* bound: last block timestamp

\* An address has 160 bits.
ASSUME PoolAssumption ==
  /\ IsFiniteSet(Accounts)
  /\ Deployer \in Accounts
  /\ Pool \notin Accounts
  /\ Nobody \notin Accounts
  /\ InitialBalance \in [Accounts -> Nat]
  /\ Requests \subseteq Nat
  /\ MAX_PARTICIPANTS \in Nat
  /\ MAX_POOL_TOTAL \in Nat
  /\ DRAW_TIMEOUT \in Nat
  /\ U64_MAX \in Nat
  /\ MaxTime \in Nat

\* The token's supply is a u64, so no sum of balances exceeds it.
ASSUME SupplyAssumption ==
  MapThenSumSet(LAMBDA u : InitialBalance[u], Accounts) <= U64_MAX

VARIABLES
  now,
  balance,            \* of the token, wallets and the pool
  owner,
  roundState,
  lockTimestamp,
  participants,       \* in order of registration
  claimed,            \* set of accounts
  credited,           \* by account
  confidentialTotal,
  prizeReserve,
  drawTicket,
  winnerIndex

round == <<roundState, lockTimestamp, drawTicket, winnerIndex>>
books == <<credited, confidentialTotal, prizeReserve>>
vars  == <<now, balance, owner, round, participants, claimed, books>>

RoundState == {"Open", "Locked", "Drawn", "Claimable"}

\* A position of participants, or 0: the code counts from 0 and keeps 65535
\* for a draw that selects nobody.
NO_WINNER == 0

-----------------------------------------------------------------------------
(* FHE arithmetic and the token *)

\* FHESafeMath: 0 instead of a result that does not fit.
tryAdd(a, b) == IF a + b <= U64_MAX THEN a + b ELSE 0
trySub(a, b) == IF b <= a THEN a - b ELSE 0

FHE_min(a, b) == IF a <= b THEN a ELSE b

\* A confidential transfer moves all that is asked or nothing, and returns
\* what it moved.
Actual(from, amount) == IF amount <= balance[from] THEN amount ELSE 0

Transfer(from, to, amount) ==
  balance' = [balance EXCEPT ![from] = @ - amount, ![to] = @ + amount]

-----------------------------------------------------------------------------
(* The draw *)

\* Variants named ..._bug_... are not part of the specification: each is what
\* the definition after it would be with a plausible mistake, kept to show that
\* the properties notice it.

\* What each participant has in the pool at this moment, in their order.
weights == [j \in DOMAIN participants |-> credited[participants[j]]]

\* Where the interval of participant i begins in the cumulative walk.
lower_bug_skip(i) == MapThenSumSet(LAMBDA j : weights[j], 2..(i - 1))

lower(i) == MapThenSumSet(LAMBDA j : weights[j], 1..(i - 1))

\* lower <= ticket < lower + weight, over the balances of this moment.
InRange(i, ticket) ==
  /\ lower(i) <= ticket
  /\ ticket < lower(i) + weights[i]

\* The walk keeps the last participant in range, or nobody.
Selected(i, ticket) ==
  \/ i = NO_WINNER /\ \A j \in DOMAIN participants : ~InRange(j, ticket)
  \/ /\ i \in DOMAIN participants
     /\ InRange(i, ticket)
     /\ \A j \in DOMAIN participants : j > i => ~InRange(j, ticket)

-----------------------------------------------------------------------------
(* Initial state *)

Init ==
  /\ now = 0
  /\ balance = [x \in Accounts \cup {Pool} |-> IF x = Pool THEN 0 ELSE InitialBalance[x]]
  /\ owner = Deployer
  /\ roundState = "Open"
  /\ lockTimestamp = 0
  /\ participants = << >>
  /\ claimed = {}
  /\ credited = [u \in Accounts |-> 0]
  /\ confidentialTotal = 0
  /\ prizeReserve = 0
  /\ drawTicket = 0
  /\ winnerIndex = NO_WINNER

-----------------------------------------------------------------------------
(* Transactions *)

Tick ==
  /\ now < MaxTime
  /\ now' = now + 1
  /\ UNCHANGED <<balance, owner, round, participants, claimed, books>>

\* Registered once, on the first request, whatever it transfers.
_registerParticipant(u) ==
  \/ u \in Range(participants) /\ UNCHANGED participants
  \/ /\ u \notin Range(participants)
     /\ Len(participants) < MAX_PARTICIPANTS
     /\ participants' = Append(participants, u)

\* What a deposit may pull: never more than the pool has room for.
toPull(requested) == FHE_min(requested, trySub(MAX_POOL_TOTAL, confidentialTotal))

deposit(u, requested) ==
  LET actual == Actual(u, toPull(requested))
  IN  /\ roundState = "Open"
      /\ _registerParticipant(u)
      /\ Transfer(u, Pool, actual)
      /\ credited' = [credited EXCEPT ![u] = tryAdd(@, actual)]
      /\ confidentialTotal' = tryAdd(confidentialTotal, actual)
      /\ UNCHANGED <<now, owner, round, claimed, prizeReserve>>

lockRound(u) ==
  /\ u = owner
  /\ roundState = "Open"
  /\ roundState' = "Locked"
  /\ lockTimestamp' = now
  /\ UNCHANGED <<now, balance, owner, drawTicket, winnerIndex, participants, claimed, books>>

fundPrize(u, requested) ==
  LET actual == Actual(u, requested)
  IN  /\ u = owner
      /\ roundState = "Open"
      /\ Transfer(u, Pool, actual)
      /\ prizeReserve' = tryAdd(prizeReserve, actual)
      /\ UNCHANGED <<now, owner, round, participants, claimed, credited, confidentialTotal>>

\* The part withdraw and withdrawAll share: only what moved is debited.
PayOut_bug_total(u, toSend) ==
  LET actual == Actual(Pool, toSend)
  IN  /\ Transfer(Pool, u, actual)
      /\ credited' = [credited EXCEPT ![u] = trySub(@, actual)]
      /\ UNCHANGED <<now, owner, round, participants, claimed, prizeReserve, confidentialTotal>>

PayOut(u, toSend) ==
  LET actual == Actual(Pool, toSend)
  IN  /\ Transfer(Pool, u, actual)
      /\ credited' = [credited EXCEPT ![u] = trySub(@, actual)]
      /\ confidentialTotal' = trySub(confidentialTotal, actual)
      /\ UNCHANGED <<now, owner, round, participants, claimed, prizeReserve>>

\* Both return early for a wallet that never deposited; so do these, as
\* nothing is credited to it.
withdraw(u, requested) == PayOut(u, FHE_min(requested, credited[u]))

withdrawAll(u) == PayOut(u, credited[u])

MayDraw_bug_owner(u) == u = owner

MayDraw(u) == u = owner \/ now >= lockTimestamp + DRAW_TIMEOUT

draw(u, ticket) ==
  /\ roundState = "Locked"
  /\ MayDraw(u)
  /\ winnerIndex' \in {i \in {NO_WINNER} \cup DOMAIN participants : Selected(i, ticket)}
  /\ drawTicket' = ticket
  /\ roundState' = "Drawn"
  /\ UNCHANGED <<now, balance, owner, lockTimestamp, participants, claimed, books>>

\* The share of the reserve a claim credits.
payout_bug_all(u) == prizeReserve

payout(u) ==
  IF winnerIndex # NO_WINNER /\ participants[winnerIndex] = u THEN prizeReserve ELSE 0

MayClaim(u) ==
  roundState \in {"Drawn", "Claimable"} /\ u \in Range(participants) /\ u \notin claimed

claim_bug_reopen(u) ==
  /\ MayClaim(u)
  /\ claimed' = claimed \cup {u}
  /\ credited' = [credited EXCEPT ![u] = tryAdd(@, payout(u))]
  /\ prizeReserve' = trySub(prizeReserve, payout(u))
  /\ confidentialTotal' = tryAdd(confidentialTotal, payout(u))
  /\ roundState' = IF prizeReserve' = 0 THEN "Open" ELSE "Claimable"
  /\ UNCHANGED <<now, balance, owner, lockTimestamp, drawTicket, winnerIndex, participants>>

claim(u) ==
  /\ MayClaim(u)
  /\ roundState' = "Claimable"
  /\ claimed' = claimed \cup {u}
  /\ credited' = [credited EXCEPT ![u] = tryAdd(@, payout(u))]
  /\ prizeReserve' = trySub(prizeReserve, payout(u))
  /\ confidentialTotal' = tryAdd(confidentialTotal, payout(u))
  /\ UNCHANGED <<now, balance, owner, lockTimestamp, drawTicket, winnerIndex, participants>>

\* Inherited from Ownable: transferOwnership and renounceOwnership.
transferOwnership(u, new) ==
  /\ u = owner
  /\ owner' = new
  /\ UNCHANGED <<now, balance, round, participants, claimed, books>>

\* Anyone may send tokens to the pool's account.
donate(u, amount) ==
  /\ Transfer(u, Pool, Actual(u, amount))
  /\ UNCHANGED <<now, owner, round, participants, claimed, books>>

Next ==
  \/ Tick
  \/ \E u \in Accounts :
       \/ lockRound(u)
       \/ withdrawAll(u)
       \/ claim(u)
       \/ \E ticket \in 0..(MAX_POOL_TOTAL - 1) : draw(u, ticket)
       \/ \E new \in Accounts \cup {Nobody} : transferOwnership(u, new)
       \/ \E amount \in Requests :
            \/ deposit(u, amount)
            \/ fundPrize(u, amount)
            \/ withdraw(u, amount)
            \/ donate(u, amount)

Spec == Init /\ [][Next]_vars

-----------------------------------------------------------------------------
(* Safety *)

\* Every variable stays in the type the contract declares.
TypeOK ==
  /\ now \in Nat
  /\ balance \in [Accounts \cup {Pool} -> Nat]
  /\ owner \in Accounts \cup {Nobody}
  /\ roundState \in RoundState
  /\ lockTimestamp \in Nat
  /\ participants \in Seq(Accounts)
  /\ IsInjective(participants)
  /\ Len(participants) <= MAX_PARTICIPANTS
  /\ claimed \subseteq Range(participants)
  /\ credited \in [Accounts -> 0..U64_MAX]
  /\ confidentialTotal \in 0..U64_MAX
  /\ prizeReserve \in 0..U64_MAX
  /\ drawTicket \in Nat
  /\ winnerIndex \in {NO_WINNER} \cup DOMAIN participants

\* README.md "Solvency invariant, verified at every checkpoint": the pool holds
\* what it owes, so no transfer out ever falls short and returns 0.  And the
\* total is the sum of the credits (decision.md, option A), which the draw and
\* the headroom of deposits rely on.  No wrapped or failed-closed arithmetic
\* ever breaks either: five operations write these four places.
Solvent ==
  /\ confidentialTotal = MapThenSumSet(LAMBDA u : credited[u], Accounts)
  /\ confidentialTotal + prizeReserve <= balance[Pool]

\* README.md "weighted draw": over the tickets that can be drawn now, each
\* participant is selected by exactly as many as they have units in the pool,
\* and nobody by the rest, whoever withdrew since the lock.
FairDraw ==
  roundState = "Locked" =>
    LET Tickets(i) == {t \in 0..(MAX_POOL_TOTAL - 1) : Selected(i, t)}
    IN  /\ \A i \in DOMAIN participants :
             Cardinality(Tickets(i)) = credited[participants[i]]
        /\ Cardinality(Tickets(NO_WINNER)) = MAX_POOL_TOTAL - confidentialTotal

\* A winner that has claimed leaves nothing behind; everyone else's claim
\* leaves the prize to the winner.
PrizeForWinner ==
  /\ winnerIndex # NO_WINNER /\ participants[winnerIndex] \in claimed => prizeReserve = 0
  /\ claimed # {} => roundState = "Claimable"

-----------------------------------------------------------------------------
(* Action properties *)

Worth(u) == balance[u] + credited[u]
Surplus  == balance[Pool] - (confidentialTotal + prizeReserve)

\* README.md "principal never locked", no loss: what a wallet has in hand and
\* in the pool together falls only by what it gives itself, to the prize as the
\* owner or to the pool as a donor, and grows only by the whole prize, for the
\* winner, once.
PaysNothing(u) ==
  /\ Worth(u)' < Worth(u) =>
       \/ u = owner /\ Worth(u)' + prizeReserve' = Worth(u) + prizeReserve
       \/ Worth(u)' + Surplus' = Worth(u) + Surplus
  /\ Worth(u)' > Worth(u) =>
       /\ u \notin claimed
       /\ winnerIndex # NO_WINNER /\ participants[winnerIndex] = u
       /\ Worth(u)' = Worth(u) + prizeReserve
       /\ prizeReserve' = 0

NobodyPays == [][\A u \in Accounts : PaysNothing(u)]_vars

\* The result of the draw is final: nobody draws again, no participant joins
\* behind it, and no later withdrawal, claim or change of owner moves it.
ResultKept ==
  roundState \in {"Drawn", "Claimable"} =>
    /\ <<winnerIndex, drawTicket, participants>>' = <<winnerIndex, drawTicket, participants>>
    /\ roundState' \in {"Drawn", "Claimable"}

DrawIsFinal == [][ResultKept]_vars

-----------------------------------------------------------------------------
(* Liveness, under the fairness of the model module *)

\* README.md "a silent owner cannot strand a funded prize": a locked round is
\* drawn, by anyone, even if the owner renounced; a drawn winner who claims gets
\* the prize, whoever claims before; and, in every state, a participant who
\* keeps asking for all of it gets it.
RoundEnds ==
  /\ roundState = "Locked" ~> roundState = "Drawn"
  /\ roundState = "Drawn" /\ winnerIndex # NO_WINNER ~> prizeReserve = 0
  /\ \A u \in Accounts : credited[u] > 0 ~> credited[u] = 0
=============================================================================
