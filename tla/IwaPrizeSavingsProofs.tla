------------------------ MODULE IwaPrizeSavingsProofs ------------------------
(***************************************************************************)
(* The prize pool, for any accounts, places, bounds and amounts: types,    *)
(* the finality of the draw, the prize that waits for its winner, the      *)
(* solvency of the pool, what a person may lose or gain, how many of the   *)
(* tickets select whom, and what the page of the pool offers.              *)
(***************************************************************************)
EXTENDS IwaPrizePage, SumTheorems

-----------------------------------------------------------------------------
(* Arithmetic and transfers *)

LEMMA SafeMathTypes ==
  /\ \A x, y \in Nat : tryAdd(x, y) \in 0..U64_MAX
  /\ \A x \in 0..U64_MAX, y \in Nat : trySub(x, y) \in 0..U64_MAX
  /\ \A x, y \in Nat : trySub(x, y) \in Nat /\ FHE_min(x, y) \in Nat
BY PoolAssumption DEF tryAdd, trySub, FHE_min

LEMMA ActualTypes ==
  ASSUME TypeOK, NEW from \in Accounts \cup {Pool}, NEW amount \in Nat
  PROVE  Actual(from, amount) \in Nat /\ Actual(from, amount) <= balance[from]
BY DEF TypeOK, Actual

LEMMA TransferTypes ==
  ASSUME TypeOK, NEW from \in Accounts \cup {Pool}, NEW to \in Accounts \cup {Pool},
         NEW amount \in Nat, from # to, amount <= balance[from], Transfer(from, to, amount)
  PROVE  balance' \in [Accounts \cup {Pool} -> Nat]
<1>1. balance[from] - amount \in Nat /\ balance[to] + amount \in Nat
  BY DEF TypeOK
<1>2. QED
  BY <1>1 DEF TypeOK, Transfer

-----------------------------------------------------------------------------
(* Types *)

LEMMA DepositTypes ==
  ASSUME TypeOK, NEW u \in Accounts, NEW requested \in Requests, deposit(u, requested)
  PROVE  TypeOK'
<1> DEFINE actual == Actual(u, toPull(requested))
<1>1. toPull(requested) \in Nat
  <2>1. requested \in Nat /\ MAX_POOL_TOTAL \in Nat /\ confidentialTotal \in Nat
    BY PoolAssumption DEF TypeOK
  <2>2. QED
    BY <2>1, SafeMathTypes DEF toPull
<1>2. actual \in Nat /\ actual <= balance[u]
  BY <1>1, ActualTypes
<1>3. balance' \in [Accounts \cup {Pool} -> Nat]
  BY <1>2, TransferTypes, PoolAssumption DEF deposit
<1>4. credited' \in [Accounts -> 0..U64_MAX] /\ confidentialTotal' \in 0..U64_MAX
  <2> HIDE DEF actual
  <2>1. credited' = [credited EXCEPT ![u] = tryAdd(credited[u], actual)]
        /\ confidentialTotal' = tryAdd(confidentialTotal, actual)
    BY DEF deposit, actual
  <2>2. credited[u] \in Nat /\ confidentialTotal \in Nat
    BY PoolAssumption DEF TypeOK
  <2>3. QED
    BY <1>2, <2>1, <2>2, SafeMathTypes DEF TypeOK
<1>5. /\ participants' \in Seq(Accounts) /\ IsInjective(participants')
      /\ Len(participants') <= MAX_PARTICIPANTS
      /\ claimed' \subseteq Range(participants')
      /\ winnerIndex' \in {NO_WINNER} \cup DOMAIN participants'
  <2>1. CASE UNCHANGED participants
    BY <2>1 DEF deposit, TypeOK, round
  <2>2. CASE /\ u \notin Range(participants)
             /\ Len(participants) < MAX_PARTICIPANTS
             /\ participants' = Append(participants, u)
    <3>1. /\ participants' \in Seq(Accounts) /\ Len(participants') = Len(participants) + 1
          /\ DOMAIN participants' = 1..(Len(participants) + 1)
          /\ DOMAIN participants = 1..Len(participants)
          /\ \A i \in 1..Len(participants) : participants'[i] = participants[i]
          /\ participants'[Len(participants) + 1] = u
          /\ Len(participants) \in Nat
      BY <2>2 DEF TypeOK
    <3>2. IsInjective(participants')
      BY <2>2, <3>1 DEF IsInjective, Range, TypeOK
    <3>3. Range(participants) \subseteq Range(participants')
      BY <3>1 DEF Range
    <3>4. Len(participants') <= MAX_PARTICIPANTS
      BY <2>2, <3>1, PoolAssumption
    <3>5. QED
      BY <3>1, <3>2, <3>3, <3>4 DEF deposit, TypeOK, round
  <2>3. QED
    BY <2>1, <2>2 DEF deposit, _registerParticipant
<1>6. QED
  BY <1>3, <1>4, <1>5 DEF deposit, TypeOK, round

LEMMA FundPrizeTypes ==
  ASSUME TypeOK, NEW u \in Accounts, NEW requested \in Requests, fundPrize(u, requested)
  PROVE  TypeOK'
<1> DEFINE actual == Actual(u, requested)
<1>1. actual \in Nat /\ actual <= balance[u]
  BY ActualTypes, PoolAssumption
<1>2. balance' \in [Accounts \cup {Pool} -> Nat]
  BY <1>1, TransferTypes, PoolAssumption DEF fundPrize
<1>3. prizeReserve' \in 0..U64_MAX
  <2> HIDE DEF actual
  <2>1. prizeReserve' = tryAdd(prizeReserve, actual)
    BY DEF fundPrize, actual
  <2>2. QED
    BY <1>1, <2>1, SafeMathTypes, PoolAssumption DEF TypeOK
<1>4. QED
  BY <1>2, <1>3 DEF fundPrize, TypeOK, round

LEMMA PayOutTypes ==
  ASSUME TypeOK, NEW u \in Accounts, NEW toSend \in Nat, PayOut(u, toSend)
  PROVE  TypeOK'
<1> DEFINE actual == Actual(Pool, toSend)
<1>1. actual \in Nat /\ actual <= balance[Pool]
  BY ActualTypes
<1>2. balance' \in [Accounts \cup {Pool} -> Nat]
  BY <1>1, TransferTypes, PoolAssumption DEF PayOut
<1>3. credited' \in [Accounts -> 0..U64_MAX] /\ confidentialTotal' \in 0..U64_MAX
  <2> HIDE DEF actual
  <2>1. credited' = [credited EXCEPT ![u] = trySub(credited[u], actual)]
        /\ confidentialTotal' = trySub(confidentialTotal, actual)
    BY DEF PayOut, actual
  <2>2. credited[u] \in 0..U64_MAX
    BY DEF TypeOK
  <2>3. QED
    BY <1>1, <2>1, <2>2, SafeMathTypes DEF TypeOK
<1>4. QED
  BY <1>2, <1>3 DEF PayOut, TypeOK, round

LEMMA WithdrawTypes ==
  ASSUME TypeOK, NEW u \in Accounts
  PROVE  /\ withdrawAll(u) => TypeOK'
         /\ \A amount \in Requests : withdraw(u, amount) => TypeOK'
<1>1. credited[u] \in Nat
  BY PoolAssumption DEF TypeOK
<1>2. \A amount \in Requests : FHE_min(amount, credited[u]) \in Nat
  BY <1>1, SafeMathTypes, PoolAssumption
<1>3. QED
  BY <1>1, <1>2, PayOutTypes DEF withdrawAll, withdraw

LEMMA DrawTypes ==
  ASSUME TypeOK, NEW u \in Accounts, NEW ticket \in Nat, draw(u, ticket)
  PROVE  TypeOK'
<1>1. winnerIndex' \in {NO_WINNER} \cup DOMAIN participants
  BY DEF draw
<1>2. UNCHANGED <<now, balance, owner, lockTimestamp, participants, claimed,
                  credited, confidentialTotal, prizeReserve>>
      /\ drawTicket' \in Nat /\ roundState' \in RoundState
  BY DEF draw, books, RoundState
<1>3. QED
  BY <1>1, <1>2 DEF TypeOK

LEMMA PayoutType ==
  ASSUME TypeOK, NEW u \in Accounts
  PROVE  payout(u) \in Nat
BY PoolAssumption DEF payout, TypeOK

LEMMA ClaimTypes ==
  ASSUME TypeOK, NEW u \in Accounts, claim(u)
  PROVE  TypeOK'
<1>1. payout(u) \in Nat
  BY PayoutType
<1>2. credited[u] \in Nat /\ confidentialTotal \in Nat
  BY PoolAssumption DEF TypeOK
<1>3. /\ credited' \in [Accounts -> 0..U64_MAX]
      /\ prizeReserve' \in 0..U64_MAX /\ confidentialTotal' \in 0..U64_MAX
  BY <1>1, <1>2, SafeMathTypes DEF claim, TypeOK
<1>4. claimed' \subseteq Range(participants')
  BY DEF claim, MayClaim, TypeOK
<1>5. QED
  BY <1>3, <1>4 DEF claim, TypeOK, RoundState

LEMMA DonateTypes ==
  ASSUME TypeOK, NEW u \in Accounts, NEW amount \in Requests, donate(u, amount)
  PROVE  TypeOK'
<1>1. balance' \in [Accounts \cup {Pool} -> Nat]
  BY ActualTypes, TransferTypes, PoolAssumption DEF donate
<1>2. QED
  BY <1>1 DEF donate, TypeOK, round, books

LEMMA InitTypes == Init => TypeOK
<1> SUFFICES ASSUME Init PROVE TypeOK
  OBVIOUS
<1>1. balance \in [Accounts \cup {Pool} -> Nat]
  BY PoolAssumption DEF Init
<1>2. /\ participants \in Seq(Accounts) /\ Len(participants) = 0 /\ DOMAIN participants = {}
  BY DEF Init
<1>3. IsInjective(participants) /\ claimed \subseteq Range(participants)
  BY <1>2 DEF Init, IsInjective
<1>4. QED
  BY <1>1, <1>2, <1>3, PoolAssumption DEF Init, TypeOK, RoundState

LEMMA StepTypes == TypeOK /\ [Next]_vars => TypeOK'
<1> SUFFICES ASSUME TypeOK, [Next]_vars PROVE TypeOK'
  OBVIOUS
<1>1. CASE Tick
  BY <1>1 DEF Tick, TypeOK, round, books
<1>2. ASSUME NEW u \in Accounts, lockRound(u) PROVE TypeOK'
  BY <1>2 DEF lockRound, TypeOK, RoundState, books
<1>3. ASSUME NEW u \in Accounts, withdrawAll(u) PROVE TypeOK'
  BY <1>3, WithdrawTypes
<1>4. ASSUME NEW u \in Accounts, claim(u) PROVE TypeOK'
  BY <1>4, ClaimTypes
<1>5. ASSUME NEW u \in Accounts, NEW ticket \in 0..(MAX_POOL_TOTAL - 1), draw(u, ticket)
      PROVE  TypeOK'
  BY <1>5, DrawTypes, PoolAssumption
<1>6. ASSUME NEW u \in Accounts, NEW new \in Accounts \cup {Nobody}, transferOwnership(u, new)
      PROVE  TypeOK'
  BY <1>6 DEF transferOwnership, TypeOK, round, books
<1>7. ASSUME NEW u \in Accounts, NEW amount \in Requests, deposit(u, amount) PROVE TypeOK'
  BY <1>7, DepositTypes
<1>8. ASSUME NEW u \in Accounts, NEW amount \in Requests, fundPrize(u, amount) PROVE TypeOK'
  BY <1>8, FundPrizeTypes
<1>9. ASSUME NEW u \in Accounts, NEW amount \in Requests, withdraw(u, amount) PROVE TypeOK'
  BY <1>9, WithdrawTypes
<1>10. ASSUME NEW u \in Accounts, NEW amount \in Requests, donate(u, amount) PROVE TypeOK'
  BY <1>10, DonateTypes
<1>11. CASE UNCHANGED vars
  BY <1>11 DEF vars, TypeOK, round, books
<1>12. QED
  BY <1>1, <1>2, <1>3, <1>4, <1>5, <1>6, <1>7, <1>8, <1>9, <1>10, <1>11 DEF Next

\* The storage of the pool keeps its types through every function, for any
\* savers, amounts and bounds: nothing wraps below zero or above 64 bits, and a
\* saver is registered once.
THEOREM PoolTypeCorrect == Spec => []TypeOK
BY InitTypes, StepTypes, PTL DEF Spec

-----------------------------------------------------------------------------
(* The draw is final *)

LEMMA StepKeepsResult == TypeOK /\ [Next]_vars => ResultKept
<1> SUFFICES ASSUME TypeOK, [Next]_vars, roundState \in {"Drawn", "Claimable"}
    PROVE  /\ <<winnerIndex, drawTicket, participants>>' = <<winnerIndex, drawTicket, participants>>
           /\ roundState' \in {"Drawn", "Claimable"}
  BY DEF ResultKept
<1>1. CASE Tick
  BY <1>1 DEF Tick, round
<1>2. ASSUME NEW u \in Accounts, claim(u)
      PROVE  /\ UNCHANGED <<winnerIndex, drawTicket, participants>>
             /\ roundState' \in {"Drawn", "Claimable"}
  BY <1>2 DEF claim
<1>3. ASSUME NEW u \in Accounts, NEW toSend, PayOut(u, toSend)
      PROVE  /\ UNCHANGED <<winnerIndex, drawTicket, participants>>
             /\ roundState' \in {"Drawn", "Claimable"}
  BY <1>3 DEF PayOut, round
<1>4. ASSUME NEW u \in Accounts, NEW new, transferOwnership(u, new)
      PROVE  /\ UNCHANGED <<winnerIndex, drawTicket, participants>>
             /\ roundState' \in {"Drawn", "Claimable"}
  BY <1>4 DEF transferOwnership, round
<1>5. ASSUME NEW u \in Accounts, NEW amount, donate(u, amount)
      PROVE  /\ UNCHANGED <<winnerIndex, drawTicket, participants>>
             /\ roundState' \in {"Drawn", "Claimable"}
  BY <1>5 DEF donate, round
<1>6. ASSUME NEW u \in Accounts, NEW x
      PROVE  ~lockRound(u) /\ ~deposit(u, x) /\ ~fundPrize(u, x) /\ ~draw(u, x)
  BY DEF lockRound, deposit, fundPrize, draw
<1>7. CASE UNCHANGED vars
  BY <1>7 DEF vars, round
<1>8. QED
  BY <1>1, <1>2, <1>3, <1>4, <1>5, <1>6, <1>7 DEF Next, withdraw, withdrawAll

\* Whatever anybody does after the draw, in any order, the winner, the ticket
\* and the list the winner's number counts into stay, and no second draw comes.
THEOREM DrawIsFinalHolds == Spec => DrawIsFinal
<1>1. TypeOK /\ [Next]_vars => [ResultKept]_vars
  BY StepKeepsResult
<1>2. QED
  BY <1>1, PoolTypeCorrect, PTL DEF Spec, DrawIsFinal

-----------------------------------------------------------------------------
(* The prize waits for its winner *)

\* Nothing is claimed before the draw, so no deposit, funding or draw comes
\* after a claim: of the steps that change the reserve or the winner, only
\* claims are left.
LEMMA StepKeepsPrize == TypeOK /\ PrizeForWinner /\ [Next]_vars => PrizeForWinner'
<1> SUFFICES ASSUME TypeOK, PrizeForWinner, [Next]_vars PROVE PrizeForWinner'
  OBVIOUS
<1>1. ASSUME UNCHANGED <<roundState, claimed, winnerIndex, participants, prizeReserve>>
      PROVE  PrizeForWinner'
  BY <1>1 DEF PrizeForWinner
<1>2. ASSUME roundState # "Claimable", UNCHANGED claimed PROVE PrizeForWinner'
  BY <1>2 DEF PrizeForWinner
<1>3. ASSUME NEW u \in Accounts, claim(u) PROVE PrizeForWinner'
  <2>1. prizeReserve \in Nat /\ trySub(prizeReserve, 0) = prizeReserve
        /\ trySub(prizeReserve, prizeReserve) = 0
    BY PoolAssumption DEF TypeOK, trySub
  <2>2. /\ roundState' = "Claimable" /\ claimed' = claimed \cup {u}
        /\ UNCHANGED <<winnerIndex, participants>>
        /\ prizeReserve' = trySub(prizeReserve, payout(u))
    BY <1>3 DEF claim
  <2>3. CASE winnerIndex # NO_WINNER /\ participants[winnerIndex] = u
    BY <2>1, <2>2, <2>3 DEF payout, PrizeForWinner
  <2>4. CASE ~(winnerIndex # NO_WINNER /\ participants[winnerIndex] = u)
    BY <2>1, <2>2, <2>4 DEF payout, PrizeForWinner
  <2>5. QED
    BY <2>3, <2>4
<1>4. CASE Tick
  BY <1>1, <1>4 DEF Tick, round, books
<1>5. ASSUME NEW u \in Accounts, NEW toSend, PayOut(u, toSend) PROVE PrizeForWinner'
  BY <1>1, <1>5 DEF PayOut, round
<1>6. ASSUME NEW u \in Accounts, NEW new, transferOwnership(u, new) PROVE PrizeForWinner'
  BY <1>1, <1>6 DEF transferOwnership, round, books
<1>7. ASSUME NEW u \in Accounts, NEW amount, donate(u, amount) PROVE PrizeForWinner'
  BY <1>1, <1>7 DEF donate, round, books
<1>8. ASSUME NEW u \in Accounts, NEW x,
             lockRound(u) \/ deposit(u, x) \/ fundPrize(u, x) \/ draw(u, x)
      PROVE  PrizeForWinner'
  BY <1>2, <1>8 DEF lockRound, deposit, fundPrize, draw
<1>9. CASE UNCHANGED vars
  BY <1>1, <1>9 DEF vars, round, books
<1>10. QED
  BY <1>3, <1>4, <1>5, <1>6, <1>7, <1>8, <1>9 DEF Next, withdraw, withdrawAll

\* However many losers claim, and whenever, the prize is whole until the winner
\* claims it; after that nothing is left of it, and nothing can be added.
THEOREM PrizeForWinnerHolds == Spec => []PrizeForWinner
<1>1. Init => PrizeForWinner
  BY DEF Init, PrizeForWinner
<1>2. QED
  BY <1>1, StepKeepsPrize, PoolTypeCorrect, PTL DEF Spec

-----------------------------------------------------------------------------
(* The books of the pool *)

Holders == Accounts \cup {Pool}

Supply == Total(InitialBalance, Accounts)

\* No token is made or lost.
Conserved == Total(balance, Holders) = Supply

\* The running total of the contract is the sum of what it credits.
TotalIsSum == confidentialTotal = Total(credited, Accounts)

Covered == confidentialTotal + prizeReserve <= balance[Pool]

\* Solvent with what keeps it: as the supply fits 64 bits, no sum of the
\* contract is beyond them, and no operation fails closed.
MoneyInv == TypeOK /\ Conserved /\ TotalIsSum /\ Covered

LEMMA HoldersFinite == IsFiniteSet(Accounts) /\ IsFiniteSet(Holders) /\ Pool \notin Accounts
BY PoolAssumption, FS_AddElement DEF Holders

LEMMA SupplyFits == Supply \in Nat /\ Supply <= U64_MAX
<1>1. \A u \in Accounts : InitialBalance[u] \in Nat
  BY PoolAssumption
<1>2. Supply = MapThenSumSet(LAMBDA u : InitialBalance[u], Accounts)
  BY DEF Supply, Total
<1>3. QED
  BY <1>1, <1>2, HoldersFinite, TotalType, SupplyAssumption DEF Supply

\* What the books give for the next operation: credits are within the total,
\* the total and the prize within the account, and all of it within 64 bits.
LEMMA Bounds ==
  ASSUME MoneyInv, NEW u \in Accounts
  PROVE  /\ balance[u] \in Nat /\ balance[Pool] \in Nat /\ credited[u] \in Nat
         /\ confidentialTotal \in Nat /\ prizeReserve \in Nat /\ U64_MAX \in Nat
         /\ balance[u] + balance[Pool] <= U64_MAX
         /\ credited[u] <= confidentialTotal
         /\ confidentialTotal + prizeReserve <= balance[Pool]
<1>1. /\ balance[u] \in Nat /\ balance[Pool] \in Nat /\ credited[u] \in Nat
      /\ confidentialTotal \in Nat /\ prizeReserve \in Nat /\ U64_MAX \in Nat
  BY PoolAssumption DEF MoneyInv, TypeOK
<1>2. balance[u] + balance[Pool] <= U64_MAX
  <2>1. \A x \in Holders : balance[x] \in Nat
    BY DEF MoneyInv, TypeOK, Holders
  <2>2. Total(balance, Holders) = balance[Pool] + Total(balance, Holders \ {Pool})
    BY <2>1, HoldersFinite, TotalRemove DEF Holders
  <2>3. Holders \ {Pool} = Accounts
    BY HoldersFinite DEF Holders
  <2>4. balance[u] <= Total(balance, Accounts) /\ Total(balance, Accounts) \in Nat
    BY <2>1, HoldersFinite, TotalAtLeast, TotalType DEF Holders
  <2>5. QED
    BY <1>1, <2>2, <2>3, <2>4, SupplyFits DEF MoneyInv, Conserved
<1>3. credited[u] <= confidentialTotal
  <2>1. \A x \in Accounts : credited[x] \in Nat
    BY PoolAssumption DEF MoneyInv, TypeOK
  <2>2. QED
    BY <2>1, HoldersFinite, TotalAtLeast DEF MoneyInv, TotalIsSum
<1>4. QED
  BY <1>1, <1>2, <1>3 DEF MoneyInv, Covered

\* A transfer between two accounts keeps the sum of all.
LEMMA TransferConserves ==
  ASSUME TypeOK, Conserved, NEW from \in Holders, NEW to \in Holders, from # to,
         NEW amount \in Nat, amount <= balance[from], Transfer(from, to, amount)
  PROVE  Conserved'
<1>1. \A x \in Holders : balance[x] \in Nat
  BY DEF TypeOK, Holders
<1>2. /\ balance'[from] = balance[from] - amount
      /\ balance'[to] = balance[to] + amount
      /\ \A x \in Holders \ {from, to} : balance'[x] = balance[x]
  BY DEF Transfer, TypeOK, Holders
<1>3. balance'[from] \in Nat /\ balance'[to] \in Nat
  BY <1>1, <1>2
<1>4. Total(balance', Holders) + balance[from] + balance[to]
        = Total(balance, Holders) + balance'[from] + balance'[to]
  BY <1>1, <1>2, <1>3, HoldersFinite, TotalChangeTwo
<1>5. Total(balance, Holders) \in Nat /\ Total(balance', Holders) \in Nat
  <2>1. \A x \in Holders : balance'[x] \in Nat
    BY <1>1, <1>2, <1>3
  <2>2. QED
    BY <1>1, <2>1, HoldersFinite, TotalType
<1>6. QED
  BY <1>1, <1>2, <1>4, <1>5 DEF Conserved

\* One credit changes, and the total with it.
LEMMA CreditKeepsSum ==
  ASSUME TypeOK, TypeOK', TotalIsSum, NEW u \in Accounts, NEW c \in Nat,
         credited' = [credited EXCEPT ![u] = c],
         confidentialTotal' + credited[u] = confidentialTotal + c
  PROVE  TotalIsSum'
<1>1. \A x \in Accounts : credited[x] \in Nat
  BY PoolAssumption DEF TypeOK
<1>2. /\ credited'[u] = c
      /\ \A x \in Accounts \ {u} : credited'[x] = credited[x]
      /\ \A x \in Accounts : credited'[x] \in Nat
  BY <1>1 DEF TypeOK
<1>3. Total(credited', Accounts) + credited[u] = Total(credited, Accounts) + c
  <2>1. credited'[u] \in Nat
    BY <1>2
  <2>2. IsFiniteSet(Accounts)
    BY HoldersFinite
  <2>3. \A x \in Accounts \ {u} : credited'[x] = credited[x]
    BY <1>2
  <2>4. PICK g : g = credited'
    OBVIOUS
  <2>5. g[u] \in Nat /\ \A x \in Accounts \ {u} : g[x] = credited[x]
    BY <2>1, <2>3, <2>4
  <2>6. Total(g, Accounts) + credited[u] = Total(credited, Accounts) + g[u]
    BY ONLY <1>1, <2>2, <2>5, TotalChange
  <2>7. QED
    BY <1>2, <2>4, <2>6
<1>4. Total(credited, Accounts) \in Nat /\ Total(credited', Accounts) \in Nat
  BY <1>1, <1>2, HoldersFinite, TotalType
<1>5. confidentialTotal' \in Nat
  BY PoolAssumption DEF TypeOK
<1>6. QED
  BY <1>1, <1>3, <1>4, <1>5 DEF TotalIsSum

\* What a deposit does, nothing having failed closed.
LEMMA DepositExact ==
  ASSUME MoneyInv, NEW u \in Accounts, NEW requested \in Requests, deposit(u, requested)
  PROVE  \E a \in Nat :
           /\ a <= balance[u]
           /\ confidentialTotal <= MAX_POOL_TOTAL => confidentialTotal + a <= MAX_POOL_TOTAL
           /\ Transfer(u, Pool, a)
           /\ credited' = [credited EXCEPT ![u] = credited[u] + a]
           /\ confidentialTotal' = confidentialTotal + a
           /\ prizeReserve' = prizeReserve
<1> DEFINE pull == toPull(requested)
           a == Actual(u, pull)
<1>1. /\ requested \in Nat /\ MAX_POOL_TOTAL \in Nat
  BY PoolAssumption
<1>2. /\ balance[u] \in Nat /\ balance[Pool] \in Nat /\ credited[u] \in Nat
      /\ confidentialTotal \in Nat /\ prizeReserve \in Nat /\ U64_MAX \in Nat
      /\ balance[u] + balance[Pool] <= U64_MAX
      /\ credited[u] <= confidentialTotal
      /\ confidentialTotal + prizeReserve <= balance[Pool]
  BY Bounds
<1>3. /\ pull \in Nat
      /\ confidentialTotal <= MAX_POOL_TOTAL => confidentialTotal + pull <= MAX_POOL_TOTAL
  BY <1>1, <1>2 DEF toPull, FHE_min, trySub
<1>4. /\ a \in Nat /\ a <= balance[u]
      /\ confidentialTotal <= MAX_POOL_TOTAL => confidentialTotal + a <= MAX_POOL_TOTAL
  <2> HIDE DEF pull
  <2>1. QED
    BY <1>1, <1>2, <1>3 DEF Actual
<1>5. /\ Transfer(u, Pool, a)
      /\ credited' = [credited EXCEPT ![u] = tryAdd(credited[u], a)]
      /\ confidentialTotal' = tryAdd(confidentialTotal, a)
      /\ prizeReserve' = prizeReserve
  BY DEF deposit
<1>6. tryAdd(credited[u], a) = credited[u] + a /\ tryAdd(confidentialTotal, a) = confidentialTotal + a
  <2> HIDE DEF a
  <2>1. QED
    BY <1>2, <1>4 DEF tryAdd
<1>7. QED
  <2> HIDE DEF a
  <2>1. QED
    BY <1>4, <1>5, <1>6

\* What a withdrawal does: everything asked for is paid.
LEMMA PayOutExact ==
  ASSUME MoneyInv, NEW u \in Accounts, NEW a \in Nat, a <= credited[u], PayOut(u, a)
  PROVE  /\ a <= balance[Pool]
         /\ Transfer(Pool, u, a)
         /\ credited' = [credited EXCEPT ![u] = credited[u] - a]
         /\ confidentialTotal' = confidentialTotal - a
         /\ prizeReserve' = prizeReserve
<1>1. /\ balance[u] \in Nat /\ balance[Pool] \in Nat /\ credited[u] \in Nat
      /\ confidentialTotal \in Nat /\ prizeReserve \in Nat
      /\ credited[u] <= confidentialTotal
      /\ confidentialTotal + prizeReserve <= balance[Pool]
  BY Bounds
<1>2. Actual(Pool, a) = a
  BY <1>1 DEF Actual
<1>3. trySub(credited[u], a) = credited[u] - a /\ trySub(confidentialTotal, a) = confidentialTotal - a
  BY <1>1 DEF trySub
<1>4. a <= balance[Pool]
  BY <1>1
<1>5. QED
  BY <1>2, <1>3, <1>4 DEF PayOut

\* Both ways out ask for no more than is credited.
LEMMA WithdrawExact ==
  ASSUME MoneyInv, NEW u \in Accounts, NEW x \in Requests, withdraw(u, x) \/ withdrawAll(u)
  PROVE  \E a \in Nat : a <= credited[u] /\ PayOut(u, a)
<1>1. credited[u] \in Nat /\ x \in Nat
  BY Bounds, PoolAssumption
<1>2. FHE_min(x, credited[u]) \in Nat /\ FHE_min(x, credited[u]) <= credited[u]
  BY <1>1 DEF FHE_min
<1>3. QED
  BY <1>1, <1>2 DEF withdraw, withdrawAll

\* What a claim does: the winner is credited the prize, others nothing.
LEMMA ClaimExact ==
  ASSUME MoneyInv, NEW u \in Accounts, claim(u)
  PROVE  /\ payout(u) \in {0, prizeReserve}
         /\ UNCHANGED balance
         /\ credited' = [credited EXCEPT ![u] = credited[u] + payout(u)]
         /\ confidentialTotal' = confidentialTotal + payout(u)
         /\ prizeReserve' = prizeReserve - payout(u)
<1>1. /\ balance[u] \in Nat /\ balance[Pool] \in Nat /\ credited[u] \in Nat
      /\ confidentialTotal \in Nat /\ prizeReserve \in Nat /\ U64_MAX \in Nat
      /\ balance[u] + balance[Pool] <= U64_MAX
      /\ credited[u] <= confidentialTotal
      /\ confidentialTotal + prizeReserve <= balance[Pool]
  BY Bounds
<1>2. payout(u) \in {0, prizeReserve}
  BY DEF payout
<1>3. /\ tryAdd(credited[u], payout(u)) = credited[u] + payout(u)
      /\ tryAdd(confidentialTotal, payout(u)) = confidentialTotal + payout(u)
      /\ trySub(prizeReserve, payout(u)) = prizeReserve - payout(u)
  BY <1>1, <1>2 DEF tryAdd, trySub
<1>4. QED
  BY <1>2, <1>3 DEF claim

\* What funding the prize does.
LEMMA FundExact ==
  ASSUME MoneyInv, NEW u \in Accounts, NEW requested \in Requests, fundPrize(u, requested)
  PROVE  \E a \in Nat :
           /\ a <= balance[u]
           /\ Transfer(u, Pool, a)
           /\ prizeReserve' = prizeReserve + a
           /\ UNCHANGED <<credited, confidentialTotal>>
<1> DEFINE a == Actual(u, requested)
<1>1. /\ balance[u] \in Nat /\ balance[Pool] \in Nat
      /\ confidentialTotal \in Nat /\ prizeReserve \in Nat /\ U64_MAX \in Nat
      /\ balance[u] + balance[Pool] <= U64_MAX
      /\ confidentialTotal + prizeReserve <= balance[Pool]
  BY Bounds
<1>2. a \in Nat /\ a <= balance[u]
  BY <1>1, PoolAssumption DEF Actual
<1>3. Transfer(u, Pool, a) /\ prizeReserve' = tryAdd(prizeReserve, a)
      /\ UNCHANGED <<credited, confidentialTotal>>
  BY DEF fundPrize
<1>4. tryAdd(prizeReserve, a) = prizeReserve + a
  <2> HIDE DEF a
  <2>1. QED
    BY <1>1, <1>2 DEF tryAdd
<1>5. QED
  <2> HIDE DEF a
  <2>1. QED
    BY <1>2, <1>3, <1>4

LEMMA DonateExact ==
  ASSUME MoneyInv, NEW u \in Accounts, NEW requested \in Requests, donate(u, requested)
  PROVE  \E a \in Nat :
           /\ a <= balance[u]
           /\ Transfer(u, Pool, a)
           /\ UNCHANGED <<prizeReserve, credited, confidentialTotal>>
<1>1. balance[u] \in Nat /\ requested \in Nat
  BY Bounds, PoolAssumption
<1>2. Actual(u, requested) \in Nat /\ Actual(u, requested) <= balance[u]
  BY <1>1 DEF Actual
<1>3. QED
  BY <1>2 DEF donate, books

\* The balances a transfer leaves.
LEMMA TransferEffect ==
  ASSUME TypeOK, NEW from \in Holders, NEW to \in Holders, from # to,
         NEW amount \in Nat, Transfer(from, to, amount)
  PROVE  /\ balance'[from] = balance[from] - amount
         /\ balance'[to] = balance[to] + amount
         /\ \A x \in Holders \ {from, to} : balance'[x] = balance[x]
BY DEF Transfer, TypeOK, Holders

\* MoneyInv, one operation at a time.
LEMMA DepositMoney ==
  ASSUME MoneyInv, TypeOK', NEW u \in Accounts, NEW x \in Requests, deposit(u, x)
  PROVE  MoneyInv'
<1>1. PICK a \in Nat : /\ a <= balance[u]
                       /\ Transfer(u, Pool, a)
                       /\ credited' = [credited EXCEPT ![u] = credited[u] + a]
                       /\ confidentialTotal' = confidentialTotal + a
                       /\ prizeReserve' = prizeReserve
  BY DepositExact
<1>2. /\ balance[Pool] \in Nat /\ credited[u] \in Nat
      /\ confidentialTotal \in Nat /\ prizeReserve \in Nat
  BY Bounds
<1>3. u \in Holders /\ Pool \in Holders /\ u # Pool
  BY HoldersFinite DEF Holders
<1>4. Conserved'
  BY <1>1, <1>3, TransferConserves DEF MoneyInv
<1>5. TotalIsSum'
  <2>1. credited[u] + a \in Nat /\ confidentialTotal' + credited[u] = confidentialTotal + (credited[u] + a)
    BY <1>1, <1>2
  <2>2. /\ credited[u] + a \in Nat
        /\ credited' = [credited EXCEPT ![u] = credited[u] + a]
        /\ confidentialTotal' + credited[u] = confidentialTotal + (credited[u] + a)
        /\ TypeOK /\ TypeOK' /\ TotalIsSum
    BY <1>1, <2>1 DEF MoneyInv
  <2>3. QED
    BY <2>2, CreditKeepsSum
<1>6. Covered'
  <2>1. balance'[Pool] = balance[Pool] + a
    BY <1>1, <1>3, TransferEffect DEF MoneyInv
  <2>2. QED
    BY <1>1, <1>2, <2>1 DEF MoneyInv, Covered
<1>7. QED
  BY <1>4, <1>5, <1>6 DEF MoneyInv

LEMMA WithdrawMoney ==
  ASSUME MoneyInv, TypeOK', NEW u \in Accounts, NEW a \in Nat, a <= credited[u], PayOut(u, a)
  PROVE  MoneyInv'
<1>1. /\ a <= balance[Pool]
      /\ Transfer(Pool, u, a)
      /\ credited' = [credited EXCEPT ![u] = credited[u] - a]
      /\ confidentialTotal' = confidentialTotal - a
      /\ prizeReserve' = prizeReserve
  BY PayOutExact
<1>2. /\ balance[Pool] \in Nat /\ credited[u] \in Nat
      /\ confidentialTotal \in Nat /\ prizeReserve \in Nat
      /\ credited[u] - a \in Nat
  BY Bounds
<1>3. u \in Holders /\ Pool \in Holders /\ u # Pool
  BY HoldersFinite DEF Holders
<1>4. Conserved'
  BY <1>1, <1>3, TransferConserves DEF MoneyInv
<1>5. TotalIsSum'
  <2>1. confidentialTotal' + credited[u] = confidentialTotal + (credited[u] - a)
    BY <1>1, <1>2
  <2>2. QED
    BY <1>1, <1>2, <2>1, CreditKeepsSum DEF MoneyInv
<1>6. Covered'
  <2>1. balance'[Pool] = balance[Pool] - a
    BY <1>1, <1>3, TransferEffect DEF MoneyInv
  <2>2. QED
    BY <1>1, <1>2, <2>1 DEF MoneyInv, Covered
<1>7. QED
  BY <1>4, <1>5, <1>6 DEF MoneyInv

LEMMA ClaimMoney ==
  ASSUME MoneyInv, TypeOK', NEW u \in Accounts, claim(u)
  PROVE  MoneyInv'
<1> DEFINE p == payout(u)
<1>1. /\ p \in {0, prizeReserve}
      /\ UNCHANGED balance
      /\ credited' = [credited EXCEPT ![u] = credited[u] + p]
      /\ confidentialTotal' = confidentialTotal + p
      /\ prizeReserve' = prizeReserve - p
  BY ClaimExact
<1> HIDE DEF p
<1>2. /\ balance[Pool] \in Nat /\ credited[u] \in Nat
      /\ confidentialTotal \in Nat /\ prizeReserve \in Nat
  BY Bounds
<1>3. TotalIsSum'
  <2>1. credited[u] + p \in Nat /\ confidentialTotal' + credited[u] = confidentialTotal + (credited[u] + p)
    BY <1>1, <1>2
  <2>2. /\ credited[u] + p \in Nat
        /\ credited' = [credited EXCEPT ![u] = credited[u] + p]
        /\ confidentialTotal' + credited[u] = confidentialTotal + (credited[u] + p)
        /\ TypeOK /\ TypeOK' /\ TotalIsSum
    BY <1>1, <2>1 DEF MoneyInv
  <2>3. QED
    BY <2>2, CreditKeepsSum
<1>4. Covered'
  BY <1>1, <1>2 DEF MoneyInv, Covered
<1>5. QED
  BY <1>1, <1>3, <1>4 DEF MoneyInv, Conserved

LEMMA FundMoney ==
  ASSUME MoneyInv, TypeOK', NEW u \in Accounts, NEW x \in Requests,
         fundPrize(u, x) \/ donate(u, x)
  PROVE  MoneyInv'
<1>1. PICK a \in Nat : /\ a <= balance[u]
                       /\ Transfer(u, Pool, a)
                       /\ prizeReserve' \in {prizeReserve, prizeReserve + a}
                       /\ UNCHANGED <<credited, confidentialTotal>>
  BY FundExact, DonateExact
<1>2. /\ balance[Pool] \in Nat /\ confidentialTotal \in Nat /\ prizeReserve \in Nat
  BY Bounds
<1>3. u \in Holders /\ Pool \in Holders /\ u # Pool
  BY HoldersFinite DEF Holders
<1>4. Conserved'
  BY <1>1, <1>3, TransferConserves DEF MoneyInv
<1>5. Covered'
  <2>1. balance'[Pool] = balance[Pool] + a
    BY <1>1, <1>3, TransferEffect DEF MoneyInv
  <2>2. QED
    BY <1>1, <1>2, <2>1 DEF MoneyInv, Covered
<1>6. QED
  BY <1>1, <1>4, <1>5 DEF MoneyInv, TotalIsSum

LEMMA InitMoney == Init => MoneyInv
<1> SUFFICES ASSUME Init PROVE MoneyInv
  OBVIOUS
<1>1. Conserved
  <2>1. balance[Pool] = 0 /\ \A u \in Accounts : balance[u] = InitialBalance[u]
    BY HoldersFinite DEF Init
  <2>2. \A x \in Holders : balance[x] \in Nat
    BY <2>1, PoolAssumption DEF Holders
  <2>3. Total(balance, Holders) = balance[Pool] + Total(balance, Holders \ {Pool})
    BY <2>2, HoldersFinite, TotalRemove DEF Holders
  <2>4. Holders \ {Pool} = Accounts
    BY HoldersFinite DEF Holders
  <2>5. Total(balance, Accounts) = Supply
    BY <2>1, HoldersFinite, TotalCongruence DEF Supply
  <2>6. Total(balance, Holders) = 0 + Supply
    BY <2>1, <2>3, <2>4, <2>5
  <2>7. QED
    BY <2>6, SupplyFits DEF Conserved
<1>2. TotalIsSum
  <2>1. \A u \in Accounts : credited[u] = 0
    BY DEF Init
  <2>2. QED
    BY <2>1, HoldersFinite, TotalZero DEF Init, TotalIsSum
<1>3. Covered
  BY HoldersFinite DEF Init, Covered
<1>4. QED
  BY <1>1, <1>2, <1>3, InitTypes DEF MoneyInv

LEMMA StepMoney == MoneyInv /\ [Next]_vars => MoneyInv'
<1> SUFFICES ASSUME MoneyInv, [Next]_vars PROVE MoneyInv'
  OBVIOUS
<1>1. TypeOK'
  BY StepTypes DEF MoneyInv
<1>2. ASSUME UNCHANGED <<balance, books>> PROVE MoneyInv'
  BY <1>1, <1>2 DEF MoneyInv, Conserved, TotalIsSum, Covered, books
<1>3. CASE Tick
  BY <1>2, <1>3 DEF Tick
<1>4. ASSUME NEW u \in Accounts, lockRound(u) PROVE MoneyInv'
  BY <1>2, <1>4 DEF lockRound
<1>5. ASSUME NEW u \in Accounts, NEW ticket, draw(u, ticket) PROVE MoneyInv'
  BY <1>2, <1>5 DEF draw
<1>6. ASSUME NEW u \in Accounts, NEW new, transferOwnership(u, new) PROVE MoneyInv'
  BY <1>2, <1>6 DEF transferOwnership
<1>7. ASSUME NEW u \in Accounts, claim(u) PROVE MoneyInv'
  BY <1>1, <1>7, ClaimMoney
<1>8. ASSUME NEW u \in Accounts, withdrawAll(u) PROVE MoneyInv'
  <2>1. credited[u] \in Nat /\ credited[u] <= credited[u]
    BY Bounds
  <2>2. QED
    BY <1>1, <1>8, <2>1, WithdrawMoney DEF withdrawAll
<1>9. ASSUME NEW u \in Accounts, NEW x \in Requests, withdraw(u, x) PROVE MoneyInv'
  BY <1>1, <1>9, WithdrawExact, WithdrawMoney
<1>10. ASSUME NEW u \in Accounts, NEW x \in Requests, deposit(u, x) PROVE MoneyInv'
  BY <1>1, <1>10, DepositMoney
<1>11. ASSUME NEW u \in Accounts, NEW x \in Requests, fundPrize(u, x) \/ donate(u, x)
       PROVE  MoneyInv'
  BY <1>1, <1>11, FundMoney
<1>12. CASE UNCHANGED vars
  BY <1>2, <1>12 DEF vars
<1>13. QED
  BY <1>3, <1>4, <1>5, <1>6, <1>7, <1>8, <1>9, <1>10, <1>11, <1>12 DEF Next

LEMMA MoneyHolds == Spec => []MoneyInv
BY InitMoney, StepMoney, PTL DEF Spec

\* For any savers and any order of deposits, withdrawals, prizes, donations and
\* claims, the pool holds what it owes, the prize on top, and the total that
\* deposits and the draw rely on is the sum of the credits.
THEOREM SolventHolds == Spec => []Solvent
<1>1. MoneyInv => Solvent
  BY DEF MoneyInv, TotalIsSum, Covered, Solvent, Total
<1>2. QED
  BY <1>1, MoneyHolds, PTL

-----------------------------------------------------------------------------
(* Nobody pays *)

LEMMA WorthKept ==
  ASSUME MoneyInv, NEW v \in Accounts, Worth(v)' = Worth(v)
  PROVE  PaysNothing(v)
<1>1. Worth(v) \in Nat
  BY Bounds DEF Worth
<1>2. QED
  BY <1>1 DEF PaysNothing

\* What moves between hand and pool is worth the same.
LEMMA MovesKeepWorth ==
  ASSUME MoneyInv, NEW u \in Accounts, NEW v \in Accounts,
         \/ \E x \in Requests : deposit(u, x) \/ withdraw(u, x)
         \/ withdrawAll(u)
  PROVE  Worth(v)' = Worth(v)
<1>1. u \in Holders /\ v \in Holders /\ Pool \in Holders /\ u # Pool /\ v # Pool
  BY HoldersFinite DEF Holders
<1>2. balance[u] \in Nat /\ credited[u] \in Nat
  BY Bounds
<1>3. credited \in [Accounts -> 0..U64_MAX]
  BY DEF MoneyInv, TypeOK
<1>4. ASSUME NEW x \in Requests, deposit(u, x) PROVE Worth(v)' = Worth(v)
  <2>1. PICK a \in Nat : /\ Transfer(u, Pool, a)
                         /\ credited' = [credited EXCEPT ![u] = credited[u] + a]
    BY <1>4, DepositExact
  <2>2. /\ balance'[u] = balance[u] - a
        /\ \A y \in Holders \ {u, Pool} : balance'[y] = balance[y]
    BY <1>1, <2>1, TransferEffect DEF MoneyInv
  <2>3. QED
    BY <1>1, <1>2, <1>3, <2>1, <2>2 DEF Worth
<1>5. ASSUME NEW a \in Nat, a <= credited[u], PayOut(u, a) PROVE Worth(v)' = Worth(v)
  <2>1. /\ Transfer(Pool, u, a)
        /\ credited' = [credited EXCEPT ![u] = credited[u] - a]
    BY <1>5, PayOutExact
  <2>2. /\ balance'[u] = balance[u] + a
        /\ \A y \in Holders \ {Pool, u} : balance'[y] = balance[y]
    BY <1>1, <2>1, TransferEffect DEF MoneyInv
  <2>3. QED
    BY <1>1, <1>2, <1>3, <2>1, <2>2 DEF Worth
<1>6. CASE withdrawAll(u)
  <2>1. credited[u] <= credited[u]
    BY <1>2
  <2>2. QED
    BY <1>2, <1>5, <1>6, <2>1 DEF withdrawAll
<1>7. ASSUME NEW x \in Requests, withdraw(u, x) PROVE Worth(v)' = Worth(v)
  BY <1>5, <1>7, WithdrawExact
<1>8. QED
  BY <1>4, <1>6, <1>7

\* A claim makes its caller richer by the prize or not at all.
LEMMA ClaimPays ==
  ASSUME MoneyInv, NEW u \in Accounts, NEW v \in Accounts, claim(u)
  PROVE  PaysNothing(v)
<1>1. /\ payout(u) \in {0, prizeReserve}
      /\ UNCHANGED balance
      /\ credited' = [credited EXCEPT ![u] = credited[u] + payout(u)]
      /\ prizeReserve' = prizeReserve - payout(u)
  BY ClaimExact
<1>2. credited \in [Accounts -> 0..U64_MAX]
  BY DEF MoneyInv, TypeOK
<1>3. balance[u] \in Nat /\ credited[u] \in Nat /\ prizeReserve \in Nat
  BY Bounds
<1>4. CASE u # v \/ payout(u) = 0
  <2>1. Worth(v)' = Worth(v)
    BY <1>1, <1>2, <1>3, <1>4 DEF Worth
  <2>2. QED
    BY <2>1, WorthKept
<1>5. CASE u = v /\ payout(u) # 0
  <2>1. winnerIndex # NO_WINNER /\ participants[winnerIndex] = u /\ payout(u) = prizeReserve
    BY <1>5 DEF payout
  <2>2. Worth(v)' = Worth(v) + prizeReserve /\ prizeReserve' = 0
    BY <1>1, <1>2, <1>3, <1>5, <2>1 DEF Worth
  <2>3. u \notin claimed /\ Worth(v) \in Nat
    BY <1>3, <1>5 DEF claim, MayClaim, Worth
  <2>4. QED
    BY <1>3, <1>5, <2>1, <2>2, <2>3 DEF PaysNothing
<1>6. QED
  BY <1>4, <1>5

\* What is given to the pool is the giver's, and goes to the prize or to the
\* surplus.
LEMMA GiftsPay ==
  ASSUME MoneyInv, NEW u \in Accounts, NEW v \in Accounts, NEW x \in Requests,
         fundPrize(u, x) \/ donate(u, x)
  PROVE  PaysNothing(v)
<1>1. PICK a \in Nat : /\ a <= balance[u]
                       /\ Transfer(u, Pool, a)
                       /\ \/ u = owner /\ prizeReserve' = prizeReserve + a
                          \/ prizeReserve' = prizeReserve
                       /\ UNCHANGED <<credited, confidentialTotal>>
  BY FundExact, DonateExact DEF fundPrize
<1>2. u \in Holders /\ v \in Holders /\ Pool \in Holders /\ u # Pool /\ v # Pool
  BY HoldersFinite DEF Holders
<1>3. /\ balance'[u] = balance[u] - a
      /\ balance'[Pool] = balance[Pool] + a
      /\ \A y \in Holders \ {u, Pool} : balance'[y] = balance[y]
  BY <1>1, <1>2, TransferEffect DEF MoneyInv
<1>4. /\ balance[u] \in Nat /\ balance[Pool] \in Nat /\ credited[u] \in Nat
      /\ confidentialTotal \in Nat /\ prizeReserve \in Nat
  BY Bounds
<1>5. CASE u # v
  <2>1. Worth(v)' = Worth(v)
    BY <1>1, <1>2, <1>3, <1>5 DEF Worth
  <2>2. QED
    BY <2>1, WorthKept
<1>6. CASE u = v
  <2>1. Worth(v)' = Worth(v) - a /\ Worth(v) \in Nat
    BY <1>1, <1>3, <1>4, <1>6 DEF Worth
  <2>2. CASE u = owner /\ prizeReserve' = prizeReserve + a
    BY <1>4, <1>6, <2>1, <2>2 DEF PaysNothing
  <2>3. CASE prizeReserve' = prizeReserve
    <3>1. Surplus' = Surplus + a /\ Surplus \in Int
      BY <1>1, <1>3, <1>4, <2>3 DEF Surplus
    <3>2. QED
      BY <1>4, <1>6, <2>1, <3>1 DEF PaysNothing
  <2>4. QED
    BY <1>1, <2>2, <2>3
<1>7. QED
  BY <1>5, <1>6

LEMMA StepPays == MoneyInv /\ [Next]_vars => \A v \in Accounts : PaysNothing(v)
<1> SUFFICES ASSUME MoneyInv, [Next]_vars, NEW v \in Accounts PROVE PaysNothing(v)
  OBVIOUS
<1>1. ASSUME UNCHANGED <<balance, books>> PROVE PaysNothing(v)
  <2>1. Worth(v)' = Worth(v)
    BY <1>1 DEF Worth, books
  <2>2. QED
    BY <2>1, WorthKept
<1>2. CASE Tick
  BY <1>1, <1>2 DEF Tick
<1>3. ASSUME NEW u \in Accounts, lockRound(u) PROVE PaysNothing(v)
  BY <1>1, <1>3 DEF lockRound
<1>4. ASSUME NEW u \in Accounts, NEW ticket, draw(u, ticket) PROVE PaysNothing(v)
  BY <1>1, <1>4 DEF draw
<1>5. ASSUME NEW u \in Accounts, NEW new, transferOwnership(u, new) PROVE PaysNothing(v)
  BY <1>1, <1>5 DEF transferOwnership
<1>6. ASSUME NEW u \in Accounts, claim(u) PROVE PaysNothing(v)
  BY <1>6, ClaimPays
<1>7. ASSUME NEW u \in Accounts,
             \/ \E x \in Requests : deposit(u, x) \/ withdraw(u, x)
             \/ withdrawAll(u)
      PROVE  PaysNothing(v)
  BY <1>7, MovesKeepWorth, WorthKept
<1>8. ASSUME NEW u \in Accounts, NEW x \in Requests, fundPrize(u, x) \/ donate(u, x)
      PROVE  PaysNothing(v)
  BY <1>8, GiftsPay
<1>9. CASE UNCHANGED vars
  BY <1>1, <1>9 DEF vars
<1>10. QED
  BY <1>2, <1>3, <1>4, <1>5, <1>6, <1>7, <1>8, <1>9 DEF Next

\* No wallet is ever worse off but by what it gives away itself, or better off
\* but by the one prize, whatever the others do.
THEOREM NobodyPaysHolds == Spec => NobodyPays
<1>1. MoneyInv /\ [Next]_vars => [\A u \in Accounts : PaysNothing(u)]_vars
  BY StepPays
<1>2. QED
  BY <1>1, MoneyHolds, PTL DEF Spec, NobodyPays

-----------------------------------------------------------------------------
(* The draw is fair *)

\* Whoever has something in the pool is registered, and until the prize is
\* credited the pool holds no more than a ticket can reach.
Registered == \A u \in Accounts : credited[u] > 0 => u \in Range(participants)

WithinCap == roundState # "Claimable" => confidentialTotal <= MAX_POOL_TOTAL

DrawInv == MoneyInv /\ Registered /\ WithinCap

\* One more interval in the walk.
LEMMA WalkStep ==
  ASSUME NEW n \in Nat, NEW w, \A j \in 1..n : w[j] \in Nat, NEW i \in 1..n
  PROVE  /\ Total(w, 1..i) = Total(w, 1..(i - 1)) + w[i]
         /\ Total(w, 1..(i - 1)) \in Nat
<1>1. IsFiniteSet(1..i) /\ IsFiniteSet(1..(i - 1)) /\ i \in 1..i
  BY FS_Interval
<1>2. \A j \in 1..i : w[j] \in Nat
  OBVIOUS
<1>3. (1..i) \ {i} = 1..(i - 1)
  OBVIOUS
<1>4. Total(w, 1..i) = w[i] + Total(w, (1..i) \ {i})
  BY <1>1, <1>2, TotalRemove
<1>5. Total(w, 1..(i - 1)) \in Nat
  <2>1. \A j \in 1..(i - 1) : w[j] \in Nat
    BY <1>2
  <2>2. QED
    BY <1>1, <2>1, TotalType
<1>6. Total(w, 1..i) = w[i] + Total(w, 1..(i - 1))
  BY <1>3, <1>4, Zenon
<1>7. w[i] \in Nat
  OBVIOUS
<1>8. QED
  BY <1>5, <1>6, <1>7

\* A walk never goes back.
LEMMA WalkGrows ==
  ASSUME NEW n \in Nat, NEW w, \A j \in 1..n : w[j] \in Nat,
         NEW a \in 0..n, NEW b \in 0..n, a <= b
  PROVE  Total(w, 1..a) <= Total(w, 1..b) /\ Total(w, 1..b) \in Nat
<1>1. IsFiniteSet(1..b) /\ 1..a \in SUBSET (1..b)
  BY FS_Interval
<1>2. \A j \in 1..b : w[j] \in Nat
  OBVIOUS
<1>3. QED
  BY <1>1, <1>2, TotalMonotonic, TotalType

\* Every ticket below the sum of the walk falls in an interval.
LEMMA WalkCovers ==
  ASSUME NEW n \in Nat, NEW w, \A j \in 1..n : w[j] \in Nat,
         NEW t \in Nat, t < Total(w, 1..n)
  PROVE  \E i \in 1..n : Total(w, 1..(i - 1)) <= t /\ t < Total(w, 1..(i - 1)) + w[i]
<1> DEFINE Beyond == {i \in 0..n : t < Total(w, 1..i)}
<1>1. Beyond \subseteq Nat /\ n \in Beyond
  OBVIOUS
<1>2. PICK i \in Beyond : \A m \in Beyond : i <= m
  <2> HIDE DEF Beyond
  <2>1. QED
    BY <1>1, LeastNatural
<1>3. i # 0
  <2>1. 1..0 = {}
    OBVIOUS
  <2>2. Total(w, {}) = 0
    BY TotalEmpty
  <2>3. QED
    BY <1>2, <2>1, <2>2
<1>4. i \in 1..n /\ i - 1 \in 0..n /\ i - 1 \notin Beyond
  BY <1>2, <1>3
<1>5. Total(w, 1..i) = Total(w, 1..(i - 1)) + w[i] /\ Total(w, 1..(i - 1)) \in Nat
  BY <1>4, WalkStep
<1>6. t < Total(w, 1..i) /\ ~(t < Total(w, 1..(i - 1)))
  BY <1>2, <1>4
<1>7. QED
  BY <1>4, <1>5, <1>6

\* The intervals of the participants are disjoint, and reach up to the total.
LEMMA Intervals ==
  ASSUME DrawInv
  PROVE  /\ Len(participants) \in Nat /\ DOMAIN participants = 1..Len(participants)
         /\ \A i \in 1..Len(participants) :
              weights[i] = credited[participants[i]] /\ weights[i] \in Nat
         /\ \A i \in Nat : lower(i) = Total(weights, 1..(i - 1))
         /\ Total(weights, 1..Len(participants)) = confidentialTotal
<1>1. /\ Len(participants) \in Nat /\ DOMAIN participants = 1..Len(participants)
      /\ \A i \in 1..Len(participants) : participants[i] \in Accounts
      /\ \A i, j \in 1..Len(participants) : participants[i] = participants[j] => i = j
  BY DEF DrawInv, MoneyInv, TypeOK, IsInjective
<1>2. \A u \in Accounts : credited[u] \in Nat
  BY PoolAssumption DEF DrawInv, MoneyInv, TypeOK
<1>3. \A i \in 1..Len(participants) :
        weights[i] = credited[participants[i]] /\ weights[i] \in Nat
  BY <1>1, <1>2 DEF weights
<1>4. \A i \in Nat : lower(i) = Total(weights, 1..(i - 1))
  BY DEF lower, Total
<1>5. Total(weights, 1..Len(participants)) = Total(credited, Range(participants))
  <2>1. IsFiniteSet(1..Len(participants))
    BY <1>1, FS_Interval
  <2>2. \A i \in 1..Len(participants) : credited[participants[i]] \in Nat
    BY <1>1, <1>2
  <2>3. Total([i \in 1..Len(participants) |-> credited[participants[i]]], 1..Len(participants))
          = Total(credited, {participants[i] : i \in 1..Len(participants)})
    BY <1>1, <2>1, <2>2, TotalImage
  <2>4. weights = [i \in 1..Len(participants) |-> credited[participants[i]]]
    BY <1>1 DEF weights
  <2>5. Range(participants) = {participants[i] : i \in 1..Len(participants)}
    BY <1>1 DEF Range
  <2>6. QED
    BY <2>3, <2>4, <2>5
<1>6. Total(credited, Range(participants)) = Total(credited, Accounts)
  <2>1. Range(participants) \in SUBSET Accounts
    BY <1>1 DEF Range
  <2>2. \A u \in Accounts \ Range(participants) : credited[u] = 0
    BY <1>2 DEF DrawInv, Registered
  <2>3. QED
    BY <1>2, <2>1, <2>2, HoldersFinite, TotalPart
<1>7. QED
  BY <1>1, <1>3, <1>4, <1>5, <1>6 DEF DrawInv, MoneyInv, TotalIsSum

LEMMA DrawInvFair == DrawInv => FairDraw
<1> SUFFICES ASSUME DrawInv, roundState = "Locked" PROVE FairDraw
  BY DEF FairDraw
<1>1. PICK n : n = Len(participants)
  OBVIOUS
<1>2. PICK w : w = weights
  OBVIOUS
<1>3. PICK max : max = MAX_POOL_TOTAL
  OBVIOUS
<1>4. PICK sum : sum = confidentialTotal
  OBVIOUS
<1> DEFINE low(i) == Total(w, 1..(i - 1))
           Hit(i, t) == low(i) <= t /\ t < low(i) + w[i]
<1>5. /\ n \in Nat /\ DOMAIN participants = 1..n
      /\ \A j \in 1..n : w[j] = credited[participants[j]] /\ w[j] \in Nat
      /\ \A j \in 1..n : \A t : InRange(j, t) <=> Hit(j, t)
      /\ Total(w, 1..n) = sum
      /\ max \in Nat /\ sum \in Nat /\ sum <= max
  <2>1. MAX_POOL_TOTAL \in Nat /\ confidentialTotal \in Nat /\ confidentialTotal <= MAX_POOL_TOTAL
    BY PoolAssumption DEF DrawInv, MoneyInv, TypeOK, WithinCap
  <2>2. \A j \in 1..n : lower(j) = Total(w, 1..(j - 1))
    BY <1>1, <1>2, Intervals
  <2>3. \A j \in 1..n : \A t : InRange(j, t) <=> Hit(j, t)
    BY <1>2, <2>2 DEF InRange
  <2>4. QED
    BY <1>1, <1>2, <1>3, <1>4, <2>1, <2>3, Intervals
<1>6. \A j \in 1..n : w[j] \in Nat
  BY <1>5
<1>7. ASSUME NEW i \in 1..n
      PROVE  low(i) \in Nat /\ low(i) + w[i] <= sum /\ low(i + 1) = low(i) + w[i]
  <2>1. Total(w, 1..i) = Total(w, 1..(i - 1)) + w[i] /\ Total(w, 1..(i - 1)) \in Nat
    BY <1>5, <1>6, WalkStep
  <2>2. i \in 0..n /\ n \in 0..n /\ i <= n
    BY <1>5
  <2>3. Total(w, 1..i) <= Total(w, 1..n)
    BY <1>5, <1>6, <2>2, WalkGrows
  <2>4. (i + 1) - 1 = i
    OBVIOUS
  <2>5. QED
    BY <1>5, <2>1, <2>3, <2>4
<1>8. ASSUME NEW i \in 1..n, NEW j \in 1..n, i < j PROVE low(i) + w[i] <= low(j)
  <2>1. i \in 0..n /\ j - 1 \in 0..n /\ i <= j - 1
    BY <1>5, <1>8
  <2>2. Total(w, 1..i) <= Total(w, 1..(j - 1))
    BY <1>5, <1>6, <2>1, WalkGrows
  <2>3. Total(w, 1..i) = Total(w, 1..(i - 1)) + w[i]
    BY <1>5, <1>6, WalkStep
  <2>4. QED
    BY <2>2, <2>3
<1>9. ASSUME NEW t \in Nat, t < sum PROVE \E i \in 1..n : Hit(i, t)
  BY <1>5, <1>6, <1>9, WalkCovers
<1> HIDE DEF low
<1>10. ASSUME NEW i \in 1..n
       PROVE  {t \in 0..(max - 1) : Selected(i, t)} = low(i)..(low(i) + w[i] - 1)
  <2>1. ASSUME NEW t \in Nat PROVE Selected(i, t) <=> Hit(i, t)
    <3>1. i # NO_WINNER
      BY DEF NO_WINNER
    <3>2. ASSUME NEW j \in 1..n, j > i, Hit(i, t) PROVE ~Hit(j, t)
      <4>1. low(i) + w[i] <= low(j)
        BY <1>8, <3>2
      <4>2. low(i) \in Nat /\ low(j) \in Nat /\ w[i] \in Nat
        BY <1>5, <1>7
      <4>3. QED
        BY <3>2, <4>1, <4>2
    <3>3. QED
      BY <1>5, <3>1, <3>2 DEF Selected
  <2>2. low(i) \in Nat /\ w[i] \in Nat /\ low(i) + w[i] <= max
    BY <1>5, <1>7
  <2>3. QED
    BY <1>5, <2>1, <2>2
<1>11. {t \in 0..(max - 1) : Selected(NO_WINNER, t)} = sum..(max - 1)
  <2>1. ASSUME NEW t \in Nat PROVE Selected(NO_WINNER, t) <=> sum <= t
    <3>1. NO_WINNER \notin 1..n
      BY <1>5 DEF NO_WINNER
    <3>2. ASSUME NEW j \in 1..n, Hit(j, t) PROVE t < sum
      <4>1. low(j) \in Nat /\ low(j) + w[j] <= sum /\ w[j] \in Nat
        BY <1>5, <1>7
      <4>2. QED
        BY <1>5, <3>2, <4>1
    <3>3. Selected(NO_WINNER, t) <=> \A j \in 1..n : ~Hit(j, t)
      BY <1>5, <3>1 DEF Selected
    <3>4. ASSUME t < sum PROVE \E j \in 1..n : Hit(j, t)
      BY <1>9, <3>4
    <3>5. (\E j \in 1..n : Hit(j, t)) <=> t < sum
      BY <3>2, <3>4
    <3>6. (t < sum) <=> ~(sum <= t)
      BY <1>5
    <3>7. QED
      BY <3>3, <3>5, <3>6
  <2>2. QED
    BY <1>5, <2>1
<1>12. ASSUME NEW i \in 1..n
       PROVE  Cardinality({t \in 0..(max - 1) : Selected(i, t)}) = credited[participants[i]]
  <2>1. low(i) \in Nat /\ w[i] \in Nat /\ w[i] = credited[participants[i]]
    BY <1>5, <1>7
  <2>2. PICK a, b : a = low(i) /\ b = low(i) + w[i] - 1
    OBVIOUS
  <2>3. a \in Int /\ b \in Int
    BY <2>1, <2>2
  <2>4. Cardinality(a..b) = IF a > b THEN 0 ELSE b - a + 1
    BY <2>3, FS_Interval
  <2>5. Cardinality({t \in 0..(max - 1) : Selected(i, t)}) = Cardinality(a..b)
    BY <1>10, <2>2, Zenon
  <2>6. (IF a > b THEN 0 ELSE b - a + 1) = w[i]
    BY <2>1, <2>2
  <2>7. QED
    BY <2>1, <2>4, <2>5, <2>6
<1>13. Cardinality({t \in 0..(max - 1) : Selected(NO_WINNER, t)}) = max - sum
  <2>1. sum \in Int /\ max - 1 \in Int
    BY <1>5
  <2>2. Cardinality(sum..(max - 1)) = IF sum > max - 1 THEN 0 ELSE (max - 1) - sum + 1
    BY <2>1, FS_Interval
  <2>3. Cardinality({t \in 0..(max - 1) : Selected(NO_WINNER, t)}) = Cardinality(sum..(max - 1))
    BY <1>11, Zenon
  <2>4. (IF sum > max - 1 THEN 0 ELSE (max - 1) - sum + 1) = max - sum
    BY <1>5
  <2>5. QED
    BY <2>2, <2>3, <2>4
<1>14. QED
  BY <1>3, <1>4, <1>5, <1>12, <1>13 DEF FairDraw

LEMMA StepFair == DrawInv /\ [Next]_vars => DrawInv'
<1> SUFFICES ASSUME DrawInv, [Next]_vars PROVE DrawInv'
  OBVIOUS
<1>1. MoneyInv /\ MoneyInv' /\ TypeOK
  BY StepMoney DEF DrawInv, MoneyInv
<1>2. /\ credited \in [Accounts -> 0..U64_MAX] /\ participants \in Seq(Accounts)
      /\ confidentialTotal \in Nat /\ confidentialTotal' \in Nat /\ MAX_POOL_TOTAL \in Nat
      /\ \A u \in Accounts : credited[u] \in Nat
  <2>1. U64_MAX \in Nat /\ MAX_POOL_TOTAL \in Nat
    BY PoolAssumption
  <2>2. /\ credited \in [Accounts -> 0..U64_MAX] /\ participants \in Seq(Accounts)
        /\ confidentialTotal \in 0..U64_MAX
    BY <1>1 DEF TypeOK
  <2>3. confidentialTotal' \in 0..U64_MAX
    BY <1>1 DEF MoneyInv, TypeOK
  <2>4. QED
    BY <2>1, <2>2, <2>3
<1>3. ASSUME UNCHANGED <<credited, confidentialTotal, participants>>,
             roundState = "Claimable" => roundState' = "Claimable"
      PROVE  DrawInv'
  BY <1>1, <1>3 DEF DrawInv, Registered, WithinCap
<1>4. CASE Tick
  BY <1>3, <1>4 DEF Tick, books, round
<1>5. ASSUME NEW u \in Accounts, lockRound(u) PROVE DrawInv'
  BY <1>3, <1>5 DEF lockRound, books
<1>6. ASSUME NEW u \in Accounts, NEW ticket, draw(u, ticket) PROVE DrawInv'
  BY <1>3, <1>6 DEF draw, books
<1>7. ASSUME NEW u \in Accounts, NEW new, transferOwnership(u, new) PROVE DrawInv'
  BY <1>3, <1>7 DEF transferOwnership, books, round
<1>8. ASSUME NEW u \in Accounts, NEW x \in Requests, fundPrize(u, x) \/ donate(u, x)
      PROVE  DrawInv'
  BY <1>3, <1>8 DEF fundPrize, donate, books, round
<1>9. ASSUME NEW u \in Accounts, claim(u) PROVE DrawInv'
  <2>1. u \in Range(participants) /\ roundState' = "Claimable" /\ participants' = participants
        /\ \A v \in Accounts \ {u} : credited'[v] = credited[v]
    BY <1>2, <1>9 DEF claim, MayClaim
  <2>2. QED
    BY <1>1, <2>1 DEF DrawInv, Registered, WithinCap
<1>10. ASSUME NEW u \in Accounts, NEW a \in Nat, a <= credited[u], PayOut(u, a)
       PROVE  DrawInv'
  <2>1. /\ credited' = [credited EXCEPT ![u] = credited[u] - a]
        /\ confidentialTotal' = confidentialTotal - a
    BY <1>1, <1>10, PayOutExact
  <2>2. UNCHANGED <<participants, roundState>>
    BY <1>10 DEF PayOut, round
  <2>3. Registered'
    BY <1>2, <2>1, <2>2 DEF DrawInv, Registered
  <2>4. WithinCap'
    BY <1>2, <2>1, <2>2 DEF DrawInv, WithinCap
  <2>5. QED
    BY <1>1, <2>3, <2>4 DEF DrawInv
<1>11. ASSUME NEW u \in Accounts, withdrawAll(u) PROVE DrawInv'
  BY <1>2, <1>10, <1>11 DEF withdrawAll
<1>12. ASSUME NEW u \in Accounts, NEW x \in Requests, withdraw(u, x) PROVE DrawInv'
  BY <1>1, <1>10, <1>12, WithdrawExact
<1>13. ASSUME NEW u \in Accounts, NEW x \in Requests, deposit(u, x) PROVE DrawInv'
  <2>1. PICK a \in Nat :
          /\ confidentialTotal <= MAX_POOL_TOTAL => confidentialTotal + a <= MAX_POOL_TOTAL
          /\ credited' = [credited EXCEPT ![u] = credited[u] + a]
          /\ confidentialTotal' = confidentialTotal + a
    BY <1>1, <1>13, DepositExact
  <2>2. roundState = "Open" /\ _registerParticipant(u)
    BY <1>13 DEF deposit
  <2>3. Range(participants) \cup {u} = Range(participants')
    <3>1. CASE u \in Range(participants) /\ participants' = participants
      BY <3>1
    <3>2. CASE participants' = Append(participants, u)
      <4>1. PICK n \in Nat : n = Len(participants) /\ DOMAIN participants = 1..n
        BY <1>2
      <4>2. /\ DOMAIN participants' = 1..(n + 1)
            /\ participants'[n + 1] = u
            /\ \A i \in 1..n : participants'[i] = participants[i]
        BY <1>2, <3>2, <4>1
      <4>3. 1..(n + 1) = (1..n) \cup {n + 1}
        OBVIOUS
      <4>4. QED
        BY <4>1, <4>2, <4>3 DEF Range
    <3>3. QED
      BY <2>2, <3>1, <3>2 DEF _registerParticipant
  <2>4. Registered'
    <3>1. \A v \in Accounts \ {u} : credited'[v] = credited[v]
      BY <1>2, <2>1
    <3>2. QED
      BY <2>3, <3>1 DEF DrawInv, Registered
  <2>5. WithinCap'
    BY <2>1, <2>2 DEF DrawInv, WithinCap
  <2>6. QED
    BY <1>1, <2>4, <2>5 DEF DrawInv
<1>14. CASE UNCHANGED vars
  BY <1>3, <1>14 DEF vars, books, round
<1>15. QED
  BY <1>4, <1>5, <1>6, <1>7, <1>8, <1>9, <1>11, <1>12, <1>13, <1>14 DEF Next

\* For any participants and any order of deposits and withdrawals, before or
\* after the lock, a ticket drawn now selects each of them in exact proportion to
\* what they have in the pool, and nobody by what is missing to the full pool.
THEOREM FairDrawHolds == Spec => []FairDraw
<1>1. Init => DrawInv
  <2>1. Init => Registered /\ WithinCap
    BY PoolAssumption DEF Init, Registered, WithinCap
  <2>2. QED
    BY <2>1, InitMoney DEF DrawInv
<1>2. QED
  BY <1>1, StepFair, DrawInvFair, PTL DEF Spec

-----------------------------------------------------------------------------
(* The page of the pool *)

\* Without a connection, without a reading or after one that failed, a screen
\* shows a gate and no more.
LEMMA GateOnly ==
  ASSUME NEW s \in EvmSlots, NEW F, NEW lf \in BOOLEAN,
         ~(s.status = "connected" /\ lf = FALSE /\ F # {})
  PROVE  Buttons(s, F, lf) \subseteq {"connectEvm", "switchSepolia", "again"}
<1> DEFINE stage == stageOf(s.status, F, lf)
           gate  == GateButtons(s, stage)
<1>1. s.status \in {"missing", "disconnected", "wrongNetwork", "connected"}
  BY DEF EvmSlots
<1>2. ~(evmGate(s) = "ready" /\ stage \in RoundState)
  <2>1. CASE s.status = "connected" /\ lf = TRUE
    BY <2>1 DEF stageOf, RoundState
  <2>2. CASE s.status = "connected" /\ lf = FALSE /\ F = {}
    BY <2>2 DEF stageOf, RoundState
  <2>3. CASE s.status # "connected"
    BY <1>1, <2>3 DEF evmGate
  <2> QED BY <2>1, <2>2, <2>3
<1>3. gate \subseteq {"connectEvm", "switchSepolia", "again"}
  BY DEF GateButtons, button
<1>4. Buttons(s, F, lf) = gate \cup UNION {SaverButtons(stage, f) \cup HostButtons(f) \cup ClaimButton(f) : f \in {}}
  <2>1. (IF evmGate(s) = "ready" /\ stage \in RoundState THEN F ELSE {}) = {}
    BY <1>2
  <2> QED BY <2>1, Zenon DEF Buttons
<1>5. UNION {SaverButtons(stage, f) \cup HostButtons(f) \cup ClaimButton(f) : f \in {}} = {}
  OBVIOUS
<1> QED
  BY <1>3, <1>4, <1>5

\* What a connected screen shows, button by button.
Offers(f, x) ==
  \/ x = "grantOperator" /\ ~f.operatorGranted
  \/ x = "deposit" /\ f.roundState = "Open"
  \/ x \in {"withdraw", "withdrawAll"}
  \/ /\ f.isOwner
     /\ \/ x \in {"fund", "lock"} /\ f.roundState = "Open"
        \/ x = "draw" /\ f.roundState = "Locked"
  \/ x = "claim" /\ claimOffer(f)

LEMMA ButtonsOf ==
  ASSUME NEW s, s.status = "connected", NEW f, f.roundState \in RoundState
  PROVE  \A x : x \in Buttons(s, {f}, FALSE) <=> Offers(f, x)
<1> DEFINE stage == stageOf(s.status, {f}, FALSE)
<1>1. (CHOOSE g \in {f} : TRUE) = f /\ {f} # {}
  OBVIOUS
<1>2. stage = f.roundState /\ evmGate(s) = "ready"
  BY <1>1 DEF stageOf, evmGate
<1>3. PICK stg : stg = stage
  OBVIOUS
<1>4. PICK gate, saver, host, draws :
        /\ gate = GateButtons(s, stg) /\ saver = SaverButtons(stg, f)
        /\ host = HostButtons(f) /\ draws = ClaimButton(f)
  OBVIOUS
<1>5. gate = {}
  BY <1>2, <1>3, <1>4 DEF GateButtons, button, RoundState
<1>6. \A x : x \in saver <=> \/ x = "grantOperator" /\ ~f.operatorGranted
                             \/ x = "deposit" /\ f.roundState = "Open"
                             \/ x \in {"withdraw", "withdrawAll"}
  <2>1. /\ depositOffer(stg).canDeposit = (f.roundState = "Open")
        /\ depositOffer(stg).canWithdraw = TRUE
    BY <1>2, <1>3 DEF depositOffer
  <2>2. /\ \A x : x \in button("grantOperator", ~f.operatorGranted) <=> x = "grantOperator" /\ ~f.operatorGranted
        /\ \A x : x \in button("deposit", f.roundState = "Open") <=> x = "deposit" /\ f.roundState = "Open"
        /\ button("withdraw", TRUE) = {"withdraw"} /\ button("withdrawAll", TRUE) = {"withdrawAll"}
    BY DEF button
  <2>3. saver = button("grantOperator", ~f.operatorGranted) \cup button("deposit", f.roundState = "Open")
                  \cup button("withdraw", TRUE) \cup button("withdrawAll", TRUE)
    BY <1>4, <2>1, Zenon DEF SaverButtons
  <2> QED BY <2>2, <2>3
<1>7. \A x : x \in host <=>
        /\ f.isOwner
        /\ \/ x \in {"fund", "lock"} /\ f.roundState = "Open"
           \/ x = "draw" /\ f.roundState = "Locked"
  <2>1. PICK fund, lock, drawing :
          /\ fund = button("fund", ownerOffer(f).canFund)
          /\ lock = button("lock", ownerOffer(f).canLock)
          /\ drawing = button("draw", ownerOffer(f).canDraw)
    OBVIOUS
  <2>2. host = fund \cup lock \cup drawing
    BY <1>4, <2>1, Zenon DEF HostButtons
  <2>3. /\ ownerOffer(f).canFund <=> f.isOwner /\ f.roundState = "Open"
        /\ ownerOffer(f).canLock <=> f.isOwner /\ f.roundState = "Open"
        /\ ownerOffer(f).canDraw <=> f.isOwner /\ f.roundState = "Locked"
    BY DEF ownerOffer
  <2>4. /\ \A x : x \in fund <=> f.isOwner /\ f.roundState = "Open" /\ x = "fund"
        /\ \A x : x \in lock <=> f.isOwner /\ f.roundState = "Open" /\ x = "lock"
        /\ \A x : x \in drawing <=> f.isOwner /\ f.roundState = "Locked" /\ x = "draw"
    BY <2>1, <2>3 DEF button
  <2> QED BY <2>2, <2>4
<1>8. \A x : x \in draws <=> x = "claim" /\ claimOffer(f)
  BY <1>4 DEF ClaimButton, button
<1>9. Buttons(s, {f}, FALSE) = gate \cup (saver \cup host \cup draws)
  <2>1. (IF evmGate(s) = "ready" /\ stage \in RoundState THEN {f} ELSE {}) = {f}
    BY <1>2
  <2>2. Buttons(s, {f}, FALSE)
          = gate \cup UNION {SaverButtons(stg, g) \cup HostButtons(g) \cup ClaimButton(g) : g \in {f}}
    BY <1>3, <1>4, <2>1, Zenon DEF Buttons
  <2>3. UNION {SaverButtons(stg, g) \cup HostButtons(g) \cup ClaimButton(g) : g \in {f}} = saver \cup host \cup draws
    BY <1>4
  <2> QED BY <2>2, <2>3, Zenon
<1> QED
  BY <1>5, <1>6, <1>7, <1>8, <1>9 DEF Offers

\* The screen of somebody connected.
LEMMA ScreenShows ==
  ASSUME TypeOK, NEW u \in Accounts, NEW allowed \in BOOLEAN
  PROVE  \A x : x \in ScreenOf(u, allowed) <=> Offers(PoolFacts(u, allowed), x)
<1>1. PICK f : f = PoolFacts(u, allowed)
  OBVIOUS
<1>2. f.roundState \in RoundState
  BY <1>1 DEF PoolFacts, readPool, TypeOK
<1>3. ConnectedSlot(u).status = "connected"
  BY DEF ConnectedSlot
<1>4. \A x : x \in Buttons(ConnectedSlot(u), {f}, FALSE) <=> Offers(f, x)
  BY <1>2, <1>3, ButtonsOf
<1> QED
  BY <1>1, <1>4 DEF ScreenOf

\* Two of its buttons.
ScreenTells(u) ==
  /\ "claim" \in AllowedScreenOf(u) <=> MayClaim(u)
  /\ "deposit" \in AllowedScreenOf(u) <=> roundState = "Open"

LEMMA ScreenOffers == TypeOK => \A u \in Accounts : ScreenTells(u)
<1> SUFFICES ASSUME TypeOK, NEW u \in Accounts PROVE ScreenTells(u)
  OBVIOUS
<1>1. PICK f, shown : f = PoolFacts(u, TRUE) /\ shown = AllowedScreenOf(u)
  OBVIOUS
<1>2. \A x : x \in shown <=> Offers(f, x)
  BY <1>1, ScreenShows DEF AllowedScreenOf
<1>3. /\ f.roundState = roundState /\ f.isParticipant = (u \in Range(participants))
      /\ f.hasClaimed = (u \in claimed)
  BY <1>1 DEF PoolFacts, readPool, readUserState
<1>4. /\ "claim" \in shown <=> claimOffer(f)
      /\ "deposit" \in shown <=> f.roundState = "Open"
  BY <1>2 DEF Offers
<1>5. claimOffer(f) <=> MayClaim(u)
  BY <1>3 DEF claimOffer, MayClaim
<1> QED
  BY <1>1, <1>3, <1>4, <1>5 DEF ScreenTells

\* A reading of one moment, whatever the pool is at.
LEMMA FreshStands == TypeOK => FreshOffers
<1> SUFFICES ASSUME TypeOK, NEW u \in Accounts, NEW allowed \in BOOLEAN
    PROVE  LET f     == PoolFacts(u, allowed)
               shown == ScreenOf(u, allowed)
               asked == "grantOperator" \in shown
           IN  /\ "claim" \in shown <=> MayClaim(u)
               /\ "lock" \in shown <=> LockAccepted(u)
               /\ "fund" \in shown /\ ~asked <=> FundAccepted(u, allowed)
               /\ DepositAccepted(u, allowed) <=>
                    /\ "deposit" \in shown /\ ~asked
                    /\ f.isParticipant \/ f.participantCount < MAX_PARTICIPANTS
               /\ "draw" \in shown => roundState = "Locked" /\ MayDraw(u)
               /\ {"withdraw", "withdrawAll"} \subseteq shown
  BY DEF FreshOffers
<1>1. PICK f : f = PoolFacts(u, allowed)
  OBVIOUS
<1>2. /\ f.roundState = roundState /\ f.participantCount = Len(participants)
      /\ f.isParticipant = (u \in Range(participants)) /\ f.hasClaimed = (u \in claimed)
      /\ f.operatorGranted = allowed /\ f.isOwner = (u = owner)
  BY <1>1 DEF PoolFacts, readPool, readUserState, isPoolOwner
<1>3. PICK shown : shown = ScreenOf(u, allowed)
  OBVIOUS
<1>4. \A x : x \in shown <=> Offers(f, x)
  BY <1>1, <1>3, ScreenShows
<1>5. /\ "claim" \in shown <=> claimOffer(f)
      /\ "lock" \in shown <=> f.isOwner /\ f.roundState = "Open"
      /\ "fund" \in shown <=> f.isOwner /\ f.roundState = "Open"
      /\ "deposit" \in shown <=> f.roundState = "Open"
      /\ "draw" \in shown <=> f.isOwner /\ f.roundState = "Locked"
      /\ "grantOperator" \in shown <=> ~f.operatorGranted
      /\ "withdraw" \in shown /\ "withdrawAll" \in shown
  BY <1>4 DEF Offers
<1>6. claimOffer(f) <=> MayClaim(u)
  BY <1>2 DEF claimOffer, MayClaim
<1>7. "lock" \in shown <=> LockAccepted(u)
  BY <1>2, <1>5 DEF LockAccepted
<1>8. "fund" \in shown /\ "grantOperator" \notin shown <=> FundAccepted(u, allowed)
  BY <1>2, <1>5 DEF FundAccepted, LockAccepted
<1>9. DepositAccepted(u, allowed) <=>
        /\ "deposit" \in shown /\ "grantOperator" \notin shown
        /\ f.isParticipant \/ f.participantCount < MAX_PARTICIPANTS
  BY <1>2, <1>5 DEF DepositAccepted
<1>10. "draw" \in shown => roundState = "Locked" /\ MayDraw(u)
  BY <1>2, <1>5 DEF MayDraw
<1> QED
  BY <1>1, <1>3, <1>5, <1>6, <1>7, <1>8, <1>9, <1>10


-----------------------------------------------------------------------------
(* What an old reading may still say *)

\* The states of a round that has been at r.
From(r) ==
  CASE r = "Open"      -> {"Open", "Locked", "Drawn", "Claimable"}
    [] r = "Locked"    -> {"Locked", "Drawn", "Claimable"}
    [] r = "Drawn"     -> {"Drawn", "Claimable"}
    [] r = "Claimable" -> {"Claimable"}

\* What each transaction of the pool leaves true: rounds go one way, savers are
\* not forgotten, and none joins a full pool or a round that was locked.
Ages ==
  /\ \A r \in RoundState : roundState \in From(r) => roundState' \in From(r)
  /\ Len(participants) <= Len(participants')
  /\ Range(participants) \subseteq Range(participants')
  /\ roundState # "Open" \/ Len(participants) = MAX_PARTICIPANTS => participants' = participants
  /\ claimed \subseteq claimed'

LEMMA PoolAges == TypeOK /\ [Next]_vars => Ages
<1> SUFFICES ASSUME TypeOK, [Next]_vars PROVE Ages
  OBVIOUS
<1>1. ASSUME UNCHANGED participants, claimed \subseteq claimed',
             \A r \in RoundState : roundState \in From(r) => roundState' \in From(r)
      PROVE  Ages
  <2>1. Len(participants) \in Nat
    BY DEF TypeOK
  <2> QED BY <1>1, <2>1 DEF Ages
<1>2. ASSUME UNCHANGED <<participants, claimed, roundState>> PROVE Ages
  BY <1>1, <1>2
<1>3. CASE Tick
  BY <1>2, <1>3 DEF Tick, round
<1>4. ASSUME NEW u \in Accounts, lockRound(u) PROVE Ages
  BY <1>1, <1>4 DEF lockRound, From, RoundState
<1>5. ASSUME NEW u \in Accounts, NEW toSend, PayOut(u, toSend) PROVE Ages
  BY <1>2, <1>5 DEF PayOut, round
<1>6. ASSUME NEW u \in Accounts, claim(u) PROVE Ages
  BY <1>1, <1>6 DEF claim, MayClaim, From, RoundState
<1>7. ASSUME NEW u \in Accounts, NEW ticket, draw(u, ticket) PROVE Ages
  BY <1>1, <1>7 DEF draw, From, RoundState
<1>8. ASSUME NEW u \in Accounts, NEW new, transferOwnership(u, new) PROVE Ages
  BY <1>2, <1>8 DEF transferOwnership, round
<1>9. ASSUME NEW u \in Accounts, NEW amount, fundPrize(u, amount) \/ donate(u, amount) PROVE Ages
  BY <1>2, <1>9 DEF fundPrize, donate, round
<1>10. ASSUME NEW u \in Accounts, NEW amount, deposit(u, amount) PROVE Ages
  <2>1. roundState = "Open" /\ UNCHANGED <<roundState, claimed>> /\ _registerParticipant(u)
    BY <1>10 DEF deposit, round
  <2>2. CASE UNCHANGED participants
    BY <1>2, <2>1, <2>2
  <2>3. CASE Len(participants) < MAX_PARTICIPANTS /\ participants' = Append(participants, u)
    <3>1. /\ Len(participants) \in Nat /\ Len(participants') = Len(participants) + 1
          /\ DOMAIN participants = 1..Len(participants)
          /\ DOMAIN participants' = 1..(Len(participants) + 1)
          /\ \A i \in 1..Len(participants) : participants'[i] = participants[i]
      BY <2>3 DEF TypeOK
    <3>2. Range(participants) \subseteq Range(participants')
      BY <3>1 DEF Range
    <3>3. ~(roundState # "Open" \/ Len(participants) = MAX_PARTICIPANTS)
      <4>1. MAX_PARTICIPANTS \in Nat
        BY PoolAssumption
      <4>2. Len(participants) \in Nat /\ Len(participants) < MAX_PARTICIPANTS
        BY <2>3, <3>1
      <4>3. Len(participants) # MAX_PARTICIPANTS
        BY <4>1, <4>2
      <4> QED BY <2>1, <4>3
    <3> QED BY <2>1, <3>1, <3>2, <3>3 DEF Ages
  <2> QED BY <2>1, <2>2, <2>3 DEF _registerParticipant
<1>11. CASE UNCHANGED vars
  BY <1>2, <1>11 DEF vars, round
<1> QED
  BY <1>3, <1>4, <1>5, <1>6, <1>7, <1>8, <1>9, <1>10, <1>11 DEF Next, withdraw, withdrawAll

\* The same of the screen after a step.
LEMMA ScreenOffersNext == (TypeOK => \A u \in Accounts : ScreenTells(u))'
BY ScreenOffers, PTL

\* What a screen of this moment says is still true after the step.
LEMMA OffersAgeStep == TypeOK /\ TypeOK' /\ [Next]_vars => OffersAge
<1> SUFFICES ASSUME TypeOK, TypeOK', [Next]_vars, NEW u \in Accounts PROVE Aged(u)
  BY DEF OffersAge
<1>1. Ages
  BY PoolAges
<1>2. PICK shown : shown = AllowedScreenOf(u)
  OBVIOUS
<1>3. /\ "claim" \in shown <=> MayClaim(u)
      /\ "deposit" \in shown <=> roundState = "Open"
  BY <1>2, ScreenOffers DEF ScreenTells
<1>4. PICK later : later = AllowedScreenOf(u)'
  OBVIOUS
<1>5. /\ "claim" \in later <=> MayClaim(u)'
      /\ "deposit" \in later <=> roundState' = "Open"
  <2>1. ScreenTells(u)'
    BY ScreenOffersNext
  <2> QED BY <1>4, <2>1 DEF ScreenTells
<1>6. /\ Range(participants) \subseteq Range(participants')
      /\ roundState # "Open" => roundState' # "Open" /\ participants' = participants
      /\ Len(participants) = MAX_PARTICIPANTS => participants' = participants
      /\ roundState \in {"Drawn", "Claimable"} => roundState' \in {"Drawn", "Claimable"}
      /\ claimed \subseteq claimed'
  BY <1>1 DEF Ages, From, RoundState, TypeOK
<1>7. MayClaim(u) \/ u \in claimed => MayClaim(u)' \/ u \in claimed'
  BY <1>6 DEF MayClaim
<1>8. roundState \in {"Drawn", "Claimable"} /\ ~MayClaim(u) => ~MayClaim(u)'
  BY <1>6 DEF MayClaim
<1>9. u \notin Range(participants) /\ Len(participants) = MAX_PARTICIPANTS =>
        u \notin Range(participants') /\ Len(participants') = MAX_PARTICIPANTS /\ ~DepositAccepted(u, TRUE)'
  <2>1. MAX_PARTICIPANTS \in Nat
    BY PoolAssumption
  <2> QED BY <1>6, <2>1 DEF DepositAccepted
<1> QED
  BY <1>2, <1>3, <1>4, <1>5, <1>6, <1>7, <1>8, <1>9 DEF Aged

\* OffersStand, for any accounts and places: a screen that was just read offers
\* what the contract would accept, and one that is kept keeps nobody from their
\* claim, whatever is done meanwhile, and never hides that something opened again.
THEOREM OffersStandHolds == Spec => OffersStand
<1>1. TypeOK => FreshOffers
  BY FreshStands
<1>2. TypeOK /\ TypeOK' /\ [Next]_vars => OffersAge
  BY OffersAgeStep
<1> QED
  BY <1>1, <1>2, PoolTypeCorrect, PTL DEF Spec, OffersStand

\* What is true of what was read of u, whenever each part was.  That nobody was
\* left out rests on the round being read before the savers are.
Stands(u, got) ==
  /\ "roundState" \in DOMAIN got =>
       got.roundState \in RoundState /\ roundState \in From(got.roundState)
  /\ "participantCount" \in DOMAIN got =>
       got.participantCount \in Nat /\ got.participantCount <= Len(participants)
  /\ "isParticipant" \in DOMAIN got =>
       /\ {"roundState", "participantCount"} \subseteq DOMAIN got
       /\ got.isParticipant => u \in Range(participants)
       /\ ~got.isParticipant => /\ got.roundState # "Open" => u \notin Range(participants)
                                /\ got.participantCount = MAX_PARTICIPANTS => u \notin Range(participants)
  /\ "hasClaimed" \in DOMAIN got => (got.hasClaimed => u \in claimed)

PageInv ==
  /\ slot \in EvmSlots
  /\ loadFailed \in BOOLEAN
  /\ \A f, g \in facts : f = g
  /\ \A f \in facts : DOMAIN f.is = Fields /\ Stands(f.of, f.is)
  /\ DOMAIN refreshes = Refreshes
  /\ \A i \in DOMAIN refreshes : Active(i) => Stands(refreshes[i].of, refreshes[i].got)

\* A reading ages as the pool does.
LEMMA StandsOn ==
  ASSUME TypeOK, TypeOK', Ages, NEW u, NEW got, Stands(u, got)
  PROVE  Stands(u, got)'
<1>1. Len(participants) \in Nat /\ Len(participants') \in Nat /\ Len(participants) <= MAX_PARTICIPANTS
      /\ Len(participants') <= MAX_PARTICIPANTS /\ MAX_PARTICIPANTS \in Nat
  <2>1. participants \in Seq(Accounts) /\ Len(participants) <= MAX_PARTICIPANTS
    BY DEF TypeOK
  <2>2. participants' \in Seq(Accounts) /\ Len(participants') <= MAX_PARTICIPANTS
    BY DEF TypeOK
  <2>3. MAX_PARTICIPANTS \in Nat
    BY PoolAssumption
  <2> QED BY <2>1, <2>2, <2>3
<1>2. "roundState" \in DOMAIN got => got.roundState \in RoundState /\ roundState' \in From(got.roundState)
  BY DEF Stands, Ages
<1>3. "participantCount" \in DOMAIN got =>
        got.participantCount \in Nat /\ got.participantCount <= Len(participants')
  BY <1>1 DEF Stands, Ages
<1>4. ASSUME "isParticipant" \in DOMAIN got
      PROVE  /\ {"roundState", "participantCount"} \subseteq DOMAIN got
             /\ got.isParticipant => u \in Range(participants')
             /\ ~got.isParticipant =>
                  /\ got.roundState # "Open" => u \notin Range(participants')
                  /\ got.participantCount = MAX_PARTICIPANTS => u \notin Range(participants')
  <2>1. {"roundState", "participantCount"} \subseteq DOMAIN got
    BY <1>4 DEF Stands
  <2>2. got.isParticipant => u \in Range(participants')
    BY <1>4 DEF Stands, Ages
  <2>3. ASSUME ~got.isParticipant, got.roundState # "Open" PROVE u \notin Range(participants')
    <3>1. roundState # "Open"
      BY <2>1, <2>3 DEF Stands, From, RoundState
    <3> QED BY <1>4, <2>3, <3>1 DEF Stands, Ages
  <2>4. ASSUME ~got.isParticipant, got.participantCount = MAX_PARTICIPANTS
        PROVE  u \notin Range(participants')
    <3>1. Len(participants) = MAX_PARTICIPANTS
      BY <1>1, <2>1, <2>4 DEF Stands
    <3> QED BY <1>4, <2>4, <3>1 DEF Stands, Ages
  <2> QED BY <2>1, <2>2, <2>3, <2>4
<1>5. "hasClaimed" \in DOMAIN got => (got.hasClaimed => u \in claimed')
  BY DEF Stands, Ages
<1> QED
  BY <1>2, <1>3, <1>4, <1>5 DEF Stands

\* One more answer, of this moment.
LEMMA ReadStands ==
  ASSUME TypeOK, PageInv, NEW i \in DOMAIN refreshes, NEW field \in Fields, Read(i, field)
  PROVE  /\ refreshes'[i].of = refreshes[i].of
         /\ Stands(refreshes[i].of, refreshes'[i].got)
         /\ \A j \in DOMAIN refreshes \ {i} : refreshes'[j] = refreshes[j]
<1>1. PICK u, got, new :
        /\ u = refreshes[i].of /\ got = refreshes[i].got
        /\ new = [x \in DOMAIN got \cup {field} |-> IF x = field THEN PoolFacts(u, isOperator(u))[x] ELSE got[x]]
  OBVIOUS
<1>2. /\ field \notin DOMAIN got /\ before(field) \subseteq DOMAIN got
      /\ refreshes' = [refreshes EXCEPT ![i] = Refresh(refreshes[i].by, u, new)]
  BY <1>1, Zenon DEF Read
<1>3. /\ refreshes'[i].of = u /\ refreshes'[i].got = new
      /\ \A j \in DOMAIN refreshes \ {i} : refreshes'[j] = refreshes[j]
  BY <1>1, <1>2 DEF Refresh
<1>4. Stands(u, got)
  BY <1>1 DEF PageInv, Active, Read
<1>5. /\ DOMAIN new = DOMAIN got \cup {field} /\ new[field] = PoolFacts(u, isOperator(u))[field]
      /\ \A x \in DOMAIN got : new[x] = got[x]
  BY <1>1, <1>2
<1>6. Stands(u, new)
  <2>1. CASE field = "roundState"
    <3>1. new.roundState = roundState
      BY <1>5, <2>1 DEF PoolFacts, readPool
    <3> QED BY <1>2, <1>4, <1>5, <2>1, <3>1 DEF Stands, TypeOK, From, RoundState
  <2>2. CASE field = "participantCount"
    <3>1. new.participantCount = Len(participants)
      BY <1>5, <2>2 DEF PoolFacts, readPool
    <3> QED BY <1>2, <1>4, <1>5, <2>2, <3>1 DEF Stands, TypeOK
  <2>3. CASE field = "isParticipant"
    <3>1. new.isParticipant = (u \in Range(participants))
      BY <1>5, <2>3 DEF PoolFacts, readUserState
    <3>2. {"roundState", "participantCount"} \subseteq DOMAIN got
      BY <1>2, <2>3 DEF before, PoolFields, UserFields
    <3> QED BY <1>2, <1>4, <1>5, <2>3, <3>1, <3>2 DEF Stands
  <2>4. CASE field = "hasClaimed"
    <3>1. new.hasClaimed = (u \in claimed)
      BY <1>5, <2>4 DEF PoolFacts, readUserState
    <3> QED BY <1>2, <1>4, <1>5, <2>4, <3>1 DEF Stands
  <2>5. CASE field \in {"operatorGranted", "isOwner"}
    BY <1>2, <1>4, <1>5, <2>5 DEF Stands
  <2> QED BY <2>1, <2>2, <2>3, <2>4, <2>5 DEF Fields, PoolFields, UserFields
<1> QED
  BY <1>1, <1>3, <1>6

\* The slot stays one of the slots, and nothing but a refresh without answers begins.
LEMMA SlotTyped ==
  ASSUME NEW event \in EvmEvents, slot \in EvmSlots
  PROVE  nextEvmState(slot, event) \in EvmSlots
<1> USE DEF EvmSlots, DISCONNECTED
<1>1. CASE event.type = "disconnected"
  BY <1>1 DEF nextEvmState
<1>2. CASE event.type = "accountsChanged"
  BY <1>2 DEF nextEvmState, EvmEvents, onNetwork
<1>3. CASE event.type = "networkChanged"
  <2>1. PICK chain \in {Sepolia, OtherChain} : event.chainId = chain
    BY <1>3 DEF EvmEvents
  <2>2. PICK t : t = IF slot.address # NoAddress THEN onNetwork(chain)
                     ELSE IF slot.status = "missing" THEN "missing" ELSE "disconnected"
    OBVIOUS
  <2>3. t \in {"missing", "disconnected", "wrongNetwork", "connected"}
    BY <2>2 DEF onNetwork
  <2>4. nextEvmState(slot, event) = [[slot EXCEPT !.chainId = chain] EXCEPT !.status = t]
    BY <1>3, <2>1, <2>2 DEF nextEvmState
  <2> QED BY <2>3, <2>4
<1> QED
  BY <1>1, <1>2, <1>3 DEF EvmEvents

LEMMA BeginStands ==
  ASSUME PageInv, UNCHANGED vars, NEW i \in DOMAIN refreshes, NEW u, NEW by, Begin(i, u, by)
  PROVE  /\ DOMAIN refreshes' = Refreshes
         /\ \A j \in DOMAIN refreshes' : Active(j)' => Stands(refreshes[j].of, refreshes[j].got)'
<1>1. refreshes' = [refreshes EXCEPT ![i] = Refresh(by, u, << >>)]
  BY DEF Begin
<1>2. ASSUME NEW j \in DOMAIN refreshes, j # i, Active(j)'
      PROVE  Stands(refreshes[j].of, refreshes[j].got)'
  <2>1. refreshes'[j] = refreshes[j]
    BY <1>1, <1>2
  <2>2. Stands(refreshes[j].of, refreshes[j].got)
    BY <1>2, <2>1 DEF PageInv, Active
  <2> QED BY <2>1, <2>2 DEF Stands, vars, round
<1>3. Stands(refreshes[i].of, refreshes[i].got)'
  <2>1. refreshes'[i].got = << >>
    BY <1>1 DEF Refresh
  <2>2. \A x \in Fields : x \notin DOMAIN refreshes'[i].got
    BY <2>1
  <2> QED BY <2>2 DEF Stands, Fields, PoolFields, UserFields
<1> QED
  BY <1>1, <1>2, <1>3 DEF PageInv

\* A transaction changes what is true of a reading only by letting it age.
LEMMA TransactionsStand == TypeOK /\ TypeOK' /\ PageInv /\ Transactions => PageInv'
<1> SUFFICES ASSUME TypeOK, TypeOK', PageInv, Transactions PROVE PageInv'
  OBVIOUS
<1>1. Next /\ UNCHANGED <<slot, facts, loadFailed, refreshes>>
  BY DEF Transactions, Next, page
<1>2. Ages
  BY <1>1, PoolAges
<1>3. ASSUME NEW f \in facts' PROVE Stands(f.of, f.is)'
  <2>1. PICK u, got : u = f.of /\ got = f.is
    OBVIOUS
  <2>2. Stands(u, got)
    BY <1>1, <1>3, <2>1 DEF PageInv
  <2>3. Stands(u, got)'
    BY <1>2, <2>2, StandsOn
  <2> QED BY <2>1, <2>3
<1>4. ASSUME NEW i \in DOMAIN refreshes', Active(i)' PROVE Stands(refreshes[i].of, refreshes[i].got)'
  <2>1. PICK u, got : u = refreshes[i].of /\ got = refreshes[i].got
    OBVIOUS
  <2>2. Stands(u, got)
    BY <1>1, <1>4, <2>1 DEF PageInv, Active
  <2>3. Stands(u, got)'
    BY <1>2, <2>2, StandsOn
  <2> QED BY <1>1, <2>1, <2>3
<1> QED
  BY <1>1, <1>3, <1>4 DEF PageInv

\* A step of the page that ends, keeps or begins refreshes, and does no more.
LEMMA PageStands ==
  ASSUME PageInv, UNCHANGED vars, DOMAIN refreshes' = DOMAIN refreshes,
         slot' \in EvmSlots, loadFailed' \in BOOLEAN,
         \A f, g \in facts' : f = g,
         \A f \in facts' : DOMAIN f.is = Fields /\ Stands(f.of, f.is),
         \A j \in DOMAIN refreshes : Active(j)' => Stands(refreshes'[j].of, refreshes'[j].got)
  PROVE  PageInv'
<1>1. \A u, got : Stands(u, got)' = Stands(u, got)
  BY DEF Stands, vars, round
<1> QED
  BY <1>1 DEF PageInv

LEMMA StepStands == TypeOK /\ TypeOK' /\ PageInv /\ [PageNext]_pagevars => PageInv'
<1> SUFFICES ASSUME TypeOK, TypeOK', PageInv, [PageNext]_pagevars PROVE PageInv'
  OBVIOUS
<1>1. CASE Transactions
  BY <1>1, TransactionsStand
<1>2. ASSUME UNCHANGED vars, UNCHANGED refreshes, UNCHANGED <<facts, loadFailed>>, slot' \in EvmSlots
      PROVE  PageInv'
  <2>1. \A j \in DOMAIN refreshes : Active(j)' => Stands(refreshes'[j].of, refreshes'[j].got)
    BY <1>2 DEF PageInv, Active
  <2> QED BY <1>2, <2>1, PageStands DEF PageInv
<1>3. ASSUME NEW i \in DOMAIN refreshes, NEW u, NEW by, Begin(i, u, by),
             UNCHANGED vars, UNCHANGED <<facts, loadFailed>>, slot' \in EvmSlots
      PROVE  PageInv'
  <2>1. /\ DOMAIN refreshes' = Refreshes
        /\ \A j \in DOMAIN refreshes' : Active(j)' => Stands(refreshes[j].of, refreshes[j].got)'
    BY <1>3, BeginStands
  <2>2. \A j, v \in DOMAIN refreshes : TRUE
    OBVIOUS
  <2>3. \A v, got : Stands(v, got)' = Stands(v, got)
    BY <1>3 DEF Stands, vars, round
  <2> QED BY <1>3, <2>1, <2>3 DEF PageInv
<1>4. ASSUME NEW i \in DOMAIN refreshes, Ends(i), UNCHANGED vars, slot' \in EvmSlots,
             loadFailed' \in BOOLEAN, \A f, g \in facts' : f = g,
             \A f \in facts' : DOMAIN f.is = Fields /\ Stands(f.of, f.is)
      PROVE  PageInv'
  <2>1. /\ DOMAIN refreshes' = DOMAIN refreshes /\ refreshes'[i].by = "none"
        /\ \A j \in DOMAIN refreshes : j # i => refreshes'[j] = refreshes[j]
    BY <1>4 DEF Ends, NoRefresh
  <2>2. \A j \in DOMAIN refreshes : Active(j)' => Stands(refreshes'[j].of, refreshes'[j].got)
    BY <2>1 DEF PageInv, Active
  <2> QED BY <1>4, <2>1, <2>2, PageStands
<1>5. ASSUME NEW u \in Accounts, NEW allowed \in BOOLEAN, setOperator(u, allowed) PROVE PageInv'
  BY <1>2, <1>5 DEF setOperator, page, PageInv
<1>6. ASSUME NEW next \in EvmSlots, Becomes(next) PROVE PageInv'
  <2>1. UNCHANGED vars /\ UNCHANGED <<facts, loadFailed>> /\ slot' \in EvmSlots
    BY <1>6 DEF Becomes
  <2>2. UNCHANGED refreshes \/ \E i \in DOMAIN refreshes : Begin(i, next.address, "page")
    BY <1>6 DEF Becomes
  <2> QED BY <1>2, <1>3, <2>1, <2>2
<1>7. CASE connectEthereum
  <2>1. /\ [status |-> "missing", address |-> NoAddress, chainId |-> NoChain] \in EvmSlots
        /\ \A u \in Accounts \cup {NoAddress} :
             /\ [status |-> "connected", address |-> u, chainId |-> Sepolia] \in EvmSlots
             /\ \A chain \in {Sepolia, OtherChain} :
                  [status |-> "wrongNetwork", address |-> u, chainId |-> chain] \in EvmSlots
    BY DEF EvmSlots
  <2> QED BY <1>6, <1>7, <2>1 DEF connectEthereum
<1>8. CASE switchToSepolia
  <2>1. \A u \in Accounts \cup {NoAddress}, chain \in {Sepolia, OtherChain} :
          [status |-> onNetwork(chain), address |-> u, chainId |-> chain] \in EvmSlots
    BY DEF EvmSlots, onNetwork
  <2> QED BY <1>6, <1>8, <2>1 DEF switchToSepolia
<1>9. CASE onEvent
  <2>1. \A event \in EvmEvents : nextEvmState(slot, event) \in EvmSlots
    BY SlotTyped DEF PageInv
  <2> QED BY <1>6, <1>9, <2>1 DEF onEvent
<1>10. ASSUME NEW i \in DOMAIN refreshes, NEW field \in Fields, Read(i, field) PROVE PageInv'
  <2>1. /\ refreshes'[i].of = refreshes[i].of
        /\ Stands(refreshes[i].of, refreshes'[i].got)
        /\ \A j \in DOMAIN refreshes \ {i} : refreshes'[j] = refreshes[j]
    BY <1>10, ReadStands
  <2>2. UNCHANGED vars /\ UNCHANGED <<slot, facts, loadFailed>> /\ DOMAIN refreshes' = DOMAIN refreshes
    BY <1>10 DEF Read
  <2>3. \A j \in DOMAIN refreshes : Active(j)' => Stands(refreshes'[j].of, refreshes'[j].got)
    BY <2>1 DEF PageInv, Active
  <2> QED BY <2>2, <2>3, PageStands DEF PageInv
<1>11. ASSUME NEW i \in DOMAIN refreshes, Show(i) PROVE PageInv'
  <2>1. PICK f : f = [of |-> refreshes[i].of, is |-> refreshes[i].got]
    OBVIOUS
  <2>2. facts' = {f} /\ DOMAIN f.is = Fields /\ Stands(f.of, f.is)
    BY <1>11, <2>1 DEF Show, PageInv
  <2> QED BY <1>4, <1>11, <2>2 DEF Show, PageInv
<1>12. ASSUME NEW i \in DOMAIN refreshes, Fail(i) PROVE PageInv'
  BY <1>4, <1>12 DEF Fail, PageInv
<1>13. ASSUME NEW i \in DOMAIN refreshes, Press(i) \/ TryAgain(i) PROVE PageInv'
  BY <1>3, <1>13 DEF Press, TryAgain, PageInv
<1>14. ASSUME NEW i \in DOMAIN refreshes, Sent(i) PROVE PageInv'
  <2>1. CASE Ends(i)
    BY <1>4, <1>14, <2>1 DEF Sent, PageInv
  <2>2. CASE refreshes' = [refreshes EXCEPT ![i] = Refresh("sent", @.of, @.got)]
    <3>1. /\ DOMAIN refreshes' = DOMAIN refreshes
          /\ refreshes'[i].of = refreshes[i].of /\ refreshes'[i].got = refreshes[i].got /\ Active(i)
          /\ \A j \in DOMAIN refreshes : j # i => refreshes'[j] = refreshes[j]
      BY <1>14, <2>2 DEF Refresh, Sent, Active
    <3>2. \A j \in DOMAIN refreshes : Active(j)' => Stands(refreshes'[j].of, refreshes'[j].got)
      BY <3>1 DEF PageInv, Active
    <3> QED BY <1>14, <3>1, <3>2, PageStands DEF Sent, PageInv
  <2> QED BY <1>14, <2>1, <2>2 DEF Sent
<1>15. CASE UNCHANGED pagevars
  <2>1. UNCHANGED vars /\ UNCHANGED <<slot, facts, loadFailed, refreshes>>
    BY <1>15 DEF pagevars, page
  <2> QED BY <1>2, <2>1 DEF PageInv
<1> QED
  BY <1>1, <1>5, <1>7, <1>8, <1>9, <1>10, <1>11, <1>12, <1>13, <1>14, <1>15 DEF PageNext

\* What is on the screen against the contract, whoever is connected.
LEMMA OldStands == TypeOK /\ PageInv => StaleOffers
<1> SUFFICES ASSUME TypeOK, PageInv, "withdrawAll" \in Shown, NEW f \in facts
    PROVE  /\ "claim" \in Shown => MayClaim(f.of) \/ f.of \in claimed
           /\ "claim" \notin Shown /\ f.is.roundState \in {"Drawn", "Claimable"} => ~MayClaim(f.of)
           /\ "deposit" \notin Shown => roundState # "Open"
           /\ f.is.isOwner /\ "lock" \notin Shown => roundState # "Open"
           /\ ~f.is.isParticipant /\ f.is.participantCount = MAX_PARTICIPANTS => ~DepositAccepted(f.of, TRUE)
  BY DEF StaleOffers
<1>1. PICK u, got : u = f.of /\ got = f.is
  OBVIOUS
<1>2. facts = {f} /\ {g.is : g \in facts} = {got}
  BY <1>1 DEF PageInv
<1>3. slot.status = "connected" /\ loadFailed = FALSE
  <2>1. slot \in EvmSlots /\ loadFailed \in BOOLEAN
    BY DEF PageInv
  <2>2. Shown = Buttons(slot, {got}, loadFailed)
    BY <1>2 DEF Shown
  <2>3. ~(slot.status = "connected" /\ loadFailed = FALSE /\ {got} # {})
          => Shown \subseteq {"connectEvm", "switchSepolia", "again"}
    BY <2>1, <2>2, GateOnly
  <2> QED BY <2>3
<1>4. /\ DOMAIN got = Fields /\ Stands(u, got)
  BY <1>1 DEF PageInv
<1>5. /\ got.roundState \in RoundState /\ roundState \in From(got.roundState)
      /\ got.participantCount \in Nat /\ got.participantCount <= Len(participants)
      /\ got.isParticipant => u \in Range(participants)
      /\ ~got.isParticipant => /\ got.roundState # "Open" => u \notin Range(participants)
                               /\ got.participantCount = MAX_PARTICIPANTS => u \notin Range(participants)
      /\ got.hasClaimed => u \in claimed
  BY <1>4 DEF Stands, Fields, PoolFields, UserFields
<1>6. \A x : x \in Shown <=> Offers(got, x)
  BY <1>2, <1>3, <1>5, ButtonsOf DEF Shown
<1>7. /\ "claim" \in Shown <=> claimOffer(got)
      /\ "lock" \in Shown <=> got.isOwner /\ got.roundState = "Open"
      /\ "deposit" \in Shown <=> got.roundState = "Open"
  BY <1>6 DEF Offers
<1>8. got.roundState \in {"Drawn", "Claimable"} => roundState \in {"Drawn", "Claimable"}
  BY <1>5 DEF From
<1>9. got.roundState # "Open" => roundState # "Open"
  BY <1>5 DEF From, RoundState
<1>10. claimOffer(got) => MayClaim(u) \/ u \in claimed
  BY <1>5, <1>8 DEF claimOffer, MayClaim
<1>11. ~claimOffer(got) /\ got.roundState \in {"Drawn", "Claimable"} => ~MayClaim(u)
  BY <1>5 DEF claimOffer, MayClaim
<1>12. ~got.isParticipant /\ got.participantCount = MAX_PARTICIPANTS => ~DepositAccepted(u, TRUE)
  <2>1. /\ Len(participants) \in Nat /\ Len(participants) <= MAX_PARTICIPANTS
        /\ MAX_PARTICIPANTS \in Nat
    BY PoolAssumption DEF TypeOK
  <2> QED BY <1>5, <2>1 DEF DepositAccepted
<1> QED
  BY <1>1, <1>7, <1>9, <1>10, <1>11, <1>12

\* The page adds nothing to the pool but the permission it asks for: it runs on
\* any history of the pool.
LEMMA PageOnPool == PageSpec => Spec
<1>1. [PageNext]_pagevars => [Next]_vars
  <2>1. Transactions => Next
    BY DEF Transactions, Next
  <2>2. PageNext => Transactions \/ UNCHANGED vars
    BY DEF PageNext, setOperator, connectEthereum, switchToSepolia, onEvent, Becomes,
           Read, Show, Fail, Press, Sent, TryAgain
  <2>3. UNCHANGED pagevars => UNCHANGED vars
    BY DEF pagevars
  <2> QED BY <2>1, <2>2, <2>3
<1> QED
  BY <1>1, PTL DEF PageSpec, PageInit, Spec

\* StaleOffers, for any accounts, places and number of refreshes that overlap: an
\* old screen, read in pieces while everybody's transactions went on, hides no
\* claim from its account, and shows nothing as closed that is open.
THEOREM StaleOffersHold == PageSpec => []StaleOffers
<1>1. PageInit => PageInv
  <2>1. DISCONNECTED \in EvmSlots
    BY DEF EvmSlots, DISCONNECTED
  <2>2. PageInit => /\ slot = DISCONNECTED /\ facts = {} /\ loadFailed = FALSE
                    /\ DOMAIN refreshes = Refreshes
                    /\ \A i \in DOMAIN refreshes : ~Active(i)
    BY DEF PageInit, Active, NoRefresh
  <2> QED BY <2>1, <2>2 DEF PageInv
<1>2. TypeOK /\ PageInv => StaleOffers
  BY OldStands
<1> QED
  BY <1>1, <1>2, StepStands, PageOnPool, PoolTypeCorrect, PTL DEF PageSpec

\* Whatever the extension reports, for any accounts: no event gives a slot that was
\* sound a status that its account and its network deny.
THEOREM SlotStaysSound ==
  ASSUME NEW s \in EvmSlots, NEW event \in EvmEvents, SlotSound(s)
  PROVE  SlotSound(nextEvmState(s, event))
<1>1. SlotSound(DISCONNECTED)
  BY DEF SlotSound, DISCONNECTED
<1>2. CASE event.type = "disconnected"
  BY <1>1, <1>2 DEF nextEvmState
<1>3. CASE event.type = "accountsChanged"
  BY <1>1, <1>3 DEF nextEvmState, EvmEvents, EvmSlots, SlotSound, onNetwork, NoAddress, NoChain, Sepolia, OtherChain
<1>4. CASE event.type = "networkChanged"
  <2>1. PICK chain \in {Sepolia, OtherChain} : event.chainId = chain
    BY <1>4 DEF EvmEvents
  <2>2. PICK next : next = nextEvmState(s, event)
    OBVIOUS
  <2>3. PICK t : t = IF s.address # NoAddress THEN onNetwork(chain)
                     ELSE IF s.status = "missing" THEN "missing" ELSE "disconnected"
    OBVIOUS
  <2>4. next = [[s EXCEPT !.chainId = chain] EXCEPT !.status = t]
    BY <1>4, <2>1, <2>2, <2>3 DEF nextEvmState
  <2>5. next.status = t /\ next.chainId = chain /\ next.address = s.address
    BY <2>4 DEF EvmSlots
  <2>6. SlotSound(next)
    BY <2>1, <2>3, <2>5 DEF SlotSound, onNetwork, NoAddress, Sepolia, OtherChain
  <2> QED BY <2>2, <2>6
<1> QED
  BY <1>2, <1>3, <1>4 DEF EvmEvents
==============================================================================
