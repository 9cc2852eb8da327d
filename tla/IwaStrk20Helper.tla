--------------------------- MODULE IwaStrk20Helper ---------------------------
(***************************************************************************)
(* The settlement helper, contracts/starknet/src/iwa_strk20_helper.cairo,  *)
(* composed with the circle contract it settles for.                       *)
(*                                                                         *)
(* The helper holds the tokens of all circles in one account and keeps     *)
(* books of its own, token_liability and round_token_liability, beside     *)
(* those of the circle contract.  Only the STRK20 privacy pool may call    *)
(* privacy_invoke; the pool is external: in one transaction it transfers   *)
(* withdrawn tokens to the helper, then makes at most one invoke, then     *)
(* pulls the deposits the invoke returned out of the helper's allowance.   *)
(* Such a transaction is one action here, because any assert that fails    *)
(* anywhere in it reverts all of it.                                       *)
(***************************************************************************)
EXTENDS IwaCircle

CONSTANTS
  Helper,        \* the helper's own address
  PoolFunds,     \* bound: what the members hold in the pool, per token
  OutsideFunds,  \* bound: what others can send to the helper, per token
  MaxWithdraw    \* bound: withdrawn to the helper in one pool transaction

ASSUME HelperAssumption ==
  /\ Helper \in Addresses
  /\ PoolFunds \in Nat /\ OutsideFunds \in Nat /\ MaxWithdraw \in Nat

VARIABLES
  balances,              \* by token: what each account holds
  token_liability,       \* by token
  round_token_liability  \* by <<circle, round, token>>

custody == <<balances, token_liability, round_token_liability>>
allvars == <<vars, custody>>

Account == {"pool", "helper", "sink", "outside"}

transfer(t, from, to, amount) ==
  /\ balances[t][from] >= amount
  /\ LET b == balances[t]
     IN  balances' = [balances EXCEPT ![t] =
           [b EXCEPT ![from] = b[from] - amount, ![to] = b[to] + amount]]

Surplus(t) == balances[t]["helper"] - token_liability[t]

assert_circle_token(c, t) == t = circles[c].asset

\* Variants named ..._bug_... are mistakes the properties must notice, as in
\* module IwaCircle.

assert_exact_inbound_balance_bug_atleast(t, amount, withdrawn) ==
  /\ amount # 0
  /\ balances[t]["helper"] + withdrawn >= token_liability[t] + amount

assert_exact_inbound_balance_bug_custody(t, amount, withdrawn) ==
  /\ amount # 0
  /\ balances[t]["helper"] + withdrawn >= amount

\* withdrawn: what the same pool transaction has just sent to the helper.
assert_exact_inbound_balance(t, amount, withdrawn) ==
  /\ amount # 0
  /\ balances[t]["helper"] + withdrawn = token_liability[t] + amount

assert_outbound_available(c, r, t, amount) ==
  /\ amount # 0
  /\ round_token_liability[<<c, r, t>>] >= amount
  /\ token_liability[t] >= amount
  /\ balances[t]["helper"] >= token_liability[t]

credit_liability(c, r, t, amount) ==
  /\ round_token_liability' = [round_token_liability EXCEPT ![<<c, r, t>>] = @ + amount]
  /\ token_liability' = [token_liability EXCEPT ![t] = @ + amount]

debit_liability_bug_round(c, r, t, amount) ==
  /\ token_liability' = [token_liability EXCEPT ![t] = @ - amount]
  /\ UNCHANGED round_token_liability

\* What the round still owes never leaves it whole.
debit_liability_bug_last(c, r, t, amount) ==
  /\ round_token_liability[<<c, r, t>>] > amount
  /\ token_liability[t] > amount
  /\ round_token_liability' = [round_token_liability EXCEPT ![<<c, r, t>>] = @ - amount]
  /\ token_liability' = [token_liability EXCEPT ![t] = @ - amount]

debit_liability(c, r, t, amount) ==
  /\ round_token_liability[<<c, r, t>>] >= amount
  /\ token_liability[t] >= amount
  /\ round_token_liability' = [round_token_liability EXCEPT ![<<c, r, t>>] = @ - amount]
  /\ token_liability' = [token_liability EXCEPT ![t] = @ - amount]

-----------------------------------------------------------------------------
(* The constructor has run; no tokens are held. *)

HInit ==
  /\ Init
  /\ balances = [t \in Tokens |-> [a \in Account |->
       CASE a = "pool" -> PoolFunds [] a = "outside" -> OutsideFunds [] OTHER -> 0]]
  /\ token_liability = [t \in Tokens |-> 0]
  /\ round_token_liability = [k \in CircleIds \X Rounds \X Tokens |-> 0]

\* The four branches of privacy_invoke.  The required amount of an obligation
\* and the deficit amount of a cure are the circle's contribution_amount.

SettleContribution(c, r, m, t, nonce, withdrawn) ==
  LET amount == circles[c].contribution_amount
  IN  /\ assert_circle_token(c, t)
      /\ obligations[<<c, r, m>>].status = "Pending"
      /\ assert_exact_inbound_balance(t, amount, withdrawn)
      /\ settle_contribution_from_helper(Helper, c, r, m, t, amount, nonce)
      /\ credit_liability(c, r, t, amount)
      /\ transfer(t, "pool", "helper", withdrawn)

SettleCure(c, r, m, t, nonce, withdrawn) ==
  LET amount == circles[c].contribution_amount
  IN  /\ assert_circle_token(c, t)
      /\ obligations[<<c, r, m>>].status # "Absent"
      /\ <<c, r, m>> \notin cured_deficits \cup cure_windows_closed
      /\ assert_exact_inbound_balance(t, amount, withdrawn)
      /\ settle_cure_from_helper(Helper, c, r, m, t, amount, nonce)
      /\ credit_liability(c, r, t, amount)
      /\ transfer(t, "pool", "helper", withdrawn)

\* The member's open note, open_note_id # 0, receives the deposit the pool
\* pulls; the allowance is used up by it (approve_pool finds it zero again).
SettlePayout(c, r, m, t, nonce) ==
  LET p == payout_states[<<c, r>>]
  IN  /\ assert_circle_token(c, t)
      /\ p.status = "SettlementAuthorized"
      /\ m = p.scheduled_member_ref
      /\ assert_outbound_available(c, r, t, p.amount)
      /\ settle_payout_from_helper(Helper, c, r, t, nonce)
      /\ debit_liability(c, r, t, p.amount)
      /\ transfer(t, "helper", "pool", p.amount)

SettleRecovery(c, r, m, t, nonce) ==
  LET amount == recovery_amounts[<<c, r>>]
  IN  /\ assert_circle_token(c, t)
      /\ payout_states[<<c, r>>].status = "RecoveryPending"
      /\ m = payout_states[<<c, r>>].scheduled_member_ref
      /\ assert_outbound_available(c, r, t, amount)
      /\ settle_recovery_from_helper(Helper, c, r, t, nonce)
      /\ debit_liability(c, r, t, amount)
      /\ transfer(t, "helper", "pool", amount)

privacy_invoke ==
  \E c \in CircleIds, r \in Rounds, m \in MemberRefs, t \in Tokens, nonce \in Nonces :
    \/ \E withdrawn \in 0..MaxWithdraw :
         \/ SettleContribution(c, r, m, t, nonce, withdrawn)
         \/ SettleCure(c, r, m, t, nonce, withdrawn)
    \/ SettlePayout(c, r, m, t, nonce)
    \/ SettleRecovery(c, r, m, t, nonce)

\* Permissionless: what is above the books leaves for the immutable sink.
normalize_surplus(t) ==
  /\ balances[t]["helper"] >= token_liability[t]
  /\ Surplus(t) # 0
  /\ transfer(t, "helper", "sink", Surplus(t))
  /\ UNCHANGED <<vars, token_liability, round_token_liability>>

\* Tokens nobody asked for: a plain ERC-20 transfer, or a pool withdrawal
\* addressed to the helper in a transaction without an invoke ("outside" is
\* whoever sends them).
donate(t, amount) ==
  /\ amount > 0
  /\ transfer(t, "outside", "helper", amount)
  /\ UNCHANGED <<vars, token_liability, round_token_liability>>

\* Every entry point of the circle contract that is not a settlement.
CoreStep ==
  /\ \/ Tick
     \/ \E cfg \in Configs : create_circle(cfg)
     \/ initialize_settlement_helper(SetupAuthority, Helper)
     \/ \E c \in CircleIds :
          \/ \E m \in MemberRefs : join_circle(c, m)
          \/ Keeper(c)
          \/ prepare_final_settlement(c)
          \/ \E r \in Rounds, nonce \in Nonces : authorize_payout_settlement(c, r, nonce)
  /\ UNCHANGED custody

HNext ==
  \/ CoreStep
  \/ privacy_invoke
  \/ \E t \in Tokens :
       \/ normalize_surplus(t)
       \/ \E amount \in 1..OutsideFunds : donate(t, amount)

HSpec == HInit /\ [][HNext]_allvars

-----------------------------------------------------------------------------
(* Properties *)

\* The helper's two maps are those of the circle contract, round by round and
\* token by token, and no round holds a token that is not its circle's.
BooksAgree ==
  /\ \A t \in Tokens : token_liability[t] = token_outstanding_liability[t]
  /\ \A c \in CircleIds, r \in Rounds, t \in Tokens :
       round_token_liability[<<c, r, t>>] =
         IF t = circles[c].asset THEN ledger[<<c, r>>].outstanding ELSE 0

\* Two contracts keep books of the same money, each written by its own code in
\* the course of a settlement (core first, helper after the call returns): they
\* agree, and the total per token is the sum over the rounds of all circles.
LedgersAgree == TokenTotals /\ BooksAgree

\* SECURITY.md "Surplus": the tokens in the account cover all the books, after
\* any number of donations, normalizations and settlements of several circles
\* that share the account.
Solvent ==
  \A t \in Tokens : balances[t]["helper"] >= token_liability[t]

\* The circle contract records movements it does not make.  Each record is
\* matched by the tokens in the same step: what a round took in arrived in the
\* account (drawn from the pool, or from surplus already there), what it paid
\* out arrived in the pool, and only surplus reaches the sink.
RecordMatched ==
  /\ \A k \in CircleIds \X Rounds :
       LET t        == circles[k[1]].asset
           paid_in  == ledger'[k].inflows - ledger[k].inflows
           paid_out == ledger'[k].outflows - ledger[k].outflows
       IN  /\ ledger'[k].inflows > ledger[k].inflows =>
                balances'[t]["helper"] = token_liability[t] + paid_in
           /\ ledger'[k].outflows > ledger[k].outflows =>
                balances'[t]["pool"] = balances[t]["pool"] + paid_out
  /\ \A t \in Tokens : balances'[t]["sink"] # balances[t]["sink"] =>
       /\ balances'[t]["sink"] - balances[t]["sink"] = Surplus(t)
       /\ UNCHANGED <<vars, token_liability>>

RecordsMatchTokens == [][RecordMatched]_allvars

\* SECURITY.md:1284: a donation can never stand in for a member's contribution
\* or cure, that is, every contribution or cure is drawn from the pool in full.
DonationNeverFunds ==
  [][\A k \in CircleIds \X Rounds :
       ledger'[k].inflows > ledger[k].inflows =>
         LET t == circles[k[1]].asset
         IN  balances[t]["pool"] - balances'[t]["pool"]
               = ledger'[k].inflows - ledger[k].inflows]_allvars
=============================================================================
