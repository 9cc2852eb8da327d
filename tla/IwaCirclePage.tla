----------------------------- MODULE IwaCirclePage -----------------------------
(***************************************************************************)
(* The screen of one circle, iwa-web/src/screens/CircleView.tsx, and the   *)
(* transactions it sends: join_circle and pay_contribution of              *)
(* lib/iwaStarknet.ts, with chains/strk20/iwaSigning.ts, strk20Actions.ts  *)
(* and iwaStrk20Client.ts, over the contracts of module IwaStrk20Helper.   *)
(*                                                                         *)
(* The operators are functions of what the reads return at one moment.     *)
(* What goes on while a read or a prompt is pending is in module IwaWeb    *)
(* (whose data is shown) and in module IwaConsole (submissions, retries).  *)
(* A hash stands for its preimage, and a signature for its signer and the  *)
(* hash.  Copy, amounts in decimal and the animation are left out; so is   *)
(* collecting the pot, which this version does not offer.                  *)
(***************************************************************************)
EXTENDS IwaStrk20Helper, IwaCircleViews

CONSTANTS
  USDC_TOKEN,        \* the one token the client pays with
  PRIVACY_POOL       \* its address, as the client and the contract know it

ASSUME PageAssumption == USDC_TOKEN \in Tokens /\ Rounds \subseteq Nonces

-----------------------------------------------------------------------------
(* The screen *)

\* What it holds of a circle once it is loaded, for a wallet with commitment m;
\* NoMember is a reader without a wallet, or one that declined to sign.
load(c, m) ==
  LET v == get_circle(c, m)
  IN  [circle      |-> v,
       alreadyPaid |-> m # NoMember /\ has_contributed(c, v.current_round, m),
       obligation  |-> IF v.youJoined THEN get_round_obligation(c, v.current_round, m)
                       ELSE NoObligation]

\* Slots are counted from 1.
collectorSlotOf(v) == ((v.current_round - 1) % v.size) + 1

yourTurn(v) == collectorSlotOf(v) \in v.yourSlot

\* The seats, in payout order.
Seats(v) ==
  [s \in 1..v.size |-> [isYou |-> s \in v.yourSlot, turn |-> s = collectorSlotOf(v)]]

\* The lines about the round; those about you only once you joined.
Rows(p, t) ==
  LET mine == roundSummary(p.circle, p.obligation, t)
      due  == p.obligation # NoObligation /\ mine.payment # "paid"
  IN  {"round", "amount", "pot"}
        \cup (IF p.circle.youJoined THEN {"status", "turn"} ELSE {})
        \cup (IF p.circle.youJoined /\ due THEN {"due"} ELSE {})

\* The controls: disabled ones are not among them.
Controls(p, m, connected) ==
  (IF connected THEN {} ELSE {"connect"})
    \cup (IF connected /\ p.circle.youJoined THEN {"standing"} ELSE {})
    \cup (IF canJoin(p.circle) /\ m # NoMember THEN {"join"} ELSE {})
    \cup (IF p.alreadyPaid THEN {} ELSE {"contribute"})

\* The card behind "Your standing in this circle".
StandingCard(s) ==
  LET completed == s.onTimeCount + s.lateCount + s.defaultCount
      spotless  == s.lateCount = 0 /\ s.defaultCount = 0
  IN  (IF completed = 0 THEN {"noRounds"} ELSE {"rate"})
        \cup (IF completed > 0 /\ spotless THEN {"alwaysOnTime"} ELSE {})
        \cup (IF s.lateCount > 0 THEN {"paidLate"} ELSE {})
        \cup (IF s.defaultCount > 0 THEN {"defaults"} ELSE {})

\* What the organizer has below: lines of counts, what is waited on, and one
\* entry per place.
organizerSummary(f, t) ==
  LET n == countsOf(f, t)
      begun == \E p \in DOMAIN f.places : f.places[p].obligation # NoObligation
  IN  [rows |-> {"places", "accepted", "joined", "state"}
                  \cup (IF begun THEN {"paid", "due"} ELSE {})
                  \cup {s \in {"grace", "overdue", "missed"} : begun /\ n[s] > 0}
                  \cup (IF f.round <= f.memberLimit THEN {"turn"} ELSE {}),
       attention |-> attentionOf(f, t), places |-> placeRows(f, t)]

-----------------------------------------------------------------------------
(* Joining *)

\* The call of join_circle, if the wallet's place is found.
join(c, m) == IF m \in Participants(c) THEN {[circle_id |-> c, member_ref |-> m]} ELSE {}

-----------------------------------------------------------------------------
(* Paying *)

\* One nonce for each round would be spent by the first.
contributionNonce_bug_fixed(r) == 1

contributionNonce(r) == r

isContributionNonceConsumed(c, m, n) == <<"contribution", c, m, n>> \in nonces

helperSurplus(t) == Surplus(t)

contributionSettlementHash(c, r, m, t, amount, nonce) ==
  <<"contribution", c, r, m, Helper, PRIVACY_POOL, t, amount, nonce>>

\* Never a signature that verifyIwa refuses: it is of the identity's own key.
signChecked(m, hash) == [signer |-> m, hash |-> hash]

FIRST_OPEN_NOTE == "openNoteIds[0]"

privacyInvokeCalldata(operation, c, r, m, t, note, nonce, signature) ==
  [operation |-> operation, circle_id |-> c, round |-> r, member_ref |-> m, token |-> t,
   open_note_id |-> note, nonce |-> nonce, signature |-> signature]

buildContributionActions(c, r, m, t, amount, nonce, signature) ==
  << [type |-> "withdraw", token |-> t, amount |-> amount, recipient |-> Helper],
     [type |-> "invoke", contract |-> Helper,
      calldata |-> privacyInvokeCalldata("SettleContribution", c, r, m, t, "none", nonce, signature)] >>

buildPayoutActions(c, r, m, t, nonce, signature) ==
  << [type |-> "transfer", token |-> t, recipient |-> m],
     [type |-> "invoke", contract |-> Helper,
      calldata |-> privacyInvokeCalldata("SettlePayout", c, r, m, t, FIRST_OPEN_NOTE, nonce, signature)] >>

OfType(actions, type) == {i \in DOMAIN actions : actions[i].type = type}

\* The rules of the pool that show only when a transaction reverts.  Every
\* transfer of this client is of an open amount.
assertActionsWellFormed(actions) ==
  LET invokes == OfType(actions, "invoke")
      notes   == OfType(actions, "transfer")
  IN  /\ actions # << >>
      /\ Cardinality(invokes) <= 1
      /\ notes # {} => invokes # {}
      /\ (\E i \in invokes : actions[i].calldata.open_note_id = FIRST_OPEN_NOTE) => notes # {}

\* The transaction for the round, unless a check before it refuses: at most one.
\* The deadline is not among the checks.
pay_contribution(c, r, m) ==
  LET amount == circles[c].contribution_amount
      nonce  == contributionNonce(r)
      signed == signChecked(m, contributionSettlementHash(c, r, m, USDC_TOKEN, amount, nonce))
  IN  IF /\ get_round_obligation(c, r, m).status = "Pending"
         /\ ~isContributionNonceConsumed(c, m, nonce)
         /\ helperSurplus(USDC_TOKEN) = 0
      THEN {buildContributionActions(c, r, m, USDC_TOKEN, amount, nonce, signed)}
      ELSE {}

\* The transaction of a scheduled recipient, whose signature binds the note.
payout(c, r, nonce) ==
  LET m == payout_states[<<c, r>>].scheduled_member_ref
  IN  buildPayoutActions(c, r, m, circles[c].asset, nonce, signChecked(m, "payout"))

\* The one call of the transaction, and what the pool withdraws before it.
Invoked(actions) == actions[CHOOSE i \in OfType(actions, "invoke") : TRUE].calldata

Withdrawn(actions) ==
  LET withdraws == OfType(actions, "withdraw")
  IN  IF withdraws = {} THEN 0 ELSE actions[CHOOSE i \in withdraws : TRUE].amount

\* A payout comes with the open note it fills, a contribution without one; and
\* the contract recomputes what must have been signed for a contribution.
WellSigned(actions) ==
  LET i     == Invoked(actions)
      notes == OfType(actions, "transfer")
      price == circles[i.circle_id].contribution_amount
  IN  \/ /\ i.operation = "SettleContribution" /\ notes = {}
         /\ i.signature =
              signChecked(i.member_ref, contributionSettlementHash(
                i.circle_id, i.round, i.member_ref, i.token, price, i.nonce))
      \/ i.operation = "SettlePayout" /\ notes # {}

\* The pool runs the withdrawals, then the invoke, then fills the open notes:
\* all of it or nothing.
Executes(actions) ==
  LET i == Invoked(actions)
  IN  /\ WellSigned(actions)
      /\ \/ /\ i.operation = "SettleContribution"
            /\ SettleContribution(i.circle_id, i.round, i.member_ref, i.token, i.nonce,
                                  Withdrawn(actions))
         \/ /\ i.operation = "SettlePayout"
            /\ SettlePayout(i.circle_id, i.round, i.member_ref, i.token, i.nonce)

-----------------------------------------------------------------------------
(* What the contracts ask, call by call: every assert that a transaction    *)
(* meets, in the pool, in the helper and in the circle contract.  One that  *)
(* does not hold reverts all of it.                                         *)

\* join_circle.  The deadlines of the round that an activating join opens must
\* also fit u64.
JoinAsserts(c, m) ==
  LET rec == circles[c]
  IN  /\ JoinAccepted(c, m)
      /\ rec.joined_count < rec.member_limit
      /\ rec.joined_count + 1 = rec.member_limit =>
           \A p \in Participants(c) :
             /\ p \in joined[c] \cup {m}
             /\ obligations[<<c, rec.current_round, p>>].status = "Absent"

\* What every branch of privacy_invoke asks.
SettleAsserts(c, t) == assert_circle_token(c, t) /\ assert_settlement_helper(Helper)

InboundAsserts(c, t, withdrawn) ==
  /\ assert_exact_inbound_balance(t, circles[c].contribution_amount, withdrawn)
  /\ balances[t]["pool"] >= withdrawn

OutboundAsserts(c, r, t, amount) ==
  /\ assert_outbound_available(c, r, t, amount)
  /\ ledger[<<c, r>>].outstanding >= amount /\ token_outstanding_liability[t] >= amount
  /\ balances[t]["helper"] >= amount

ContributionAsserts(c, r, m, t, nonce, withdrawn) ==
  /\ SettleAsserts(c, t) /\ InboundAsserts(c, t, withdrawn)
  /\ ContributionAccepted(c, m) /\ r = circles[c].current_round
  /\ <<"contribution", c, m, nonce>> \notin nonces

CureAsserts(c, r, m, t, nonce, withdrawn) ==
  /\ SettleAsserts(c, t) /\ InboundAsserts(c, t, withdrawn)
  /\ obligations[<<c, r, m>>].status = "MissedDefault" /\ m \in joined[c]
  /\ <<c, r, m>> \notin cured_deficits \cup cure_windows_closed
  /\ <<"cure", c, m, nonce>> \notin nonces

PayoutAsserts(c, r, m, t, nonce) ==
  LET p == payout_states[<<c, r>>]
  IN  /\ SettleAsserts(c, t) /\ OutboundAsserts(c, r, t, p.amount)
      /\ p.status = "SettlementAuthorized" /\ m = p.scheduled_member_ref
      /\ calculate_round_unresolved_deficit(c, r) = 0
      /\ <<"payout_settlement", c, m, nonce>> \notin nonces

RecoveryAsserts(c, r, m, t, nonce) ==
  LET p == payout_states[<<c, r>>]
  IN  /\ SettleAsserts(c, t) /\ OutboundAsserts(c, r, t, recovery_amounts[<<c, r>>])
      /\ p.status = "RecoveryPending" /\ m = p.scheduled_member_ref
      /\ <<"recovery_settlement", c, m, nonce>> \notin nonces

Passes(actions) ==
  LET i == Invoked(actions)
  IN  /\ assertActionsWellFormed(actions) /\ WellSigned(actions)
      /\ \/ /\ i.operation = "SettleContribution"
            /\ ContributionAsserts(i.circle_id, i.round, i.member_ref, i.token, i.nonce,
                                   Withdrawn(actions))
         \/ /\ i.operation = "SettlePayout"
            /\ PayoutAsserts(i.circle_id, i.round, i.member_ref, i.token, i.nonce)

-----------------------------------------------------------------------------
(* Properties *)

\* Whoever signs a contribution does it with this client.
ClientNonces ==
  \A key \in nonces' \ nonces :
    key[1] = "contribution" => key[4] = contributionNonce(circles[key[2]].current_round)

\* What the others sent is not in the way, and the pool holds the amount.
Funds(c, t) ==
  Surplus(t) = 0 /\ balances[t]["pool"] >= circles[c].contribution_amount

\* CircleView.tsx:366, "so we never offer a Contribute that will revert with
\* AlreadyPaid", and iwaSigning.ts:83 on the nonce of a round.  Whoever can
\* still pay for the current round finds the control, and the transaction sent
\* for it passes the pool, the helper and the circle contract; the client itself
\* refuses it only while the helper holds a surplus, never because an earlier
\* round used up its nonce.  Whoever has paid is not asked again.
PaymentTaken ==
  \A c \in Existing, m \in MemberRefs :
    LET p    == load(c, m)
        sent == pay_contribution(c, p.circle.current_round, m)
        open == ContributionAccepted(c, m)
    IN  /\ open => "contribute" \in Controls(p, m, TRUE) /\ "due" \in Rows(p, now)
        /\ p.alreadyPaid => sent = {}
        /\ open /\ sent = {} => Surplus(USDC_TOKEN) # 0
        /\ \A actions \in sent :
             /\ assertActionsWellFormed(actions)
             /\ open /\ SettleAsserts(c, USDC_TOKEN) /\ Funds(c, USDC_TOKEN) => Passes(actions)

\* circleState.ts:62: the join control is there exactly for those whose call
\* the contract takes.
JoinTaken ==
  \A c \in Existing, m \in MemberRefs :
    "join" \in Controls(load(c, m), m, TRUE)
      <=> \E call \in join(c, m) : JoinAsserts(call.circle_id, call.member_ref)

\* A claim a member may settle is settled by the payout transaction of the
\* client with any nonce it has not used.  No assert refuses a recovery either,
\* nor a cure in its window for the amount of the missed contribution.
ClaimTaken ==
  \A c \in CircleIds, r \in Rounds, nonce \in Nonces :
    LET p == payout_states[<<c, r>>]
        m == p.scheduled_member_ref
        t == circles[c].asset
    IN  /\ p.status = "SettlementAuthorized" /\ <<"payout_settlement", c, m, nonce>> \notin nonces
             => Passes(payout(c, r, nonce))
        /\ p.status = "RecoveryPending" /\ <<"recovery_settlement", c, m, nonce>> \notin nonces
             => RecoveryAsserts(c, r, m, t, nonce)
        /\ \A d \in Unresolved(c, r) :
             /\ <<c, r, d>> \notin cure_windows_closed /\ <<"cure", c, d, nonce>> \notin nonces
             /\ SettleAsserts(c, t) /\ Funds(c, t)
             => CureAsserts(c, r, d, t, nonce, circles[c].contribution_amount)

\* The screen marks as collecting the one seat whose member the contract
\* schedules for the round, as yours exactly if it is, and says of a record
\* that it is spotless only if no round so far was late or missed.
SeatsTold ==
  \A c \in Existing, m \in MemberRefs \cup {NoMember} :
    LET v == get_circle(c, m)
    IN  /\ \A s \in 1..v.size :
             Seats(v)[s].turn <=> circles[c].payout_order[s] = ScheduledMember(c, v.current_round)
        /\ yourTurn(v) <=> m = ScheduledMember(c, v.current_round)
        /\ m # NoMember /\ "alwaysOnTime" \in StandingCard(get_reputation(c, m)) =>
             \A r \in 1..v.current_round :
               obligations[<<c, r, m>>].status \notin {"LateWithinGrace", "MissedDefault"}

\* The lines the organizer is shown speak of a round that has begun, and every
\* count that calls for attention is among them.
SummaryTold ==
  \A c \in Existing :
    LET s == organizerSummary(get_organizer_facts(c), now)
    IN  /\ "paid" \in s.rows <=> circles[c].status # "OpenForMembers"
        /\ s.attention \cap {"grace", "overdue", "missed"} \subseteq s.rows
        /\ "turn" \in s.rows

\* Nobody with a right to pay, to join or to be paid is refused, by the screen
\* or by the contracts, and the screen says who that is.
NobodyRefused == PaymentTaken /\ JoinTaken /\ ClaimTaken /\ SeatsTold /\ SummaryTold

\* The transaction is atomic across the pool, the helper and the circle contract,
\* each of which writes before the next one has checked.  Nothing but the asserts
\* listed above can stop it: what passes them executes to its end, so that no
\* check of one book is made in vain by the other.
AssertsAreAll ==
  \A c \in Existing, m \in MemberRefs :
    /\ JoinAsserts(c, m) => ENABLED join_circle(c, m)
    /\ \A actions \in pay_contribution(c, circles[c].current_round, m) :
         Passes(actions) => ENABLED Executes(actions)
    /\ \A r \in Rounds, nonce \in Nonces :
         LET t     == circles[c].asset
             price == circles[c].contribution_amount
         IN  /\ m = payout_states[<<c, r>>].scheduled_member_ref /\ Passes(payout(c, r, nonce))
                  => ENABLED Executes(payout(c, r, nonce))
             /\ CureAsserts(c, r, m, t, nonce, price) =>
                  ENABLED SettleCure(c, r, m, t, nonce, price)
             /\ RecoveryAsserts(c, r, m, t, nonce) => ENABLED SettleRecovery(c, r, m, t, nonce)
=============================================================================
